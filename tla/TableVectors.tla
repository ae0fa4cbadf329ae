---------------------------- MODULE TableVectors ----------------------------
(***************************************************************************)
(* What the tables of a store promise: each is a sequence of references    *)
(* that grows at its end and never shrinks.  An instruction takes effect   *)
(* at once or traps without any; a bulk instruction then keeps the tables  *)
(* busy for a while.  A function is called only through an entry that      *)
(* holds it, and only under its own type.                                  *)
(***************************************************************************)
EXTENDS Integers, Sequences

CONSTANTS Addrs, TableAddr, Limits, Segments, Content, FuncType, REF_NULL,
          Instrs, NULL

VARIABLES
    tabs,   \* the references of each table
    segs,   \* those of each element segment
    instr,  \* the instruction to run, with its operands
    out,
    busy

tvars == <<tabs, segs, instr, out, busy>>

Init ==
    /\ tabs = [a \in Addrs |-> [k \in 1 .. Limits[a].min |-> REF_NULL]]
    /\ segs = Content
    /\ instr = NULL
    /\ out = [kind |-> "done"]
    /\ busy = FALSE

Answer(o) == out' = o /\ busy' = FALSE

Trap(why) == Answer([kind |-> "trap", why |-> why]) /\ UNCHANGED <<tabs, segs>>

OutOfBounds == Trap("out of bounds table access")

\* Entries d .. d + Len(v) - 1 of table a become v.
Write(a, d, v, bulk) ==
    IF d + Len(v) <= Len(tabs[a])
    THEN /\ tabs' = [tabs EXCEPT ![a] =
                [k \in DOMAIN @ |-> IF k - d \in DOMAIN v THEN v[k - d] ELSE @[k]]]
         /\ out' = [kind |-> "done"]
         /\ busy' = bulk
         /\ UNCHANGED segs
    ELSE OutOfBounds

Get(a, i) ==
    IF i < Len(tabs[a])
    THEN Answer([kind |-> "ref", ref |-> tabs[a][i + 1]]) /\ UNCHANGED <<tabs, segs>>
    ELSE OutOfBounds

Size(a) ==
    /\ Answer([kind |-> "num", num |-> Len(tabs[a])])
    /\ UNCHANGED <<tabs, segs>>

\* Growing may always fail, and must where a maximum says so.
Grow(a, n, val) ==
    \/ /\ Limits[a].has_max => Len(tabs[a]) + n <= Limits[a].max
       /\ tabs' = [tabs EXCEPT ![a] = @ \o [k \in 1 .. n |-> val]]
       /\ Answer([kind |-> "num", num |-> Len(tabs[a])])
       /\ UNCHANGED segs
    \/ /\ Answer([kind |-> "num", num |-> -1])
       /\ UNCHANGED <<tabs, segs>>

Fill(a, d, val, n) ==
    IF d + n <= Len(tabs[a])
    THEN Write(a, d, [k \in 1 .. n |-> val], TRUE)
    ELSE OutOfBounds

\* The source is read before anything is written.
From(v, a, d, s, n) ==
    IF s + n <= Len(v) /\ d + n <= Len(tabs[a])
    THEN Write(a, d, SubSeq(v, s + 1, s + n), TRUE)
    ELSE OutOfBounds

Drop(seg) ==
    /\ segs' = [segs EXCEPT ![seg] = <<>>]
    /\ Answer([kind |-> "done"])
    /\ UNCHANGED tabs

CallIndirect(a, ty, i) ==
    IF i >= Len(tabs[a]) THEN Trap("undefined element")
    ELSE LET f == tabs[a][i + 1]
         IN  IF f = REF_NULL THEN Trap("uninitialized element")
             ELSE IF FuncType[f] # ty THEN Trap("indirect call type mismatch")
             ELSE Answer([kind |-> "call", func |-> f]) /\ UNCHANGED <<tabs, segs>>

Begin ==
    /\ ~busy /\ instr = NULL
    /\ instr' \in Instrs
    /\ out' = [kind |-> "done"]
    /\ UNCHANGED <<tabs, segs, busy>>

Perform(r) ==
    /\ instr' = NULL
    /\ \/ r.op = "get" /\ Get(TableAddr[r.x], r.i)
       \/ r.op = "set" /\ IF r.i < Len(tabs[TableAddr[r.x]])
                          THEN Write(TableAddr[r.x], r.i, <<r.val>>, FALSE)
                          ELSE OutOfBounds
       \/ r.op = "size" /\ Size(TableAddr[r.x])
       \/ r.op = "grow" /\ Grow(TableAddr[r.x], r.n, r.val)
       \/ r.op = "fill" /\ Fill(TableAddr[r.x], r.d, r.val, r.n)
       \/ r.op = "copy" /\ From(tabs[TableAddr[r.y]], TableAddr[r.x], r.d, r.s, r.n)
       \/ r.op = "init" /\ From(segs[r.y], TableAddr[r.x], r.d, r.s, r.n)
       \/ r.op = "drop" /\ Drop(r.y)
       \/ r.op = "call" /\ CallIndirect(TableAddr[r.x], r.ty, r.i)

End == busy /\ busy' = FALSE /\ UNCHANGED <<tabs, segs, instr, out>>

Next == Begin \/ (instr # NULL /\ Perform(instr)) \/ End

Spec == Init /\ [][Next]_tvars
=============================================================================
