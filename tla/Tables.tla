------------------------------- MODULE Tables -------------------------------
(***************************************************************************)
(* The table instances of a store and the instructions that work on them.  *)
(* A table is a vector: elem are the entries malloc and realloc have given *)
(* it (cap of them), len is how many of those it has.  table.fill, copy    *)
(* and init loop over the entries and make their bounds check again in     *)
(* every round, on operands they pop off the stack and push back.          *)
(*                                                                         *)
(* As in LinearMemory, an i32 is the pattern 0 .. W-1 of its bits.         *)
(***************************************************************************)
EXTENDS Integers, Sequences

CONSTANTS
    W,           \* the number of i32 patterns, 2^32
    HostEntries, \* the largest vector realloc may grant
    Addrs,       \* the addresses of the tables in S->tables
    TableIdx,    \* the table indices of the running module,
    TableAddr,   \* and the table each stands for: two may share one
    Limits,      \* the limits declared for each table,
    Junk,        \* and what stands for a maximum that was not
    Segments,    \* the element segments of the module
    Content,     \* their references
    Funcs,       \* the functions of the store,
    FuncType,    \* their types,
    CallTypes,   \* and the types call_indirect names
    Operands,    \* i32 operands the program gives to these instructions,
    GrowArgs,    \* and to table.grow
    FillWraps,   \* whether the operands of a table.fill may add up to 2^32
    REF_NULL, NULL

Refs == Funcs \cup {REF_NULL}

ASSUME WidthAssumption == W \in Nat /\ HostEntries \in Nat /\ 2 * HostEntries < W
ASSUME IndexAssumption == TableAddr \in [TableIdx -> Addrs]
\* What validate_tabletype checks; alloc_table found the memory.
ASSUME LimitsAssumption ==
    /\ Junk \subseteq 0 .. W - 1
    /\ Limits \in [Addrs -> [min : 0 .. HostEntries, max : 0 .. W - 1, has_max : BOOLEAN]]
    /\ \A a \in Addrs : Limits[a].has_max => Limits[a].min <= Limits[a].max
ASSUME ProgramAssumption ==
    /\ REF_NULL \notin Funcs
    /\ Content \in [Segments -> Seq(Refs)]
    /\ \A seg \in Segments : Len(Content[seg]) < W
    /\ Operands \subseteq 0 .. W - 1
    /\ GrowArgs \subseteq 0 .. W - 1
    /\ FillWraps \in BOOLEAN
\* A function type is its parameters and its results.
ASSUME TypesAssumption ==
    \A ty \in CallTypes \cup {FuncType[f] : f \in Funcs} : ty = [rt1 |-> ty.rt1, rt2 |-> ty.rt2]

I32 == 0 .. W - 1
Signed(x) == IF 2 * x < W THEN x ELSE x - W
Wrap(x) == IF x >= W THEN x - W ELSE IF x < 0 THEN x + W ELSE x

VARIABLES
    tab,    \* the table instances: elem, len and type.limits.max
    elems,  \* the element instances, empty when dropped
    job,    \* the bulk instruction in progress: its operands on the stack
    instr,  \* the instruction to run, with its operands
    out     \* what the last one answered

vars == <<tab, elems, job, instr, out>>

\* The table instructions of the program, with their operands.
Instrs ==
    [op : {"get"}, x : TableIdx, i : Operands]
    \cup [op : {"set"}, x : TableIdx, i : Operands, val : Refs]
    \cup [op : {"size"}, x : TableIdx]
    \cup [op : {"grow"}, x : TableIdx, n : GrowArgs, val : Refs]
    \cup [op : {"fill"}, x : TableIdx, d : Operands, val : Refs, n : Operands]
    \cup [op : {"copy"}, x : TableIdx, y : TableIdx, d : Operands, s : Operands, n : Operands]
    \cup [op : {"init"}, x : TableIdx, y : Segments, d : Operands, s : Operands, n : Operands]
    \cup [op : {"drop"}, y : Segments]
    \cup [op : {"call"}, x : TableIdx, ty : CallTypes, i : Operands]

ASSUME NullAssumption == NULL \notin Instrs

Idle == [op |-> "none"]

Done == [kind |-> "done"]
Trapped(why) == [kind |-> "trap", why |-> why]
Num(n) == [kind |-> "num", num |-> n]
Ref(r) == [kind |-> "ref", ref |-> r]
Call(f) == [kind |-> "call", func |-> f]
Crashed == [kind |-> "crash"]

OutOfBounds == Trapped("out of bounds table access")

T(x) == tab[TableAddr[x]]

\* VECTOR_ELEM: i is an int32_t turned into a size_t.
InTable(t, i) == i < t.len

AllocTable(a, max) ==
    [elem |-> [k \in 1 .. Limits[a].min |-> REF_NULL],
     len |-> Limits[a].min, max |-> max]

\* Without a maximum decode_limits leaves max as malloc returned it.
Init ==
    /\ \E junk \in Junk :
           tab = [a \in Addrs |->
                    AllocTable(a, IF Limits[a].has_max THEN Limits[a].max ELSE junk)]
    /\ elems = Content
    /\ job = Idle
    /\ instr = NULL
    /\ out = Done

-----------------------------------------------------------------------------
(* Instructions of one step.                                               *)

Answer(o) ==
    /\ out' = o
    /\ UNCHANGED <<tab, elems, job>>

TableGet(x, i) ==
    Answer(IF InTable(T(x), i) THEN Ref(T(x).elem[i + 1]) ELSE OutOfBounds)

\* The entry is written when the index is in the table, and nothing otherwise.
Set(x, i, val) ==
    tab' = IF InTable(T(x), i)
           THEN [tab EXCEPT ![TableAddr[x]].elem[i + 1] = val]
           ELSE tab

TableSet(x, i, val) ==
    /\ Set(x, i, val)
    /\ out' = IF InTable(T(x), i) THEN Done ELSE OutOfBounds
    /\ UNCHANGED <<elems, job>>

TableSize(x) == Answer(Num(T(x).len))

ElemDrop(seg) ==
    /\ elems' = [elems EXCEPT ![seg] = <<>>]
    /\ out' = Done
    /\ UNCHANGED <<tab, job>>

\* The traps come in this order; the types are compared by their content.
TableCall(x, ty, i) ==
    LET r == T(x).elem[i + 1]
    IN  Answer(
          IF ~InTable(T(x), i) THEN Trapped("undefined element")
          ELSE IF r = REF_NULL THEN Trapped("uninitialized element")
          ELSE IF FuncType[r].rt1 # ty.rt1 \/ FuncType[r].rt2 # ty.rt2
               THEN Trapped("indirect call type mismatch")
          ELSE Call(r))

-----------------------------------------------------------------------------
(* table.grow.                                                             *)

\* n is an int32_t, len and cap are size_t: a negative sum is a huge number.
OverMax(t, n) ==
    t.max # 0 /\ (t.len + Signed(n) < 0 \/ t.len + Signed(n) > t.max)

\* realloc to no entries frees the vector and returns NULL.
Grown(t, n, val) ==
    [t EXCEPT !.len = t.len + Signed(n),
              !.elem = [k \in 1 .. Len(t.elem) + Signed(n) |->
                            IF k > t.len THEN val ELSE t.elem[k]]]

CanGrow(t, n) ==
    n = 0 \/ Len(t.elem) + Signed(n) \in 1 .. HostEntries

\* Mutant: the length is counted up before realloc is asked.
TableGrowEager(x, n, val) ==
    LET t == T(x) IN
    /\ \/ /\ OverMax(t, n) \/ n # 0
          /\ out' = Num(-1)
          /\ tab' = [tab EXCEPT ![TableAddr[x]].len =
                        IF OverMax(t, n) THEN @ ELSE @ + Signed(n)]
       \/ /\ ~OverMax(t, n) /\ CanGrow(t, n)
          /\ tab' = [tab EXCEPT ![TableAddr[x]] = Grown(t, n, val)]
          /\ out' = Num(t.len)
    /\ UNCHANGED <<elems, job>>

\* realloc may fail whatever it is asked for.
TableGrow(x, n, val) ==
    LET t == T(x) IN
    /\ \/ /\ OverMax(t, n) \/ n # 0
          /\ out' = Num(-1)
          /\ tab' = IF ~OverMax(t, n) /\ Len(t.elem) + Signed(n) = 0
                    THEN [tab EXCEPT ![TableAddr[x]].elem = <<>>]
                    ELSE tab
       \/ /\ ~OverMax(t, n) /\ CanGrow(t, n)
          /\ tab' = [tab EXCEPT ![TableAddr[x]] = Grown(t, n, val)]
          /\ out' = Num(t.len)
    /\ UNCHANGED <<elems, job>>

-----------------------------------------------------------------------------
(* Bulk instructions: every round checks the bounds of what is left.       *)

Job(r) == [op |-> r.op, x |-> r.x,
           y |-> IF r.op = "fill" THEN NULL ELSE r.y,
           d |-> r.d,
           s |-> IF r.op = "fill" THEN 0 ELSE r.s,
           n |-> r.n,
           val |-> IF r.op = "fill" THEN r.val ELSE REF_NULL]

\* Mutant: the end of the source of a table.copy is compared with the other table.
CheckSwapped(r) ==
    CASE r.op = "fill" -> 2 * ((r.d + r.n) % W) < W /\ (r.d + r.n) % W <= T(r.x).len
      [] r.op = "copy" -> r.s + r.n <= T(r.x).len /\ r.d + r.n <= T(r.y).len
      [] r.op = "init" -> r.s + r.n <= Len(elems[r.y]) /\ r.d + r.n <= T(r.x).len

\* table.copy and init add up 64 bits.  table.fill adds two int32_t and turns
\* the sum into a size_t.
Check(r) ==
    CASE r.op = "fill" -> 2 * ((r.d + r.n) % W) < W /\ (r.d + r.n) % W <= T(r.x).len
      [] r.op = "copy" -> r.s + r.n <= T(r.y).len /\ r.d + r.n <= T(r.x).len
      [] r.op = "init" -> r.s + r.n <= Len(elems[r.y]) /\ r.d + r.n <= T(r.x).len

\* The check at the head of the loop, for the operands that are on the stack.
Loop(ok, r) ==
    IF ok
    THEN job' = r /\ out' = Done
    ELSE job' = Idle /\ out' = OutOfBounds

TableBulk(r) ==
    /\ Loop(Check(r), Job(r))
    /\ UNCHANGED <<tab, elems>>

\* Mutant: the count goes back as it came.
AgainKeepsCount(d, s) ==
    LET r == [job EXCEPT !.d = d, !.s = s]
    IN  Loop(Check(r), r)

\* The operands are back on the stack and the lengths are what they were.
Again(d, s) ==
    LET r == [job EXCEPT !.d = d, !.s = s, !.n = Wrap(@ - 1)]
    IN  Loop(Check(r), r)

\* A write through the NULL that VECTOR_ELEM returns ends the program.
FillStep ==
    /\ job.op = "fill" /\ job.n # 0
    /\ Set(job.x, job.d, job.val)
    /\ IF InTable(T(job.x), job.d)
       THEN Again(Wrap(job.d + 1), job.s)
       ELSE out' = Crashed /\ job' = Idle
    /\ UNCHANGED <<elems, instr>>

InitStep ==
    /\ job.op = "init" /\ job.n # 0
    /\ Set(job.x, job.d, elems[job.y][job.s + 1])
    /\ Again(Wrap(job.d + 1), Wrap(job.s + 1))
    /\ UNCHANGED <<elems, instr>>

\* A table.get and a table.set run on one entry.
Move(d, s) == Set(job.x, d, T(job.y).elem[s + 1])

\* Mutant: a copy between two indices is taken for one without an overlap.
CopyStepByIndex ==
    /\ job.op = "copy" /\ job.n # 0
    /\ IF job.x # job.y \/ Signed(job.d) <= Signed(job.s)
       THEN Move(job.d, job.s) /\ Again(Wrap(job.d + 1), Wrap(job.s + 1))
       ELSE /\ Move(Wrap(job.d + job.n - 1), Wrap(job.s + job.n - 1))
            /\ Again(job.d, job.s)
    /\ UNCHANGED <<elems, instr>>

\* d <= s compares two int32_t.
CopyStep ==
    /\ job.op = "copy" /\ job.n # 0
    /\ IF Signed(job.d) <= Signed(job.s)
       THEN Move(job.d, job.s) /\ Again(Wrap(job.d + 1), Wrap(job.s + 1))
       ELSE /\ Move(Wrap(job.d + job.n - 1), Wrap(job.s + job.n - 1))
            /\ Again(job.d, job.s)
    /\ UNCHANGED <<elems, instr>>

BulkEnd ==
    /\ job # Idle /\ job.n = 0
    /\ job' = Idle
    /\ UNCHANGED <<tab, elems, instr, out>>

-----------------------------------------------------------------------------

BulkStep == FillStep \/ CopyStep \/ InitStep \/ BulkEnd

\* The operands are popped off the operand stack.
Fetch(r) ==
    /\ job = Idle /\ instr = NULL
    /\ r.op = "fill" /\ r.d + r.n >= W => FillWraps
    /\ instr' = r
    /\ out' = Done
    /\ UNCHANGED <<tab, elems, job>>

Execute(r) ==
    /\ instr' = NULL
    /\ \/ r.op = "get" /\ TableGet(r.x, r.i)
       \/ r.op = "set" /\ TableSet(r.x, r.i, r.val)
       \/ r.op = "size" /\ TableSize(r.x)
       \/ r.op = "grow" /\ TableGrow(r.x, r.n, r.val)
       \/ r.op \in {"fill", "copy", "init"} /\ TableBulk(r)
       \/ r.op = "drop" /\ ElemDrop(r.y)
       \/ r.op = "call" /\ TableCall(r.x, r.ty, r.i)

Next ==
    \/ \E r \in Instrs : Fetch(r)
    \/ instr # NULL /\ Execute(instr)
    \/ BulkStep

Spec == Init /\ [][Next]_vars

-----------------------------------------------------------------------------
(* Properties.                                                             *)

Jobs ==
    {Idle}
    \cup [op : {"fill"}, x : TableIdx, y : {NULL}, d : I32, s : I32, n : I32, val : Refs]
    \cup [op : {"copy"}, x : TableIdx, y : TableIdx, d : I32, s : I32, n : I32, val : Refs]
    \cup [op : {"init"}, x : TableIdx, y : Segments, d : I32, s : I32, n : I32, val : Refs]

TableInsts == [elem : Seq(Refs), len : Nat, max : Nat]

TypeOK ==
    /\ tab \in [Addrs -> TableInsts]
    /\ elems \in [Segments -> Seq(Refs)]
    /\ job \in Jobs
    /\ instr \in Instrs \cup {NULL}
    /\ out.kind \in {"done", "trap", "num", "ref", "call", "crash"}

\* Every index that VECTOR_ELEM lets through (0 .. len-1) lies in the storage
\* that realloc has given the vector, however table.grow has ended.
EntriesAllocated == \A a \in Addrs : tab[a].len <= Len(tab[a].elem)

\* What is left of a bulk instruction lies in the tables and the segment: the
\* nested table.get and table.set, whose errors the loop ignores, never fail.
BulkStaysInBounds ==
    job # Idle =>
        /\ job.d + job.n <= T(job.x).len
        /\ job.op = "copy" => job.s + job.n <= T(job.y).len
        /\ job.op = "init" => job.s + job.n <= Len(elems[job.y])

\* A table stays within a declared maximum other than 0.
TableWithinMax ==
    \A a \in Addrs : Limits[a].has_max /\ Limits[a].max # 0 => tab[a].len <= Limits[a].max

\* The inductive invariant.
TInv ==
    /\ TypeOK
    /\ EntriesAllocated
    /\ BulkStaysInBounds
    /\ TableWithinMax
    /\ \A a \in Addrs : Len(tab[a].elem) <= HostEntries
    /\ \A a \in Addrs : Limits[a].has_max => tab[a].max = Limits[a].max
    /\ \A seg \in Segments : Len(elems[seg]) < W
    /\ instr # NULL /\ instr.op = "fill" => FillWraps \/ instr.d + instr.n < W

\* The bounds check of every round agrees with the first one: a loop that has
\* begun ends only when nothing is left, so what traps has written nothing.
BulkNeverStopsHalfway == [][job # Idle /\ job.n # 0 => job' # Idle]_vars
=============================================================================
