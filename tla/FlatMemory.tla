----------------------------- MODULE FlatMemory -----------------------------
(***************************************************************************)
(* What a linear memory promises: a sequence of bytes whose length is a    *)
(* number of pages, which starts as zeros, grows by zeros and never        *)
(* shrinks.  Every instruction takes effect at once or traps without any;  *)
(* a bulk instruction then keeps the memory busy for a while.              *)
(***************************************************************************)
EXTENDS Integers, Sequences

CONSTANTS W, WasmPage, Byte, Zero, MinPages, MaxPages, Segments, Content,
          Instrs, NULL

VARIABLES
    pages,
    mem,    \* the bytes, by address
    data,
    instr,  \* the instruction to run, with its operands
    out,
    busy

fvars == <<pages, mem, data, instr, out, busy>>

Addrs(p) == 0 .. p * WasmPage - 1

Init ==
    /\ pages = MinPages
    /\ mem = [a \in Addrs(MinPages) |-> Zero]
    /\ data = Content
    /\ instr = NULL
    /\ out = [kind |-> "done"]
    /\ busy = FALSE

Answer(o) == out' = o /\ busy' = FALSE

Trap == Answer([kind |-> "trap"]) /\ UNCHANGED <<pages, mem, data>>

\* The instruction writes f[a] to each address a of f.
Write(f, bulk) ==
    IF DOMAIN f \subseteq Addrs(pages)
    THEN /\ mem' = [a \in Addrs(pages) |-> IF a \in DOMAIN f THEN f[a] ELSE mem[a]]
         /\ out' = [kind |-> "done"]
         /\ busy' = bulk
         /\ UNCHANGED <<pages, data>>
    ELSE Trap

Load(ea, n) ==
    IF ea + n <= pages * WasmPage
    THEN /\ Answer([kind |-> "bytes", bytes |-> [k \in 1 .. n |-> mem[ea + k - 1]]])
         /\ UNCHANGED <<pages, mem, data>>
    ELSE Trap

Store(ea, v) == Write([a \in ea .. ea + Len(v) - 1 |-> v[a - ea + 1]], FALSE)

Ask ==
    /\ Answer([kind |-> "num", num |-> pages])
    /\ UNCHANGED <<pages, mem, data>>

\* Growing may always fail, and must where the maximum says so.
Grow(n) ==
    \/ /\ pages + n <= MaxPages
       /\ pages' = pages + n
       /\ mem' = [a \in Addrs(pages + n) |-> IF a \in Addrs(pages) THEN mem[a] ELSE Zero]
       /\ Answer([kind |-> "num", num |-> pages])
       /\ UNCHANGED data
    \/ /\ Answer([kind |-> "num", num |-> -1])
       /\ UNCHANGED <<pages, mem, data>>

Drop(seg) ==
    /\ data' = [data EXCEPT ![seg] = <<>>]
    /\ Answer([kind |-> "done"])
    /\ UNCHANGED <<pages, mem>>

\* An operand range must lie in the memory even when it is empty.
Fits(a, n) == a + n <= pages * WasmPage

Fill(d, val, n) == IF Fits(d, n) THEN Write([a \in d .. d + n - 1 |-> val], TRUE) ELSE Trap

Copy(d, s, n) ==
    IF Fits(d, n) /\ Fits(s, n)
    THEN Write([a \in d .. d + n - 1 |-> mem[s + (a - d)]], TRUE)
    ELSE Trap

Copyin(seg, d, s, n) ==
    IF Fits(d, n) /\ s + n <= Len(data[seg])
    THEN Write([a \in d .. d + n - 1 |-> data[seg][s + (a - d) + 1]], TRUE)
    ELSE Trap

Begin ==
    /\ ~busy /\ instr = NULL
    /\ instr' \in Instrs
    /\ out' = [kind |-> "done"]
    /\ UNCHANGED <<pages, mem, data, busy>>

Perform(r) ==
    /\ instr' = NULL
    /\ \/ r.op = "load" /\ Load(r.i + r.offset, r.n)
       \/ r.op = "store" /\ Store(r.i + r.offset, r.v)
       \/ r.op = "size" /\ Ask
       \/ r.op = "grow" /\ Grow(r.n)
       \/ r.op = "drop" /\ Drop(r.seg)
       \/ r.op = "fill" /\ Fill(r.d, r.val, r.n)
       \/ r.op = "copy" /\ Copy(r.d, r.s, r.n)
       \/ r.op = "init" /\ Copyin(r.seg, r.d, r.s, r.n)

End == busy /\ busy' = FALSE /\ UNCHANGED <<pages, mem, data, instr, out>>

Next == Begin \/ (instr # NULL /\ Perform(instr)) \/ End

Spec == Init /\ [][Next]_fvars
=============================================================================
