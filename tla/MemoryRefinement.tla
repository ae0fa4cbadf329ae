-------------------------- MODULE MemoryRefinement --------------------------
(***************************************************************************)
(* The paged memory implements the flat one.  A bulk instruction takes     *)
(* effect when its bounds check succeeds: while its loop runs, the flat    *)
(* memory already is what the loop will leave.                             *)
(***************************************************************************)
EXTENDS LinearMemory

\* What address a will hold when the loop has ended.
Eventual(a) ==
    IF job # Idle /\ a \in job.d .. job.d + job.n - 1
    THEN CASE job.op = "fill" -> job.val
           [] job.op = "copy" -> Peek(job.s + (a - job.d))
           [] job.op = "init" -> data[job.seg][job.s + (a - job.d) + 1]
    ELSE Peek(a)

AbsMem == [a \in 0 .. Size - 1 |-> Eventual(a)]
Busy == job # Idle

F == INSTANCE FlatMemory WITH
        pages <- num_pages, mem <- AbsMem, busy <- Busy,
        MaxPages <- IF HasMax THEN MaxPages ELSE NumPageMax

\* Lazily allocated host pages, byte-wise loops in the direction that d <= s
\* chooses and 32-bit counters together behave as a flat array of bytes on
\* which every instruction is one step.
ImplementsFlatMemory == F!Spec

\* The programs for which that holds: no access crosses the end of a host page,
\* memory.grow is not given a negative operand, and addresses stay below 2^31.
WellBehaved ==
    /\ ~Straddle
    /\ \A n \in GrowArgs : 2 * n < W
    /\ HasMax /\ MaxPages # 0 /\ 2 * (MaxPages * WasmPage) <= W
=============================================================================
