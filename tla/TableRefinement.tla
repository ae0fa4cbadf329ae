-------------------------- MODULE TableRefinement ---------------------------
(***************************************************************************)
(* The table instances implement the vectors of references.  A bulk        *)
(* instruction takes effect when its first bounds check succeeds: while    *)
(* its loop runs, the abstract table already is what the loop will leave.  *)
(***************************************************************************)
EXTENDS Tables

\* What entry k of table a will hold when the loop has ended.
Eventual(a, k) ==
    IF job # Idle /\ a = TableAddr[job.x] /\ k \in job.d + 1 .. job.d + job.n
    THEN CASE job.op = "fill" -> job.val
           [] job.op = "copy" -> T(job.y).elem[job.s + (k - job.d)]
           [] job.op = "init" -> elems[job.y][job.s + (k - job.d)]
    ELSE tab[a].elem[k]

AbsTabs == [a \in Addrs |-> [k \in 1 .. tab[a].len |-> Eventual(a, k)]]
Busy == job # Idle

V == INSTANCE TableVectors WITH tabs <- AbsTabs, segs <- elems, busy <- Busy

\* Vectors that are reallocated, loops in the direction that d <= s chooses,
\* and operands that go over the stack in every round together behave as
\* sequences of references on which every instruction is one step, also when
\* two indices name one table; a function that call_indirect reaches is the one
\* the entry holds and has the type that was asked for.
ImplementsTableVectors == V!Spec

\* The programs for which that holds: table.grow is not given a negative
\* operand, the operands of a table.fill do not wrap, no maximum is 0.
WellBehaved ==
    /\ ~FillWraps
    /\ \A n \in GrowArgs : 2 * n < W
    /\ \A a \in Addrs : Limits[a].has_max => Limits[a].max # 0
=============================================================================
