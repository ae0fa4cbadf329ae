------------------------------- MODULE Typing -------------------------------
(***************************************************************************)
(* What validation promises: the typing of instruction sequences.  A body  *)
(* has a stack of operand types, of which only the part above an unknown   *)
(* rest is known once control cannot get there.  A block takes its         *)
(* operands when it is entered, a branch names an enclosing body, and a    *)
(* module that once fails has failed.                                      *)
(***************************************************************************)
EXTENDS Integers, Sequences

CONSTANTS Types, Refs, I32, Unknown, Instrs, Results

VARIABLES
    bodies,  \* the open bodies, the innermost one last
    state,   \* "open", "accepted" or "rejected"
    instr    \* the last instruction

tvars == <<bodies, state, instr>>

Label(kind, bt) == IF kind = "loop" THEN bt.rt1 ELSE bt.rt2

NewBody(kind, bt) == [kind |-> kind, bt |-> bt, known |-> bt.rt1, open |-> FALSE]
FuncBody(results) == NewBody("func", [rt1 |-> <<>>, rt2 |-> results])

Last == bodies[Len(bodies)]
Outer == SubSeq(bodies, 1, Len(bodies) - 1)

-----------------------------------------------------------------------------

\* ts are, or may be, the types of the topmost operands, the top one last.
Supplies(b, ts) ==
    \A k \in 1 .. Len(ts) :
        LET p == Len(b.known) - Len(ts) + k
        IN  IF p >= 1 THEN b.known[p] \in {ts[k], Unknown} ELSE b.open

Without(b, n) ==
    [b EXCEPT !.known = SubSeq(@, 1, IF n < Len(@) THEN Len(@) - n ELSE 0)]

With(b, ts) == [b EXCEPT !.known = @ \o ts]

Exactly(b, ts) == Supplies(b, ts) /\ Len(b.known) <= Len(ts)

Fail == state' = "rejected" /\ bodies' = <<>>

Become(bs) == bodies' = bs /\ UNCHANGED state

Require(ok, b) == IF ok THEN Become(Append(Outer, b)) ELSE Fail

Typed(ins, outs) == Require(Supplies(Last, ins), With(Without(Last, Len(ins)), outs))

Diverge(ok) == Require(ok, [Last EXCEPT !.known = <<>>, !.open = TRUE])

-----------------------------------------------------------------------------

Other(pops, pushes) ==
    Typed([k \in 1 .. Len(pops) |-> pops[Len(pops) + 1 - k]], pushes)

Drop ==
    IF \E t \in Types : Supplies(Last, <<t>>) THEN Become(Append(Outer, Without(Last, 1)))
    ELSE Fail

\* Two operands of one type that is no reference; if nothing is known of
\* either, nothing is known of the result.
Select ==
    LET Fits(t) == Supplies(Last, <<t, t, I32>>)
        fitting == {t \in Types \ Refs : Fits(t)}
    IN  IF fitting = {} THEN Fail
        ELSE IF \E t, u \in fitting : t # u
        THEN Become(Append(Outer, With(Without(Last, 3), <<Unknown>>)))
        ELSE \E t \in fitting : Typed(<<t, t, I32>>, <<t>>)

IsNull == IF \E t \in Refs : Supplies(Last, <<t>>)
          THEN Become(Append(Outer, With(Without(Last, 1), <<I32>>)))
          ELSE Fail

BodyOf(l) == bodies[Len(bodies) - l]
Encloses(l) == l < Len(bodies)
LabelOf(l) == Label(BodyOf(l).kind, BodyOf(l).bt)

Branch(l) == Diverge(Encloses(l) /\ Supplies(Last, LabelOf(l)))

BranchIf(l) ==
    IF Encloses(l) THEN Typed(LabelOf(l) \o <<I32>>, LabelOf(l)) ELSE Fail

BranchTable(L) ==
    Diverge(/\ \A l \in L : Encloses(l)
            /\ \A l, m \in L : Len(LabelOf(l)) = Len(LabelOf(m))
            /\ \A l \in L : Supplies(Last, LabelOf(l) \o <<I32>>))

Return == Diverge(Supplies(Last, bodies[1].bt.rt2))

Open(kind, bt) ==
    LET ins == bt.rt1 \o (IF kind = "then" THEN <<I32>> ELSE <<>>)
    IN  IF Supplies(Last, ins)
        THEN Become(Append(Append(Outer, Without(Last, Len(ins))), NewBody(kind, bt)))
        ELSE Fail

Else ==
    /\ Last.kind = "then"
    /\ Require(Exactly(Last, Last.bt.rt2), NewBody("else", Last.bt))

Close ==
    /\ Last.kind \in {"block", "loop", "else"}
    /\ IF Exactly(Last, Last.bt.rt2)
       THEN Become(Append(SubSeq(bodies, 1, Len(bodies) - 2),
                          With(bodies[Len(bodies) - 1], Last.bt.rt2)))
       ELSE Fail

CloseFunc ==
    /\ Last.kind = "func"
    /\ IF Exactly(Last, Last.bt.rt2)
       THEN \/ \E results \in Results : Become(<<FuncBody(results)>>)
            \/ state' = "accepted" /\ bodies' = <<>>
       ELSE Fail

-----------------------------------------------------------------------------

Begin(bs, st, i) ==
    /\ \E results \in Results : bs = <<FuncBody(results)>>
    /\ st = "open"
    /\ i = [op |-> "start"]

Init == Begin(bodies, state, instr)

Step(i) ==
    \/ i.op = "other" /\ Other(i.pops, i.pushes)
    \/ i.op = "invalid" /\ Fail
    \/ i.op = "unreachable" /\ Diverge(TRUE)
    \/ i.op = "nop" /\ UNCHANGED <<bodies, state>>
    \/ i.op = "drop" /\ Drop
    \/ i.op = "select" /\ Select
    \/ i.op = "ref_is_null" /\ IsNull
    \/ i.op = "br" /\ Branch(i.l)
    \/ i.op = "br_if" /\ BranchIf(i.l)
    \/ i.op = "br_table" /\ BranchTable({i.ls[k] : k \in 1 .. Len(i.ls)} \cup {i.d})
    \/ i.op = "return" /\ Return
    \/ i.op = "block" /\ Open("block", i.bt)
    \/ i.op = "loop" /\ Open("loop", i.bt)
    \/ i.op = "if" /\ Open("then", i.bt)
    \/ i.op = "end" /\ (Else \/ Close \/ CloseFunc)

\* What follows the first failure is not typed.
Next ==
    \/ state = "open" /\ (\E i \in Instrs : instr' = i /\ Step(i))
    \/ state = "rejected" /\ UNCHANGED <<bodies, state>>
    \/ state # "open" /\ Begin(bodies', state', instr')

Spec == Init /\ [][Next]_tvars
=============================================================================
