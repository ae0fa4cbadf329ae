----------------------- MODULE InterpreterRefinement -----------------------
(***************************************************************************)
(* The interpreter implements the activation stack.  A branch takes effect *)
(* when it leaves its instruction, and a return when next_ip becomes NULL: *)
(* while the C loops unwind, the abstract stack already is what they will  *)
(* leave.                                                                  *)
(***************************************************************************)
EXTENDS Interpreter

Entry(obj) ==
    CASE obj.type = "val"   -> [type |-> "val", val |-> obj.val]
      [] obj.type = "label" -> [type |-> "label", arity |-> obj.arity, parent |-> obj.parent]
      [] OTHER              -> [type |-> "frame", arity |-> obj.arity]

\* The entries below slot n.
Below(n) == [i \in 1 .. n |-> Entry(st.pool[i - 1])]

Live == Below(st.idx + 1)

\* Popped values as the entries that pushing them again will make.
Repushed(vals) ==
    [i \in 1 .. Len(vals) |-> [type |-> "val", val |-> vals[Len(vals) + 1 - i]]]

LabelEntry(b) ==
    [type |-> "label", arity |-> IF b.op = "loop" THEN b.rt1 ELSE b.rt2, parent |-> b]

\* The label that the loop of __br pops last.
IsTarget(t) ==
    /\ t \in OwnLabels(st)
    /\ Cardinality({j \in OwnLabels(st) : j > t}) = pc.left - 1

ToFunctionLabel ==
    /\ pc.at = "unwind"
    /\ IF pc.left = 0 THEN pc.parent = NULL
                      ELSE \A t \in OwnLabels(st) : IsTarget(t) => st.pool[t].parent = NULL

Returning == pc.at \in {"return", "discard"} \/ ToFunctionLabel

Outermost == host = "invoke" /\ Top = 1

Returned(results) == IF Outermost THEN <<>> ELSE Below(Current.frame) \o results

\* The block's label is still there when the branch is to a loop.
Branched(S, parent) ==
    S \o (IF parent.op = "loop" THEN <<LabelEntry(parent)>> ELSE <<>>) \o Repushed(pc.vals)

AbsStack ==
    CASE host = "trapped" -> <<>>
      [] host # "trapped" /\ pc.at = "return" ->
             Returned(SubSeq(Live, st.idx + 2 - Current.arity, st.idx + 1))
      [] pc.at = "discard" -> Returned(Repushed(pc.vals))
      [] ToFunctionLabel -> Returned(Repushed(pc.vals))
      [] pc.at = "unwind" /\ ~ToFunctionLabel ->
             IF pc.left = 0 THEN Branched(Live, pc.parent)
             ELSE LET t == CHOOSE t \in OwnLabels(st) : IsTarget(t)
                  IN  Branched(Below(t), st.pool[t].parent)
      [] pc.at = "loop" ->
             SubSeq(Live, 1, st.idx + 1 - pc.blk.rt1) \o <<LabelEntry(pc.blk)>>
             \o SubSeq(Live, st.idx + 2 - pc.blk.rt1, st.idx + 1)
      [] OTHER -> Live

AbsMode ==
    IF host \in {"allocs", "inits", "start", "done"} THEN "inst"
    ELSE IF Outermost /\ Returning THEN "idle" ELSE host

A == INSTANCE ActivationStack WITH
        stack <- AbsStack, mode <- AbsMode, busy <- pc.at \notin {"run", "host"}

\* Every step of the interpreter is a step of the activation stack, or one that
\* it does not see: pooled entries, intrusive lists that survive resets, and
\* unwinding in loops together behave as the sequence of the execution model.
ImplementsActivationStack == A!Spec

\* The branch of the execution model that a br, br_if or br_table comes to is the
\* one to the label it names, though the loop of __br counts labels of one list
\* for all activations and forgets the index.
BranchesToItsLabel ==
    [][\A l \in 0 .. NumSlots, c \in 0 .. 1 : Br(l, c) => A!Branch(l, c)]_vars
=============================================================================
