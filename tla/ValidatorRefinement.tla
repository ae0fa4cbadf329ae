------------------------- MODULE ValidatorRefinement -------------------------
(***************************************************************************)
(* The validator implements the typing of instruction sequences, though it *)
(* checks the operands of a block after its body: until then the type      *)
(* stack of the outer body still holds them, and if they are wrong the     *)
(* module has failed already.                                              *)
(***************************************************************************)
EXTENDS Validator

\* The operands of the body inside body k, as their types are written.
Pending(k) ==
    IF k = Depth THEN <<>>
    ELSE seqs[k + 1].bt.rt1
         \o (IF seqs[k + 1].kind \in {"then", "else"} THEN <<I32>> ELSE <<>>)

Doomed == \E k \in 1 .. Depth : ~CanPop(seqs[k], Reverse(Pending(k)))

AbsState == IF verdict = "open" /\ Doomed THEN "rejected" ELSE verdict

AbsBody(k) ==
    [kind |-> seqs[k].kind, bt |-> seqs[k].bt,
     known |-> Popped(seqs[k], Len(Pending(k))).stack,
     open |-> seqs[k].polymorphic]

AbsBodies == IF AbsState = "open" THEN [k \in 1 .. Depth |-> AbsBody(k)] ELSE <<>>

T == INSTANCE Typing WITH
        Unknown <- ANY, Instrs <- Instrs \cup {End}, bodies <- AbsBodies, state <- AbsState

\* Modules without what the validator gets wrong, over types that tell apart what
\* is known of an operand.
WellBehaved ==
    /\ ~WildLabels /\ ~MixedTables /\ ~AnyIsNull
    /\ \A bt \in IfTypes : Len(bt.rt1) <= 1
    /\ Refs # {} /\ \E t, u \in Types \ Refs : t # u

\* Every module that validate_module accepts is well typed and every module it
\* rejects is not: recursion with a type stack per body, one label list and
\* early returns come to the verdict of the typing rules.
ImplementsTyping == T!Spec
=============================================================================
