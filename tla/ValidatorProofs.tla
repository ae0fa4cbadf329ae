--------------------------- MODULE ValidatorProofs ---------------------------
(***************************************************************************)
(* Proofs about Validator: the label list and the stack of bodies grow and *)
(* shrink together, and an operand of unknown type is only ever at the     *)
(* bottom of a polymorphic stack.  Both need the types: an instruction     *)
(* pushes value types, and select what it found below the condition.       *)
(* With both, the validator comes to the verdict of the typing rules.      *)
(***************************************************************************)
EXTENDS ValidatorRefinement, TLAPS

BlockType == [rt1 : Seq(Types), rt2 : Seq(Types)]
Act == [kind : Kinds, bt : BlockType, stack : Seq(Types \cup {ANY}), polymorphic : BOOLEAN]

\* An activation with a well-formed type_stack.
Fine(S) ==
    /\ S \in Act
    /\ \A p \in 1 .. Len(S.stack) : S.stack[p] = ANY => p = 1 /\ S.polymorphic

\* S differs from R in its type_stack only.
SameBody(S, R) == S.kind = R.kind /\ S.bt = R.bt

\* What a body's label expects.
LabelOf(S) == IF S.kind = "loop" THEN S.bt.rt1 ELSE S.bt.rt2

\* The part of the invariant that concerns the variables a check changes.
Core ==
    /\ seqs \in Seq(Act) /\ \A k \in 1 .. Depth : Fine(seqs[k])
    /\ labels \in Seq(Seq(Types)) /\ Len(labels) = Depth
    /\ \A k \in 1 .. Depth : labels[k] = LabelOf(seqs[k])
    /\ verdict = "open" => 0 < Depth /\ seqs[1].kind = "func" /\ ret = labels[1]
    /\ \A k \in 2 .. Depth : seqs[k].kind # "func"
    /\ cycle \in BOOLEAN /\ ret \in Seq(Types)
    /\ verdict \in {"open", "accepted", "rejected"}
    /\ funcs \in 0 .. NumFuncs - 1

IInv == Core /\ instrs \in 0 .. MaxInstrs /\ instr \in Instrs \cup {Start, End}

-----------------------------------------------------------------------------
(* The type_stack.                                                         *)

\* Popping keeps a type_stack well formed.
LEMMA PoppedFine ==
    ASSUME NEW S, Fine(S), NEW n \in Nat
    PROVE  /\ Fine(Popped(S, n)) /\ SameBody(Popped(S, n), S)
           /\ Popped(S, n).polymorphic = S.polymorphic
           /\ Len(Popped(S, n).stack) = IF n < Len(S.stack) THEN Len(S.stack) - n ELSE 0
           /\ \A p \in 1 .. Len(Popped(S, n).stack) : Popped(S, n).stack[p] = S.stack[p]
<1> DEFINE left == IF n < Len(S.stack) THEN Len(S.stack) - n ELSE 0
           rest == SubSeq(S.stack, 1, left)
<1>1. S \in Act /\ S.stack \in Seq(Types \cup {ANY}) /\ Len(S.stack) \in Nat
  BY DEF Fine, Act
<1>2. left \in 0 .. Len(S.stack)
  BY <1>1
<1>3. rest \in Seq(Types \cup {ANY}) /\ Len(rest) = left
      /\ \A p \in 1 .. left : rest[p] = S.stack[p]
  BY <1>1, <1>2
<1>4. Popped(S, n) = [S EXCEPT !.stack = rest]
  BY DEF Popped
<1>5. /\ Popped(S, n).stack = rest /\ Popped(S, n) \in Act
      /\ Popped(S, n).polymorphic = S.polymorphic
      /\ SameBody(Popped(S, n), S)
  BY <1>1, <1>3, <1>4 DEF Act, SameBody
<1> HIDE DEF rest
<1>6. Fine(Popped(S, n))
  BY <1>2, <1>3, <1>5, SMTT(40) DEF Fine
<1>7. QED
  BY <1>3, <1>5, <1>6

\* So does pushing value types.
LEMMA PushedFine ==
    ASSUME NEW S, Fine(S), NEW ts \in Seq(Types)
    PROVE  Fine(Pushed(S, ts)) /\ SameBody(Pushed(S, ts), S)
<1> DEFINE all == S.stack \o ts
<1>1. S \in Act /\ S.stack \in Seq(Types \cup {ANY}) /\ ts \in Seq(Types \cup {ANY})
  BY DEF Fine, Act
<1>2. all \in Seq(Types \cup {ANY}) /\ Len(all) = Len(S.stack) + Len(ts)
      /\ \A p \in 1 .. Len(all) :
            all[p] = IF p <= Len(S.stack) THEN S.stack[p] ELSE ts[p - Len(S.stack)]
  BY <1>1
<1>3. ASSUME NEW p \in 1 .. Len(all), all[p] = ANY
      PROVE  p \in 1 .. Len(S.stack) /\ S.stack[p] = ANY
  <2>1. ANY \notin Types
    BY TypesAssumption
  <2>2. ASSUME p > Len(S.stack) PROVE FALSE
    <3>1. p - Len(S.stack) \in 1 .. Len(ts)
      BY <1>1, <1>2, <2>2
    <3>2. ts[p - Len(S.stack)] \in Types
      BY <3>1
    <3>3. all[p] = ts[p - Len(S.stack)]
      BY <1>1, <1>2, <2>2
    <3>4. QED
      BY <1>3, <2>1, <3>2, <3>3
  <2>3. QED
    BY <1>1, <1>2, <1>3, <2>2
<1>4. Pushed(S, ts) = [S EXCEPT !.stack = all]
  BY DEF Pushed
<1>5. /\ Pushed(S, ts).stack = all /\ Pushed(S, ts) \in Act
      /\ Pushed(S, ts).polymorphic = S.polymorphic
      /\ SameBody(Pushed(S, ts), S)
  BY <1>1, <1>2, <1>4 DEF Act, SameBody
<1> HIDE DEF all
<1>6. QED
  BY <1>3, <1>5 DEF Fine

\* A type_stack that is replaced stays typed.
LEMMA ReplaceTyped ==
    ASSUME NEW K, NEW Y, NEW X, NEW B,
           NEW S \in [kind : K, bt : Y, stack : X, polymorphic : B], NEW x \in X, NEW b \in B
    PROVE  [S EXCEPT !.stack = x, !.polymorphic = b]
               \in [kind : K, bt : Y, stack : X, polymorphic : B]
OBVIOUS

\* Emptying it leaves nothing to be wrong.
LEMMA EmptiedFine ==
    ASSUME NEW S, Fine(S)
    PROVE  Fine(Emptied(S)) /\ SameBody(Emptied(S), S)
<1>1. S \in Act /\ <<>> \in Seq(Types \cup {ANY})
  BY DEF Fine
<1>2. TRUE \in BOOLEAN
  BY Zenon
<1>3. Emptied(S) \in Act
  BY <1>1, <1>2, ReplaceTyped, Zenon DEF Emptied, Act
<1>4. Emptied(S).stack = <<>> /\ SameBody(Emptied(S), S)
  BY <1>1 DEF Emptied, Act, SameBody
<1>5. QED
  BY <1>3, <1>4 DEF Fine

\* A body starts with value types.
LEMMA ActivationFine ==
    ASSUME NEW kind \in Kinds, NEW bt \in BlockType
    PROVE  /\ Fine(Activation(kind, bt))
           /\ Activation(kind, bt).kind = kind /\ Activation(kind, bt).bt = bt
<1>1. bt.rt1 \in Seq(Types) /\ bt.rt1 \in Seq(Types \cup {ANY}) /\ ANY \notin Types
  BY TypesAssumption DEF BlockType
<1>2. /\ Activation(kind, bt) \in Act /\ Activation(kind, bt).stack = bt.rt1
      /\ Activation(kind, bt).kind = kind /\ Activation(kind, bt).bt = bt
  BY <1>1 DEF Activation, Act
<1>3. \A p \in 1 .. Len(bt.rt1) : bt.rt1[p] # ANY
  BY <1>1
<1>4. QED
  BY <1>2, <1>3 DEF Fine

\* select pushes what it finds below the condition: if that is unknown, two
\* pops have emptied the stack.
LEMMA SelectFine ==
    ASSUME NEW S, Fine(S),
           Popped(S, 1).stack # <<>> \/ Popped(S, 1).polymorphic
    PROVE  LET C == Popped(S, 1)
               R == Pushed(Popped(C, 2), <<TopType(C)>>)
           IN  Fine(R) /\ SameBody(R, S)
<1> DEFINE C == Popped(S, 1)
           D == Popped(C, 2)
           t == TopType(C)
<1>1. Fine(C) /\ SameBody(C, S)
  BY PoppedFine
<1>2. C \in Act /\ C.stack \in Seq(Types \cup {ANY}) /\ Len(C.stack) \in Nat
  BY <1>1 DEF Fine, Act
<1>3. /\ Fine(D) /\ SameBody(D, C) /\ D.polymorphic = C.polymorphic
      /\ Len(D.stack) = IF 2 < Len(C.stack) THEN Len(C.stack) - 2 ELSE 0
  BY <1>1, PoppedFine
<1>4. C.stack # <<>> => Len(C.stack) \in 1 .. Len(C.stack) /\ t = C.stack[Len(C.stack)]
  BY <1>2 DEF TopType, Last
<1>5. C.stack = <<>> => t = ANY
  BY DEF TopType
<1>6. t \in Types \cup {ANY}
  BY <1>2, <1>4, <1>5
<1>7. SameBody(Pushed(D, <<t>>), S)
  <2>1. D \in Act
    BY <1>3 DEF Fine
  <2>2. QED
    BY <1>1, <1>3, <2>1 DEF SameBody, Pushed, Act
<1>8. CASE t \in Types
  <2>1. <<t>> \in Seq(Types)
    BY <1>8
  <2>2. QED
    BY <1>3, <1>7, <2>1, PushedFine
<1>9. CASE t = ANY
  <2>1. C.polymorphic /\ Len(C.stack) <= 1
    <3>1. CASE C.stack = <<>>
      BY <3>1
    <3>2. CASE C.stack # <<>>
      BY <1>1, <1>2, <1>4, <1>9, <3>2 DEF Fine
    <3>3. QED
      BY <3>1, <3>2
  <2>2. D \in Act /\ D.polymorphic /\ D.stack = <<>> /\ D.stack \in Seq(Types \cup {ANY})
    <3>1. D \in Act /\ D.stack \in Seq(Types \cup {ANY})
      BY <1>3 DEF Fine, Act
    <3>2. Len(D.stack) = 0
      BY <1>2, <1>3, <2>1
    <3>3. QED
      BY <1>3, <2>1, <3>1, <3>2
  <2> HIDE DEF D, C, t
  <2>3. <<>> \o <<t>> = <<t>> /\ <<t>> \in Seq(Types \cup {ANY}) /\ Len(<<t>>) = 1
    BY <1>6
  <2>4. Pushed(D, <<t>>) = [D EXCEPT !.stack = <<t>>]
    BY <2>2, <2>3 DEF Pushed
  <2>5. /\ Pushed(D, <<t>>) \in Act /\ Pushed(D, <<t>>).stack = <<t>>
        /\ Pushed(D, <<t>>).polymorphic
    BY <2>2, <2>3, <2>4 DEF Act
  <2>6. Fine(Pushed(D, <<t>>))
    BY <2>3, <2>5 DEF Fine
  <2>7. QED
    BY <1>7, <2>6 DEF C, D, t
<1>10. QED
  BY <1>6, <1>8, <1>9
-----------------------------------------------------------------------------
(* What a check does to the variables.                                     *)

\* The innermost body of an open module.
LEMMA InnerFine ==
    ASSUME Core, verdict = "open"
    PROVE  /\ Depth \in Nat \ {0} /\ Fine(Inner) /\ Inner \in Act /\ Inner.kind \in Kinds
           /\ Inner.bt \in BlockType /\ Inner.bt.rt1 \in Seq(Types) /\ Inner.bt.rt2 \in Seq(Types)
           /\ (Inner.kind = "func" <=> Depth = 1)
           /\ \A k \in 1 .. Depth : seqs[k] \in Act
<1>1. seqs \in Seq(Act) /\ Depth \in Nat \ {0} /\ \A k \in 1 .. Depth : Fine(seqs[k])
  BY DEF Core, Depth
<1>2. Inner = seqs[Depth] /\ Depth \in 1 .. Depth
  BY <1>1 DEF Inner
<1>3. Inner.kind = "func" <=> Depth = 1
  BY <1>1, <1>2 DEF Core
<1>4. Fine(Inner) /\ \A k \in 1 .. Depth : seqs[k] \in Act
  BY <1>1, <1>2 DEF Depth
<1>5. QED
  BY <1>1, <1>3, <1>4 DEF Fine, Act, BlockType

\* An error leaves nothing.
LEMMA FinishKeeps ==
    ASSUME Core, NEW v \in {"accepted", "rejected"}, Finish(v)
    PROVE  Core'
<1>1. seqs' = <<>> /\ labels' = <<>> /\ ret' = <<>> /\ cycle' = FALSE /\ funcs' = 0
      /\ verdict' = v /\ Len(<<>>) = 0
  BY DEF Finish
<1>2. 0 \in 0 .. NumFuncs - 1
  BY BoundsAssumption
<1>3. Depth' = 0 /\ 1 .. 0 = {} /\ 2 .. 0 = {}
  BY <1>1 DEF Depth
<1>4. <<>> \in Seq(Act) /\ <<>> \in Seq(Seq(Types)) /\ <<>> \in Seq(Types)
  OBVIOUS
<1>5. verdict' # "open" /\ verdict' \in {"open", "accepted", "rejected"}
  BY <1>1
<1>6. QED
  BY <1>1, <1>2, <1>3, <1>4, <1>5 DEF Core

\* Replacing the innermost body by one with the same label keeps the rest.
LEMMA GotoKeeps ==
    ASSUME Core, verdict = "open", NEW S, Fine(S), S.bt = Inner.bt,
           S.kind = Inner.kind \/ (S.kind = "else" /\ Inner.kind = "then"),
           Goto(S)
    PROVE  Core'
<1>1. /\ Depth \in Nat \ {0} /\ Depth = Len(seqs) /\ Inner = seqs[Depth] /\ S \in Act
      /\ seqs \in Seq(Act)
  BY InnerFine DEF Depth, Inner, Fine, Core
<1> DEFINE front == SubSeq(seqs, 1, Depth - 1)
<1>2. seqs' = Append(front, S)
  BY <1>1 DEF Goto, Front
<1>3. front \in Seq(Act) /\ Len(front) = Depth - 1 /\ \A k \in 1 .. Depth - 1 : front[k] = seqs[k]
  BY <1>1
<1> HIDE DEF front
<1>4. /\ seqs' \in Seq(Act) /\ Len(seqs') = Depth /\ Depth' = Depth
      /\ seqs'[Depth] = S /\ \A k \in 1 .. Depth - 1 : seqs'[k] = seqs[k]
  <2>1. Append(front, S) \in Seq(Act) /\ Len(Append(front, S)) = Depth
    BY <1>1, <1>3
  <2>2. /\ Append(front, S)[Depth] = S
        /\ \A k \in 1 .. Depth - 1 : Append(front, S)[k] = front[k]
    BY <1>1, <1>3
  <2>3. QED
    BY <1>2, <1>3, <2>1, <2>2 DEF Depth
<1>5. UNCHANGED <<labels, cycle, ret, verdict, funcs>>
  BY DEF Goto
<1>6. LabelOf(S) = LabelOf(Inner) /\ (S.kind = "func" <=> Inner.kind = "func")
  BY DEF LabelOf
<1>7. \A k \in 1 .. Depth : k = Depth \/ k \in 1 .. Depth - 1
  BY <1>1
<1>8. \A k \in 1 .. Depth : Fine(seqs'[k]) /\ labels[k] = LabelOf(seqs'[k])
  BY <1>1, <1>4, <1>6, <1>7 DEF Core
<1>9. seqs'[1].kind = "func" /\ \A k \in 2 .. Depth : seqs'[k].kind # "func"
  <2>1. seqs[1].kind = "func" /\ \A k \in 2 .. Depth : seqs[k].kind # "func"
    BY DEF Core
  <2>2. 1 \in 1 .. Depth /\ \A k \in 2 .. Depth : k \in 1 .. Depth
    BY <1>1
  <2>3. QED
    BY <1>1, <1>4, <1>6, <1>7, <2>1, <2>2
<1>10. QED
  BY <1>1, <1>4, <1>5, <1>8, <1>9 DEF Core

\* An instruction that pops and pushes value types.
LEMMA PopsAndPushes ==
    ASSUME Core, verdict = "open", NEW n \in Nat, NEW ts \in Seq(Types), NEW ok,
           Check(ok, Pushed(Popped(Inner, n), ts))
    PROVE  Core'
<1> DEFINE S == Pushed(Popped(Inner, n), ts)
<1>1. Fine(S) /\ SameBody(S, Inner)
  <2>1. Fine(Popped(Inner, n)) /\ SameBody(Popped(Inner, n), Inner)
    BY InnerFine, PoppedFine
  <2>2. QED
    BY <2>1, PushedFine DEF SameBody
<1> HIDE DEF S
<1>2. Goto(S) \/ Reject
  BY DEF Check, S
<1>3. QED
  BY <1>1, <1>2, GotoKeeps, FinishKeeps DEF SameBody, Reject

\* One after which control does not get further.
LEMMA Diverges ==
    ASSUME Core, verdict = "open", NEW ok, Check(ok, Emptied(Inner))
    PROVE  Core'
<1>1. Fine(Emptied(Inner)) /\ SameBody(Emptied(Inner), Inner)
  BY InnerFine, EmptiedFine
<1>2. Goto(Emptied(Inner)) \/ Reject
  BY DEF Check
<1>3. QED
  BY <1>1, <1>2, GotoKeeps, FinishKeeps DEF SameBody, Reject

\* The parts of instructions.
LEMMA InstrParts ==
    ASSUME NEW i \in Instrs
    PROVE  /\ i.op = "other" => i.pops \in Seq(Types) /\ i.pushes \in Seq(Types)
           /\ i.op \in {"br", "br_if"} => i.l \in Nat
           /\ i.op = "br_table" => i.ls \in Seq(Nat) /\ i.d \in Nat
           /\ i.op \in {"block", "loop", "if"} => i.bt \in BlockType
<1>1. CASE i \in {[op |-> "other", pops |-> o.pops, pushes |-> o.pushes] : o \in Ops}
  BY <1>1, OpsAssumption
<1>2. CASE i \in {[op |-> o] : o \in {"invalid", "unreachable", "nop", "drop", "select",
                                     "ref_is_null", "return"}}
  BY <1>2
<1>3. CASE i \in {[op |-> o, l |-> l] : o \in {"br", "br_if"}, l \in 0 .. MaxLabel}
  BY <1>3, BoundsAssumption
<1>4. CASE i \in {[op |-> "br_table", ls |-> ls, d |-> d] :
                    ls \in {<<>>} \cup {<<l>> : l \in 0 .. MaxLabel}, d \in 0 .. MaxLabel}
  <2>1. PICK ls \in {<<>>} \cup {<<l>> : l \in 0 .. MaxLabel}, d \in 0 .. MaxLabel :
             i = [op |-> "br_table", ls |-> ls, d |-> d]
    BY <1>4
  <2>2. ls \in Seq(Nat) /\ d \in Nat
    <3>1. \A l \in 0 .. MaxLabel : l \in Nat
      BY BoundsAssumption
    <3>2. CASE ls = <<>>
      BY <3>1, <3>2
    <3>3. CASE \E l \in 0 .. MaxLabel : ls = <<l>>
      BY <3>1, <3>3
    <3>4. QED
      BY <3>2, <3>3
  <2>3. QED
    BY <2>1, <2>2
<1>5. CASE i \in {[op |-> o, bt |-> bt] : o \in {"block", "loop"}, bt \in BlockTypes}
  BY <1>5, BlocksAssumption DEF BlockType
<1>6. CASE i \in {[op |-> "if", bt |-> bt] : bt \in IfTypes}
  BY <1>6, BlocksAssumption DEF BlockType
<1>7. \/ i \in {[op |-> "other", pops |-> o.pops, pushes |-> o.pushes] : o \in Ops}
      \/ i \in {[op |-> o] : o \in {"invalid", "unreachable", "nop", "drop", "select",
                                     "ref_is_null", "return"}}
      \/ i \in {[op |-> o, l |-> l] : o \in {"br", "br_if"}, l \in 0 .. MaxLabel}
      \/ i \in {[op |-> "br_table", ls |-> ls, d |-> d] :
                    ls \in {<<>>} \cup {<<l>> : l \in 0 .. MaxLabel}, d \in 0 .. MaxLabel}
      \/ i \in {[op |-> o, bt |-> bt] : o \in {"block", "loop"}, bt \in BlockTypes}
      \/ i \in {[op |-> "if", bt |-> bt] : bt \in IfTypes}
  BY DEF Instrs
<1>8. QED
  BY <1>1, <1>2, <1>3, <1>4, <1>5, <1>6, <1>7

\* What a label that is found expects.
LEMMA LabelTyped ==
    ASSUME Core, verdict = "open", NEW l \in Nat
    PROVE  LabelType(l) \in Seq(Types)
<1>1. labels \in Seq(Seq(Types)) /\ Len(labels) \in Nat \ {0}
  BY InnerFine DEF Core
<1>2. l < Len(labels) => Len(labels) - l \in 1 .. Len(labels)
  BY <1>1
<1>3. QED
  BY <1>1, <1>2 DEF LabelType
-----------------------------------------------------------------------------
(* The instructions.                                                       *)

\* An instruction without a body.
LEMMA SimpleKeeps ==
    ASSUME Core, verdict = "open", NEW i \in Instrs, Instruction(i),
           i.op \notin {"block", "loop", "if"}
    PROVE  Core'
<1>1. \A s \in Seq(Types) : Reverse(s) \in Seq(Types) /\ Len(Reverse(s)) \in Nat
  BY DEF Reverse
<1>2. CASE i.op = "other" /\ Other(i.pops, i.pushes)
  <2>1. i.pops \in Seq(Types) /\ i.pushes \in Seq(Types) /\ Len(i.pops) \in Nat
    BY <1>2, InstrParts
  <2>2. QED
    BY <1>2, <2>1, PopsAndPushes DEF Other
<1>3. CASE Invalid
  BY <1>3, FinishKeeps DEF Invalid, Reject
<1>4. CASE Unreachable
  BY <1>4, Diverges DEF Unreachable, Check
<1>5. CASE Nop
  BY <1>5 DEF Nop, Core, Depth
<1>6. CASE Drop
  <2>1. Fine(Popped(Inner, 1)) /\ SameBody(Popped(Inner, 1), Inner)
    BY InnerFine, PoppedFine
  <2>2. Goto(Popped(Inner, 1)) \/ Reject
    BY <1>6 DEF Drop, Check
  <2>3. QED
    BY <2>1, <2>2, GotoKeeps, FinishKeeps DEF SameBody, Reject
<1>7. CASE Select
  <2> DEFINE C == Popped(Inner, 1)
             R == Pushed(Popped(C, 2), <<TopType(C)>>)
  <2>1. Reject \/ (Goto(R) /\ (C.stack # <<>> \/ C.polymorphic))
    BY <1>7 DEF Select, Check
  <2>2. C.stack # <<>> \/ C.polymorphic => Fine(R) /\ SameBody(R, Inner)
    BY InnerFine, SelectFine
  <2> HIDE DEF R, C
  <2>3. QED
    BY <2>1, <2>2, GotoKeeps, FinishKeeps DEF SameBody, Reject
<1>8. CASE RefIsNull
  <2>1. <<I32>> \in Seq(Types)
    BY TypesAssumption
  <2>2. QED
    BY <1>8, <2>1, PopsAndPushes DEF RefIsNull
<1>9. CASE i.op = "br" /\ Br(i.l)
  BY <1>9, Diverges DEF Br
<1>10. CASE i.op = "br_if" /\ BrIf(i.l)
  <2> DEFINE pops == <<I32>> \o Reverse(LabelType(i.l))
  <2>1. LabelType(i.l) \in Seq(Types)
    BY <1>10, InstrParts, LabelTyped
  <2>2. <<I32>> \in Seq(Types) /\ Reverse(LabelType(i.l)) \in Seq(Types)
    BY <1>1, <2>1, TypesAssumption
  <2>3. Len(pops) \in Nat
    BY <2>2
  <2>4. PICK ok \in BOOLEAN : Check(ok, Pushed(Popped(Inner, Len(pops)), LabelType(i.l)))
    BY <1>10 DEF BrIf
  <2> HIDE DEF pops
  <2>5. QED
    BY <2>1, <2>3, <2>4, PopsAndPushes
<1>11. CASE \E ls, d : BrTable(ls, d)
  BY <1>11, Diverges DEF BrTable
<1>12. CASE Return
  BY <1>12, Diverges DEF Return
<1>13. QED
  BY <1>2, <1>3, <1>4, <1>5, <1>6, <1>7, <1>8, <1>9, <1>10, <1>11, <1>12 DEF Instruction

\* An instruction with a body adds one entry to each list.
LEMMA EnterKeeps ==
    ASSUME Core, verdict = "open", NEW kind \in Kinds \ {"func"}, NEW bt \in BlockType,
           Enter(kind, bt, LabelOf(Activation(kind, bt)))
    PROVE  Core'
<1> DEFINE S == Activation(kind, bt)
<1>1. Fine(S) /\ S.kind = kind /\ S.bt = bt /\ S \in Act
  BY ActivationFine DEF Fine
<1>2. LabelOf(S) \in Seq(Types)
  BY <1>1 DEF LabelOf, BlockType
<1>3. seqs' = Append(seqs, S) /\ labels' = Append(labels, LabelOf(S))
      /\ UNCHANGED <<cycle, ret, verdict, funcs>>
  BY DEF Enter
<1> HIDE DEF S
<1>4. /\ seqs \in Seq(Act) /\ labels \in Seq(Seq(Types)) /\ Depth \in Nat \ {0}
      /\ Len(seqs) = Depth /\ Len(labels) = Depth
  BY InnerFine DEF Core, Depth
<1>5. /\ seqs' \in Seq(Act) /\ Len(seqs') = Depth + 1 /\ seqs'[Depth + 1] = S
      /\ \A k \in 1 .. Depth : seqs'[k] = seqs[k]
  BY <1>1, <1>3, <1>4
<1>6. /\ labels' \in Seq(Seq(Types)) /\ Len(labels') = Depth + 1
      /\ labels'[Depth + 1] = LabelOf(S) /\ \A k \in 1 .. Depth : labels'[k] = labels[k]
  BY <1>2, <1>3, <1>4
<1>7. Depth' = Depth + 1
  BY <1>5 DEF Depth
<1>8. \A k \in 1 .. Depth + 1 : k \in 1 .. Depth \/ k = Depth + 1
  BY <1>4
<1>9. \A k \in 1 .. Depth + 1 : Fine(seqs'[k]) /\ labels'[k] = LabelOf(seqs'[k])
  BY <1>1, <1>5, <1>6, <1>8 DEF Core
<1>10. \A k \in 2 .. Depth + 1 : seqs'[k].kind # "func"
  <2>1. \A k \in 2 .. Depth + 1 : k \in 2 .. Depth \/ k = Depth + 1
    BY <1>4
  <2>2. \A k \in 2 .. Depth : k \in 1 .. Depth /\ seqs[k].kind # "func"
    BY <1>4 DEF Core
  <2>3. QED
    BY <1>1, <1>5, <2>1, <2>2
<1>11. seqs'[1].kind = "func" /\ labels'[1] = labels[1] /\ ret = labels[1]
  <2>1. 1 \in 1 .. Depth
    BY <1>4
  <2>2. QED
    BY <1>5, <1>6, <2>1 DEF Core
<1>12. QED
  BY <1>3, <1>4, <1>5, <1>6, <1>7, <1>9, <1>10, <1>11 DEF Core

\* One instruction.
LEMMA InstructionKeeps ==
    ASSUME Core, verdict = "open", NEW i \in Instrs, Instruction(i)
    PROVE  Core'
<1>1. CASE i.op \in {"block", "loop", "if"}
  <2>1. i.bt \in BlockType
    BY <1>1, InstrParts
  <2>2. PICK kind \in {"block", "loop", "then"} :
             Enter(kind, i.bt, LabelOf(Activation(kind, i.bt)))
    BY <1>1 DEF Instruction, Block, Loop, If, LabelOf, Activation
  <2>3. kind \in Kinds \ {"func"}
    BY DEF Kinds
  <2>4. QED
    BY <2>1, <2>2, <2>3, EnterKeeps
<1>2. CASE i.op \notin {"block", "loop", "if"}
  BY <1>2, SimpleKeeps
<1>3. QED
  BY <1>1, <1>2
-----------------------------------------------------------------------------
(* The ends of sequences.                                                  *)

\* The then branch gives way to the else branch.
LEMMA EndThenKeeps ==
    ASSUME Core, verdict = "open", EndThen
    PROVE  Core'
<1> DEFINE S == Activation("else", Inner.bt)
<1>1. Fine(S) /\ S.kind = "else" /\ S.bt = Inner.bt
  BY InnerFine, ActivationFine DEF Kinds
<1> HIDE DEF S
<1>2. Inner.kind = "then" /\ (Goto(S) \/ Reject)
  BY DEF EndThen, Check, S
<1>3. QED
  BY <1>1, <1>2, GotoKeeps, FinishKeeps DEF Reject

\* A block's body and label go together, and its results are the outer body's
\* operands.
LEMMA EndBlockKeeps ==
    ASSUME Core, verdict = "open", EndBlock
    PROVE  Core'
<1> DEFINE outer == seqs[Depth - 1]
           pops == Operands(Inner)
           S == Pushed(Popped(outer, Len(pops)), Inner.bt.rt2)
           front == SubSeq(seqs, 1, Depth - 2)
<1>1. /\ Depth \in Nat /\ 2 <= Depth /\ Inner.bt.rt1 \in Seq(Types)
      /\ Inner.bt.rt2 \in Seq(Types)
  BY InnerFine DEF EndBlock
<1>2. /\ seqs \in Seq(Act) /\ labels \in Seq(Seq(Types))
      /\ Len(seqs) = Depth /\ Len(labels) = Depth
  BY DEF Core, Depth
<1>3. Len(pops) \in Nat
  <2>1. <<I32>> \o Inner.bt.rt1 \in Seq(Types) /\ Reverse(Inner.bt.rt1) \in Seq(Types)
    BY <1>1, TypesAssumption DEF Reverse
  <2>2. QED
    BY <2>1 DEF Operands
<1>4. Fine(S) /\ SameBody(S, outer) /\ S \in Act
  <2>1. Fine(outer)
    BY <1>1 DEF Core
  <2>2. Fine(Popped(outer, Len(pops))) /\ SameBody(Popped(outer, Len(pops)), outer)
    BY <1>3, <2>1, PoppedFine
  <2>3. QED
    BY <1>1, <2>2, PushedFine DEF SameBody, Fine
<1> HIDE DEF pops, S
<1>5. CASE seqs' = Append(front, S) /\ labels' = Front(labels)
           /\ UNCHANGED <<cycle, ret, verdict, funcs>>
  <2>1. /\ front \in Seq(Act) /\ Len(front) = Depth - 2
        /\ \A k \in 1 .. Depth - 2 : front[k] = seqs[k]
    BY <1>1, <1>2
  <2> HIDE DEF front
  <2>2. /\ seqs' \in Seq(Act) /\ Len(seqs') = Depth - 1 /\ seqs'[Depth - 1] = S
        /\ \A k \in 1 .. Depth - 2 : seqs'[k] = seqs[k]
    BY <1>1, <1>4, <1>5, <2>1
  <2>3. /\ labels' \in Seq(Seq(Types)) /\ Len(labels') = Depth - 1
        /\ \A k \in 1 .. Depth - 1 : labels'[k] = labels[k]
    BY <1>1, <1>2, <1>5 DEF Front
  <2>4. Depth' = Depth - 1
    BY <2>2 DEF Depth
  <2>5. \A k \in 1 .. Depth - 1 : k \in 1 .. Depth /\ (k \in 1 .. Depth - 2 \/ k = Depth - 1)
    BY <1>1
  <2>6. LabelOf(S) = LabelOf(outer) /\ S.kind = outer.kind
    BY <1>4 DEF SameBody, LabelOf
  <2>7. \A k \in 1 .. Depth - 1 : Fine(seqs'[k]) /\ labels'[k] = LabelOf(seqs'[k])
                                /\ seqs'[k].kind = seqs[k].kind
    BY <1>4, <2>2, <2>3, <2>5, <2>6, ZenonT(40) DEF Core
  <2>8. 1 \in 1 .. Depth - 1 /\ \A k \in 2 .. Depth - 1 : k \in 1 .. Depth - 1 /\ k \in 2 .. Depth
    BY <1>1
  <2>9. /\ seqs'[1].kind = "func" /\ ret = labels'[1]
        /\ \A k \in 2 .. Depth - 1 : seqs'[k].kind # "func"
    BY <2>3, <2>7, <2>8 DEF Core
  <2>10. 0 < Depth - 1
    BY <1>1
  <2>11. QED
    BY <1>5, <2>2, <2>3, <2>4, <2>7, <2>9, <2>10 DEF Core
<1>6. CASE Reject
  BY <1>6, FinishKeeps DEF Reject
<1>7. QED
  BY <1>5, <1>6 DEF EndBlock, S, pops

\* A function starts with its own body and label.
LEMMA StartFine ==
    ASSUME NEW results \in Results
    PROVE  /\ Fine(Body(results)) /\ Body(results).kind = "func"
           /\ LabelOf(Body(results)) = results /\ results \in Seq(Types)
           /\ <<Body(results)>> \in Seq(Act) /\ Len(<<Body(results)>>) = 1
           /\ <<Body(results)>>[1] = Body(results)
           /\ <<results>> \in Seq(Seq(Types)) /\ Len(<<results>>) = 1
           /\ <<results>>[1] = results
           /\ 2 .. 1 = {} /\ \A k \in 1 .. 1 : k = 1
<1> DEFINE bt == [rt1 |-> <<>>, rt2 |-> results]
           S == Activation("func", bt)
<1>1. results \in Seq(Types) /\ bt \in BlockType /\ "func" \in Kinds
  BY BlocksAssumption DEF BlockType, Kinds
<1>2. Fine(S) /\ S.kind = "func" /\ S.bt = bt /\ Body(results) = S /\ bt.rt2 = results
  BY <1>1, ActivationFine DEF Body
<1>3. S \in Act /\ LabelOf(S) = results
  BY <1>2 DEF Fine, LabelOf
<1> HIDE DEF S
<1>4. QED
  BY <1>1, <1>2, <1>3

LEMMA EndFuncKeeps ==
    ASSUME Core, verdict = "open", EndFunc
    PROVE  Core'
<1>1. CASE Reject \/ Finish("accepted")
  BY <1>1, FinishKeeps DEF Reject
<1>2. CASE /\ funcs + 1 < NumFuncs
           /\ \E results \in Results :
                 seqs' = <<Body(results)>> /\ labels' = <<results>> /\ ret' = results
           /\ cycle' = TRUE /\ funcs' = funcs + 1 /\ UNCHANGED verdict
  <2>1. PICK results \in Results :
             seqs' = <<Body(results)>> /\ labels' = <<results>> /\ ret' = results
    BY <1>2
  <2>2. funcs' \in 0 .. NumFuncs - 1
    BY <1>2, BoundsAssumption DEF Core
  <2> DEFINE S == Body(results)
  <2>3. /\ Fine(S) /\ S.kind = "func" /\ LabelOf(S) = results /\ results \in Seq(Types)
        /\ seqs' \in Seq(Act) /\ Depth' = 1 /\ seqs'[1] = S
        /\ labels' \in Seq(Seq(Types)) /\ Len(labels') = 1 /\ labels'[1] = results
        /\ 2 .. 1 = {} /\ \A k \in 1 .. 1 : k = 1
    BY <2>1, StartFine DEF Depth
  <2> HIDE DEF S
  <2>4. QED
    BY <1>2, <2>1, <2>2, <2>3 DEF Core
<1>3. QED
  BY <1>1, <1>2 DEF EndFunc

-----------------------------------------------------------------------------
(* The theorems.                                                           *)

LEMMA InitOK == Init => IInv
<1> SUFFICES ASSUME Init PROVE IInv
  OBVIOUS
<1>1. PICK results \in Results :
           seqs = <<Body(results)>> /\ labels = <<results>> /\ ret = results
  BY DEF Init
<1> DEFINE S == Body(results)
<1>2. /\ Fine(S) /\ S.kind = "func" /\ LabelOf(S) = results /\ results \in Seq(Types)
      /\ seqs \in Seq(Act) /\ Depth = 1 /\ seqs[1] = S
      /\ labels \in Seq(Seq(Types)) /\ Len(labels) = 1 /\ labels[1] = results
      /\ 2 .. 1 = {} /\ \A k \in 1 .. 1 : k = 1
  BY <1>1, StartFine DEF Depth
<1> HIDE DEF S
<1>3. funcs \in 0 .. NumFuncs - 1 /\ cycle \in BOOLEAN /\ verdict = "open"
  <2>1. cycle \in BOOLEAN
    BY Zenon DEF Init
  <2>2. funcs \in 0 .. NumFuncs - 1 /\ verdict = "open"
    BY BoundsAssumption DEF Init
  <2>3. QED
    BY <2>1, <2>2
<1>4. Core
  BY <1>1, <1>2, <1>3 DEF Core
<1>5. QED
  BY <1>4, BoundsAssumption DEF Init, IInv

LEMMA NextOK ==
    ASSUME IInv, [Next]_vars
    PROVE  IInv'
<1>1. ASSUME NEW i \in Instrs, Validate(i) PROVE IInv'
  <2>1. Core'
    BY <1>1, InstructionKeeps DEF IInv, Validate
  <2>2. QED
    BY <1>1, <2>1, BoundsAssumption DEF IInv, Validate
<1>2. CASE EndSequence
  <2>1. Core'
    BY <1>2, EndThenKeeps, EndBlockKeeps, EndFuncKeeps DEF IInv, EndSequence
  <2>2. QED
    BY <1>2, <2>1 DEF IInv, EndSequence
<1>3. CASE NextModule
  <2>1. PICK results \in Results :
             seqs' = <<Body(results)>> /\ labels' = <<results>> /\ ret' = results
    BY <1>3 DEF NextModule
  <2> DEFINE S == Body(results)
  <2>2. /\ Fine(S) /\ S.kind = "func" /\ LabelOf(S) = results /\ results \in Seq(Types)
        /\ seqs' \in Seq(Act) /\ Depth' = 1 /\ seqs'[1] = S
        /\ labels' \in Seq(Seq(Types)) /\ Len(labels') = 1 /\ labels'[1] = results
        /\ 2 .. 1 = {} /\ \A k \in 1 .. 1 : k = 1
    BY <2>1, StartFine DEF Depth
  <2> HIDE DEF S
  <2>3. funcs' \in 0 .. NumFuncs - 1 /\ cycle' \in BOOLEAN /\ verdict' = "open"
    <3>1. cycle' \in BOOLEAN
      BY <1>3, Zenon DEF NextModule
    <3>2. funcs' \in 0 .. NumFuncs - 1 /\ verdict' = "open"
      BY <1>3, BoundsAssumption DEF NextModule
    <3>3. QED
      BY <3>1, <3>2
  <2>4. Core'
    BY <2>1, <2>2, <2>3 DEF Core
  <2>5. QED
    BY <1>3, <2>4, BoundsAssumption DEF NextModule, IInv
<1>4. CASE UNCHANGED vars
  BY <1>4 DEF vars, IInv, Core, Depth
<1>5. QED
  BY <1>1, <1>2, <1>3, <1>4 DEF Next

THEOREM ValidatorInvariant == Spec => []IInv
<1>1. Init => IInv
  BY InitOK
<1>2. IInv /\ [Next]_vars => IInv'
  BY NextOK
<1>3. QED
  BY <1>1, <1>2, PTL DEF Spec

\* The variables have their types, whatever the instructions are.
THEOREM ValidatorTypes == Spec => []TypeOK
<1>1. IInv => TypeOK
  BY DEF IInv, Core, TypeOK, Act, BlockType
<1>2. QED
  BY <1>1, ValidatorInvariant, PTL

\* For all modules, a label index counts the open bodies from the inside, and
\* its label is that body's, at every instruction.
THEOREM LabelsCountBodies == Spec => []LabelsFollowBodies
<1>1. IInv => LabelsFollowBodies
  <2> SUFFICES ASSUME IInv PROVE LabelsFollowBodies
    OBVIOUS
  <2>1. \A k \in 1 .. Depth :
            labels[k] = IF seqs[k].kind = "loop" THEN seqs[k].bt.rt1 ELSE seqs[k].bt.rt2
    BY DEF IInv, Core, LabelOf
  <2>2. QED
    BY <2>1 DEF IInv, Core, LabelsFollowBodies
<1>2. QED
  BY <1>1, ValidatorInvariant, PTL

\* For all modules, an operand of unknown type is at the bottom of a polymorphic
\* stack, so select may take the type it finds for that of both operands.
THEOREM UnknownStaysBelow == Spec => []UnknownAtBottom
<1>1. IInv => UnknownAtBottom
  BY DEF IInv, Core, Fine, UnknownAtBottom
<1>2. QED
  BY <1>1, ValidatorInvariant, PTL

-----------------------------------------------------------------------------
(* The typing: what the stack of bodies stands for.                        *)

\* An activation as an open body.
Abs(S) == [kind |-> S.kind, bt |-> S.bt, known |-> S.stack, open |-> S.polymorphic]

\* The operands of a body, and of the body inside body k of q.
Owed(S) == S.bt.rt1 \o (IF S.kind \in {"then", "else"} THEN <<I32>> ELSE <<>>)
OwedBy(q, k) == IF k = Len(q) THEN <<>> ELSE Owed(q[k + 1])

BodiesOf(q) == [k \in 1 .. Len(q) |-> Abs(Popped(q[k], Len(OwedBy(q, k))))]
DoomedIn(q) == \E k \in 1 .. Len(q) : ~CanPop(q[k], Reverse(OwedBy(q, k)))

\* A stack of activations as the invariant has it.
Stack(q) == q \in Seq(Act) /\ Len(q) > 0 /\ \A k \in 1 .. Len(q) : Fine(q[k])

\* A sequence of types backwards.
LEMMA ReverseTypes ==
    ASSUME NEW ts \in Seq(Types)
    PROVE  /\ Reverse(ts) \in Seq(Types) /\ Len(Reverse(ts)) = Len(ts)
           /\ \A k \in 1 .. Len(ts) : Reverse(ts)[k] = ts[Len(ts) + 1 - k]
           /\ Reverse(ts) = [k \in 1 .. Len(ts) |-> ts[Len(ts) + 1 - k]]
           /\ Reverse(Reverse(ts)) = ts
<1>1. \A k \in 1 .. Len(ts) : Len(ts) - k + 1 = Len(ts) + 1 - k /\ Len(ts) + 1 - k \in 1 .. Len(ts)
  OBVIOUS
<1> DEFINE r == [k \in 1 .. Len(ts) |-> ts[Len(ts) + 1 - k]]
<1>2. Reverse(ts) = r
  BY <1>1 DEF Reverse
<1>3. r \in Seq(Types) /\ Len(r) = Len(ts)
  BY <1>1
<1>4. \A k \in 1 .. Len(ts) : r[k] = ts[Len(ts) + 1 - k]
  OBVIOUS
<1> HIDE DEF r
<1>5. Reverse(r) = ts
  <2>1. Reverse(r) = [k \in 1 .. Len(ts) |-> r[Len(ts) - k + 1]]
    BY <1>3 DEF Reverse
  <2>2. \A k \in 1 .. Len(ts) : r[Len(ts) - k + 1] = ts[k]
    BY <1>1, <1>4
  <2>3. ts = [k \in 1 .. Len(ts) |-> ts[k]]
    OBVIOUS
  <2>4. QED
    BY <2>1, <2>2, <2>3
<1>6. QED
  BY <1>2, <1>3, <1>4, <1>5 DEF r

\* Popping from a type_stack is taking operands from a body.
LEMMA AbsPopped ==
    ASSUME NEW S, Fine(S), NEW n \in Nat
    PROVE  T!Without(Abs(S), n) = Abs(Popped(S, n))
<1> DEFINE m == IF n < Len(S.stack) THEN Len(S.stack) - n ELSE 0
           rest == SubSeq(S.stack, 1, m)
<1>1. S \in Act
  BY DEF Fine
<1>2. T!Without(Abs(S), n) = [Abs(S) EXCEPT !.known = rest]
  BY DEF T!Without, Abs
<1>3. Popped(S, n) = [S EXCEPT !.stack = rest]
  BY DEF Popped
<1> HIDE DEF rest
<1>4. QED
  BY <1>1, <1>2, <1>3 DEF Abs, Act

LEMMA AbsPushed ==
    ASSUME NEW S, Fine(S), NEW ts
    PROVE  T!With(Abs(S), ts) = Abs(Pushed(S, ts))
<1> DEFINE all == S.stack \o ts
<1>1. S \in Act
  BY DEF Fine
<1>2. T!With(Abs(S), ts) = [Abs(S) EXCEPT !.known = all]
  BY DEF T!With, Abs
<1>3. Pushed(S, ts) = [S EXCEPT !.stack = all]
  BY DEF Pushed
<1> HIDE DEF all
<1>4. QED
  BY <1>1, <1>2, <1>3 DEF Abs, Act

LEMMA AbsEmptied ==
    ASSUME NEW S, Fine(S)
    PROVE  [Abs(S) EXCEPT !.known = <<>>, !.open = TRUE] = Abs(Emptied(S))
<1> DEFINE M == [kind |-> S.kind, bt |-> S.bt, known |-> <<>>, open |-> S.polymorphic]
           R(e) == [kind |-> S.kind, bt |-> S.bt, known |-> <<>>, open |-> e]
<1>1. S \in Act
  BY DEF Fine
<1>2. [Abs(S) EXCEPT !.known = <<>>] = M
  BY DEF Abs
<1>3. \A e : [M EXCEPT !.open = e] = R(e)
  OBVIOUS
<1> HIDE DEF M
<1>4. \A e : [Abs(S) EXCEPT !.known = <<>>, !.open = e]
                = [[Abs(S) EXCEPT !.known = <<>>] EXCEPT !.open = e]
  OBVIOUS
<1> HIDE DEF R
<1>5. [Abs(S) EXCEPT !.known = <<>>, !.open = TRUE] = R(TRUE)
  BY <1>2, <1>3, <1>4, Zenon
<1>6. /\ Emptied(S).kind = S.kind /\ Emptied(S).bt = S.bt
      /\ Emptied(S).stack = <<>> /\ Emptied(S).polymorphic = TRUE
  BY <1>1 DEF Emptied, Act
<1>7. QED
  BY <1>5, <1>6 DEF Abs, R

\* Popping types one by one, the top one first, is having them as operands.
LEMMA PopsSupplied ==
    ASSUME NEW S, Fine(S), NEW us \in Seq(Types)
    PROVE  CanPop(S, Reverse(us)) <=> T!Supplies(Abs(S), us)
<1> DEFINE n == Len(us)
           Pops(k) == LET p == Len(S.stack) + 1 - k
                      IN  IF p < 1 THEN S.polymorphic
                          ELSE us[n + 1 - k] = ANY \/ S.stack[p] = us[n + 1 - k] \/ S.stack[p] = ANY
           Has(k) == LET p == Len(S.stack) - n + k
                     IN  IF p >= 1 THEN S.stack[p] \in {us[k], ANY} ELSE S.polymorphic
<1>1. S.stack \in Seq(Types \cup {ANY}) /\ Len(S.stack) \in Nat /\ n \in Nat
  BY DEF Fine, Act
<1>2. CanPop(S, Reverse(us)) <=> \A k \in 1 .. n : Pops(k)
  BY ReverseTypes DEF CanPop
<1>3. T!Supplies(Abs(S), us) <=> \A k \in 1 .. n : Has(k)
  BY DEF T!Supplies, Abs
<1>4. \A k \in 1 .. n : n + 1 - k \in 1 .. n /\ n + 1 - (n + 1 - k) = k
  BY <1>1
<1>5. \A k \in 1 .. n : Pops(k) <=> Has(n + 1 - k)
  <2> SUFFICES ASSUME NEW k \in 1 .. n PROVE Pops(k) <=> Has(n + 1 - k)
    OBVIOUS
  <2>1. us[n + 1 - k] # ANY
    BY <1>4, TypesAssumption
  <2>2. Len(S.stack) - n + (n + 1 - k) = Len(S.stack) + 1 - k
    <3>1. \A a, b, c \in Int : a - b + (b + 1 - c) = a + 1 - c
      OBVIOUS
    <3>2. Len(S.stack) \in Int /\ n \in Int /\ k \in Int
      BY <1>1
    <3> HIDE DEF n
    <3>3. QED
      BY <3>1, <3>2, Zenon
  <2>3. Len(S.stack) + 1 - k < 1 <=> ~(Len(S.stack) + 1 - k >= 1)
    BY <1>1
  <2>4. QED
    BY <2>1, <2>2, <2>3
<1> HIDE DEF Pops, Has, n
<1>6. (\A k \in 1 .. n : Pops(k)) <=> (\A k \in 1 .. n : Has(k))
  BY <1>4, <1>5
<1>7. QED
  BY <1>2, <1>3, <1>6

LEMMA PopsReversed ==
    ASSUME NEW S, Fine(S), NEW ts \in Seq(Types)
    PROVE  CanPop(S, ts) <=> T!Supplies(Abs(S), Reverse(ts))
<1>1. Reverse(ts) \in Seq(Types) /\ Reverse(Reverse(ts)) = ts
  BY ReverseTypes
<1>2. QED
  BY <1>1, PopsSupplied

\* Nothing is popped.
LEMMA PoppedNone ==
    ASSUME NEW S, Fine(S)
    PROVE  Popped(S, 0) = S /\ CanPop(S, <<>>)
<1>1. S \in Act /\ S.stack \in Seq(Types \cup {ANY})
  BY DEF Fine, Act
<1>2. (IF 0 < Len(S.stack) THEN Len(S.stack) - 0 ELSE 0) = Len(S.stack)
  BY <1>1
<1>3. SubSeq(S.stack, 1, Len(S.stack)) = S.stack
  BY <1>1
<1>4. Popped(S, 0) = S
  BY <1>1, <1>2, <1>3 DEF Popped, Act
<1>5. QED
  BY <1>4 DEF CanPop

\* The operands of a body are value types.
LEMMA OwedTyped ==
    ASSUME NEW S, Fine(S)
    PROVE  Owed(S) \in Seq(Types) /\ Len(Owed(S)) \in Nat
<1>1. S.bt.rt1 \in Seq(Types)
  BY DEF Fine, Act, BlockType
<1>2. <<I32>> \in Seq(Types) /\ <<>> \in Seq(Types)
  BY TypesAssumption
<1>3. S.bt.rt1 \o <<I32>> \in Seq(Types) /\ S.bt.rt1 \o <<>> \in Seq(Types)
  BY <1>1, <1>2
<1>4. Owed(S) = S.bt.rt1 \o <<I32>> \/ Owed(S) = S.bt.rt1 \o <<>>
  BY DEF Owed
<1>5. CASE Owed(S) = S.bt.rt1 \o <<I32>>
  <2>1. Owed(S) \in Seq(Types)
    BY <1>3, <1>5
  <2>2. QED
    BY <2>1
<1>6. CASE Owed(S) = S.bt.rt1 \o <<>>
  <2>1. Owed(S) \in Seq(Types)
    BY <1>3, <1>6
  <2>2. QED
    BY <2>1
<1>7. QED
  BY <1>4, <1>5, <1>6

\* The bodies are a sequence.
BodySet == [kind : Kinds, bt : BlockType, known : Seq(Types \cup {ANY}), open : BOOLEAN]

LEMMA AbsTyped ==
    ASSUME NEW S, Fine(S)
    PROVE  Abs(S) \in BodySet
BY DEF Fine, Act, Abs, BodySet

LEMMA Prefix ==
    ASSUME NEW X, NEW s \in Seq(X), NEW m \in 0 .. Len(s)
    PROVE  /\ SubSeq(s, 1, m) \in Seq(X) /\ Len(SubSeq(s, 1, m)) = m
           /\ \A k \in 1 .. m : SubSeq(s, 1, m)[k] = s[k]
OBVIOUS

LEMMA OneMore ==
    ASSUME NEW X, NEW s \in Seq(X), NEW x \in X
    PROVE  /\ Append(s, x) \in Seq(X) /\ Len(Append(s, x)) = Len(s) + 1
           /\ Append(s, x)[Len(s) + 1] = x
           /\ \A k \in 1 .. Len(s) : Append(s, x)[k] = s[k]
OBVIOUS

LEMMA SameSequence ==
    ASSUME NEW X, NEW s \in Seq(X), NEW t \in Seq(X), Len(s) = Len(t),
           \A k \in 1 .. Len(s) : s[k] = t[k]
    PROVE  s = t
OBVIOUS

LEMMA FrontAndLast ==
    ASSUME NEW X, NEW s \in Seq(X), Len(s) > 0
    PROVE  s = Append(SubSeq(s, 1, Len(s) - 1), s[Len(s)])
<1>1. PICK n \in Nat \ {0} : n = Len(s)
  OBVIOUS
<1> DEFINE p == SubSeq(s, 1, n - 1)
           t == Append(p, s[n])
<1>2. n - 1 \in 0 .. Len(s) /\ (n - 1) + 1 = n /\ s[n] \in X
      /\ \A k \in 1 .. n : k = n \/ k \in 1 .. n - 1
  BY <1>1
<1>3. p \in Seq(X) /\ Len(p) = n - 1 /\ \A k \in 1 .. n - 1 : p[k] = s[k]
  BY <1>2, Prefix
<1> HIDE DEF p
<1>4. t \in Seq(X) /\ Len(t) = n /\ t[n] = s[n] /\ \A k \in 1 .. n - 1 : t[k] = p[k]
  BY <1>2, <1>3, OneMore
<1> HIDE DEF t
<1>5. s = t
  BY <1>1, <1>2, <1>3, <1>4, SameSequence
<1>6. QED
  BY <1>1, <1>5 DEF t, p

LEMMA BodiesTyped ==
    ASSUME NEW q, Stack(q)
    PROVE  /\ BodiesOf(q) \in Seq(BodySet) /\ Len(BodiesOf(q)) = Len(q)
           /\ \A k \in 1 .. Len(q) : /\ BodiesOf(q)[k] = Abs(Popped(q[k], Len(OwedBy(q, k))))
                                     /\ Len(OwedBy(q, k)) \in Nat
<1>1. q \in Seq(Act) /\ Len(q) \in Nat /\ \A k \in 1 .. Len(q) : Fine(q[k])
  BY DEF Stack
<1>2. \A k \in 1 .. Len(q) : Len(OwedBy(q, k)) \in Nat
  <2>1. Len(<<>>) \in Nat
    OBVIOUS
  <2>2. \A k \in 1 .. Len(q) : k = Len(q) \/ k + 1 \in 1 .. Len(q)
    BY <1>1
  <2>3. QED
    BY <1>1, <2>1, <2>2, OwedTyped DEF OwedBy
<1>3. \A k \in 1 .. Len(q) : Abs(Popped(q[k], Len(OwedBy(q, k)))) \in BodySet
  BY <1>1, <1>2, PoppedFine, AbsTyped
<1>4. QED
  BY <1>1, <1>2, <1>3 DEF BodiesOf

\* An instruction replaces the innermost activation.
LEMMA ReplaceInner ==
    ASSUME NEW q, Stack(q), NEW S, Fine(S), Owed(S) = Owed(q[Len(q)])
    PROVE  LET r == Append(SubSeq(q, 1, Len(q) - 1), S)
           IN  /\ Stack(r) /\ Len(r) = Len(q) /\ (DoomedIn(r) <=> DoomedIn(q))
               /\ BodiesOf(r) = Append(SubSeq(BodiesOf(q), 1, Len(q) - 1), Abs(S))
<1> DEFINE n == Len(q)
           front == SubSeq(q, 1, n - 1)
           r == Append(front, S)
           bs == SubSeq(BodiesOf(q), 1, n - 1)
<1>1. q \in Seq(Act) /\ n \in Nat \ {0} /\ S \in Act /\ \A k \in 1 .. n : Fine(q[k])
  BY DEF Stack, Fine
<1>2. front \in Seq(Act) /\ Len(front) = n - 1 /\ \A k \in 1 .. n - 1 : front[k] = q[k]
  <2>1. n - 1 \in 0 .. Len(q)
    BY <1>1
  <2>2. QED
    BY <1>1, <2>1, Prefix
<1> HIDE DEF front
<1>3. /\ r \in Seq(Act) /\ Len(r) = n /\ r[n] = S
      /\ \A k \in 1 .. n - 1 : r[k] = q[k]
  BY <1>1, <1>2
<1> HIDE DEF r
<1>4. \A k \in 1 .. n : k = n \/ (k \in 1 .. n - 1 /\ k # n /\ k + 1 \in 1 .. n)
  BY <1>1
<1>5. Stack(r)
  BY <1>1, <1>3, <1>4 DEF Stack
<1>6. \A k \in 1 .. n : OwedBy(r, k) = OwedBy(q, k)
  <2>1. \A k \in 1 .. n : Owed(r[k]) = Owed(q[k])
    BY <1>3, <1>4
  <2>2. QED
    BY <1>3, <1>4, <2>1 DEF OwedBy
<1>7. OwedBy(r, n) = <<>>
  BY <1>3 DEF OwedBy
<1>8. DoomedIn(r) <=> DoomedIn(q)
  <2>1. \A k \in 1 .. n - 1 :
            CanPop(r[k], Reverse(OwedBy(r, k))) <=> CanPop(q[k], Reverse(OwedBy(q, k)))
    BY <1>1, <1>3, <1>6
  <2>2. Reverse(<<>>) = <<>>
    BY DEF Reverse
  <2>3. CanPop(r[n], Reverse(OwedBy(r, n))) /\ CanPop(q[n], Reverse(OwedBy(q, n)))
    BY <1>1, <1>3, <1>6, <1>7, <2>2, PoppedNone
  <2>4. QED
    BY <1>3, <1>4, <2>1, <2>3 DEF DoomedIn
<1>9. BodiesOf(r) = Append(bs, Abs(S))
  <2>1. /\ bs \in Seq(BodySet) /\ Len(bs) = n - 1
        /\ \A k \in 1 .. n - 1 : bs[k] = Abs(Popped(q[k], Len(OwedBy(q, k))))
    <3>1. BodiesOf(q) \in Seq(BodySet) /\ Len(BodiesOf(q)) = n
      BY BodiesTyped
    <3>2. n - 1 \in 0 .. n
      BY <1>1
    <3>3. /\ bs \in Seq(BodySet) /\ Len(bs) = n - 1
          /\ \A k \in 1 .. n - 1 : bs[k] = BodiesOf(q)[k]
      BY <3>1, <3>2, Prefix
    <3> HIDE DEF bs
    <3>4. QED
      BY <1>4, <3>3, BodiesTyped
  <2> HIDE DEF bs
  <2>2. /\ Append(bs, Abs(S)) \in Seq(BodySet) /\ Len(Append(bs, Abs(S))) = n
        /\ Append(bs, Abs(S))[n] = Abs(S)
        /\ \A k \in 1 .. n - 1 : Append(bs, Abs(S))[k] = bs[k]
    BY <1>1, <2>1, AbsTyped, OneMore
  <2>3. /\ BodiesOf(r) \in Seq(BodySet) /\ Len(BodiesOf(r)) = n
        /\ \A k \in 1 .. n : BodiesOf(r)[k] = Abs(Popped(r[k], Len(OwedBy(r, k))))
    BY <1>3, <1>5, BodiesTyped
  <2>4. Len(<<>>) = 0 /\ Popped(S, 0) = S
    BY PoppedNone
  <2>5. \A k \in 1 .. n : BodiesOf(r)[k] = Append(bs, Abs(S))[k]
    BY <1>3, <1>4, <1>6, <1>7, <2>1, <2>2, <2>3, <2>4
  <2>6. QED
    BY <2>2, <2>3, <2>5, SameSequence
<1>10. QED
  BY <1>3, <1>5, <1>8, <1>9 DEF r, front

\* A block adds a body, whose operands the body around it owes.
LEMMA AddInner ==
    ASSUME NEW q, Stack(q), NEW S, Fine(S)
    PROVE  LET r == Append(q, S)
               n == Len(q)
           IN  /\ Stack(r) /\ Len(r) = n + 1
               /\ DoomedIn(r) <=> DoomedIn(q) \/ ~CanPop(q[n], Reverse(Owed(S)))
               /\ BodiesOf(r) = Append(Append(SubSeq(BodiesOf(q), 1, n - 1),
                                              Abs(Popped(q[n], Len(Owed(S))))), Abs(S))
<1> DEFINE n == Len(q)
           r == Append(q, S)
           bs == SubSeq(BodiesOf(q), 1, n - 1)
           outer == Abs(Popped(q[n], Len(Owed(S))))
<1>1. q \in Seq(Act) /\ n \in Nat \ {0} /\ S \in Act /\ \A k \in 1 .. n : Fine(q[k])
  BY DEF Stack, Fine
<1>2. r \in Seq(Act) /\ Len(r) = n + 1 /\ r[n + 1] = S /\ \A k \in 1 .. n : r[k] = q[k]
  BY <1>1
<1> HIDE DEF r
<1>3. \A k \in 1 .. n + 1 :
          \/ k = n + 1 /\ k # n
          \/ k = n /\ k # n + 1 /\ k \in 1 .. n
          \/ k \in 1 .. n - 1 /\ k \in 1 .. n /\ k # n /\ k # n + 1 /\ k + 1 \in 1 .. n
  BY <1>1
<1>4. Stack(r)
  BY <1>1, <1>2, <1>3 DEF Stack
<1>5. /\ OwedBy(r, n + 1) = <<>> /\ OwedBy(r, n) = Owed(S) /\ OwedBy(q, n) = <<>>
      /\ \A k \in 1 .. n - 1 : OwedBy(r, k) = OwedBy(q, k)
  BY <1>1, <1>2, <1>3 DEF OwedBy
<1>6. DoomedIn(r) <=> DoomedIn(q) \/ ~CanPop(q[n], Reverse(Owed(S)))
  <2>1. Reverse(<<>>) = <<>>
    BY DEF Reverse
  <2>2. CanPop(r[n + 1], Reverse(OwedBy(r, n + 1))) /\ CanPop(q[n], Reverse(OwedBy(q, n)))
    BY <1>1, <1>2, <1>5, <2>1, PoppedNone
  <2>3. CanPop(r[n], Reverse(OwedBy(r, n))) <=> CanPop(q[n], Reverse(Owed(S)))
    BY <1>1, <1>2, <1>5
  <2>4. \A k \in 1 .. n - 1 :
            CanPop(r[k], Reverse(OwedBy(r, k))) <=> CanPop(q[k], Reverse(OwedBy(q, k)))
    BY <1>1, <1>2, <1>5
  <2>5. n \in 1 .. n + 1 /\ \A k \in 1 .. n : k \in 1 .. n + 1
    BY <1>1
  <2>6. QED
    BY <1>1, <1>2, <1>3, <2>2, <2>3, <2>4, <2>5 DEF DoomedIn
<1>7. BodiesOf(r) = Append(Append(bs, outer), Abs(S))
  <2> DEFINE cs == Append(bs, outer)
             ds == Append(cs, Abs(S))
  <2>1. /\ bs \in Seq(BodySet) /\ Len(bs) = n - 1
        /\ \A k \in 1 .. n - 1 : bs[k] = Abs(Popped(q[k], Len(OwedBy(q, k))))
    <3>1. BodiesOf(q) \in Seq(BodySet) /\ Len(BodiesOf(q)) = n
      BY BodiesTyped
    <3>2. n - 1 \in 0 .. n
      BY <1>1
    <3>3. /\ bs \in Seq(BodySet) /\ Len(bs) = n - 1
          /\ \A k \in 1 .. n - 1 : bs[k] = BodiesOf(q)[k]
      BY <3>1, <3>2, Prefix
    <3> HIDE DEF bs
    <3>4. \A k \in 1 .. n - 1 : k \in 1 .. n
      BY <1>1
    <3>5. QED
      BY <3>3, <3>4, BodiesTyped
  <2> HIDE DEF bs
  <2>2. outer \in BodySet /\ Abs(S) \in BodySet
    <3>1. n \in 1 .. n /\ Len(Owed(S)) \in Nat
      BY <1>1, OwedTyped
    <3>2. QED
      BY <1>1, <3>1, PoppedFine, AbsTyped
  <2>3. /\ cs \in Seq(BodySet) /\ Len(cs) = n /\ cs[n] = outer
        /\ \A k \in 1 .. n - 1 : cs[k] = bs[k]
    BY <1>1, <2>1, <2>2, OneMore
  <2> HIDE DEF cs
  <2>4. /\ ds \in Seq(BodySet) /\ Len(ds) = n + 1 /\ ds[n + 1] = Abs(S)
        /\ \A k \in 1 .. n : ds[k] = cs[k]
    BY <1>1, <2>2, <2>3, OneMore
  <2> HIDE DEF ds
  <2>5. /\ BodiesOf(r) \in Seq(BodySet) /\ Len(BodiesOf(r)) = n + 1
        /\ \A k \in 1 .. n + 1 : BodiesOf(r)[k] = Abs(Popped(r[k], Len(OwedBy(r, k))))
    BY <1>2, <1>4, BodiesTyped
  <2>6. \A k \in 1 .. n + 1 : BodiesOf(r)[k] = ds[k]
    <3>1. Len(<<>>) = 0 /\ Popped(S, 0) = S
      BY PoppedNone
    <3>2. n \in 1 .. n + 1 /\ n \in 1 .. n /\ n + 1 \in 1 .. n + 1
      BY <1>1
    <3>3. BodiesOf(r)[n + 1] = Abs(S)
      BY <1>2, <1>5, <2>5, <3>1, <3>2
    <3>4. BodiesOf(r)[n] = outer
      BY <1>2, <1>5, <2>5, <3>2
    <3>5. \A k \in 1 .. n - 1 : k \in 1 .. n /\ k \in 1 .. n + 1
      BY <1>1
    <3>6. \A k \in 1 .. n - 1 : BodiesOf(r)[k] = bs[k]
      BY <1>2, <1>5, <2>1, <2>5, <3>5
    <3> HIDE DEF outer
    <3>7. QED
      BY <1>3, <2>3, <2>4, <3>2, <3>3, <3>4, <3>6
  <2>7. ds = BodiesOf(r)
    BY <2>4, <2>5, <2>6, SameSequence
  <2>8. QED
    BY <2>7 DEF ds, cs, bs
<1>8. QED
  BY <1>2, <1>4, <1>6, <1>7 DEF r

\* The end of a block removes a body and gives its results to the one around it.
LEMMA RemoveInner ==
    ASSUME NEW q, Stack(q), Len(q) >= 2, NEW S, Fine(S), Owed(S) = Owed(q[Len(q) - 1])
    PROVE  LET n == Len(q)
               r == Append(SubSeq(q, 1, n - 2), S)
           IN  /\ Stack(r) /\ Len(r) = n - 1
               /\ DoomedIn(q) <=> DoomedIn(r) \/ ~CanPop(q[n - 1], Reverse(Owed(q[n])))
               /\ BodiesOf(r) = Append(SubSeq(BodiesOf(q), 1, n - 2), Abs(S))
               /\ BodiesOf(q)[n - 1] = Abs(Popped(q[n - 1], Len(Owed(q[n]))))
<1> DEFINE n == Len(q)
           p == SubSeq(q, 1, n - 1)
           r == Append(SubSeq(q, 1, n - 2), S)
<1>1. q \in Seq(Act) /\ n \in Nat /\ n >= 2 /\ \A k \in 1 .. n : Fine(q[k]) /\ q[k] \in Act
  BY DEF Stack, Fine
<1>2. n - 1 \in 0 .. Len(q) /\ n - 2 \in 0 .. Len(q) /\ n \in 1 .. n /\ n - 1 \in 1 .. n
      /\ (n - 1) - 1 = n - 2 /\ (n - 1) + 1 = n /\ n - 1 \in 1 .. n - 1
  BY <1>1
<1>3. /\ p \in Seq(Act) /\ Len(p) = n - 1 /\ \A k \in 1 .. n - 1 : p[k] = q[k]
  BY <1>1, <1>2, Prefix
<1>4. SubSeq(p, 1, n - 2) = SubSeq(q, 1, n - 2)
  <2>1. /\ SubSeq(q, 1, n - 2) \in Seq(Act) /\ Len(SubSeq(q, 1, n - 2)) = n - 2
        /\ \A k \in 1 .. n - 2 : SubSeq(q, 1, n - 2)[k] = q[k]
    BY <1>1, <1>2, Prefix
  <2>2. n - 2 \in 0 .. Len(p)
    BY <1>1, <1>3
  <2> HIDE DEF p
  <2>3. /\ SubSeq(p, 1, n - 2) \in Seq(Act) /\ Len(SubSeq(p, 1, n - 2)) = n - 2
        /\ \A k \in 1 .. n - 2 : SubSeq(p, 1, n - 2)[k] = p[k]
    BY <1>3, <2>2, Prefix
  <2>4. \A k \in 1 .. n - 2 : k \in 1 .. n - 1
    BY <1>1
  <2>5. QED
    BY <1>3, <2>1, <2>3, <2>4, SameSequence
<1>5. Append(p, q[n]) = q
  BY <1>1, FrontAndLast
<1>6. Stack(p)
  <2>1. Len(p) > 0 /\ \A k \in 1 .. n - 1 : k \in 1 .. n
    BY <1>1, <1>3
  <2> HIDE DEF p
  <2>2. QED
    BY <1>1, <1>3, <2>1 DEF Stack
<1>7. p[n - 1] = q[n - 1]
  BY <1>2, <1>3
<1> HIDE DEF p, n
<1>8. /\ DoomedIn(q) <=> DoomedIn(p) \/ ~CanPop(q[n - 1], Reverse(Owed(q[n])))
      /\ BodiesOf(q) = Append(Append(SubSeq(BodiesOf(p), 1, n - 2),
                                     Abs(Popped(q[n - 1], Len(Owed(q[n]))))), Abs(q[n]))
  <2>1. Fine(q[n])
    BY <1>1, <1>2
  <2>2. /\ DoomedIn(Append(p, q[n])) <=> DoomedIn(p) \/ ~CanPop(p[Len(p)], Reverse(Owed(q[n])))
        /\ BodiesOf(Append(p, q[n])) = Append(Append(SubSeq(BodiesOf(p), 1, Len(p) - 1),
                                                   Abs(Popped(p[Len(p)], Len(Owed(q[n]))))), Abs(q[n]))
    BY <1>6, <2>1, AddInner
  <2>3. QED
    BY <1>2, <1>3, <1>5, <1>7, <2>2
<1>9. r = Append(SubSeq(p, 1, Len(p) - 1), S) /\ Owed(S) = Owed(p[Len(p)])
  BY <1>2, <1>3, <1>4, <1>7 DEF n
<1>10. /\ Stack(r) /\ Len(r) = n - 1 /\ (DoomedIn(r) <=> DoomedIn(p))
       /\ BodiesOf(r) = Append(SubSeq(BodiesOf(p), 1, n - 2), Abs(S))
  <2> HIDE DEF r
  <2>1. QED
    BY <1>2, <1>3, <1>6, <1>9, ReplaceInner
<1>11. /\ SubSeq(BodiesOf(q), 1, n - 2) = SubSeq(BodiesOf(p), 1, n - 2)
       /\ BodiesOf(q)[n - 1] = Abs(Popped(q[n - 1], Len(Owed(q[n]))))
  <2> DEFINE bs == SubSeq(BodiesOf(p), 1, n - 2)
             x == Abs(Popped(q[n - 1], Len(Owed(q[n]))))
             y == Abs(q[n])
             cs == Append(bs, x)
  <2>1. BodiesOf(p) \in Seq(BodySet) /\ Len(BodiesOf(p)) = n - 1 /\ n - 2 \in 0 .. n - 1
    BY <1>1, <1>3, <1>6, BodiesTyped
  <2>2. bs \in Seq(BodySet) /\ Len(bs) = n - 2
    BY <2>1, Prefix
  <2>3. x \in BodySet /\ y \in BodySet
    BY <1>1, <1>2, OwedTyped, PoppedFine, AbsTyped
  <2> HIDE DEF bs, x, y
  <2>4. /\ cs \in Seq(BodySet) /\ Len(cs) = n - 1 /\ cs[n - 1] = x
        /\ \A k \in 1 .. n - 2 : cs[k] = bs[k]
    BY <1>1, <2>2, <2>3, OneMore
  <2> HIDE DEF cs
  <2>5. /\ BodiesOf(q) = Append(cs, y) /\ BodiesOf(q) \in Seq(BodySet) /\ Len(BodiesOf(q)) = n
        /\ \A k \in 1 .. n - 1 : BodiesOf(q)[k] = cs[k]
    <3>1. BodiesOf(q) = Append(cs, y)
      BY <1>8 DEF cs, x, y, bs
    <3>2. QED
      BY <1>1, <2>3, <2>4, <3>1, OneMore
  <2>6. BodiesOf(q)[n - 1] = x
    BY <1>2, <2>4, <2>5
  <2>7. SubSeq(BodiesOf(q), 1, n - 2) = bs
    <3>1. n - 2 \in 0 .. n /\ \A k \in 1 .. n - 2 : k \in 1 .. n - 1
      BY <1>1
    <3>2. /\ SubSeq(BodiesOf(q), 1, n - 2) \in Seq(BodySet)
          /\ Len(SubSeq(BodiesOf(q), 1, n - 2)) = n - 2
          /\ \A k \in 1 .. n - 2 : SubSeq(BodiesOf(q), 1, n - 2)[k] = BodiesOf(q)[k]
      BY <2>5, <3>1, Prefix
    <3>3. QED
      BY <2>2, <2>4, <2>5, <3>1, <3>2, SameSequence
  <2>8. QED
    BY <2>6, <2>7 DEF x, bs
<1>12. QED
  BY <1>8, <1>10, <1>11 DEF r, n

-----------------------------------------------------------------------------
(* What the variables stand for.                                           *)

LEMMA OpenMapped ==
    Core /\ verdict = "open" =>
        /\ Stack(seqs)
        /\ AbsState = IF DoomedIn(seqs) THEN "rejected" ELSE "open"
        /\ AbsBodies = IF DoomedIn(seqs) THEN <<>> ELSE BodiesOf(seqs)
<1> SUFFICES ASSUME Core, verdict = "open"
             PROVE  /\ Stack(seqs)
                    /\ AbsState = IF DoomedIn(seqs) THEN "rejected" ELSE "open"
                    /\ AbsBodies = IF DoomedIn(seqs) THEN <<>> ELSE BodiesOf(seqs)
  OBVIOUS
<1>1. Stack(seqs)
  BY DEF Core, Depth, Stack
<1>2. \A k \in 1 .. Len(seqs) : Pending(k) = OwedBy(seqs, k)
  BY DEF Pending, OwedBy, Owed, Depth
<1>3. Doomed <=> DoomedIn(seqs)
  BY <1>2 DEF Doomed, DoomedIn, Depth
<1>4. [k \in 1 .. Depth |-> AbsBody(k)] = BodiesOf(seqs)
  <2>1. \A k \in 1 .. Len(seqs) : AbsBody(k) = Abs(Popped(seqs[k], Len(OwedBy(seqs, k))))
    <3> SUFFICES ASSUME NEW k \in 1 .. Len(seqs)
                 PROVE  AbsBody(k) = Abs(Popped(seqs[k], Len(OwedBy(seqs, k))))
      OBVIOUS
    <3>1. SameBody(Popped(seqs[k], Len(OwedBy(seqs, k))), seqs[k])
          /\ Popped(seqs[k], Len(OwedBy(seqs, k))).polymorphic = seqs[k].polymorphic
      BY <1>1, BodiesTyped, PoppedFine DEF Stack
    <3>2. QED
      BY <1>2, <3>1 DEF AbsBody, Abs, SameBody
  <2>2. QED
    BY <2>1 DEF BodiesOf, Depth
<1>5. QED
  BY <1>1, <1>3, <1>4 DEF AbsState, AbsBodies

LEMMA ClosedMapped ==
    verdict # "open" => AbsState = verdict /\ AbsBodies = <<>>
BY DEF AbsState, AbsBodies

\* While the typing has not failed, it sees the innermost activation as it is.
LEMMA LastMapped ==
    ASSUME Core, verdict = "open", AbsState = "open"
    PROVE  /\ Stack(seqs) /\ ~DoomedIn(seqs) /\ AbsBodies = BodiesOf(seqs)
           /\ Len(AbsBodies) = Depth /\ T!Last = Abs(Inner)
           /\ T!Outer = SubSeq(BodiesOf(seqs), 1, Depth - 1)
           /\ \A k \in 1 .. Depth : AbsBodies[k].kind = seqs[k].kind /\ AbsBodies[k].bt = seqs[k].bt
<1>1. Stack(seqs) /\ ~DoomedIn(seqs) /\ AbsBodies = BodiesOf(seqs)
  BY OpenMapped
<1>2. /\ Len(AbsBodies) = Depth /\ Depth \in 1 .. Depth
      /\ \A k \in 1 .. Depth : /\ AbsBodies[k] = Abs(Popped(seqs[k], Len(OwedBy(seqs, k))))
                              /\ Len(OwedBy(seqs, k)) \in Nat
  <2>1. Depth \in 1 .. Depth
    BY InnerFine
  <2>2. QED
    BY <1>1, <2>1, BodiesTyped DEF Depth
<1>3. \A k \in 1 .. Depth : AbsBodies[k].kind = seqs[k].kind /\ AbsBodies[k].bt = seqs[k].bt
  <2> SUFFICES ASSUME NEW k \in 1 .. Depth
               PROVE  AbsBodies[k].kind = seqs[k].kind /\ AbsBodies[k].bt = seqs[k].bt
    OBVIOUS
  <2>1. Fine(seqs[k])
    BY <1>1 DEF Stack, Depth
  <2>2. SameBody(Popped(seqs[k], Len(OwedBy(seqs, k))), seqs[k])
    BY <1>2, <2>1, PoppedFine
  <2>3. QED
    BY <1>2, <2>2 DEF SameBody, Abs
<1>4. AbsBodies[Depth] = Abs(Inner)
  <2>1. OwedBy(seqs, Depth) = <<>> /\ Len(<<>>) = 0
    BY DEF OwedBy, Depth
  <2>2. Popped(Inner, 0) = Inner
    BY InnerFine, PoppedNone
  <2>3. QED
    BY <1>2, <2>1, <2>2 DEF Inner
<1>5. QED
  BY <1>1, <1>2, <1>3, <1>4 DEF T!Last, T!Outer

\* An error is a failure.
LEMMA RejectTyped ==
    ASSUME Reject
    PROVE  T!Fail
<1>1. verdict' = "rejected"
  BY DEF Reject, Finish
<1>2. (verdict # "open" => AbsState = verdict /\ AbsBodies = <<>>)'
  BY ClosedMapped, PTL
<1>3. QED
  BY <1>1, <1>2 DEF T!Fail

\* What happens to the innermost activation happens to the innermost body.
LEMMA GotoTyped ==
    ASSUME Core, verdict = "open", AbsState = "open", Core', NEW S, Fine(S),
           Owed(S) = Owed(Inner), Goto(S)
    PROVE  T!Become(Append(T!Outer, Abs(S)))
<1>1. /\ Stack(seqs) /\ ~DoomedIn(seqs) /\ Inner = seqs[Len(seqs)] /\ Depth = Len(seqs)
      /\ T!Outer = SubSeq(BodiesOf(seqs), 1, Depth - 1)
  BY LastMapped DEF Inner, Depth
<1>2. seqs' = Append(SubSeq(seqs, 1, Len(seqs) - 1), S) /\ verdict' = "open"
  BY DEF Goto, Front
<1>3. /\ ~DoomedIn(seqs')
      /\ BodiesOf(seqs') = Append(SubSeq(BodiesOf(seqs), 1, Depth - 1), Abs(S))
  BY <1>1, <1>2, ReplaceInner
<1>4. (Core /\ verdict = "open" =>
            /\ AbsState = IF DoomedIn(seqs) THEN "rejected" ELSE "open"
            /\ AbsBodies = IF DoomedIn(seqs) THEN <<>> ELSE BodiesOf(seqs))'
  BY OpenMapped, PTL
<1>5. AbsState' = "open" /\ AbsBodies' = BodiesOf(seqs')
  BY <1>2, <1>3, <1>4
<1>6. QED
  BY <1>1, <1>3, <1>5 DEF T!Become

LEMMA CheckTyped ==
    ASSUME Core, verdict = "open", AbsState = "open", NEW ok, NEW S, Check(ok, S),
           ok => Fine(S) /\ Owed(S) = Owed(Inner), Core'
    PROVE  /\ ok => T!Become(Append(T!Outer, Abs(S)))
           /\ ~ok => T!Fail
BY GotoTyped, RejectTyped DEF Check

-----------------------------------------------------------------------------
(* The instructions are typed.                                             *)

LEMMA SameOwed ==
    ASSUME NEW S, NEW R, SameBody(S, R)
    PROVE  Owed(S) = Owed(R)
BY DEF SameBody, Owed

\* Operands are checked and replaced.
LEMMA TypedAs ==
    ASSUME Core, verdict = "open", AbsState = "open", Core',
           NEW ins \in Seq(Types), NEW outs \in Seq(Types),
           Check(CanPop(Inner, Reverse(ins)), Pushed(Popped(Inner, Len(ins)), outs))
    PROVE  T!Typed(ins, outs)
<1> DEFINE S == Pushed(Popped(Inner, Len(ins)), outs)
           P == Popped(Inner, Len(ins))
<1>1. Fine(Inner) /\ T!Last = Abs(Inner) /\ Len(ins) \in Nat
  BY InnerFine, LastMapped
<1>2. Fine(P) /\ SameBody(P, Inner)
  BY <1>1, PoppedFine
<1>3. Fine(S) /\ SameBody(S, Inner)
  BY <1>2, PushedFine DEF SameBody
<1>4. T!With(T!Without(T!Last, Len(ins)), outs) = Abs(S)
  BY <1>1, <1>2, AbsPopped, AbsPushed
<1>5. CanPop(Inner, Reverse(ins)) <=> T!Supplies(T!Last, ins)
  BY <1>1, PopsSupplied
<1>6. Owed(S) = Owed(Inner)
  BY <1>3, SameOwed
<1> HIDE DEF S, P
<1>7. Check(CanPop(Inner, Reverse(ins)), S)
  BY DEF S
<1>8. /\ CanPop(Inner, Reverse(ins)) => T!Become(Append(T!Outer, Abs(S)))
      /\ ~CanPop(Inner, Reverse(ins)) => T!Fail
  BY <1>3, <1>6, <1>7, CheckTyped
<1>9. QED
  BY <1>4, <1>5, <1>8 DEF T!Typed, T!Require

\* Control does not get further.
LEMMA DivergesAs ==
    ASSUME Core, verdict = "open", AbsState = "open", Core', NEW ok, Check(ok, Emptied(Inner))
    PROVE  /\ ok => T!Diverge(TRUE)
           /\ ~ok => T!Fail
<1>1. Fine(Inner) /\ T!Last = Abs(Inner)
  BY InnerFine, LastMapped
<1>2. Fine(Emptied(Inner)) /\ Owed(Emptied(Inner)) = Owed(Inner)
  BY <1>1, EmptiedFine, SameOwed
<1>3. [T!Last EXCEPT !.known = <<>>, !.open = TRUE] = Abs(Emptied(Inner))
  BY <1>1, AbsEmptied
<1>4. (ok => T!Become(Append(T!Outer, Abs(Emptied(Inner))))) /\ (~ok => T!Fail)
  BY <1>2, CheckTyped
<1>5. QED
  BY <1>3, <1>4 DEF T!Diverge, T!Require

LEMMA DivergeIf ==
    ASSUME NEW ok \in BOOLEAN, ok => T!Diverge(TRUE), ~ok => T!Fail
    PROVE  T!Diverge(ok)
BY DEF T!Diverge, T!Require

LEMMA OtherTyped ==
    ASSUME Core, verdict = "open", AbsState = "open", Core',
           NEW pops \in Seq(Types), NEW pushes \in Seq(Types), Other(pops, pushes)
    PROVE  T!Other(pops, pushes)
<1> DEFINE ins == Reverse(pops)
<1>1. /\ ins \in Seq(Types) /\ Len(ins) = Len(pops) /\ Reverse(ins) = pops
      /\ ins = [k \in 1 .. Len(pops) |-> pops[Len(pops) + 1 - k]]
  BY ReverseTypes
<1> HIDE DEF ins
<1>2. Check(CanPop(Inner, Reverse(ins)), Pushed(Popped(Inner, Len(ins)), pushes))
  BY <1>1 DEF Other
<1>3. T!Typed(ins, pushes)
  BY <1>1, <1>2, TypedAs
<1>4. QED
  BY <1>1, <1>3 DEF T!Other

\* The topmost operand.
LEMMA OnTop ==
    ASSUME NEW S, Fine(S)
    PROVE  /\ S.stack \in Seq(Types \cup {ANY}) /\ Len(S.stack) \in Nat
           /\ S.stack = <<>> <=> Len(S.stack) = 0
           /\ S.stack = <<>> => TopType(S) = ANY
           /\ S.stack # <<>> => /\ Len(S.stack) \in 1 .. Len(S.stack)
                              /\ TopType(S) = S.stack[Len(S.stack)]
                              /\ TopType(S) \in Types \cup {ANY}
           /\ \A t : CanPop(S, <<t>>) <=> IF S.stack = <<>> THEN S.polymorphic
                                        ELSE t = ANY \/ TopType(S) \in {t, ANY}
           /\ \A t \in Types : T!Supplies(Abs(S), <<t>>) <=> CanPop(S, <<t>>)
<1>1. S.stack \in Seq(Types \cup {ANY}) /\ Len(S.stack) \in Nat
  BY DEF Fine, Act
<1>2. S.stack = <<>> <=> Len(S.stack) = 0
  BY <1>1
<1>3. S.stack = <<>> => TopType(S) = ANY
  BY DEF TopType
<1>4. S.stack # <<>> => /\ Len(S.stack) \in 1 .. Len(S.stack)
                        /\ TopType(S) = S.stack[Len(S.stack)]
                        /\ TopType(S) \in Types \cup {ANY}
  BY <1>1, <1>2 DEF TopType, Last
<1>5. \A t : CanPop(S, <<t>>) <=> IF S.stack = <<>> THEN S.polymorphic
                                 ELSE t = ANY \/ TopType(S) \in {t, ANY}
  <2> SUFFICES ASSUME NEW t
               PROVE  CanPop(S, <<t>>) <=> IF S.stack = <<>> THEN S.polymorphic
                                           ELSE t = ANY \/ TopType(S) \in {t, ANY}
    OBVIOUS
  <2>1. 1 .. Len(<<t>>) = {1} /\ <<t>>[1] = t /\ Len(S.stack) + 1 - 1 = Len(S.stack)
    BY <1>1
  <2>2. CanPop(S, <<t>>) <=> IF Len(S.stack) < 1 THEN S.polymorphic
                             ELSE t = ANY \/ S.stack[Len(S.stack)] = t \/ S.stack[Len(S.stack)] = ANY
    BY <2>1 DEF CanPop
  <2>3. Len(S.stack) < 1 <=> S.stack = <<>>
    BY <1>1, <1>2
  <2>4. QED
    BY <1>4, <2>2, <2>3
<1>6. \A t \in Types : T!Supplies(Abs(S), <<t>>) <=> CanPop(S, <<t>>)
  <2> SUFFICES ASSUME NEW t \in Types PROVE T!Supplies(Abs(S), <<t>>) <=> CanPop(S, <<t>>)
    OBVIOUS
  <2>1. <<t>> \in Seq(Types) /\ Reverse(<<t>>) = <<t>>
    BY DEF Reverse
  <2>2. QED
    BY <2>1, PopsSupplied
<1>7. QED
  BY <1>1, <1>2, <1>3, <1>4, <1>5, <1>6

LEMMA DropTyped ==
    ASSUME Core, verdict = "open", AbsState = "open", Core', Drop
    PROVE  T!Drop
<1> DEFINE ok == CanPop(Inner, <<ANY>>)
           S == Popped(Inner, 1)
<1>1. Fine(Inner) /\ T!Last = Abs(Inner)
  BY InnerFine, LastMapped
<1>2. Fine(S) /\ Owed(S) = Owed(Inner) /\ T!Without(T!Last, 1) = Abs(S)
  BY <1>1, PoppedFine, SameOwed, AbsPopped
<1>3. ok <=> \E t \in Types : T!Supplies(T!Last, <<t>>)
  <2>1. I32 \in Types
    BY TypesAssumption
  <2>2. ok <=> (Inner.stack = <<>> => Inner.polymorphic)
    BY <1>1, OnTop
  <2>3. \A t \in Types : T!Supplies(T!Last, <<t>>)
            <=> IF Inner.stack = <<>> THEN Inner.polymorphic
                ELSE t = ANY \/ TopType(Inner) \in {t, ANY}
    BY <1>1, OnTop
  <2>4. Inner.stack # <<>> => TopType(Inner) \in Types \cup {ANY}
    BY <1>1, OnTop
  <2>5. QED
    BY <2>1, <2>2, <2>3, <2>4
<1> HIDE DEF ok, S
<1>4. Check(ok, S)
  BY DEF Drop, ok, S
<1>5. (ok => T!Become(Append(T!Outer, Abs(S)))) /\ (~ok => T!Fail)
  BY <1>2, <1>4, CheckTyped
<1>6. QED
  BY <1>2, <1>3, <1>5 DEF T!Drop

LEMMA RefIsNullTyped ==
    ASSUME Core, verdict = "open", AbsState = "open", Core', WellBehaved, RefIsNull
    PROVE  T!IsNull
<1> DEFINE ok == CanPop(Inner, <<ANY>>)
           P == Popped(Inner, 1)
           S == Pushed(P, <<I32>>)
<1>1. Fine(Inner) /\ T!Last = Abs(Inner) /\ <<I32>> \in Seq(Types)
  BY InnerFine, LastMapped, TypesAssumption
<1>2. Fine(P) /\ SameBody(P, Inner) /\ T!Without(T!Last, 1) = Abs(P)
  BY <1>1, PoppedFine, AbsPopped
<1>3. Fine(S) /\ Owed(S) = Owed(Inner) /\ T!With(T!Without(T!Last, 1), <<I32>>) = Abs(S)
  BY <1>1, <1>2, PushedFine, AbsPushed, SameOwed
<1>4. ok <=> \E t \in Refs : T!Supplies(T!Last, <<t>>)
  <2>1. Refs # {} /\ Refs \subseteq Types /\ TopType(Inner) \in Refs \cup {ANY}
    BY TypesAssumption DEF WellBehaved, RefIsNull
  <2>2. ok <=> (Inner.stack = <<>> => Inner.polymorphic)
    BY <1>1, OnTop
  <2>3. \A t \in Types : T!Supplies(T!Last, <<t>>)
            <=> IF Inner.stack = <<>> THEN Inner.polymorphic
                ELSE t = ANY \/ TopType(Inner) \in {t, ANY}
    BY <1>1, OnTop
  <2>4. QED
    BY <2>1, <2>2, <2>3
<1> HIDE DEF ok, S, P
<1>5. Check(ok, S)
  BY DEF RefIsNull, ok, S, P
<1>6. (ok => T!Become(Append(T!Outer, Abs(S)))) /\ (~ok => T!Fail)
  BY <1>3, <1>5, CheckTyped
<1>7. QED
  BY <1>3, <1>4, <1>6 DEF T!IsNull

\* Popping in two steps.
LEMMA PoppedTwice ==
    ASSUME NEW S, Fine(S)
    PROVE  Popped(Popped(S, 1), 2) = Popped(S, 3)
<1> DEFINE C == Popped(S, 1)
           D == Popped(C, 2)
           E == Popped(S, 3)
<1>1. /\ Fine(C) /\ SameBody(C, S) /\ C.polymorphic = S.polymorphic
      /\ Len(C.stack) = IF 1 < Len(S.stack) THEN Len(S.stack) - 1 ELSE 0
      /\ \A p \in 1 .. Len(C.stack) : C.stack[p] = S.stack[p]
  BY PoppedFine
<1> HIDE DEF C
<1>2. /\ Fine(D) /\ SameBody(D, C) /\ D.polymorphic = C.polymorphic
      /\ Len(D.stack) = IF 2 < Len(C.stack) THEN Len(C.stack) - 2 ELSE 0
      /\ \A p \in 1 .. Len(D.stack) : D.stack[p] = C.stack[p]
  BY <1>1, PoppedFine
<1>3. /\ Fine(E) /\ SameBody(E, S) /\ E.polymorphic = S.polymorphic
      /\ Len(E.stack) = IF 3 < Len(S.stack) THEN Len(S.stack) - 3 ELSE 0
      /\ \A p \in 1 .. Len(E.stack) : E.stack[p] = S.stack[p]
  BY PoppedFine
<1> HIDE DEF D, E
<1>4. /\ D \in Act /\ E \in Act /\ Len(S.stack) \in Nat /\ Len(C.stack) \in Nat
      /\ D.stack \in Seq(Types \cup {ANY}) /\ E.stack \in Seq(Types \cup {ANY})
  BY <1>1, <1>2, <1>3 DEF Fine, Act
<1>5. Len(D.stack) = Len(E.stack) /\ \A p \in 1 .. Len(D.stack) : p \in 1 .. Len(C.stack)
  BY <1>1, <1>2, <1>3, <1>4
<1>6. \A p \in 1 .. Len(D.stack) : D.stack[p] = E.stack[p]
  BY <1>1, <1>2, <1>3, <1>5
<1>7. D.stack = E.stack
  BY <1>4, <1>5, <1>6, SameSequence
<1>8. D = E
  BY <1>1, <1>2, <1>3, <1>4, <1>7 DEF Act, SameBody
<1>9. QED
  BY <1>8 DEF C, D, E

\* Two operands of the same type.
LEMMA PopsPair ==
    ASSUME NEW S, Fine(S), NEW u
    PROVE  LET m == Len(S.stack)
           IN  CanPop(S, <<u, u>>) <=>
                   /\ IF m < 1 THEN S.polymorphic ELSE u = ANY \/ S.stack[m] \in {u, ANY}
                   /\ IF m < 2 THEN S.polymorphic ELSE u = ANY \/ S.stack[m - 1] \in {u, ANY}
<1> DEFINE m == Len(S.stack)
           ts == <<u, u>>
           Pops(k) == LET p == m + 1 - k
                      IN  IF p < 1 THEN S.polymorphic
                          ELSE ts[k] = ANY \/ S.stack[p] = ts[k] \/ S.stack[p] = ANY
<1>1. m \in Nat
  BY DEF Fine, Act
<1>2. 1 .. Len(ts) = {1, 2} /\ ts[1] = u /\ ts[2] = u
  OBVIOUS
<1>3. CanPop(S, ts) <=> \A k \in 1 .. Len(ts) : Pops(k)
  BY DEF CanPop
<1>4. m + 1 - 1 = m /\ m + 1 - 2 = m - 1 /\ (m - 1 < 1 <=> m < 2)
  BY <1>1
<1>5. CanPop(S, ts) <=> Pops(1) /\ Pops(2)
  <2> HIDE DEF Pops, ts
  <2>1. QED
    BY <1>2, <1>3
<1>6. QED
  BY <1>2, <1>4, <1>5

\* Two operands of the same type under a condition.
LEMMA PopsTriple ==
    ASSUME NEW S, Fine(S), NEW u \in Types
    PROVE  T!Supplies(Abs(S), <<u, u, I32>>)
               <=> CanPop(S, <<I32>>) /\ CanPop(Popped(S, 1), <<u, u>>)
<1> DEFINE C == Popped(S, 1)
           n == Len(S.stack)
           ts == <<I32, u, u>>
           Pops(k) == LET p == n + 1 - k
                      IN  IF p < 1 THEN S.polymorphic
                          ELSE ts[k] = ANY \/ S.stack[p] = ts[k] \/ S.stack[p] = ANY
<1>1. /\ Fine(C) /\ C.polymorphic = S.polymorphic /\ n \in Nat /\ Len(C.stack) \in Nat
      /\ Len(C.stack) = IF 1 < n THEN n - 1 ELSE 0
      /\ \A p \in 1 .. Len(C.stack) : C.stack[p] = S.stack[p]
  BY PoppedFine DEF Fine, Act
<1> HIDE DEF C
<1>2. /\ <<u, u, I32>> \in Seq(Types) /\ 1 .. Len(ts) = {1, 2, 3}
      /\ ts[1] = I32 /\ ts[2] = u /\ ts[3] = u /\ I32 # ANY /\ u # ANY
  BY TypesAssumption
<1>3. Reverse(<<u, u, I32>>) = ts
  BY <1>2 DEF Reverse
<1>4. T!Supplies(Abs(S), <<u, u, I32>>) <=> \A k \in 1 .. Len(ts) : Pops(k)
  <2>1. T!Supplies(Abs(S), <<u, u, I32>>) <=> CanPop(S, ts)
    BY <1>2, <1>3, PopsSupplied
  <2>2. CanPop(S, ts) <=> \A k \in 1 .. Len(ts) : Pops(k)
    BY DEF CanPop
  <2>3. QED
    BY <2>1, <2>2
<1>5. T!Supplies(Abs(S), <<u, u, I32>>) <=> Pops(1) /\ Pops(2) /\ Pops(3)
  <2> HIDE DEF Pops, ts
  <2>1. QED
    BY <1>2, <1>4
<1>6. Pops(1) <=> CanPop(S, <<I32>>)
  <2>1. 1 .. Len(<<I32>>) = {1} /\ <<I32>>[1] = I32
    OBVIOUS
  <2>2. QED
    BY <1>2, <2>1 DEF CanPop
<1>7. CanPop(C, <<u, u>>) <=>
          /\ IF Len(C.stack) < 1 THEN C.polymorphic ELSE C.stack[Len(C.stack)] \in {u, ANY}
          /\ IF Len(C.stack) < 2 THEN C.polymorphic ELSE C.stack[Len(C.stack) - 1] \in {u, ANY}
  BY <1>1, <1>2, PopsPair
<1>8. /\ n + 1 - 2 = n - 1 /\ (n - 1 < 1 <=> Len(C.stack) < 1)
      /\ n + 1 - 3 = n - 2 /\ (n - 2 < 1 <=> Len(C.stack) < 2)
      /\ Len(C.stack) >= 1 => Len(C.stack) = n - 1 /\ Len(C.stack) \in 1 .. Len(C.stack)
      /\ Len(C.stack) >= 2 => Len(C.stack) - 1 = n - 2 /\ Len(C.stack) - 1 \in 1 .. Len(C.stack)
  BY <1>1
<1>9. Pops(2) <=> IF Len(C.stack) < 1 THEN C.polymorphic ELSE C.stack[Len(C.stack)] \in {u, ANY}
  <2>1. CASE Len(C.stack) < 1
    BY <1>1, <1>8, <2>1
  <2>2. CASE Len(C.stack) >= 1
    BY <1>1, <1>2, <1>8, <2>2
  <2>3. QED
    BY <1>1, <2>1, <2>2
<1>10. Pops(3) <=> IF Len(C.stack) < 2 THEN C.polymorphic ELSE C.stack[Len(C.stack) - 1] \in {u, ANY}
  <2>1. CASE Len(C.stack) < 2
    BY <1>1, <1>8, <2>1
  <2>2. CASE Len(C.stack) >= 2
    BY <1>1, <1>2, <1>8, <2>2
  <2>3. QED
    BY <1>1, <2>1, <2>2
<1> HIDE DEF Pops
<1>11. QED
  BY <1>5, <1>6, <1>7, <1>9, <1>10 DEF C

LEMMA SelectTyped ==
    ASSUME Core, verdict = "open", AbsState = "open", Core', WellBehaved, Select
    PROVE  T!Select
<1> DEFINE C == Popped(Inner, 1)
           D == Popped(C, 2)
           t == TopType(C)
           m == Len(C.stack)
           S == Pushed(D, <<t>>)
           cond == CanPop(Inner, <<I32>>)
           ok == /\ cond /\ (C.stack # <<>> \/ C.polymorphic)
                 /\ t \notin Refs /\ CanPop(C, <<t, t>>)
           Fits(u) == T!Supplies(T!Last, <<u, u, I32>>)
           fitting == {u \in Types \ Refs : Fits(u)}
<1>1. Fine(Inner) /\ T!Last = Abs(Inner) /\ ANY \notin Types /\ Refs \subseteq Types
  BY InnerFine, LastMapped, TypesAssumption
<1>2. Fine(C) /\ SameBody(C, Inner)
  BY <1>1, PoppedFine
<1>3. D = Popped(Inner, 3) /\ T!With(T!Without(T!Last, 3), <<t>>) = Abs(S)
  <2>1. D = Popped(Inner, 3)
    BY <1>1, PoppedTwice
  <2>2. T!Without(T!Last, 3) = Abs(D) /\ Fine(D)
    <3>1. Fine(Popped(Inner, 3)) /\ T!Without(Abs(Inner), 3) = Abs(Popped(Inner, 3))
      BY <1>1, PoppedFine, AbsPopped
    <3>2. QED
      BY <1>1, <2>1, <3>1
  <2> HIDE DEF D, t
  <2>3. QED
    BY <2>1, <2>2, AbsPushed
<1>4. ok => Fine(S) /\ Owed(S) = Owed(Inner)
  BY <1>1, SelectFine, SameOwed
<1>5. Check(ok, S)
  BY DEF Select
<1>6. \A u \in Types : Fits(u) <=> cond /\ CanPop(C, <<u, u>>)
  BY <1>1, PopsTriple
<1>7. /\ m \in Nat /\ (C.stack = <<>> <=> m = 0) /\ (m = 0 => t = ANY)
      /\ m # 0 => m \in 1 .. m /\ t = C.stack[m] /\ t \in Types \cup {ANY}
  BY <1>2, OnTop
<1>8. \A u : CanPop(C, <<u, u>>) <=>
          /\ IF m < 1 THEN C.polymorphic ELSE u = ANY \/ C.stack[m] \in {u, ANY}
          /\ IF m < 2 THEN C.polymorphic ELSE u = ANY \/ C.stack[m - 1] \in {u, ANY}
  BY <1>2, PopsPair
<1>9. m # 0 /\ t = ANY => m = 1 /\ C.polymorphic
  BY <1>2, <1>7 DEF Fine
<1> HIDE DEF S, D, cond
<1>10. (ok => T!Become(Append(T!Outer, Abs(S)))) /\ (~ok => T!Fail)
  <2> HIDE DEF ok
  <2>1. QED
    BY <1>4, <1>5, CheckTyped
<1>11. CASE t = ANY
  <2>1. \A u : CanPop(C, <<u, u>>) <=> C.polymorphic
    <3> SUFFICES ASSUME NEW u PROVE CanPop(C, <<u, u>>) <=> C.polymorphic
      OBVIOUS
    <3>1. m = 0 \/ m = 1
      BY <1>7, <1>9, <1>11
    <3> HIDE DEF C, t, m
    <3>2. CASE m = 0
      BY <1>8, <3>2
    <3>3. CASE m = 1
      BY <1>7, <1>8, <1>9, <1>11, <3>3
    <3>4. QED
      BY <3>1, <3>2, <3>3
  <2>2. ok <=> cond /\ C.polymorphic
    BY <1>1, <1>7, <1>9, <1>11, <2>1
  <2> HIDE DEF C, t, m
  <2>3. fitting = IF ok THEN Types \ Refs ELSE {}
    <3> HIDE DEF Fits, ok
    <3>1. \A u \in Types : Fits(u) <=> ok
      BY <1>6, <2>1, <2>2
    <3>2. QED
      BY <3>1
  <2>4. PICK u, v \in Types \ Refs : u # v
    BY DEF WellBehaved
  <2> HIDE DEF Fits, ok, fitting
  <2>5. CASE ok
    <3>1. fitting # {} /\ \E x, y \in fitting : x # y
      BY <2>3, <2>4, <2>5
    <3>2. T!Become(Append(T!Outer, T!With(T!Without(T!Last, 3), <<ANY>>)))
      BY <1>3, <1>10, <1>11, <2>5
    <3>3. QED
      BY <3>1, <3>2 DEF T!Select, fitting, Fits
  <2>6. CASE ~ok
    <3>1. fitting = {}
      BY <2>3, <2>6
    <3>2. QED
      BY <1>10, <2>6, <3>1 DEF T!Select, fitting, Fits
  <2>7. QED
    BY <2>5, <2>6
<1>12. CASE t \in Types
  <2>1. m # 0 /\ C.stack[m] = t /\ t # ANY /\ m >= 1
    BY <1>1, <1>7, <1>12
  <2>2. \A u \in Types : CanPop(C, <<u, u>>) => u = t
    BY <1>1, <1>8, <2>1
  <2>3. ok <=> t \notin Refs /\ Fits(t)
    BY <1>6, <1>7, <1>12, <2>1
  <2> HIDE DEF C, t, m
  <2>4. fitting = IF ok THEN {t} ELSE {}
    <3> HIDE DEF Fits, ok
    <3>1. QED
      BY <1>6, <1>12, <2>2, <2>3
  <2> HIDE DEF Fits, ok, fitting
  <2>5. CASE ok
    <3>1. fitting = {t}
      BY <2>4, <2>5
    <3>2. Len(<<t, t, I32>>) = 3 /\ T!Supplies(T!Last, <<t, t, I32>>)
      BY <2>3, <2>5 DEF Fits
    <3>3. T!Typed(<<t, t, I32>>, <<t>>)
      BY <1>3, <1>10, <2>5, <3>2 DEF T!Typed, T!Require
    <3>4. QED
      BY <3>1, <3>3 DEF T!Select, fitting, Fits
  <2>6. CASE ~ok
    <3>1. fitting = {}
      BY <2>4, <2>6
    <3>2. QED
      BY <1>10, <2>6, <3>1 DEF T!Select, fitting, Fits
  <2>7. QED
    BY <2>5, <2>6
<1>13. QED
  BY <1>7, <1>11, <1>12

\* A label index names the same body.
LEMMA LabelMapped ==
    ASSUME Core, verdict = "open", AbsState = "open", WellBehaved, NEW l \in Nat, Named(l)
    PROVE  /\ T!Encloses(l) <=> HasLabel(l)
           /\ HasLabel(l) => LabelType(l) = T!LabelOf(l) /\ LabelType(l) \in Seq(Types)
<1>1. /\ Len(AbsBodies) = Depth /\ Len(labels) = Depth /\ Depth \in Nat \ {0}
      /\ \A k \in 1 .. Depth : /\ AbsBodies[k].kind = seqs[k].kind /\ AbsBodies[k].bt = seqs[k].bt
                              /\ labels[k] = LabelOf(seqs[k])
  BY InnerFine, LastMapped DEF Core
<1>2. T!Encloses(l) <=> l < Len(labels)
  BY <1>1 DEF T!Encloses
<1>3. HasLabel(l) <=> l < Len(labels)
  BY DEF HasLabel, Named, WellBehaved
<1>4. ASSUME l < Len(labels) PROVE LabelType(l) = T!LabelOf(l)
  <2>1. Depth - l \in 1 .. Depth
    BY <1>1, <1>4
  <2>2. LabelType(l) = LabelOf(seqs[Depth - l])
    BY <1>1, <1>4, <2>1 DEF LabelType
  <2>3. T!LabelOf(l) = LabelOf(seqs[Depth - l])
    BY <1>1, <2>1 DEF T!LabelOf, T!BodyOf, T!Label, LabelOf
  <2>4. QED
    BY <2>2, <2>3
<1>5. QED
  BY <1>2, <1>3, <1>4, LabelTyped

LEMMA BrTyped ==
    ASSUME Core, verdict = "open", AbsState = "open", Core', WellBehaved, NEW l \in Nat, Br(l)
    PROVE  T!Branch(l)
<1> DEFINE ok == HasLabel(l) /\ CanPop(Inner, Reverse(LabelType(l)))
<1>1. Fine(Inner) /\ T!Last = Abs(Inner)
  BY InnerFine, LastMapped
<1>2. Named(l) /\ Check(ok, Emptied(Inner))
  BY DEF Br
<1>3. ok \in BOOLEAN /\ (ok <=> T!Encloses(l) /\ T!Supplies(T!Last, T!LabelOf(l)))
  <2>1. ok <=> T!Encloses(l) /\ T!Supplies(T!Last, T!LabelOf(l))
    BY <1>1, <1>2, LabelMapped, PopsSupplied
  <2>2. QED
    BY <2>1
<1> HIDE DEF ok
<1>4. (ok => T!Diverge(TRUE)) /\ (~ok => T!Fail)
  BY <1>2, <1>3, DivergesAs
<1>5. T!Diverge(T!Encloses(l) /\ T!Supplies(T!Last, T!LabelOf(l)))
  BY <1>3, <1>4, DivergeIf
<1>6. QED
  BY <1>5 DEF T!Branch

LEMMA UnderCondition ==
    ASSUME NEW ts \in Seq(Types)
    PROVE  /\ ts \o <<I32>> \in Seq(Types)
           /\ Reverse(ts \o <<I32>>) = <<I32>> \o Reverse(ts)
           /\ Len(<<I32>> \o Reverse(ts)) = Len(ts \o <<I32>>)
<1> DEFINE n == Len(ts)
           us == ts \o <<I32>>
           vs == Reverse(us)
           ws == <<I32>> \o Reverse(ts)
<1>1. n \in Nat /\ I32 \in Types /\ <<I32>> \in Seq(Types)
  BY TypesAssumption
<1>2. /\ us \in Seq(Types) /\ Len(us) = n + 1 /\ us[n + 1] = I32
      /\ \A k \in 1 .. n : us[k] = ts[k]
  BY <1>1
<1> HIDE DEF us
<1>3. /\ vs \in Seq(Types) /\ Len(vs) = n + 1
      /\ \A k \in 1 .. n + 1 : vs[k] = us[n + 2 - k]
  <2>1. \A k \in 1 .. n + 1 : Len(us) + 1 - k = n + 2 - k
    BY <1>1, <1>2
  <2>2. QED
    BY <1>2, <2>1, ReverseTypes, SMTT(40)
<1> HIDE DEF vs
<1>4. /\ Reverse(ts) \in Seq(Types) /\ Len(Reverse(ts)) = n
      /\ \A k \in 1 .. n : Reverse(ts)[k] = ts[n + 1 - k]
  BY ReverseTypes
<1>5. /\ ws \in Seq(Types) /\ Len(ws) = n + 1 /\ ws[1] = I32
      /\ \A k \in 2 .. n + 1 : ws[k] = Reverse(ts)[k - 1]
  BY <1>1, <1>4
<1> HIDE DEF ws
<1>6. \A k \in 1 .. n + 1 : vs[k] = ws[k]
  <2> SUFFICES ASSUME NEW k \in 1 .. n + 1 PROVE vs[k] = ws[k]
    OBVIOUS
  <2>1. CASE k = 1
    <3>1. n + 2 - 1 = n + 1 /\ 1 \in 1 .. n + 1
      BY <1>1
    <3>2. QED
      BY <1>2, <1>3, <1>5, <2>1, <3>1
  <2>2. CASE k # 1
    <3>1. /\ k \in 2 .. n + 1 /\ k - 1 \in 1 .. n /\ n + 2 - k \in 1 .. n
          /\ n + 1 - (k - 1) = n + 2 - k
      BY <1>1, <2>2
    <3> HIDE DEF n
    <3>2. QED
      BY <1>2, <1>3, <1>4, <1>5, <3>1, ZenonT(40)
  <2>3. QED
    BY <2>1, <2>2
<1>7. vs = ws
  BY <1>3, <1>5, <1>6, SameSequence
<1>8. QED
  BY <1>2, <1>5, <1>7 DEF us, vs, ws

LEMMA BrIfTyped ==
    ASSUME Core, verdict = "open", AbsState = "open", Core', WellBehaved, NEW l \in Nat, BrIf(l)
    PROVE  T!BranchIf(l)
<1> DEFINE ts == LabelType(l)
           pops == <<I32>> \o Reverse(ts)
           S == Pushed(Popped(Inner, Len(pops)), ts)
<1>1. Named(l) /\ Check(HasLabel(l) /\ CanPop(Inner, pops), S)
  BY DEF BrIf
<1>2. CASE HasLabel(l)
  <2>1. ts \in Seq(Types) /\ ts = T!LabelOf(l) /\ T!Encloses(l)
    BY <1>1, <1>2, LabelMapped
  <2> DEFINE ins == ts \o <<I32>>
  <2> HIDE DEF ts
  <2>2. ins \in Seq(Types) /\ Reverse(ins) = pops /\ Len(ins) = Len(pops)
    BY <2>1, UnderCondition
  <2> HIDE DEF ins, pops
  <2>3. Check(CanPop(Inner, Reverse(ins)), Pushed(Popped(Inner, Len(ins)), ts))
    BY <1>1, <1>2, <2>2 DEF Check
  <2>4. T!Typed(ins, ts)
    BY <2>1, <2>2, <2>3, TypedAs
  <2>5. QED
    BY <2>1, <2>4 DEF T!BranchIf, ins
<1>3. CASE ~HasLabel(l)
  <2>1. Reject /\ ~T!Encloses(l)
    BY <1>1, <1>3, LabelMapped DEF Check
  <2>2. QED
    BY <2>1, RejectTyped DEF T!BranchIf
<1>4. QED
  BY <1>2, <1>3

\* Without unequal labels, checking the operands for the first one is enough.
LEMMA BrTableTyped ==
    ASSUME Core, verdict = "open", AbsState = "open", Core', WellBehaved,
           NEW ls \in Seq(Nat), NEW d \in Nat, BrTable(ls, d)
    PROVE  T!BranchTable({ls[k] : k \in 1 .. Len(ls)} \cup {d})
<1> DEFINE L == {ls[k] : k \in 1 .. Len(ls)} \cup {d}
           all == Append(ls, d)
           Checked(k) ==
               /\ HasLabel(all[k])
               /\ Len(LabelType(all[k])) = Len(LabelType(d))
               /\ CanPop(IF k = 1 THEN Inner ELSE Emptied(Inner),
                         <<I32>> \o Reverse(LabelType(all[k])))
           ok == HasLabel(d) /\ \A k \in 1 .. Len(all) : Checked(k)
           fits == /\ \A l \in L : T!Encloses(l)
                   /\ \A l, m \in L : Len(T!LabelOf(l)) = Len(T!LabelOf(m))
                   /\ \A l \in L : T!Supplies(T!Last, T!LabelOf(l) \o <<I32>>)
<1>1. Fine(Inner) /\ T!Last = Abs(Inner)
  BY InnerFine, LastMapped
<1>2. Check(ok, Emptied(Inner))
  BY DEF BrTable
<1>3. /\ \A l \in L : l \in Nat /\ Named(l) /\ LabelType(l) = LabelType(d)
      /\ d \in L
  <2>1. ToSet(ls) = {ls[k] : k \in 1 .. Len(ls)} /\ \A k \in 1 .. Len(ls) : ls[k] \in Nat
    BY DEF ToSet
  <2>2. QED
    BY <2>1 DEF BrTable, WellBehaved
<1>4. /\ Len(all) \in Nat /\ 1 \in 1 .. Len(all) /\ \A k \in 1 .. Len(all) : all[k] \in L
      /\ \A l \in L : \E k \in 1 .. Len(all) : all[k] = l
  <2>1. /\ Len(all) = Len(ls) + 1 /\ Len(ls) \in Nat /\ all[Len(ls) + 1] = d
        /\ \A k \in 1 .. Len(ls) : all[k] = ls[k]
    OBVIOUS
  <2>2. /\ \A k \in 1 .. Len(ls) + 1 : k \in 1 .. Len(ls) \/ k = Len(ls) + 1
        /\ \A k \in 1 .. Len(ls) : k \in 1 .. Len(ls) + 1
        /\ Len(ls) + 1 \in 1 .. Len(ls) + 1 /\ 1 \in 1 .. Len(ls) + 1
    BY <2>1
  <2> HIDE DEF all
  <2>3. QED
    BY <2>1, <2>2
<1> HIDE DEF all, L
<1>5. \A ts \in Seq(Types) : CanPop(Emptied(Inner), ts)
  <2>1. Emptied(Inner).stack = <<>> /\ Emptied(Inner).polymorphic
    BY <1>1 DEF Emptied, Fine, Act
  <2>2. \A ts \in Seq(Types) : \A k \in 1 .. Len(ts) : Len(<<>>) + 1 - k < 1
    OBVIOUS
  <2>3. QED
    BY <2>1, <2>2 DEF CanPop
<1>6. \A l \in L : T!Encloses(l) <=> HasLabel(l)
  BY <1>3, LabelMapped
<1>7. CASE \E l \in L : ~HasLabel(l)
  <2>1. ~ok /\ ~fits
    BY <1>4, <1>6, <1>7
  <2>2. T!Fail
    <3>1. ok \in BOOLEAN
      OBVIOUS
    <3> HIDE DEF ok
    <3>2. QED
      BY <1>2, <2>1, <3>1, DivergesAs
  <2>3. T!Diverge(fits)
    BY <2>1, <2>2 DEF T!Diverge, T!Require
  <2>4. QED
    BY <2>3 DEF T!BranchTable, L
<1>8. CASE \A l \in L : HasLabel(l)
  <2> DEFINE ts == LabelType(d)
  <2>1. ts \in Seq(Types) /\ \A l \in L : T!LabelOf(l) = ts /\ LabelType(l) = ts
    BY <1>3, <1>8, LabelMapped
  <2> HIDE DEF ts
  <2>2. /\ ts \o <<I32>> \in Seq(Types) /\ Reverse(ts \o <<I32>>) = <<I32>> \o Reverse(ts)
        /\ <<I32>> \o Reverse(ts) \in Seq(Types)
    <3>1. ts \o <<I32>> \in Seq(Types) /\ Reverse(ts \o <<I32>>) = <<I32>> \o Reverse(ts)
      BY <2>1, UnderCondition
    <3>2. QED
      BY <3>1, ReverseTypes
  <2>3. \A k \in 1 .. Len(all) :
            Checked(k) <=> (k = 1 => CanPop(Inner, <<I32>> \o Reverse(ts)))
    BY <1>4, <1>5, <1>8, <2>1, <2>2 DEF ts
  <2>4. ok <=> CanPop(Inner, <<I32>> \o Reverse(ts))
    <3> HIDE DEF Checked
    <3>1. QED
      BY <1>3, <1>4, <1>8, <2>3
  <2>5. fits <=> T!Supplies(T!Last, ts \o <<I32>>)
    BY <1>3, <1>6, <1>8, <2>1
  <2>6. ok <=> fits
    BY <1>1, <2>2, <2>4, <2>5, PopsSupplied
  <2>7. T!Diverge(fits)
    <3> HIDE DEF ok
    <3>1. fits \in BOOLEAN
      OBVIOUS
    <3> HIDE DEF fits
    <3>2. QED
      BY <1>2, <2>6, <3>1, DivergesAs, DivergeIf
  <2>8. QED
    BY <2>7 DEF T!BranchTable, L
<1>9. QED
  BY <1>7, <1>8

LEMMA ReturnTyped ==
    ASSUME Core, verdict = "open", AbsState = "open", Core', Return
    PROVE  T!Return
<1> DEFINE ok == CanPop(Inner, Reverse(ret))
<1>1. Fine(Inner) /\ T!Last = Abs(Inner) /\ ret \in Seq(Types)
  BY InnerFine, LastMapped DEF Core
<1>2. AbsBodies[1].bt.rt2 = ret
  <2>1. 1 \in 1 .. Depth
    BY InnerFine
  <2>2. labels[1] = LabelOf(seqs[1]) /\ seqs[1].kind = "func" /\ ret = labels[1]
    BY <2>1 DEF Core
  <2>3. AbsBodies[1].bt = seqs[1].bt
    BY <2>1, LastMapped
  <2>4. QED
    BY <2>2, <2>3 DEF LabelOf
<1>3. ok \in BOOLEAN /\ (ok <=> T!Supplies(T!Last, AbsBodies[1].bt.rt2))
  <2>1. ok \in BOOLEAN
    BY DEF CanPop
  <2>2. QED
    BY <1>1, <1>2, <2>1, PopsSupplied
<1>4. Check(ok, Emptied(Inner))
  BY DEF Return
<1> HIDE DEF ok
<1>5. (ok => T!Diverge(TRUE)) /\ (~ok => T!Fail)
  BY <1>3, <1>4, DivergesAs
<1>6. QED
  BY <1>3, <1>5 DEF T!Return, T!Diverge, T!Require

\* A block takes its operands, or the typing fails although the validator has not
\* looked at them yet.
LEMMA EnterMapped ==
    ASSUME Core, verdict = "open", Core', NEW kind \in {"block", "loop", "then"},
           NEW bt \in BlockType, NEW label, Enter(kind, bt, label)
    PROVE  /\ DoomedIn(seqs) => DoomedIn(seqs')
           /\ AbsState = "open" => T!Open(kind, bt)
<1> DEFINE S == Activation(kind, bt)
           n == Len(seqs)
           ins == bt.rt1 \o (IF kind = "then" THEN <<I32>> ELSE <<>>)
<1>1. /\ Stack(seqs) /\ Inner = seqs[n] /\ Fine(Inner) /\ Depth = n
      /\ Fine(S) /\ S.kind = kind /\ S.bt = bt
  <2>1. kind \in Kinds
    BY DEF Kinds
  <2>2. QED
    BY <2>1, OpenMapped, InnerFine, ActivationFine DEF Inner, Depth
<1>2. ins = Owed(S)
  BY <1>1 DEF Owed
<1>3. T!NewBody(kind, bt) = Abs(S)
  BY DEF T!NewBody, Abs, Activation
<1>4. seqs' = Append(seqs, S) /\ verdict' = "open"
  BY DEF Enter
<1> HIDE DEF S, ins
<1>5. /\ DoomedIn(seqs') <=> DoomedIn(seqs) \/ ~CanPop(Inner, Reverse(ins))
      /\ BodiesOf(seqs') = Append(Append(SubSeq(BodiesOf(seqs), 1, n - 1),
                                         Abs(Popped(Inner, Len(ins)))), Abs(S))
  BY <1>1, <1>2, <1>4, AddInner
<1>6. AbsState = "open" => T!Open(kind, bt)
  <2> SUFFICES ASSUME AbsState = "open" PROVE T!Open(kind, bt)
    OBVIOUS
  <2>1. /\ ~DoomedIn(seqs) /\ T!Last = Abs(Inner)
        /\ T!Outer = SubSeq(BodiesOf(seqs), 1, n - 1)
    BY <1>1, LastMapped
  <2>2. ins \in Seq(Types) /\ Len(ins) \in Nat
    BY <1>1, <1>2, OwedTyped
  <2>3. DoomedIn(seqs') <=> ~T!Supplies(T!Last, ins)
    BY <1>1, <1>5, <2>1, <2>2, PopsSupplied
  <2>4. BodiesOf(seqs') = Append(Append(T!Outer, T!Without(T!Last, Len(ins))), T!NewBody(kind, bt))
    BY <1>1, <1>3, <1>5, <2>1, <2>2, AbsPopped
  <2>5. (Core /\ verdict = "open" =>
              /\ AbsState = IF DoomedIn(seqs) THEN "rejected" ELSE "open"
              /\ AbsBodies = IF DoomedIn(seqs) THEN <<>> ELSE BodiesOf(seqs))'
    BY OpenMapped, PTL
  <2>6. CASE T!Supplies(T!Last, ins)
    <3>1. AbsState' = "open" /\ AbsBodies' = BodiesOf(seqs')
      BY <1>4, <2>3, <2>5, <2>6
    <3>2. QED
      BY <2>4, <2>6, <3>1 DEF T!Open, T!Become, ins
  <2>7. CASE ~T!Supplies(T!Last, ins)
    <3>1. AbsState' = "rejected" /\ AbsBodies' = <<>>
      BY <1>4, <2>3, <2>5, <2>7
    <3>2. QED
      BY <2>7, <3>1 DEF T!Open, T!Fail, ins
  <2>8. QED
    BY <2>6, <2>7
<1>7. QED
  BY <1>5, <1>6

\* One instruction.
LEMMA InstructionTyped ==
    ASSUME Core, verdict = "open", AbsState = "open", Core', WellBehaved,
           NEW i \in Instrs, Instruction(i)
    PROVE  T!Step(i)
<1>1. CASE i.op = "other" /\ Other(i.pops, i.pushes)
  BY <1>1, InstrParts, OtherTyped DEF T!Step
<1>2. CASE i.op = "invalid" /\ Invalid
  BY <1>2, RejectTyped DEF Invalid, T!Step
<1>3. CASE i.op = "unreachable" /\ Unreachable
  <2>1. Check(TRUE, Emptied(Inner))
    BY <1>3 DEF Unreachable, Check
  <2>2. T!Diverge(TRUE)
    BY <2>1, DivergesAs
  <2>3. QED
    BY <1>3, <2>2 DEF T!Step
<1>4. CASE i.op = "nop" /\ Nop
  <2>1. AbsState' = AbsState /\ AbsBodies' = AbsBodies
    BY <1>4 DEF Nop, AbsState, AbsBodies, AbsBody, Doomed, Pending, Depth
  <2>2. QED
    BY <1>4, <2>1 DEF T!Step
<1>5. CASE i.op = "drop" /\ Drop
  BY <1>5, DropTyped DEF T!Step
<1>6. CASE i.op = "select" /\ Select
  BY <1>6, SelectTyped DEF T!Step
<1>7. CASE i.op = "ref_is_null" /\ RefIsNull
  BY <1>7, RefIsNullTyped DEF T!Step
<1>8. CASE i.op = "br" /\ Br(i.l)
  BY <1>8, InstrParts, BrTyped DEF T!Step
<1>9. CASE i.op = "br_if" /\ BrIf(i.l)
  BY <1>9, InstrParts, BrIfTyped DEF T!Step
<1>10. CASE i.op = "br_table" /\ BrTable(i.ls, i.d)
  <2>1. i.ls \in Seq(Nat) /\ i.d \in Nat
    BY <1>10, InstrParts
  <2>2. QED
    BY <1>10, <2>1, BrTableTyped DEF T!Step
<1>11. CASE i.op = "return" /\ Return
  BY <1>11, ReturnTyped DEF T!Step
<1>12. CASE i.op = "block" /\ Block(i.bt)
  BY <1>12, InstrParts, EnterMapped DEF Block, T!Step
<1>13. CASE i.op = "loop" /\ Loop(i.bt)
  BY <1>13, InstrParts, EnterMapped DEF Loop, T!Step
<1>14. CASE i.op = "if" /\ If(i.bt)
  BY <1>14, InstrParts, EnterMapped DEF If, T!Step
<1>15. QED
  BY <1>1, <1>2, <1>3, <1>4, <1>5, <1>6, <1>7, <1>8, <1>9, <1>10, <1>11, <1>12, <1>13, <1>14
     DEF Instruction

-----------------------------------------------------------------------------
(* The ends of sequences are typed.                                        *)

\* OP_IF pops the parameters of the block in the order they are pushed: there is
\* at most one.
ShortIfs == \A k \in 1 .. Len(seqs) : seqs[k].kind \in {"then", "else"} => Len(seqs[k].bt.rt1) <= 1

LEMMA CompleteMapped ==
    ASSUME Core, verdict = "open", AbsState = "open"
    PROVE  Complete <=> T!Exactly(T!Last, T!Last.bt.rt2)
<1> DEFINE n == Len(Inner.bt.rt2)
<1>1. Fine(Inner) /\ T!Last = Abs(Inner) /\ Inner.bt.rt2 \in Seq(Types) /\ n \in Nat
  BY InnerFine, LastMapped
<1>2. T!Last.bt.rt2 = Inner.bt.rt2 /\ T!Last.known = Inner.stack
  BY <1>1 DEF Abs
<1>3. Popped(Inner, n).stack = <<>> <=> Len(Inner.stack) <= n
  <2>1. /\ Popped(Inner, n).stack \in Seq(Types \cup {ANY}) /\ Len(Inner.stack) \in Nat
        /\ Len(Popped(Inner, n).stack) = IF n < Len(Inner.stack) THEN Len(Inner.stack) - n ELSE 0
    BY <1>1, PoppedFine DEF Fine, Act
  <2> HIDE DEF n
  <2>2. Popped(Inner, n).stack = <<>> <=> Len(Popped(Inner, n).stack) = 0
    BY <2>1
  <2>3. QED
    BY <1>1, <2>1, <2>2
<1>4. CanPop(Inner, Reverse(Inner.bt.rt2)) <=> T!Supplies(T!Last, Inner.bt.rt2)
  BY <1>1, PopsSupplied
<1>5. QED
  BY <1>2, <1>3, <1>4 DEF Complete, T!Exactly

LEMMA EndThenTyped ==
    ASSUME Core, verdict = "open", AbsState = "open", Core', EndThen
    PROVE  T!Else
<1> DEFINE S == Activation("else", Inner.bt)
<1>1. T!Last = Abs(Inner) /\ Inner.bt \in BlockType /\ Inner.kind = "then"
  BY InnerFine, LastMapped DEF EndThen
<1>2. Fine(S) /\ S.kind = "else" /\ S.bt = Inner.bt
  BY <1>1, ActivationFine DEF Kinds
<1>3. T!Last.kind = "then" /\ T!NewBody("else", T!Last.bt) = Abs(S)
  BY <1>1 DEF T!NewBody, Abs, Activation
<1>4. Owed(S) = Owed(Inner)
  BY <1>1, <1>2 DEF Owed
<1>5. Check(Complete, S)
  BY DEF EndThen
<1> HIDE DEF S
<1>6. (Complete => T!Become(Append(T!Outer, Abs(S)))) /\ (~Complete => T!Fail)
  BY <1>2, <1>4, <1>5, CheckTyped
<1>7. QED
  BY <1>3, <1>6, CompleteMapped DEF T!Else, T!Require

\* What a block pops after its body is what the typing took before it.
LEMMA OperandsOwed ==
    ASSUME NEW S, Fine(S), S.kind \in {"block", "loop", "else"},
           S.kind = "else" => Len(S.bt.rt1) <= 1
    PROVE  Operands(S) = Reverse(Owed(S)) /\ Len(Operands(S)) = Len(Owed(S))
<1> DEFINE ts == S.bt.rt1
<1>1. ts \in Seq(Types) /\ Len(ts) \in Nat
  BY DEF Fine, Act, BlockType
<1>2. CASE S.kind = "else"
  <2>1. Reverse(ts) = ts
    <3>1. /\ Reverse(ts) \in Seq(Types) /\ Len(Reverse(ts)) = Len(ts)
          /\ \A k \in 1 .. Len(ts) : Reverse(ts)[k] = ts[Len(ts) + 1 - k]
      BY <1>1, ReverseTypes
    <3>2. \A k \in 1 .. Len(ts) : Len(ts) + 1 - k = k
      BY <1>1, <1>2
    <3> HIDE DEF ts
    <3>3. QED
      BY <1>1, <3>1, <3>2, SameSequence
  <2>2. Owed(S) = ts \o <<I32>> /\ Operands(S) = <<I32>> \o ts
    BY <1>2 DEF Owed, Operands
  <2> HIDE DEF ts
  <2>3. QED
    BY <1>1, <2>1, <2>2, UnderCondition
<1>3. CASE S.kind # "else"
  <2>1. Owed(S) = ts \o <<>> /\ Operands(S) = Reverse(ts)
    BY <1>3 DEF Owed, Operands
  <2> HIDE DEF ts
  <2>2. ts \o <<>> = ts
    BY <1>1
  <2>3. QED
    BY <1>1, <2>1, <2>2, ReverseTypes
<1>4. QED
  BY <1>2, <1>3

LEMMA EndBlockMapped ==
    ASSUME Core, verdict = "open", Core', ShortIfs, EndBlock
    PROVE  /\ Reject \/ (verdict' = "open" /\ (DoomedIn(seqs) <=> DoomedIn(seqs')))
           /\ AbsState = "open" => T!Close
<1> DEFINE n == Len(seqs)
           outer == seqs[n - 1]
           P == Popped(outer, Len(Operands(Inner)))
           S == Pushed(P, Inner.bt.rt2)
<1>1. /\ Stack(seqs) /\ n \in Nat /\ n >= 2 /\ Inner = seqs[n] /\ Fine(Inner) /\ Depth = n
      /\ Inner.kind \in {"block", "loop", "else"} /\ Fine(outer) /\ Inner.bt.rt2 \in Seq(Types)
  <2>1. Depth = n /\ Depth \in Nat /\ Depth >= 2 /\ Inner.kind \in {"block", "loop", "else"}
        /\ Inner.bt.rt2 \in Seq(Types) /\ Inner = seqs[n] /\ Fine(Inner)
    <3>1. Inner.kind \in {"block", "loop", "else"}
      BY DEF EndBlock
    <3>2. /\ Depth \in Nat \ {0} /\ Fine(Inner) /\ Inner.bt.rt2 \in Seq(Types)
          /\ (Inner.kind = "func" <=> Depth = 1)
      BY InnerFine
    <3>3. Depth = n /\ Inner = seqs[n]
      BY DEF Depth, Inner
    <3> HIDE DEF n
    <3>4. QED
      BY <3>1, <3>2, <3>3
  <2>2. n - 1 \in 1 .. Depth
    BY <2>1
  <2>3. QED
    BY <2>1, <2>2, OpenMapped DEF Core
<1>2. /\ Operands(Inner) = Reverse(Owed(Inner)) /\ Len(Operands(Inner)) = Len(Owed(Inner))
      /\ Len(Owed(Inner)) \in Nat
  <2>1. n \in 1 .. n
    BY <1>1
  <2>2. Inner.kind = "else" => Len(Inner.bt.rt1) <= 1
    BY <1>1, <2>1 DEF ShortIfs
  <2>3. QED
    BY <1>1, <2>2, OperandsOwed, OwedTyped
<1>3. Fine(P) /\ SameBody(P, outer)
  BY <1>1, <1>2, PoppedFine
<1>4. Fine(S) /\ Owed(S) = Owed(outer)
  <2>1. Fine(S) /\ SameBody(S, P)
    BY <1>1, <1>3, PushedFine
  <2>2. Owed(S) = Owed(P) /\ Owed(P) = Owed(outer)
    BY <1>3, <2>1, SameOwed
  <2>3. QED
    BY <2>1, <2>2
<1> DEFINE r == Append(SubSeq(seqs, 1, n - 2), S)
<1>5. \/ Reject /\ ~(Complete /\ CanPop(outer, Operands(Inner)))
      \/ seqs' = r /\ verdict' = verdict /\ Complete /\ CanPop(outer, Operands(Inner))
  BY <1>1 DEF EndBlock
<1>6. /\ DoomedIn(seqs) <=> DoomedIn(r) \/ ~CanPop(outer, Operands(Inner))
      /\ BodiesOf(r) = Append(SubSeq(BodiesOf(seqs), 1, n - 2), Abs(S))
      /\ BodiesOf(seqs)[n - 1] = Abs(Popped(outer, Len(Operands(Inner))))
  <2> HIDE DEF S
  <2>1. QED
    BY <1>1, <1>2, <1>4, RemoveInner
<1>7. AbsState = "open" => T!Close
  <2> SUFFICES ASSUME AbsState = "open" PROVE T!Close
    OBVIOUS
  <2>1. /\ ~DoomedIn(seqs) /\ AbsBodies = BodiesOf(seqs) /\ Len(AbsBodies) = n
        /\ T!Last = Abs(Inner)
    BY <1>1, LastMapped
  <2>2. T!Last.kind = Inner.kind /\ T!Last.bt = Inner.bt
    BY <2>1 DEF Abs
  <2>3. CASE Complete
    <3>1. seqs' = r /\ verdict' = "open" /\ ~DoomedIn(r)
      BY <1>5, <1>6, <2>1, <2>3
    <3>2. (Core /\ verdict = "open" =>
                /\ AbsState = IF DoomedIn(seqs) THEN "rejected" ELSE "open"
                /\ AbsBodies = IF DoomedIn(seqs) THEN <<>> ELSE BodiesOf(seqs))'
      BY OpenMapped, PTL
    <3>3. AbsState' = "open" /\ AbsBodies' = BodiesOf(r)
      BY <3>1, <3>2
    <3>4. T!With(BodiesOf(seqs)[n - 1], Inner.bt.rt2) = Abs(S)
      <4>1. BodiesOf(seqs)[n - 1] = Abs(P)
        BY <1>6
      <4> HIDE DEF P
      <4>2. QED
        BY <1>3, <4>1, AbsPushed
    <3>5. AbsBodies' = Append(SubSeq(AbsBodies, 1, Len(AbsBodies) - 2),
                              T!With(AbsBodies[Len(AbsBodies) - 1], T!Last.bt.rt2))
      BY <1>6, <2>1, <2>2, <3>3, <3>4
    <3>6. T!Exactly(T!Last, T!Last.bt.rt2)
      BY <2>3, CompleteMapped
    <3>7. QED
      BY <1>1, <2>2, <3>3, <3>5, <3>6 DEF T!Close, T!Become
  <2>4. CASE ~Complete
    <3>1. T!Fail
      BY <1>5, <2>4, RejectTyped
    <3>2. QED
      BY <1>1, <2>2, <2>4, <3>1, CompleteMapped DEF T!Close
  <2>5. QED
    BY <2>3, <2>4
<1>8. QED
  BY <1>5, <1>6, <1>7

\* A function starts as a body without operands.
LEMMA StartMapped ==
    ASSUME NEW results \in Results
    PROVE  /\ ~DoomedIn(<<Body(results)>>)
           /\ BodiesOf(<<Body(results)>>) = <<T!FuncBody(results)>>
<1> DEFINE S == Body(results)
           q == <<S>>
<1>1. Fine(S) /\ q \in Seq(Act) /\ Len(q) = 1 /\ q[1] = S /\ \A k \in 1 .. 1 : k = 1
  BY StartFine
<1>2. T!FuncBody(results) = Abs(S)
  BY DEF T!FuncBody, T!NewBody, Abs, Body, Activation
<1> HIDE DEF S
<1>3. OwedBy(q, 1) = <<>> /\ Len(<<>>) = 0 /\ Reverse(<<>>) = <<>>
  BY <1>1 DEF OwedBy, Reverse
<1>4. Popped(S, 0) = S /\ CanPop(S, <<>>)
  BY <1>1, PoppedNone
<1> HIDE DEF q
<1>5. ~DoomedIn(q)
  BY <1>1, <1>3, <1>4 DEF DoomedIn
<1>6. BodiesOf(q) = <<Abs(S)>>
  <2>1. Stack(q)
    BY <1>1 DEF Stack
  <2>2. BodiesOf(q) \in Seq(BodySet) /\ Len(BodiesOf(q)) = 1 /\ BodiesOf(q)[1] = Abs(S)
    BY <1>1, <1>3, <1>4, <2>1, BodiesTyped
  <2>3. Abs(S) \in BodySet
    BY <1>1, AbsTyped
  <2>4. <<Abs(S)>> \in Seq(BodySet) /\ Len(<<Abs(S)>>) = 1 /\ <<Abs(S)>>[1] = Abs(S)
    BY <2>3
  <2>5. QED
    BY <1>1, <2>2, <2>4, SameSequence
<1>7. QED
  BY <1>2, <1>5, <1>6 DEF S, q

\* A module and a function begin in the same way.
LEMMA BeginMapped ==
    ASSUME Core', verdict' = "open", NEW results \in Results, seqs' = <<Body(results)>>
    PROVE  AbsState' = "open" /\ AbsBodies' = <<T!FuncBody(results)>>
<1>1. (Core /\ verdict = "open" =>
            /\ AbsState = IF DoomedIn(seqs) THEN "rejected" ELSE "open"
            /\ AbsBodies = IF DoomedIn(seqs) THEN <<>> ELSE BodiesOf(seqs))'
  BY OpenMapped, PTL
<1>2. ~DoomedIn(seqs') /\ BodiesOf(seqs') = <<T!FuncBody(results)>>
  BY StartMapped
<1>3. QED
  BY <1>1, <1>2

\* Between functions nothing is owed.
LEMMA NeverDoomedAlone ==
    ASSUME Core, verdict = "open", Inner.kind = "func"
    PROVE  ~DoomedIn(seqs)
<1>1. Depth = 1 /\ Depth = Len(seqs) /\ Fine(seqs[1])
  BY InnerFine DEF Inner, Depth
<1>2. OwedBy(seqs, 1) = <<>> /\ Reverse(<<>>) = <<>> /\ \A k \in 1 .. 1 : k = 1
  BY <1>1 DEF OwedBy, Reverse
<1>3. CanPop(seqs[1], <<>>)
  BY <1>1, PoppedNone
<1>4. QED
  BY <1>1, <1>2, <1>3 DEF DoomedIn

LEMMA EndFuncTyped ==
    ASSUME Core, verdict = "open", AbsState = "open", Core', EndFunc
    PROVE  T!CloseFunc
<1>1. T!Last.kind = "func" /\ (Complete <=> T!Exactly(T!Last, T!Last.bt.rt2))
  BY LastMapped, CompleteMapped DEF EndFunc, Abs
<1>2. CASE ~Complete /\ Reject
  BY <1>1, <1>2, RejectTyped DEF T!CloseFunc
<1>3. CASE Complete /\ Finish("accepted")
  <2>1. (verdict # "open" => AbsState = verdict /\ AbsBodies = <<>>)'
    BY ClosedMapped, PTL
  <2>2. verdict' = "accepted"
    BY <1>3 DEF Finish
  <2>3. QED
    BY <1>1, <1>3, <2>1, <2>2 DEF T!CloseFunc
<1>4. CASE Complete /\ UNCHANGED verdict /\ \E results \in Results : seqs' = <<Body(results)>>
  <2>1. PICK results \in Results : seqs' = <<Body(results)>>
    BY <1>4
  <2>2. T!Become(<<T!FuncBody(results)>>)
    BY <1>4, <2>1, BeginMapped DEF T!Become
  <2>3. QED
    BY <1>1, <1>4, <2>2 DEF T!CloseFunc
<1>5. QED
  BY <1>2, <1>3, <1>4 DEF EndFunc

-----------------------------------------------------------------------------
(* A typing that has failed.                                               *)

\* An instruction without a body leaves the body as it is.
LEMMA SimpleShape ==
    ASSUME Core, verdict = "open", NEW i \in Instrs, Instruction(i),
           i.op \notin {"block", "loop", "if"}
    PROVE  Reject \/ \E S : Goto(S) /\ SameBody(S, Inner)
<1> DEFINE Keeps == \E S : Goto(S) /\ SameBody(S, Inner)
<1>1. Inner \in Act /\ seqs \in Seq(Act) /\ Depth \in Nat \ {0}
  BY InnerFine DEF Core
<1>2. /\ SameBody(Emptied(Inner), Inner)
      /\ \A n : SameBody(Popped(Inner, n), Inner)
      /\ \A n, ts : SameBody(Pushed(Popped(Inner, n), ts), Inner)
      /\ \A ts : SameBody(Pushed(Popped(Popped(Inner, 1), 2), ts), Inner)
  BY <1>1 DEF SameBody, Emptied, Popped, Pushed, Act
<1>3. ASSUME NEW ok, NEW S, Check(ok, S), SameBody(S, Inner)
      PROVE  Reject \/ Keeps
  BY <1>3 DEF Check
<1>4. CASE Nop
  <2>1. seqs = Append(Front(seqs), Inner)
    <3>1. Front(seqs) = SubSeq(seqs, 1, Len(seqs) - 1) /\ Inner = seqs[Len(seqs)] /\ Len(seqs) > 0
      BY <1>1 DEF Depth, Inner, Front
    <3>2. QED
      BY <1>1, <3>1, FrontAndLast
  <2>2. Goto(Inner)
    BY <1>4, <2>1 DEF Nop, Goto
  <2>3. QED
    BY <2>2 DEF SameBody
<1>5. CASE Invalid
  BY <1>5 DEF Invalid
<1>6. CASE Unreachable
  BY <1>2, <1>6 DEF Unreachable
<1>7. CASE i.op = "other" /\ Other(i.pops, i.pushes)
  BY <1>2, <1>3, <1>7 DEF Other
<1>8. CASE Drop \/ RefIsNull
  BY <1>2, <1>3, <1>8 DEF Drop, RefIsNull
<1>9. CASE Select
  BY <1>2, <1>3, <1>9 DEF Select
<1>10. CASE (\E l : Br(l) \/ BrIf(l)) \/ (\E ls, d : BrTable(ls, d)) \/ Return
  BY <1>2, <1>3, <1>10 DEF Br, BrIf, BrTable, Return
<1>11. QED
  BY <1>4, <1>5, <1>6, <1>7, <1>8, <1>9, <1>10 DEF Instruction

\* A body that replaces another with its operands owes no less.
LEMMA GotoDoomed ==
    ASSUME Core, verdict = "open", Core', NEW S, Owed(S) = Owed(Inner), Goto(S)
    PROVE  verdict' = "open" /\ (DoomedIn(seqs') <=> DoomedIn(seqs))
<1>1. Stack(seqs) /\ seqs' = Append(SubSeq(seqs, 1, Len(seqs) - 1), S) /\ verdict' = "open"
      /\ Inner = seqs[Len(seqs)]
  BY OpenMapped DEF Goto, Front, Inner, Depth
<1>2. Fine(S)
  <2> DEFINE n == Len(seqs)
             p == SubSeq(seqs, 1, n - 1)
  <2>1. n - 1 \in 0 .. n /\ (n - 1) + 1 = n /\ seqs \in Seq(Act) /\ n \in Nat
    BY <1>1 DEF Stack
  <2>2. p \in Seq(Act) /\ Len(p) = n - 1
    BY <2>1, Prefix
  <2>3. Len(Append(p, S)) = n /\ Append(p, S)[n] = S
    <3> HIDE DEF p, n
    <3>1. QED
      BY <2>1, <2>2
  <2>4. \A k \in 1 .. Len(seqs') : Fine(seqs'[k])
    BY DEF Core, Depth
  <2>5. n \in 1 .. n
    BY <1>1 DEF Stack
  <2>6. QED
    BY <1>1, <2>3, <2>4, <2>5
<1>3. QED
  BY <1>1, <1>2, ReplaceInner

\* A failure of the typing is found by the end of the block at the latest.
LEMMA StaysDoomed ==
    ASSUME Core, verdict = "open", Core', ShortIfs, DoomedIn(seqs),
           (\E i \in Instrs : Instruction(i)) \/ EndThen \/ EndBlock \/ EndFunc
    PROVE  AbsState' = "rejected" /\ AbsBodies' = <<>>
<1>1. (verdict # "open" => AbsState = verdict /\ AbsBodies = <<>>)'
  BY ClosedMapped, PTL
<1>2. (Core /\ verdict = "open" =>
            /\ AbsState = IF DoomedIn(seqs) THEN "rejected" ELSE "open"
            /\ AbsBodies = IF DoomedIn(seqs) THEN <<>> ELSE BodiesOf(seqs))'
  BY OpenMapped, PTL
<1>3. CASE Reject
  BY <1>1, <1>3 DEF Reject, Finish
<1>4. ASSUME NEW S, Goto(S), Owed(S) = Owed(Inner)
      PROVE  AbsState' = "rejected" /\ AbsBodies' = <<>>
  BY <1>2, <1>4, GotoDoomed
<1>5. ASSUME NEW i \in Instrs, Instruction(i)
      PROVE  AbsState' = "rejected" /\ AbsBodies' = <<>>
  <2>1. CASE i.op \in {"block", "loop", "if"}
    <3>1. i.bt \in BlockType
      BY <2>1, InstrParts
    <3>2. PICK kind, label : kind \in {"block", "loop", "then"} /\ Enter(kind, i.bt, label)
      BY <1>5, <2>1 DEF Instruction, Block, Loop, If
    <3>3. DoomedIn(seqs') /\ verdict' = "open"
      BY <3>1, <3>2, EnterMapped DEF Enter
    <3>4. QED
      BY <1>2, <3>3
  <2>2. CASE i.op \notin {"block", "loop", "if"}
    <3>1. CASE Reject
      BY <1>3, <3>1
    <3>2. CASE \E S : Goto(S) /\ SameBody(S, Inner)
      BY <1>4, <3>2, SameOwed
    <3>3. QED
      BY <1>5, <2>2, <3>1, <3>2, SimpleShape
  <2>3. QED
    BY <2>1, <2>2
<1>6. CASE EndThen
  <2> DEFINE S == Activation("else", Inner.bt)
  <2>1. Owed(S) = Owed(Inner)
    BY <1>6 DEF EndThen, Owed, Activation
  <2>2. Reject \/ Goto(S)
    BY <1>6 DEF EndThen, Check
  <2> HIDE DEF S
  <2>3. QED
    BY <1>3, <1>4, <2>1, <2>2
<1>7. CASE EndBlock
  BY <1>2, <1>3, <1>7, EndBlockMapped
<1>8. CASE EndFunc
  BY <1>8, NeverDoomedAlone DEF EndFunc
<1>9. QED
  BY <1>5, <1>6, <1>7, <1>8

-----------------------------------------------------------------------------
(* The operands of an if.                                                  *)

LEMMA GotoShort ==
    ASSUME Core, verdict = "open", ShortIfs, NEW S, Goto(S), S.bt = Inner.bt,
           S.kind = Inner.kind \/ (S.kind = "else" /\ Inner.kind = "then")
    PROVE  ShortIfs'
<1> DEFINE n == Len(seqs)
           p == SubSeq(seqs, 1, n - 1)
<1>1. /\ seqs \in Seq(Act) /\ n \in Nat \ {0} /\ n \in 1 .. n /\ n - 1 \in 0 .. n
      /\ (n - 1) + 1 = n /\ Inner = seqs[n] /\ seqs' = Append(p, S)
  BY InnerFine DEF Core, Goto, Front, Inner, Depth
<1>2. p \in Seq(Act) /\ Len(p) = n - 1 /\ \A k \in 1 .. n - 1 : p[k] = seqs[k]
  BY <1>1, Prefix
<1> HIDE DEF p, n
<1>3. Len(seqs') = n /\ seqs'[n] = S /\ \A k \in 1 .. n - 1 : seqs'[k] = seqs[k]
  BY <1>1, <1>2
<1>4. \A k \in 1 .. n : k = n \/ k \in 1 .. n - 1
  BY <1>1
<1>5. \A k \in 1 .. n : seqs[k].kind \in {"then", "else"} => Len(seqs[k].bt.rt1) <= 1
  BY DEF ShortIfs, n
<1>6. \A k \in 1 .. n : seqs'[k].kind \in {"then", "else"} => Len(seqs'[k].bt.rt1) <= 1
  BY <1>1, <1>3, <1>4, <1>5
<1>7. QED
  BY <1>3, <1>6 DEF ShortIfs

LEMMA EnterShort ==
    ASSUME Core, verdict = "open", ShortIfs, NEW kind, NEW bt, NEW label,
           Enter(kind, bt, label), kind = "then" => Len(bt.rt1) <= 1, kind # "else"
    PROVE  ShortIfs'
<1> DEFINE S == Activation(kind, bt)
           n == Len(seqs)
<1>1. seqs \in Seq(Act) /\ n \in Nat /\ seqs' = Append(seqs, S)
  BY DEF Core, Enter
<1>2. S.kind = kind /\ S.bt = bt
  BY DEF Activation
<1> HIDE DEF S
<1>3. Len(seqs') = n + 1 /\ seqs'[n + 1] = S /\ \A k \in 1 .. n : seqs'[k] = seqs[k]
  BY <1>1
<1>4. \A k \in 1 .. n + 1 : k = n + 1 \/ k \in 1 .. n
  BY <1>1
<1>5. \A k \in 1 .. n : seqs[k].kind \in {"then", "else"} => Len(seqs[k].bt.rt1) <= 1
  BY DEF ShortIfs
<1> HIDE DEF n
<1>6. \A k \in 1 .. n + 1 : seqs'[k].kind \in {"then", "else"} => Len(seqs'[k].bt.rt1) <= 1
  BY <1>2, <1>3, <1>4, <1>5
<1>7. QED
  BY <1>3, <1>6 DEF ShortIfs

LEMMA NoneShort ==
    ASSUME seqs' = <<>> \/ \E results \in Results : seqs' = <<Body(results)>>
    PROVE  ShortIfs'
<1>1. CASE seqs' = <<>>
  BY <1>1 DEF ShortIfs
<1>2. CASE \E results \in Results : seqs' = <<Body(results)>>
  <2>1. PICK results \in Results : seqs' = <<Body(results)>>
    BY <1>2
  <2>2. /\ Len(seqs') = 1 /\ seqs'[1].kind = "func" /\ \A k \in 1 .. 1 : k = 1
    BY <2>1, StartFine
  <2>3. QED
    BY <2>2 DEF ShortIfs
<1>3. QED
  BY <1>1, <1>2

LEMMA EndBlockShort ==
    ASSUME Core, verdict = "open", ShortIfs, EndBlock
    PROVE  ShortIfs'
<1> DEFINE n == Len(seqs)
           outer == seqs[n - 1]
           pops == Operands(Inner)
           S == Pushed(Popped(outer, Len(pops)), Inner.bt.rt2)
           p == SubSeq(seqs, 1, n - 2)
<1>1. seqs \in Seq(Act) /\ Depth = n /\ n \in Nat \ {0} /\ n # 1
  <2>1. seqs \in Seq(Act) /\ Depth = n /\ Depth \in Nat \ {0} /\ Depth # 1
    BY InnerFine DEF Core, EndBlock, Depth
  <2> HIDE DEF n
  <2>2. QED
    BY <2>1
<1>2. /\ n - 2 \in 0 .. n /\ n - 1 \in 1 .. n /\ (n - 2) + 1 = n - 1
      /\ \A k \in 1 .. n - 1 : k \in 1 .. n /\ (k = n - 1 \/ k \in 1 .. n - 2)
  <2> HIDE DEF n
  <2>1. QED
    BY <1>1
<1>3. CASE Reject
  BY <1>3, NoneShort DEF Reject, Finish
<1>4. CASE seqs' = Append(p, S)
  <2>1. SameBody(S, outer)
    <3>1. outer \in Act
      BY <1>1, <1>2
    <3>2. QED
      BY <3>1 DEF SameBody, Pushed, Popped, Act
  <2>2. p \in Seq(Act) /\ Len(p) = n - 2 /\ \A k \in 1 .. n - 2 : p[k] = seqs[k]
    BY <1>1, <1>2, Prefix, ZenonT(40)
  <2> HIDE DEF S, p
  <2>3. Len(seqs') = n - 1 /\ seqs'[n - 1] = S /\ \A k \in 1 .. n - 2 : seqs'[k] = seqs[k]
    <3> HIDE DEF n, outer
    <3>1. QED
      BY <1>2, <1>4, <2>2
  <2>4. \A k \in 1 .. n : seqs[k].kind \in {"then", "else"} => Len(seqs[k].bt.rt1) <= 1
    BY DEF ShortIfs
  <2>5. \A k \in 1 .. n - 1 : seqs'[k].kind \in {"then", "else"} => Len(seqs'[k].bt.rt1) <= 1
    BY <1>2, <2>1, <2>3, <2>4, ZenonT(40) DEF SameBody
  <2>6. QED
    BY <2>3, <2>5 DEF ShortIfs
<1>5. QED
  BY <1>1, <1>3, <1>4 DEF EndBlock

LEMMA ShortKept ==
    ASSUME Core, verdict = "open", ShortIfs, WellBehaved,
           (\E i \in Instrs : Instruction(i)) \/ EndThen \/ EndBlock \/ EndFunc
    PROVE  ShortIfs'
<1>1. CASE Reject \/ Finish("accepted")
  BY <1>1, NoneShort DEF Reject, Finish
<1>2. ASSUME NEW i \in Instrs, Instruction(i)
      PROVE  ShortIfs'
  <2>1. CASE i.op \in {"block", "loop", "if"}
    <3>1. PICK kind, label : /\ Enter(kind, i.bt, label) /\ kind # "else"
                             /\ kind = "then" => i.op = "if"
      BY <1>2, <2>1 DEF Instruction, Block, Loop, If
    <3>2. i.op = "if" => i.bt \in IfTypes
      BY DEF Instrs
    <3>3. QED
      BY <3>1, <3>2, EnterShort DEF WellBehaved
  <2>2. CASE i.op \notin {"block", "loop", "if"}
    <3>1. CASE \E S : Goto(S) /\ SameBody(S, Inner)
      BY <3>1, GotoShort DEF SameBody
    <3>2. QED
      BY <1>1, <1>2, <2>2, <3>1, SimpleShape
  <2>3. QED
    BY <2>1, <2>2
<1>3. CASE EndThen
  <2> DEFINE S == Activation("else", Inner.bt)
  <2>1. S.bt = Inner.bt /\ S.kind = "else" /\ Inner.kind = "then"
    BY <1>3 DEF EndThen, Activation
  <2>2. Reject \/ Goto(S)
    BY <1>3 DEF EndThen, Check
  <2> HIDE DEF S
  <2>3. QED
    BY <1>1, <2>1, <2>2, GotoShort
<1>4. CASE EndFunc
  BY <1>1, <1>4, NoneShort DEF EndFunc
<1>5. QED
  BY <1>2, <1>3, <1>4, EndBlockShort

-----------------------------------------------------------------------------
(* The refinement.                                                         *)

RInv == IInv /\ ShortIfs

LEMMA TypingStarts == Init => RInv /\ T!Init
<1> SUFFICES ASSUME Init PROVE RInv /\ T!Init
  OBVIOUS
<1>1. IInv
  BY InitOK
<1>2. PICK results \in Results : seqs = <<Body(results)>>
  BY DEF Init
<1>3. verdict = "open" /\ instr = Start
  BY DEF Init
<1>4. AbsState = "open" /\ AbsBodies = <<T!FuncBody(results)>>
  BY <1>1, <1>2, <1>3, OpenMapped, StartMapped DEF IInv
<1>5. ShortIfs
  <2>1. Len(seqs) = 1 /\ seqs[1].kind = "func" /\ \A k \in 1 .. 1 : k = 1
    BY <1>2, StartFine
  <2>2. QED
    BY <2>1 DEF ShortIfs
<1>6. QED
  BY <1>1, <1>3, <1>4, <1>5 DEF RInv, T!Init, T!Begin, Start

LEMMA TypingSteps ==
    ASSUME RInv, WellBehaved, [Next]_vars
    PROVE  RInv' /\ [T!Next]_(T!tvars)
<1>1. Core /\ IInv' /\ Core'
  BY NextOK DEF RInv, IInv
<1>2. (Core /\ verdict = "open" =>
            /\ AbsState = IF DoomedIn(seqs) THEN "rejected" ELSE "open"
            /\ AbsBodies = IF DoomedIn(seqs) THEN <<>> ELSE BodiesOf(seqs))
  BY OpenMapped
<1>3. ASSUME verdict = "open", DoomedIn(seqs),
             (\E i \in Instrs : Instruction(i)) \/ EndThen \/ EndBlock \/ EndFunc
      PROVE  T!Next
  <2>1. AbsState' = "rejected" /\ AbsBodies' = <<>>
    BY <1>1, <1>3, StaysDoomed DEF RInv
  <2>2. QED
    BY <1>1, <1>2, <1>3, <2>1 DEF T!Next
<1>4. ASSUME NEW i \in Instrs, Validate(i)
      PROVE  RInv' /\ T!Next
  <2>1. verdict = "open" /\ Instruction(i) /\ instr' = i
    BY <1>4 DEF Validate
  <2>2. ShortIfs'
    BY <1>1, <2>1, ShortKept DEF RInv
  <2>3. CASE ~DoomedIn(seqs)
    <3>1. AbsState = "open"
      BY <1>1, <1>2, <2>1, <2>3
    <3>2. T!Step(i)
      BY <1>1, <2>1, <3>1, InstructionTyped
    <3>3. QED
      BY <1>1, <2>1, <2>2, <3>1, <3>2 DEF RInv, T!Next
  <2>4. QED
    BY <1>1, <1>3, <2>1, <2>2, <2>3 DEF RInv
<1>5. CASE EndSequence
  <2>1. verdict = "open" /\ (EndThen \/ EndBlock \/ EndFunc) /\ instr' = End
    BY <1>5 DEF EndSequence
  <2>2. ShortIfs'
    BY <1>1, <2>1, ShortKept DEF RInv
  <2>3. CASE ~DoomedIn(seqs)
    <3>1. AbsState = "open"
      BY <1>1, <1>2, <2>1, <2>3
    <3>2. T!Else \/ T!Close \/ T!CloseFunc
      BY <1>1, <2>1, <3>1, EndThenTyped, EndBlockMapped, EndFuncTyped DEF RInv
    <3>3. T!Step(End)
      BY <3>2 DEF T!Step, End
    <3>4. QED
      BY <1>1, <2>1, <2>2, <3>1, <3>3 DEF RInv, T!Next
  <2>4. QED
    BY <1>1, <1>3, <2>1, <2>2, <2>3 DEF RInv
<1>6. CASE NextModule
  <2>1. PICK results \in Results : seqs' = <<Body(results)>>
    BY <1>6 DEF NextModule
  <2>2. verdict # "open" /\ verdict' = "open" /\ instr' = Start
    BY <1>6 DEF NextModule
  <2>3. AbsState # "open"
    BY <2>2, ClosedMapped
  <2>4. AbsState' = "open" /\ AbsBodies' = <<T!FuncBody(results)>>
    BY <1>1, <2>1, <2>2, BeginMapped
  <2>5. ShortIfs'
    BY <2>1, NoneShort
  <2>6. QED
    BY <1>1, <2>2, <2>3, <2>4, <2>5 DEF RInv, T!Next, T!Begin, Start
<1>7. CASE UNCHANGED vars
  <2>1. AbsState' = AbsState /\ AbsBodies' = AbsBodies /\ instr' = instr
    BY <1>7 DEF vars, AbsState, AbsBodies, AbsBody, Doomed, Pending, Depth
  <2>2. ShortIfs'
    BY <1>7 DEF vars, RInv, ShortIfs
  <2>3. QED
    BY <1>1, <2>1, <2>2 DEF RInv, T!tvars
<1>8. QED
  BY <1>4, <1>5, <1>6, <1>7 DEF Next

\* For all modules that are well behaved, of every depth and with blocks of every
\* type, the validator comes to the verdict of the typing rules, although it checks
\* the operands of a block after its body.
THEOREM TypingImplemented ==
    ASSUME WellBehaved
    PROVE  Spec => ImplementsTyping
<1>1. Init => RInv /\ T!Init
  BY TypingStarts
<1>2. RInv /\ [Next]_vars => RInv' /\ [T!Next]_(T!tvars)
  BY TypingSteps
<1>3. QED
  BY <1>1, <1>2, PTL DEF Spec, ImplementsTyping, T!Spec
=============================================================================
