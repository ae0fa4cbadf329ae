-------------------------- MODULE InterpreterProofs --------------------------
(***************************************************************************)
(* Proofs about the interpreter, for a pool of any size, any set of block  *)
(* instructions and any set of values.                                     *)
(*                                                                         *)
(* First the stack operations alone: each leaves the entries below the     *)
(* ones it names alone, in particular no list operation touches a live     *)
(* value, and keeps the stack well formed.  Then the inductive invariant,  *)
(* and what it says of the frames and labels that are counted.             *)
(*                                                                         *)
(* Last, that the interpreter implements the activation stack, step by     *)
(* step.  The abstract stack is a sequence, the interpreter's a pool with  *)
(* an idx, so the mapping is taken apart into segments of the pool; what   *)
(* remains is to follow each action's pops and pushes, to show that the    *)
(* walk of list_get_elem counts labels, and to see that while the C loops  *)
(* unwind the abstract stack stands still.                                 *)
(***************************************************************************)
EXTENDS InterpreterRefinement, FiniteSetTheorems, SequenceTheorems, WellFoundedInduction, TLAPS

-----------------------------------------------------------------------------
(* The stack operations.                                                   *)

Objs == ValObj \cup LabelObj \cup FrameObj \cup FreeObj

\* A stack is determined by its four fields.
LEMMA StackFields ==
    ASSUME NEW S \in Stack
    PROVE  /\ S.idx \in -1 .. NumSlots - 1
           /\ S.pool \in [Slots -> Objs]
           /\ S.labels \in Nodes
           /\ S.frames \in Nodes
  BY DEF Stack, Objs

\* Lowering idx keeps a stack a stack.
LEMMA SetTopType ==
    ASSUME NEW S \in Stack, NEW top \in -1 .. S.idx
    PROVE  /\ SetTop(S, top) \in Stack
           /\ SetTop(S, top).idx = top
           /\ SetTop(S, top).labels = S.labels
           /\ SetTop(S, top).frames = S.frames
           /\ \A i \in 0 .. top : SetTop(S, top).pool[i] = S.pool[i]
<1> DEFINE pool == Cut(S.pool, top)
<1>1. pool \in [Slots -> Objs]
  BY StackFields DEF Cut, Free, FreeObj, Objs
<1>2. SetTop(S, top) = [idx |-> top, pool |-> pool, labels |-> S.labels, frames |-> S.frames]
  BY DEF SetTop, Stk
<1>3. /\ top \in -1 .. NumSlots - 1
      /\ 0 .. top \subseteq Slots
  BY StackFields, NumSlotsAssumption DEF Slots
<1> HIDE DEF pool
<1>4. SetTop(S, top) \in Stack
  BY <1>1, <1>2, <1>3, StackFields DEF Stack, Objs
<1>5. \A i \in 0 .. top : pool[i] = S.pool[i]
  BY <1>3 DEF pool, Cut
<1>6. QED
  BY <1>2, <1>4, <1>5

\* T holds the entries of S up to its own top.
Agree(S, T) == \A i \in 0 .. T.idx : T.pool[i] = S.pool[i]

Tailed(S) == /\ IsTop(S, "label", S.labels) \/ SlotsOf(S, "label") = {}
             /\ IsTop(S, "frame", S.frames) \/ SlotsOf(S, "frame") = {}

\* A lower part of a well-formed stack is well formed if its lists have the
\* right tails.
LEMMA CutWellFormed ==
    ASSUME NEW S \in Stack, NEW T \in Stack,
           WellFormed(S), T.idx <= S.idx, Agree(S, T), Tailed(T)
    PROVE  WellFormed(T)
<1>1. S.idx \in Int /\ T.idx \in Int
  BY StackFields, NumSlotsAssumption
<1>2. \A i \in 0 .. T.idx : i \in 0 .. S.idx /\ T.pool[i] = S.pool[i]
  BY <1>1 DEF Agree
<1>3. ASSUME NEW ty, NEW i \in SlotsOf(T, ty)
      PROVE  /\ i \in SlotsOf(S, ty)
             /\ i \in 0 .. T.idx
             /\ T.pool[i] = S.pool[i]
             /\ \A j \in 0 .. i - 1 : T.pool[j] = S.pool[j]
  BY <1>1, <1>2 DEF SlotsOf
<1>4. ASSUME NEW ty, NEW tail, NEW tail2, Linked(S, ty, tail2),
             IsTop(T, ty, tail) \/ SlotsOf(T, ty) = {}
      PROVE  Linked(T, ty, tail)
  <2>1. ASSUME NEW i \in SlotsOf(T, ty), NEW j, IsBelow(S, ty, i, j)
        PROVE  IsBelow(T, ty, i, j)
    BY <2>1, <1>1, <1>3 DEF IsBelow
  <2>2. QED
    BY <2>1, <1>3, <1>4 DEF Linked
<1>5. Linked(T, "label", T.labels) /\ Linked(T, "frame", T.frames)
  BY <1>4 DEF WellFormed, Tailed
<1>6. ASSUME NEW i \in 0 .. T.idx
      PROVE  EntryOK(T, i)
  <2>1. i \in 0 .. S.idx /\ T.pool[i] = S.pool[i]
    BY <1>2
  <2>2. \A j \in 0 .. i - 1 : T.pool[j] = S.pool[j]
    BY <1>1, <1>2
  <2>3. i # 0 => i - 1 \in 0 .. T.idx /\ T.pool[i - 1] = S.pool[i - 1]
    BY <1>1, <1>2
  <2>4. i < T.idx => i + 1 \in 0 .. T.idx /\ i < S.idx /\ T.pool[i + 1] = S.pool[i + 1]
    BY <1>1, <1>2
  <2>5. QED
    BY <2>1, <2>2, <2>3, <2>4 DEF WellFormed, EntryOK
<1>7. QED
  BY <1>5, <1>6 DEF WellFormed

\* Popping values.
LEMMA PopNType ==
    ASSUME NEW S \in Stack, NEW n \in Nat, n <= S.idx + 1
    PROVE  /\ PopN(S, n) \in Stack
           /\ PopN(S, n).idx = S.idx - n
           /\ PopN(S, n).labels = S.labels
           /\ PopN(S, n).frames = S.frames
           /\ Agree(S, PopN(S, n))
<1>1. S.idx - n \in -1 .. S.idx
  BY StackFields, NumSlotsAssumption
<1>2. QED
  BY <1>1, SetTopType DEF PopN, Agree

\* The tails do not move when the entries between the tops are values.
LEMMA SameTails ==
    ASSUME NEW S \in Stack, NEW T \in Stack,
           T.idx <= S.idx, Agree(S, T), T.labels = S.labels, T.frames = S.frames,
           \A i \in T.idx + 1 .. S.idx : S.pool[i].type = "val"
    PROVE  Tailed(S) <=> Tailed(T)
<1>1. S.idx \in Int /\ T.idx \in Int /\ -1 <= T.idx
  BY StackFields, NumSlotsAssumption
<1>2. \A i \in 0 .. T.idx : i \in 0 .. S.idx /\ T.pool[i] = S.pool[i]
  BY <1>1 DEF Agree
<1>3. \A i \in 0 .. S.idx : S.pool[i].type # "val" => i \in 0 .. T.idx
  BY <1>1
<1>4. ASSUME NEW ty \in {"label", "frame"}
      PROVE  SlotsOf(T, ty) = SlotsOf(S, ty)
  BY <1>2, <1>3 DEF SlotsOf
<1>5. ASSUME NEW ty \in {"label", "frame"}, NEW i \in SlotsOf(T, ty)
      PROVE  (\A j \in i + 1 .. T.idx : T.pool[j].type # ty)
             <=> (\A j \in i + 1 .. S.idx : S.pool[j].type # ty)
  BY <1>1, <1>2, <1>3 DEF SlotsOf
<1>6. QED
  BY <1>4, <1>5 DEF Tailed, IsTop

LEMMA PopNWellFormed ==
    ASSUME NEW S \in Stack, NEW n \in Nat, HasVals(S, n), WellFormed(S)
    PROVE  WellFormed(PopN(S, n))
<1> DEFINE T == PopN(S, n)
<1>1. /\ T \in Stack /\ T.idx = S.idx - n /\ T.idx <= S.idx
      /\ T.labels = S.labels /\ T.frames = S.frames /\ Agree(S, T)
  BY PopNType, StackFields, NumSlotsAssumption DEF HasVals
<1>2. \A i \in T.idx + 1 .. S.idx : S.pool[i].type = "val"
  BY <1>1, StackFields, NumSlotsAssumption DEF HasVals
<1>3. Tailed(S)
  BY DEF WellFormed, Linked, Tailed
<1> HIDE DEF T
<1>4. Tailed(T)
  BY <1>1, <1>2, <1>3, SameTails
<1>5. WellFormed(T)
  BY <1>1, <1>4, CutWellFormed
<1>6. QED
  BY <1>5 DEF T

\* What the top n entries hold.
LEMMA TopValsType ==
    ASSUME NEW S \in Stack, NEW n \in Nat, HasVals(S, n),
           \A i \in S.idx + 1 - n .. S.idx : S.pool[i].val # LINK
    PROVE  TopVals(S, n) \in Seq(Val) /\ Len(TopVals(S, n)) = n
<1>1. ASSUME NEW k \in 1 .. n
      PROVE  ValAt(S, S.idx + 1 - k) \in Val
  <2>1. /\ S.idx + 1 - k \in S.idx + 1 - n .. S.idx
        /\ S.idx + 1 - k \in Slots
    BY StackFields, NumSlotsAssumption DEF HasVals, Slots
  <2>2. S.pool[S.idx + 1 - k] \in Objs
    BY <2>1, StackFields
  <2>3. S.pool[S.idx + 1 - k].type = "val" /\ S.pool[S.idx + 1 - k].val # LINK
    BY <2>1 DEF HasVals
  <2>4. QED
    BY <2>2, <2>3 DEF ValAt, Objs, ValObj, LabelObj, FrameObj, FreeObj
<1>2. QED
  BY <1>1 DEF TopVals

\* Pushing values.
LEMMA PushValsType ==
    ASSUME NEW S \in Stack, NEW vals \in Seq(Val)
    PROVE  LET R == PushVals(S, vals)
           IN  /\ R \in Stack
               /\ S.idx <= R.idx
               /\ ~Overflows(S, Len(vals)) => R.idx = S.idx + Len(vals)
               /\ R.labels = S.labels /\ R.frames = S.frames
               /\ Agree(R, S)
               /\ \A i \in S.idx + 1 .. R.idx : R.pool[i].type = "val" /\ R.pool[i].val # LINK
<1> DEFINE n == Len(vals)
           top == IF S.idx + n < NumSlots THEN S.idx + n ELSE NumSlots - 1
           obj(i) == [type |-> "val", val |-> vals[n + 1 - (i - S.idx)]]
           pool == [i \in Slots |-> IF S.idx < i /\ i <= top THEN obj(i) ELSE S.pool[i]]
           R == PushVals(S, vals)
<1>1. R = Stk(top, pool, S.labels, S.frames)
  BY DEF PushVals
<1>2. /\ n \in Nat /\ S.idx \in -1 .. NumSlots - 1 /\ NumSlots \in Nat
      /\ \A k \in 1 .. n : vals[k] \in Val
  BY StackFields, NumSlotsAssumption
<1>3. top \in S.idx .. NumSlots - 1
  BY <1>2
<1>4. ASSUME NEW i \in S.idx + 1 .. top
      PROVE  /\ i \in Slots
             /\ pool[i] = obj(i)
             /\ obj(i).type = "val" /\ obj(i).val \in Val
             /\ obj(i) \in Objs
  <2>1. n + 1 - (i - S.idx) \in 1 .. n
    BY <1>2, SMTT(40)
  <2>2. vals[n + 1 - (i - S.idx)] \in Val
    BY <1>2, <2>1
  <2>3. i \in Slots /\ S.idx < i /\ i <= top
    BY <1>2, <1>3 DEF Slots
  <2>4. QED
    BY <2>2, <2>3 DEF Objs, ValObj
<1> HIDE DEF obj, n
<1>5. ASSUME NEW i \in Slots, ~(S.idx < i /\ i <= top)
      PROVE  pool[i] = S.pool[i] /\ pool[i] \in Objs
  BY <1>5, StackFields
<1>6. \A i \in Slots : S.idx < i /\ i <= top => i \in S.idx + 1 .. top
  BY <1>2, <1>3 DEF Slots
<1>7. pool \in [Slots -> Objs]
  BY <1>4, <1>5, <1>6
<1>8. \A i \in 0 .. S.idx : pool[i] = S.pool[i]
  BY <1>2, <1>5 DEF Slots
<1> HIDE DEF pool
<1>9. R \in Stack
  BY <1>1, <1>2, <1>3, <1>7, StackFields DEF Stk, Stack, Objs
<1>10. ~Overflows(S, n) => top = S.idx + n
  BY <1>2 DEF Overflows
<1>11. /\ R.idx = top /\ R.pool = pool
       /\ R.labels = S.labels /\ R.frames = S.frames
  BY <1>1 DEF Stk
<1>12. \A i \in S.idx + 1 .. top : pool[i].type = "val" /\ pool[i].val # LINK
  BY <1>4, ValAssumption
<1> HIDE DEF top, R
<1>13. S.idx <= R.idx
  BY <1>3, <1>2, <1>11
<1>14. /\ Agree(R, S)
       /\ \A i \in S.idx + 1 .. R.idx : R.pool[i].type = "val" /\ R.pool[i].val # LINK
  BY <1>8, <1>11, <1>12 DEF Agree
<1>15. QED
  BY <1>9, <1>10, <1>11, <1>13, <1>14 DEF R, n

\* Values on top do not change what the lists visit.
LEMMA LinkedUnderValues ==
    ASSUME NEW S \in Stack, NEW T \in Stack,
           T.idx <= S.idx, Agree(S, T), T.labels = S.labels, T.frames = S.frames,
           \A i \in T.idx + 1 .. S.idx : S.pool[i].type = "val",
           Linked(T, "label", T.labels), Linked(T, "frame", T.frames)
    PROVE  Linked(S, "label", S.labels) /\ Linked(S, "frame", S.frames)
<1>1. S.idx \in Int /\ T.idx \in Int
  BY StackFields, NumSlotsAssumption
<1>2. \A i \in 0 .. T.idx : i \in 0 .. S.idx /\ T.pool[i] = S.pool[i]
  BY <1>1 DEF Agree
<1>3. \A i \in 0 .. S.idx : S.pool[i].type # "val" => i \in 0 .. T.idx
  BY <1>1
<1>4. Tailed(S)
  BY SameTails DEF Linked, Tailed
<1>5. ASSUME NEW ty \in {"label", "frame"}, NEW tail, Linked(T, ty, tail),
             IsTop(S, ty, tail) \/ SlotsOf(S, ty) = {}
      PROVE  Linked(S, ty, tail)
  <2>1. ASSUME NEW i \in SlotsOf(S, ty)
        PROVE  /\ i \in SlotsOf(T, ty) /\ i \in 0 .. T.idx
               /\ S.pool[i] = T.pool[i]
               /\ \A j \in 0 .. i - 1 : S.pool[j] = T.pool[j]
    BY <1>1, <1>2, <1>3 DEF SlotsOf
  <2>2. ASSUME NEW i \in SlotsOf(S, ty), NEW j, IsBelow(T, ty, i, j)
        PROVE  IsBelow(S, ty, i, j)
    BY <2>1, <2>2, <1>1 DEF IsBelow
  <2>3. QED
    BY <1>5, <2>1, <2>2 DEF Linked
<1>6. QED
  BY <1>4, <1>5 DEF Tailed

\* Values pushed inside a body.
LEMMA GrowWellFormed ==
    ASSUME NEW S \in Stack, NEW R \in Stack,
           S.idx >= 0, S.pool[S.idx].type # "frame", WellFormed(S),
           S.idx <= R.idx, Agree(R, S), R.labels = S.labels, R.frames = S.frames,
           \A i \in S.idx + 1 .. R.idx : R.pool[i].type = "val" /\ R.pool[i].val # LINK
    PROVE  WellFormed(R)
<1>1. S.idx \in Int /\ R.idx \in Int
  BY StackFields, NumSlotsAssumption
<1>2. \A i \in 0 .. S.idx : i \in 0 .. R.idx /\ S.pool[i] = R.pool[i]
  BY <1>1 DEF Agree
<1>3. Linked(R, "label", R.labels) /\ Linked(R, "frame", R.frames)
  BY LinkedUnderValues DEF WellFormed
<1>4. ASSUME NEW i \in 0 .. R.idx
      PROVE  EntryOK(R, i)
  <2>1. CASE i \in 0 .. S.idx
    <3>1. /\ R.pool[i] = S.pool[i]
          /\ \A j \in 0 .. i - 1 : R.pool[j] = S.pool[j]
          /\ i # 0 => R.pool[i - 1] = S.pool[i - 1]
          /\ i < S.idx => R.pool[i + 1] = S.pool[i + 1]
      BY <1>1, <1>2, <2>1
    <3>2. i = S.idx \/ i < S.idx
      BY <1>1, <2>1
    <3>3. EntryOK(S, i)
      BY <2>1 DEF WellFormed
    <3>4. QED
      BY <3>1, <3>2, <3>3 DEF EntryOK
  <2>2. CASE i \in S.idx + 1 .. R.idx
    <3>1. /\ R.pool[i].type = "val" /\ R.pool[i].val # LINK
          /\ i # 0
      BY <1>1, <2>2
    <3>2. S.pool[S.idx].type = "val" => \E j \in 0 .. S.idx - 1 : S.pool[j].type = "label"
      BY <1>1 DEF WellFormed, EntryOK
    <3>3. S.pool[S.idx].type \in {"val", "label"}
      BY <1>1 DEF WellFormed, EntryOK
    <3>4. \E j \in 0 .. S.idx : S.pool[j].type = "label"
      BY <1>1, <3>2, <3>3
    <3>5. \E j \in 0 .. i - 1 : R.pool[j].type = "label"
      BY <1>1, <1>2, <2>2, <3>4
    <3>6. QED
      BY <3>1, <3>5 DEF EntryOK
  <2>3. QED
    BY <1>1, <2>1, <2>2
<1>5. QED
  BY <1>3, <1>4 DEF WellFormed

LEMMA PushValsWellFormed ==
    ASSUME NEW S \in Stack, NEW vals \in Seq(Val),
           S.idx >= 0, S.pool[S.idx].type # "frame", WellFormed(S)
    PROVE  WellFormed(PushVals(S, vals))
  BY PushValsType, GrowWellFormed

\* Values pushed and popped again leave the stack as it was.
LEMMA PushPopOK ==
    ASSUME NEW S \in Stack, WellFormed(S), NEW vals \in Seq(Val), ~Overflows(S, Len(vals))
    PROVE  LET P == PopN(PushVals(S, vals), Len(vals))
           IN  P \in Stack /\ WellFormed(P) /\ P.idx = S.idx /\ Agree(S, P)
<1> DEFINE n == Len(vals)
           R == PushVals(S, vals)
           P == PopN(R, n)
<1>1. /\ R \in Stack /\ R.idx = S.idx + n /\ Agree(R, S)
      /\ R.labels = S.labels /\ R.frames = S.frames
  BY PushValsType
<1>2. n \in Nat /\ S.idx \in Int /\ -1 <= S.idx
  BY StackFields, NumSlotsAssumption
<1> HIDE DEF R, n
<1>3. n <= R.idx + 1 /\ R.idx - n = S.idx
  BY <1>1, <1>2
<1>4. /\ P \in Stack /\ P.idx = S.idx /\ Agree(R, P)
      /\ P.labels = S.labels /\ P.frames = S.frames
  BY <1>1, <1>2, <1>3, PopNType
<1> HIDE DEF P
<1>5. Agree(S, P)
  BY <1>1, <1>2, <1>4 DEF Agree
<1>6. Tailed(S)
  BY DEF WellFormed, Linked, Tailed
<1>7. Tailed(P)
  BY <1>2, <1>4, <1>5, <1>6, SameTails
<1>8. WellFormed(P)
  BY <1>2, <1>4, <1>5, <1>7, CutWellFormed
<1>9. QED
  BY <1>4, <1>5, <1>8 DEF R, P, n

-----------------------------------------------------------------------------
(* Labels and frames.                                                      *)

\* Writing link.next reaches a value only at the node itself.
LEMMA WriteNextType ==
    ASSUME NEW pool \in [Slots -> Objs], NEW e
    PROVE  /\ WriteNext(pool, e) \in [Slots -> Objs]
           /\ \A i \in Slots : (i = e => pool[i].type # "val") => WriteNext(pool, e)[i] = pool[i]
<1>1. CASE e \in Slots /\ pool[e].type = "val"
  <2>1. pool[e] \in ValObj
    BY <1>1 DEF Objs, ValObj, LabelObj, FrameObj, FreeObj
  <2>2. [pool[e] EXCEPT !.val = LINK] \in ValObj
    BY <2>1 DEF ValObj
  <2>3. WriteNext(pool, e) = [pool EXCEPT ![e] = [pool[e] EXCEPT !.val = LINK]]
    BY <1>1 DEF WriteNext
  <2>4. QED
    BY <1>1, <2>2, <2>3 DEF Objs
<1>2. CASE ~(e \in Slots /\ pool[e].type = "val")
  BY <1>2 DEF WriteNext
<1>3. QED
  BY <1>1, <1>2

\* The tails of a well-formed stack never lie on a live value.
LEMMA TailSparesValues ==
    ASSUME NEW S \in Stack, WellFormed(S),
           NEW t \in {S.labels, S.frames}, t \in 0 .. S.idx
    PROVE  S.pool[t].type # "val"
<1>1. EntryOK(S, t) /\ EntryOK(S, 0) /\ S.idx \in Int /\ 0 \in 0 .. S.idx
  BY StackFields, NumSlotsAssumption DEF WellFormed
<1>2. CASE t = S.labels
  <2>1. CASE IsTop(S, "label", S.labels)
    BY <1>2, <2>1 DEF IsTop, SlotsOf
  <2>2. CASE SlotsOf(S, "label") = {}
    <3>1. \A j \in 0 .. t - 1 : S.pool[j].type # "label"
      BY <1>1, <2>2 DEF SlotsOf
    <3>2. QED
      BY <1>1, <3>1 DEF EntryOK
  <2>3. QED
    BY <2>1, <2>2 DEF WellFormed, Linked
<1>3. CASE t = S.frames
  <2>1. CASE IsTop(S, "frame", S.frames)
    BY <1>3, <2>1 DEF IsTop, SlotsOf
  <2>2. CASE SlotsOf(S, "frame") = {}
    BY <1>1, <2>2 DEF EntryOK, SlotsOf
  <2>3. QED
    BY <2>1, <2>2 DEF WellFormed, Linked
<1>4. QED
  BY <1>2, <1>3

\* A list grows by one entry on top of the stack.
LEMMA PushNodeLinked ==
    ASSUME NEW S \in Stack, NEW R \in Stack, NEW ty, NEW tail, Linked(S, ty, tail),
           R.idx = S.idx + 1, Agree(R, S)
    PROVE  /\ (R.pool[R.idx].type = ty /\ R.pool[R.idx].prev = tail) => Linked(R, ty, R.idx)
           /\ R.pool[R.idx].type # ty => Linked(R, ty, tail)
<1>1. S.idx \in Int /\ R.idx \in Int /\ -1 <= S.idx
  BY StackFields, NumSlotsAssumption
<1>2. \A i \in 0 .. S.idx : i \in 0 .. R.idx /\ R.pool[i] = S.pool[i]
  BY <1>1 DEF Agree
<1>3. \A i \in 0 .. R.idx : i = R.idx \/ i \in 0 .. S.idx
  BY <1>1
<1>4. ASSUME NEW i \in SlotsOf(S, ty)
      PROVE  \/ IsBelow(R, ty, i, R.pool[i].prev)
             \/ \A j \in 0 .. i - 1 : R.pool[j].type # ty
  <2>1. /\ i \in 0 .. S.idx /\ R.pool[i] = S.pool[i]
        /\ \A j \in 0 .. i - 1 : R.pool[j] = S.pool[j]
    BY <1>1, <1>2 DEF SlotsOf
  <2>2. ASSUME NEW j, IsBelow(S, ty, i, j)
        PROVE  IsBelow(R, ty, i, j)
    BY <2>1, <2>2, <1>1 DEF IsBelow
  <2>3. QED
    BY <2>1, <2>2 DEF Linked
<1>5. ASSUME R.pool[R.idx].type = ty, R.pool[R.idx].prev = tail
      PROVE  Linked(R, ty, R.idx)
  <2>1. IsTop(R, ty, R.idx)
    BY <1>1, <1>5 DEF IsTop, SlotsOf
  <2>2. \/ IsBelow(R, ty, R.idx, tail)
        \/ \A j \in 0 .. R.idx - 1 : R.pool[j].type # ty
    <3>1. CASE IsTop(S, ty, tail)
      BY <1>1, <1>2, <3>1 DEF IsTop, IsBelow, SlotsOf
    <3>2. CASE SlotsOf(S, ty) = {}
      BY <1>1, <1>2, <3>2 DEF SlotsOf
    <3>3. QED
      BY <3>1, <3>2 DEF Linked
  <2>3. \A i \in SlotsOf(R, ty) : i = R.idx \/ i \in SlotsOf(S, ty)
    BY <1>2, <1>3 DEF SlotsOf
  <2>4. QED
    BY <1>4, <1>5, <2>1, <2>2, <2>3 DEF Linked
<1>6. ASSUME R.pool[R.idx].type # ty
      PROVE  Linked(R, ty, tail)
  <2>1. SlotsOf(R, ty) = SlotsOf(S, ty)
    BY <1>2, <1>3, <1>6 DEF SlotsOf
  <2>2. ASSUME IsTop(S, ty, tail)
        PROVE  IsTop(R, ty, tail)
    <3>1. tail \in 0 .. S.idx /\ tail \in SlotsOf(R, ty)
      BY <2>1, <2>2 DEF IsTop, SlotsOf
    <3>2. ASSUME NEW j \in tail + 1 .. R.idx
          PROVE  R.pool[j].type # ty
      <4>1. j = R.idx \/ (j \in tail + 1 .. S.idx /\ j \in 0 .. S.idx)
        BY <1>1, <3>1
      <4>2. QED
        BY <4>1, <1>2, <1>6, <2>2 DEF IsTop
    <3>3. QED
      BY <3>1, <3>2 DEF IsTop
  <2>3. QED
    BY <1>4, <2>1, <2>2 DEF Linked
<1>7. QED
  BY <1>5, <1>6

\* Taking the top entry off its list.
LEMMA PopNodeLinked ==
    ASSUME NEW S \in Stack, NEW T \in Stack, NEW ty, NEW tail, Linked(S, ty, tail),
           S.idx >= 0, T.idx = S.idx - 1, Agree(S, T)
    PROVE  /\ S.pool[S.idx].type = ty =>
                 /\ tail = S.idx
                 /\ IsTop(T, ty, S.pool[S.idx].prev) \/ SlotsOf(T, ty) = {}
           /\ S.pool[S.idx].type # ty => IsTop(T, ty, tail) \/ SlotsOf(T, ty) = {}
<1>1. S.idx \in Int /\ T.idx \in Int
  BY StackFields, NumSlotsAssumption
<1>2. \A i \in 0 .. T.idx : i \in 0 .. S.idx /\ T.pool[i] = S.pool[i]
  BY <1>1 DEF Agree
<1>3. ASSUME S.pool[S.idx].type = ty
      PROVE  tail = S.idx /\ (IsTop(T, ty, S.pool[S.idx].prev) \/ SlotsOf(T, ty) = {})
  <2>1. S.idx \in SlotsOf(S, ty)
    BY <1>1, <1>3 DEF SlotsOf
  <2>2. tail = S.idx
    <3>1. tail \in 0 .. S.idx /\ (tail < S.idx => S.idx \in tail + 1 .. S.idx)
      BY <1>1, <2>1 DEF Linked, IsTop, SlotsOf
    <3>2. QED
      BY <1>1, <1>3, <2>1, <3>1 DEF Linked, IsTop
  <2>3. CASE IsBelow(S, ty, S.idx, S.pool[S.idx].prev)
    BY <1>1, <1>2, <2>2, <2>3 DEF IsBelow, IsTop, SlotsOf
  <2>4. CASE \A j \in 0 .. S.idx - 1 : S.pool[j].type # ty
    BY <1>1, <1>2, <2>2, <2>4 DEF SlotsOf
  <2>5. QED
    BY <2>1, <2>2, <2>3, <2>4 DEF Linked
<1>4. ASSUME S.pool[S.idx].type # ty
      PROVE  IsTop(T, ty, tail) \/ SlotsOf(T, ty) = {}
  <2>1. CASE IsTop(S, ty, tail)
    <3>1. tail \in 0 .. S.idx /\ tail # S.idx
      BY <1>4, <2>1 DEF IsTop, SlotsOf
    <3>2. QED
      BY <1>1, <1>2, <2>1, <3>1 DEF IsTop, SlotsOf
  <2>2. CASE SlotsOf(S, ty) = {}
    BY <1>2, <2>2 DEF SlotsOf
  <2>3. QED
    BY <2>1, <2>2 DEF Linked
<1>5. QED
  BY <1>3, <1>4

\* What R is when obj was pushed on S.
Pushed(S, R, obj) ==
    /\ R \in Stack
    /\ R.idx = S.idx + 1
    /\ Agree(R, S)
    /\ R.pool[R.idx] = obj

\* The push writes the new entry and nothing that is alive.
LEMMA PushEntry ==
    ASSUME NEW S \in Stack, WellFormed(S), ~Full(S), NEW obj \in LabelObj \cup FrameObj,
           NEW t \in {S.labels, S.frames}, NEW labels \in Nodes, NEW frames \in Nodes
    PROVE  LET new == S.idx + 1
           IN  Pushed(S, Stk(new, WriteNext([S.pool EXCEPT ![new] = obj], t), labels, frames), obj)
<1> DEFINE new == S.idx + 1
           pool1 == [S.pool EXCEPT ![new] = obj]
           pool2 == WriteNext(pool1, t)
           R == Stk(new, pool2, labels, frames)
<1>1. /\ S.idx \in -1 .. NumSlots - 1 /\ S.pool \in [Slots -> Objs]
      /\ NumSlots \in Nat /\ new \in Slots
  BY StackFields, NumSlotsAssumption DEF Full, Slots
<1>2. pool1 \in [Slots -> Objs] /\ pool1[new] = obj
  BY <1>1 DEF Objs
<1>3. \A i \in 0 .. S.idx : i \in Slots /\ i # new /\ pool1[i] = S.pool[i]
  BY <1>1 DEF Slots
<1>4. obj.type # "val"
  BY DEF LabelObj, FrameObj
<1> HIDE DEF pool1
<1>5. /\ pool2 \in [Slots -> Objs]
      /\ pool2[new] = obj
      /\ \A i \in 0 .. S.idx : pool2[i] = S.pool[i]
  BY <1>1, <1>2, <1>3, <1>4, WriteNextType, TailSparesValues
<1> HIDE DEF pool2
<1>6. R \in Stack
  BY <1>1, <1>5 DEF Stk, Stack, Objs, Slots
<1>7. R.idx = new /\ R.pool = pool2
  BY DEF Stk
<1>8. QED
  BY <1>5, <1>6, <1>7 DEF Pushed, Agree, pool1, pool2

\* A pushed label or frame that is linked to the old tail.
LEMMA PushNodeWellFormed ==
    ASSUME NEW S \in Stack, WellFormed(S), NEW obj \in LabelObj \cup FrameObj,
           NEW R, Pushed(S, R, obj),
           IF obj.type = "label"
           THEN obj.prev = S.labels /\ R.labels = R.idx /\ R.frames = S.frames
           ELSE obj.prev = S.frames /\ R.frames = R.idx /\ R.labels = S.labels,
           EntryOK(R, R.idx),
           S.idx >= 0 => EntryOK(R, S.idx)
    PROVE  WellFormed(R)
<1>1. /\ R \in Stack /\ S.idx \in Int /\ R.idx = S.idx + 1 /\ -1 <= S.idx
      /\ Agree(R, S) /\ R.pool[R.idx] = obj
  BY StackFields, NumSlotsAssumption DEF Pushed
<1>2. obj.type \in {"label", "frame"}
  BY DEF LabelObj, FrameObj
<1>3. Linked(R, "label", R.labels) /\ Linked(R, "frame", R.frames)
  <2>1. Linked(S, "label", S.labels) /\ Linked(S, "frame", S.frames)
    BY DEF WellFormed
  <2>2. CASE obj.type = "label"
    BY <1>1, <2>1, <2>2, PushNodeLinked
  <2>3. CASE obj.type = "frame"
    BY <1>1, <2>1, <2>3, PushNodeLinked
  <2>4. QED
    BY <1>2, <2>2, <2>3
<1>4. ASSUME NEW i \in 0 .. S.idx - 1
      PROVE  EntryOK(R, i)
  <2>1. /\ R.pool[i] = S.pool[i]
        /\ \A j \in 0 .. i - 1 : R.pool[j] = S.pool[j]
        /\ i # 0 => R.pool[i - 1] = S.pool[i - 1]
        /\ R.pool[i + 1] = S.pool[i + 1]
        /\ i < S.idx /\ i < R.idx
    BY <1>1 DEF Agree
  <2>2. EntryOK(S, i)
    BY <1>1 DEF WellFormed
  <2>3. QED
    BY <2>1, <2>2 DEF EntryOK
<1>5. \A i \in 0 .. R.idx : EntryOK(R, i)
  <2>1. \A i \in 0 .. R.idx : i = R.idx \/ (i = S.idx /\ S.idx >= 0) \/ i \in 0 .. S.idx - 1
    BY <1>1
  <2>2. QED
    BY <1>4, <2>1
<1>6. QED
  BY <1>3, <1>5 DEF WellFormed

\* push_label, on the function's frame or inside its body.
LEMMA PushLabelOK ==
    ASSUME NEW S \in Stack, WellFormed(S), ~Full(S), S.idx >= 0,
           NEW arity \in Arities, NEW parent \in Blocks \cup {NULL},
           IF parent = NULL
           THEN S.pool[S.idx].type = "frame" /\ S.pool[S.idx].arity = arity
           ELSE S.pool[S.idx].type # "frame" /\ arity = LabelArity(parent)
    PROVE  LET R == PushLabel(S, arity, parent)
           IN  /\ R \in Stack /\ WellFormed(R)
               /\ R.idx = S.idx + 1 /\ Agree(R, S) /\ R.frames = S.frames
               /\ R.pool[R.idx].type = "label" /\ R.pool[R.idx].parent = parent
<1> DEFINE obj == [type |-> "label", prev |-> S.labels, arity |-> arity, parent |-> parent]
           R == PushLabel(S, arity, parent)
<1>1. obj \in LabelObj
  BY StackFields DEF LabelObj
<1>2. /\ S.idx \in Int /\ S.idx + 1 \in Nodes
      /\ S.labels \in Nodes /\ S.frames \in Nodes
  BY StackFields, NumSlotsAssumption DEF Full, Nodes, Slots
<1>3. R = Stk(S.idx + 1, WriteNext([S.pool EXCEPT ![S.idx + 1] = obj], S.labels),
              S.idx + 1, S.frames)
  BY DEF PushLabel
<1>4. /\ obj.type = "label" /\ obj.prev = S.labels
      /\ obj.arity = arity /\ obj.parent = parent
  OBVIOUS
<1> HIDE DEF obj
<1>5. Pushed(S, R, obj)
  BY <1>1, <1>2, <1>3, PushEntry
<1>6. R.labels = S.idx + 1 /\ R.frames = S.frames
  BY <1>3 DEF Stk
<1> HIDE DEF R
<1>7. /\ R \in Stack /\ R.idx = S.idx + 1 /\ Agree(R, S) /\ R.pool[R.idx] = obj
      /\ R.pool[R.idx - 1] = S.pool[S.idx]
  BY <1>2, <1>5 DEF Pushed, Agree
<1>8. EntryOK(R, R.idx)
  BY <1>2, <1>4, <1>7 DEF EntryOK
<1>9. EntryOK(R, S.idx)
  <2>1. EntryOK(S, S.idx)
    BY <1>2 DEF WellFormed
  <2>2. /\ R.pool[S.idx] = S.pool[S.idx]
        /\ \A j \in 0 .. S.idx - 1 : R.pool[j] = S.pool[j]
        /\ S.idx # 0 => R.pool[S.idx - 1] = S.pool[S.idx - 1]
        /\ R.pool[S.idx + 1] = obj
    BY <1>2, <1>7 DEF Agree
  <2>3. QED
    BY <1>4, <2>1, <2>2 DEF EntryOK
<1>10. WellFormed(R)
  BY <1>1, <1>4, <1>5, <1>6, <1>7, <1>8, <1>9, PushNodeWellFormed
<1>11. QED
  BY <1>4, <1>6, <1>7, <1>10 DEF R

\* push_frame, on an empty stack, on the frame of instantiate or in a body.
LEMMA PushFrameOK ==
    ASSUME NEW S \in Stack, WellFormed(S), ~Full(S), NEW arity \in Arities
    PROVE  LET R == PushFrame(S, arity)
           IN  /\ R \in Stack /\ WellFormed(R)
               /\ R.idx = S.idx + 1 /\ Agree(R, S) /\ R.frames = R.idx
               /\ R.pool[R.idx].type = "frame" /\ R.pool[R.idx].arity = arity
<1> DEFINE obj == [type |-> "frame", prev |-> S.frames, arity |-> arity]
           R == PushFrame(S, arity)
<1>1. obj \in FrameObj
  BY StackFields DEF FrameObj
<1>2. /\ S.idx \in Int /\ -1 <= S.idx /\ S.idx + 1 \in Nodes
      /\ S.labels \in Nodes /\ S.frames \in Nodes
  BY StackFields, NumSlotsAssumption DEF Full, Nodes, Slots
<1>3. R = Stk(S.idx + 1, WriteNext([S.pool EXCEPT ![S.idx + 1] = obj], S.frames),
              S.labels, S.idx + 1)
  BY DEF PushFrame
<1>4. obj.type = "frame" /\ obj.prev = S.frames /\ obj.arity = arity
  OBVIOUS
<1> HIDE DEF obj
<1>5. Pushed(S, R, obj)
  BY <1>1, <1>2, <1>3, PushEntry
<1>6. R.labels = S.labels /\ R.frames = S.idx + 1
  BY <1>3 DEF Stk
<1> HIDE DEF R
<1>7. R \in Stack /\ R.idx = S.idx + 1 /\ Agree(R, S) /\ R.pool[R.idx] = obj
  BY <1>5 DEF Pushed
<1>8. EntryOK(R, R.idx)
  BY <1>2, <1>4, <1>7 DEF EntryOK
<1>9. ASSUME S.idx >= 0
      PROVE  EntryOK(R, S.idx)
  <2>1. EntryOK(S, S.idx)
    BY <1>2, <1>9 DEF WellFormed
  <2>2. /\ R.pool[S.idx] = S.pool[S.idx]
        /\ \A j \in 0 .. S.idx - 1 : R.pool[j] = S.pool[j]
        /\ S.idx # 0 => R.pool[S.idx - 1] = S.pool[S.idx - 1]
        /\ R.pool[S.idx + 1] = obj
    BY <1>2, <1>7, <1>9 DEF Agree
  <2>3. QED
    BY <1>4, <2>1, <2>2 DEF EntryOK
<1>10. WellFormed(R)
  BY <1>1, <1>4, <1>5, <1>6, <1>7, <1>8, <1>9, PushNodeWellFormed
<1>11. QED
  BY <1>4, <1>6, <1>7, <1>10 DEF R

\* The top entry is the tail of its list, and its link spares live values.
LEMMA TopIsTail ==
    ASSUME NEW S \in Stack, WellFormed(S), S.idx >= 0
    PROVE  /\ S.pool[S.idx].type = "label" => S.labels = S.idx
           /\ S.pool[S.idx].type = "frame" => S.frames = S.idx
<1>1. /\ PopN(S, 1) \in Stack
      /\ PopN(S, 1).idx = S.idx - 1
      /\ Agree(S, PopN(S, 1))
  BY PopNType, StackFields, NumSlotsAssumption
<1>2. QED
  BY <1>1, PopNodeLinked DEF WellFormed

LEMMA LinkSparesValues ==
    ASSUME NEW S \in Stack, WellFormed(S), S.idx >= 0,
           S.pool[S.idx].type \in {"label", "frame"},
           S.pool[S.idx].prev \in 0 .. S.idx - 1
    PROVE  S.pool[S.pool[S.idx].prev].type # "val"
<1> DEFINE ty == S.pool[S.idx].type
           p  == S.pool[S.idx].prev
<1>1. /\ S.idx \in Int /\ p \in 0 .. S.idx /\ S.idx \in SlotsOf(S, ty)
      /\ EntryOK(S, p) /\ EntryOK(S, 0)
  BY StackFields, NumSlotsAssumption DEF SlotsOf, WellFormed
<1>2. \/ IsBelow(S, ty, S.idx, p)
      \/ \A j \in 0 .. S.idx - 1 : S.pool[j].type # ty
  BY <1>1 DEF WellFormed, Linked
<1>3. CASE IsBelow(S, ty, S.idx, p)
  BY <1>3, SMTT(40) DEF IsBelow
<1>4. CASE /\ \A j \in 0 .. S.idx - 1 : S.pool[j].type # ty
           /\ ty = "label"
  <2>1. \A j \in 0 .. p - 1 : S.pool[j].type # "label"
    BY <1>1, <1>4, SMTT(40)
  <2>2. QED
    BY <1>1, <2>1 DEF EntryOK
<1>5. CASE /\ \A j \in 0 .. S.idx - 1 : S.pool[j].type # ty
           /\ ty = "frame"
  BY <1>1, <1>5 DEF EntryOK
<1>6. QED
  BY <1>2, <1>3, <1>4, <1>5

\* The effect of popping a node: the rest of the stack stays.
LEMMA PopEntry ==
    ASSUME NEW S \in Stack, WellFormed(S), S.idx >= 0,
           S.pool[S.idx].type \in {"label", "frame"},
           NEW tail \in {S.labels, S.frames}, tail = S.idx
    PROVE  LET list == PopTail(S.pool, tail)
           IN  /\ list.tail = S.pool[S.idx].prev
               /\ list.tail \in Nodes
               /\ Cut(list.pool, S.idx - 1) \in [Slots -> Objs]
               /\ \A i \in 0 .. S.idx - 1 : Cut(list.pool, S.idx - 1)[i] = S.pool[i]
<1> DEFINE prev == S.pool[S.idx].prev
           pool == WriteNext(S.pool, prev)
<1>1. /\ S.idx \in Slots /\ S.idx # ListHead /\ S.pool \in [Slots -> Objs]
      /\ \A i \in 0 .. S.idx - 1 : i \in Slots /\ i <= S.idx - 1
  BY StackFields, NumSlotsAssumption DEF Slots, ListHead
<1>2. PrevOf(S.pool, tail) = prev /\ prev \in Nodes
  <2>1. S.pool[S.idx] \in LabelObj \cup FrameObj
    BY <1>1 DEF Objs, ValObj, FreeObj
  <2>2. QED
    BY <1>1, <2>1 DEF PrevOf, LabelObj, FrameObj
<1>3. PopTail(S.pool, tail) = [pool |-> pool, tail |-> prev]
  BY <1>1, <1>2 DEF PopTail
<1>4. /\ pool \in [Slots -> Objs]
      /\ \A i \in 0 .. S.idx - 1 : pool[i] = S.pool[i]
  BY <1>1, LinkSparesValues, WriteNextType
<1> HIDE DEF pool
<1>5. /\ Cut(pool, S.idx - 1) \in [Slots -> Objs]
      /\ \A i \in 0 .. S.idx - 1 : Cut(pool, S.idx - 1)[i] = S.pool[i]
  BY <1>1, <1>4 DEF Cut, Free, FreeObj, Objs
<1>6. QED
  BY <1>2, <1>3, <1>5

LEMMA PopLabelOK ==
    ASSUME NEW S \in Stack, WellFormed(S), S.idx >= 0, S.pool[S.idx].type = "label"
    PROVE  LET T == PopLabel(S)
           IN  /\ T \in Stack /\ WellFormed(T)
               /\ T.idx = S.idx - 1 /\ Agree(S, T)
               /\ T.labels = S.pool[S.idx].prev /\ T.frames = S.frames
<1> DEFINE list == PopTail(S.pool, S.labels)
           T == PopLabel(S)
<1>1. S.labels = S.idx
  BY TopIsTail
<1>2. /\ list.tail = S.pool[S.idx].prev
      /\ list.tail \in Nodes
      /\ Cut(list.pool, S.idx - 1) \in [Slots -> Objs]
      /\ \A i \in 0 .. S.idx - 1 : Cut(list.pool, S.idx - 1)[i] = S.pool[i]
  BY <1>1, PopEntry
<1>3. T = Stk(S.idx - 1, Cut(list.pool, S.idx - 1), list.tail, S.frames)
  BY DEF PopLabel
<1> HIDE DEF list
<1>4. /\ T \in Stack /\ T.idx = S.idx - 1 /\ Agree(S, T)
      /\ T.labels = S.pool[S.idx].prev /\ T.frames = S.frames
  BY <1>2, <1>3, StackFields, NumSlotsAssumption DEF Stk, Stack, Objs, Agree
<1> HIDE DEF T
<1>5. Tailed(T)
  BY <1>4, PopNodeLinked DEF WellFormed, Tailed
<1>6. WellFormed(T)
  BY <1>4, <1>5, CutWellFormed, StackFields, NumSlotsAssumption
<1>7. QED
  BY <1>4, <1>6 DEF T

LEMMA PopFrameOK ==
    ASSUME NEW S \in Stack, WellFormed(S), S.idx >= 0, S.pool[S.idx].type = "frame"
    PROVE  LET T == PopFrame(S)
           IN  /\ T \in Stack /\ WellFormed(T)
               /\ T.idx = S.idx - 1 /\ Agree(S, T)
               /\ T.labels = S.labels /\ T.frames = S.pool[S.idx].prev
<1> DEFINE list == PopTail(S.pool, S.frames)
           T == PopFrame(S)
<1>1. S.frames = S.idx
  BY TopIsTail
<1>2. /\ list.tail = S.pool[S.idx].prev
      /\ list.tail \in Nodes
      /\ Cut(list.pool, S.idx - 1) \in [Slots -> Objs]
      /\ \A i \in 0 .. S.idx - 1 : Cut(list.pool, S.idx - 1)[i] = S.pool[i]
  BY <1>1, PopEntry
<1>3. T = Stk(S.idx - 1, Cut(list.pool, S.idx - 1), S.labels, list.tail)
  BY DEF PopFrame
<1> HIDE DEF list
<1>4. /\ T \in Stack /\ T.idx = S.idx - 1 /\ Agree(S, T)
      /\ T.labels = S.labels /\ T.frames = S.pool[S.idx].prev
  BY <1>2, <1>3, StackFields, NumSlotsAssumption DEF Stk, Stack, Objs, Agree
<1> HIDE DEF T
<1>5. Tailed(T)
  BY <1>4, PopNodeLinked DEF WellFormed, Tailed
<1>6. WellFormed(T)
  BY <1>4, <1>5, CutWellFormed, StackFields, NumSlotsAssumption
<1>7. QED
  BY <1>4, <1>6 DEF T

-----------------------------------------------------------------------------
(* The stack while a function's body runs.                                 *)

\* f is the frame of the running function and its label lies on it.
Body(S, f) ==
    /\ S \in Stack /\ WellFormed(S)
    /\ IsTop(S, "frame", f)
    /\ f < S.idx

LEMMA BodyLabel ==
    ASSUME NEW S, NEW f, Body(S, f)
    PROVE  /\ f \in Nat /\ f + 1 \in 0 .. S.idx /\ S.idx \in Int
           /\ S.pool[f].type = "frame"
           /\ S.pool[f + 1].type = "label" /\ S.pool[f + 1].parent = NULL
           /\ S.pool[S.idx].type # "frame"
<1>1. /\ S.idx \in Int /\ f \in 0 .. S.idx /\ S.pool[f].type = "frame"
      /\ \A j \in f + 1 .. S.idx : S.pool[j].type # "frame"
  BY StackFields, NumSlotsAssumption DEF Body, IsTop, SlotsOf
<1>2. EntryOK(S, f) /\ f < S.idx
  BY <1>1 DEF Body, WellFormed
<1>3. QED
  BY <1>1, <1>2 DEF EntryOK

\* What lies above the frame may change as long as it holds no other frame.
LEMMA TopFrameGrow ==
    ASSUME NEW S \in Stack, NEW T \in Stack, NEW f, IsTop(S, "frame", f),
           S.idx <= T.idx, Agree(T, S),
           \A i \in S.idx + 1 .. T.idx : T.pool[i].type # "frame"
    PROVE  IsTop(T, "frame", f) /\ \A i \in 0 .. f : T.pool[i] = S.pool[i]
<1>1. S.idx \in Int /\ T.idx \in Int /\ f \in 0 .. S.idx
  BY StackFields, NumSlotsAssumption DEF IsTop, SlotsOf
<1>2. \A i \in 0 .. T.idx : i \in 0 .. S.idx => T.pool[i] = S.pool[i]
  BY <1>1 DEF Agree
<1>3. \A i \in 0 .. f : i \in 0 .. T.idx /\ i \in 0 .. S.idx
  BY <1>1
<1>4. ASSUME NEW i \in f + 1 .. T.idx
      PROVE  T.pool[i].type # "frame"
  <2>1. i \in 0 .. T.idx /\ ((i \in f + 1 .. S.idx /\ i \in 0 .. S.idx) \/ i \in S.idx + 1 .. T.idx)
    BY <1>1
  <2>2. QED
    BY <2>1, <1>2 DEF IsTop
<1>5. f \in 0 .. T.idx /\ T.pool[f].type = "frame"
  BY <1>1, <1>2, <1>3 DEF IsTop, SlotsOf
<1>6. QED
  BY <1>2, <1>3, <1>4, <1>5 DEF IsTop, SlotsOf

LEMMA TopFrameCut ==
    ASSUME NEW S \in Stack, NEW T \in Stack, NEW f, IsTop(S, "frame", f),
           f <= T.idx, T.idx <= S.idx, Agree(S, T)
    PROVE  IsTop(T, "frame", f) /\ \A i \in 0 .. f : T.pool[i] = S.pool[i]
<1>1. S.idx \in Int /\ T.idx \in Int /\ f \in 0 .. S.idx
  BY StackFields, NumSlotsAssumption DEF IsTop, SlotsOf
<1>2. \A i \in 0 .. T.idx : T.pool[i] = S.pool[i]
  BY DEF Agree
<1>3. f \in 0 .. T.idx /\ T.pool[f].type = "frame"
  BY <1>1, <1>2 DEF IsTop, SlotsOf
<1>4. \A i \in f + 1 .. T.idx : i \in 0 .. T.idx /\ i \in f + 1 .. S.idx
  BY <1>1
<1>5. QED
  BY <1>1, <1>2, <1>3, <1>4 DEF IsTop, SlotsOf

LEMMA BodyPop ==
    ASSUME NEW S, NEW f, Body(S, f), NEW n \in Nat, HasVals(S, n)
    PROVE  /\ Body(PopN(S, n), f)
           /\ PopN(S, n).idx = S.idx - n
           /\ PopN(S, n).labels = S.labels
           /\ Agree(S, PopN(S, n))
           /\ TopVals(S, n) \in Seq(Val) /\ Len(TopVals(S, n)) = n
<1>1. S \in Stack /\ WellFormed(S) /\ S.idx \in Int /\ f \in Nat /\ f + 1 \in 0 .. S.idx
  BY BodyLabel DEF Body
<1>2. /\ PopN(S, n) \in Stack /\ WellFormed(PopN(S, n))
      /\ PopN(S, n).idx = S.idx - n /\ Agree(S, PopN(S, n))
      /\ PopN(S, n).labels = S.labels
  BY <1>1, PopNType, PopNWellFormed DEF HasVals
<1>3. f + 1 <= S.idx - n
  BY <1>1, BodyLabel DEF HasVals
<1>4. IsTop(PopN(S, n), "frame", f)
  BY <1>1, <1>2, <1>3, TopFrameCut DEF Body
<1>5. \A i \in S.idx + 1 - n .. S.idx : S.pool[i].val # LINK
  BY <1>1 DEF HasVals, WellFormed, EntryOK
<1>6. TopVals(S, n) \in Seq(Val) /\ Len(TopVals(S, n)) = n
  BY <1>1, <1>5, TopValsType
<1>7. QED
  BY <1>1, <1>2, <1>3, <1>4, <1>6 DEF Body

LEMMA BodyPush ==
    ASSUME NEW S, NEW f, Body(S, f), NEW vals \in Seq(Val)
    PROVE  /\ Body(PushVals(S, vals), f)
           /\ Agree(PushVals(S, vals), S)
           /\ ~Overflows(S, Len(vals)) =>
                 /\ PushVals(S, vals).idx = S.idx + Len(vals)
                 /\ HasVals(PushVals(S, vals), Len(vals))
<1> DEFINE R == PushVals(S, vals)
<1>1. /\ S \in Stack /\ WellFormed(S) /\ S.idx \in Int /\ f \in Nat /\ f + 1 \in 0 .. S.idx
      /\ S.idx >= 0 /\ S.pool[S.idx].type # "frame" /\ Len(vals) \in Nat
  BY BodyLabel DEF Body
<1>2. /\ R \in Stack /\ WellFormed(R)
      /\ S.idx <= R.idx /\ Agree(R, S)
      /\ ~Overflows(S, Len(vals)) => R.idx = S.idx + Len(vals)
      /\ \A i \in S.idx + 1 .. R.idx : R.pool[i].type = "val" /\ R.pool[i].val # LINK
  BY <1>1, PushValsType, PushValsWellFormed
<1> HIDE DEF R
<1>3. R.idx \in Int
  BY <1>2, StackFields, NumSlotsAssumption
<1>4. IsTop(R, "frame", f)
  BY <1>1, <1>2, <1>3, TopFrameGrow DEF Body
<1>5. Body(R, f)
  BY <1>1, <1>2, <1>3, <1>4 DEF Body
<1>6. ~Overflows(S, Len(vals)) => HasVals(R, Len(vals))
  BY <1>1, <1>2, <1>3, SMTT(40) DEF HasVals
<1>7. QED
  BY <1>2, <1>5, <1>6 DEF R

LEMMA BodyEnter ==
    ASSUME NEW S, NEW f, Body(S, f), ~Full(S), NEW b \in Blocks
    PROVE  LET R == PushLabel(S, LabelArity(b), b)
           IN  Body(R, f) /\ R.idx = S.idx + 1 /\ Agree(R, S)
<1> DEFINE R == PushLabel(S, LabelArity(b), b)
<1>1. /\ S \in Stack /\ WellFormed(S) /\ S.idx \in Int /\ f \in Nat /\ f + 1 \in 0 .. S.idx
      /\ S.idx >= 0 /\ S.pool[S.idx].type # "frame"
  BY BodyLabel DEF Body
<1>2. LabelArity(b) \in Arities /\ b # NULL
  BY BlocksAssumption DEF LabelArity, Instr
<1>3. /\ R \in Stack /\ WellFormed(R) /\ R.idx = S.idx + 1 /\ Agree(R, S)
      /\ R.pool[R.idx].type = "label"
  BY <1>1, <1>2, PushLabelOK
<1> HIDE DEF R
<1>4. S.idx <= R.idx /\ f <= R.idx /\ f < R.idx
      /\ \A i \in S.idx + 1 .. R.idx : R.pool[i].type # "frame"
  BY <1>1, <1>3
<1>5. IsTop(R, "frame", f)
  BY <1>1, <1>3, <1>4, TopFrameGrow DEF Body
<1>6. QED
  BY <1>3, <1>4, <1>5 DEF Body, R

LEMMA BodyExit ==
    ASSUME NEW S, NEW f, Body(S, f), S.pool[S.idx].type = "label"
    PROVE  LET T == PopLabel(S)
           IN  /\ T \in Stack /\ WellFormed(T) /\ IsTop(T, "frame", f)
               /\ T.idx = S.idx - 1 /\ Agree(S, T) /\ T.labels = S.pool[S.idx].prev
               /\ IF S.pool[S.idx].parent = NULL
                  THEN T.idx = f /\ S.pool[S.idx].arity = S.pool[f].arity
                  ELSE Body(T, f) /\ S.pool[S.idx].arity = LabelArity(S.pool[S.idx].parent)
<1> DEFINE T == PopLabel(S)
<1>1. /\ S \in Stack /\ WellFormed(S) /\ S.idx \in Int /\ f \in Nat /\ f + 1 \in 0 .. S.idx
      /\ S.pool[f + 1].type = "label" /\ S.pool[f + 1].parent = NULL
      /\ EntryOK(S, S.idx)
  BY BodyLabel DEF Body, WellFormed
<1>2. /\ T \in Stack /\ WellFormed(T) /\ T.idx = S.idx - 1 /\ Agree(S, T)
      /\ T.labels = S.pool[S.idx].prev
  BY <1>1, PopLabelOK
<1> HIDE DEF T
<1>3. T.idx <= S.idx /\ f <= T.idx
  BY <1>1, <1>2
<1>4. IsTop(T, "frame", f)
  BY <1>1, <1>2, <1>3, TopFrameCut DEF Body
<1>5. CASE S.pool[S.idx].parent = NULL
  <2>1. S.pool[S.idx - 1].type = "frame" /\ S.pool[S.idx - 1].arity = S.pool[S.idx].arity
    BY <1>1, <1>5 DEF EntryOK
  <2>2. ~(S.idx - 1 \in f + 1 .. S.idx)
    BY <2>1 DEF Body, IsTop
  <2>3. S.idx - 1 = f
    BY <1>1, <2>2
  <2>4. QED
    BY <1>2, <1>4, <1>5, <2>1, <2>3 DEF T
<1>6. CASE S.pool[S.idx].parent # NULL
  <2>1. S.idx # f + 1 /\ S.pool[S.idx].arity = LabelArity(S.pool[S.idx].parent)
    BY <1>1, <1>6 DEF EntryOK
  <2>2. f < T.idx
    BY <1>1, <1>2, <2>1
  <2>3. QED
    BY <1>2, <1>4, <1>6, <2>1, <2>2 DEF Body, T
<1>7. QED
  BY <1>5, <1>6

-----------------------------------------------------------------------------
(* The interpreter's steps.                                                *)

\* Activations are under way in C.
Active == host \in {"invoke", "start"}

\* S still has what lay below the frame of the innermost activation.
KeepsBelow(S) == \A i \in 0 .. Current.frame - 1 : i <= S.idx /\ S.pool[i] = st.pool[i]

Untouched == calls # <<>> => KeepsBelow(st')

\* The frames on the stack are those of the activations and, under them, the
\* one of instantiate.
FrameSet ==
    Active => SlotsOf(st, "frame") =
                 {calls[k].frame : k \in 1 .. Top} \cup (IF host = "invoke" THEN {} ELSE {0})

\* What a step does not disturb.
Steady == Untouched /\ (FrameSet => FrameSet')

LEMMA Types ==
    ASSUME TypeOK
    PROVE  /\ st \in Stack /\ st.idx \in -1 .. NumSlots - 1 /\ st.idx \in Int
           /\ Top \in Nat
           /\ Top > 0 => Current \in Call /\ Current.arity \in Arities /\ Current.arity \in Nat
           /\ NumSlots \in Nat
<1>1. st \in Stack /\ calls \in Seq(Call)
  BY DEF TypeOK
<1>2. Top \in Nat /\ (Top > 0 => calls[Top] \in Call)
  BY <1>1 DEF Top
<1>3. \A c \in Call : c.arity \in Arities /\ c.arity \in Nat
  BY MaxArityAssumption DEF Call, Arities
<1>4. QED
  BY <1>1, <1>2, <1>3, StackFields, NumSlotsAssumption DEF Current

\* Between two instructions of a function.
LEMMA AtRun ==
    ASSUME IInv, AtInstr
    PROVE  /\ Active /\ CallsOK /\ TypeOK /\ Top > 0
           /\ Body(st, Current.frame)
<1>1. pc = Run /\ pc.at = "run" /\ pc # AtHost /\ pc # Return
  BY DEF AtInstr, Run, AtHost, Return
<1>2. Active /\ CallsOK /\ PcOK
  BY <1>1 DEF IInv, ControlOK, Active
<1>3. st.idx > Current.frame /\ IsTop(st, "frame", Current.frame)
  BY <1>1, <1>2 DEF PcOK, CallsOK, Run
<1>4. st \in Stack /\ WellFormed(st)
  BY <1>1 DEF IInv, Settled, TypeOK
<1>5. Current.frame \in Int /\ st.idx \in Int
  BY <1>3, <1>4, StackFields, NumSlotsAssumption DEF IsTop, SlotsOf
<1>6. QED
  BY <1>2, <1>3, <1>4, <1>5 DEF Body, CallsOK, IInv

\* A trap leaves a well-formed stack to the host.
LEMMA ThrowOK ==
    ASSUME NEW S, S \in Stack, WellFormed(S), Throw(S)
    PROVE  IInv'
<1>1. st' = S /\ host' = "trapped" /\ calls' = <<>> /\ pc' = AtHost
  BY DEF Throw
<1>2. AtHost # Return
  BY DEF AtHost, Return
<1>3. TypeOK'
  BY <1>1 DEF TypeOK, Hosts, PCs
<1>4. WellFormed(Settled)'
  BY <1>1, <1>2 DEF Settled
<1>5. ControlOK'
  BY <1>1 DEF ControlOK
<1>6. QED
  BY <1>3, <1>4, <1>5 DEF IInv

LEMMA BelowOK ==
    ASSUME NEW S, Body(S, Current.frame),
           \A i \in 0 .. Current.frame : S.pool[i] = st.pool[i]
    PROVE  KeepsBelow(S)
<1>1. Current.frame \in Nat /\ Current.frame + 1 \in 0 .. S.idx /\ S.idx \in Int
  BY BodyLabel
<1>2. QED
  BY <1>1 DEF KeepsBelow

\* A trap in the innermost activation.
LEMMA ThrowInOK ==
    ASSUME NEW S, S \in Stack, WellFormed(S), Throw(S), KeepsBelow(S)
    PROVE  IInv' /\ Steady
<1>1. ~Active'
  BY DEF Throw, Active
<1>2. QED
  BY <1>1, ThrowOK DEF Steady, FrameSet, Untouched, Throw

\* A step within the current activation keeps the activations in order.
LEMMA ContinueOK ==
    ASSUME TypeOK, Active, CallsOK,
           NEW S \in Stack, NEW next \in PCs, Continue(S, next),
           IsTop(S, "frame", Current.frame),
           \A i \in 0 .. Current.frame : S.pool[i] = st.pool[i]
    PROVE  TypeOK' /\ CallsOK' /\ Active' /\ Current' = Current /\ Steady
<1>1. st' = S /\ pc' = next /\ host' = host /\ calls' = calls
  BY DEF Continue
<1>2. TypeOK' /\ Active' /\ Current' = Current /\ Top' = Top
  BY <1>1 DEF TypeOK, Active, Current, Top
<1>3. Current.frame \in 0 .. S.idx /\ Top \in Nat /\ Top > 0 /\ S.idx \in Int
  BY StackFields, NumSlotsAssumption, Types DEF IsTop, SlotsOf, CallsOK
<1>4. \A i \in 0 .. Current.frame : i \in 0 .. S.idx
  BY <1>3
<1>5. \A k \in 1 .. Top : calls[k].frame \in 0 .. Current.frame
  BY <1>3 DEF CallsOK, IsTop, SlotsOf
<1>6. \A k \in 1 .. Top : /\ calls[k].frame \in SlotsOf(S, "frame")
                          /\ calls[k].arity = S.pool[calls[k].frame].arity
  BY <1>4, <1>5 DEF CallsOK, SlotsOf
<1>7. ASSUME NEW k \in 1 .. Top - 1
      PROVE  IsBelow(S, "frame", calls[k + 1].frame, calls[k].frame)
  <2>1. IsBelow(st, "frame", calls[k + 1].frame, calls[k].frame)
    BY DEF CallsOK
  <2>2. calls[k + 1].frame \in 0 .. Current.frame /\ k + 1 \in 1 .. Top
    BY <1>3, <1>5
  <2>3. \A j \in 0 .. calls[k + 1].frame : S.pool[j] = st.pool[j]
    BY <1>3, <2>2
  <2>4. QED
    BY <1>3, <2>1, <2>2, <2>3 DEF IsBelow
<1>8. CallsOK'
  BY <1>1, <1>2, <1>6, <1>7 DEF CallsOK
<1>9. Untouched
  <2>1. \A i \in 0 .. Current.frame - 1 : i \in 0 .. Current.frame /\ i <= S.idx
    BY <1>3
  <2>2. QED
    BY <1>1, <2>1 DEF Untouched, KeepsBelow
<1>10. FrameSet => FrameSet'
  <2>1. IsTop(st, "frame", Current.frame) /\ st.idx \in Int
    BY Types DEF CallsOK
  <2>2. SlotsOf(S, "frame") = SlotsOf(st, "frame")
    BY <1>3, <2>1 DEF SlotsOf, IsTop
  <2>3. QED
    BY <1>1, <1>2, <2>2 DEF FrameSet, Active
<1>11. QED
  BY <1>2, <1>8, <1>9, <1>10 DEF Steady

\* The body goes on with the next instruction.
LEMMA RunOK ==
    ASSUME TypeOK, Active, CallsOK,
           NEW S, Body(S, Current.frame),
           \A i \in 0 .. Current.frame : S.pool[i] = st.pool[i],
           Continue(S, Run)
    PROVE  IInv' /\ Steady
<1>1. /\ S \in Stack /\ WellFormed(S) /\ IsTop(S, "frame", Current.frame)
      /\ Current.frame < S.idx /\ S.idx \in Int /\ Current.frame \in Int
  BY BodyLabel DEF Body
<1>2. Run \in PCs /\ Run # Return
  BY DEF PCs, Run, Return
<1>3. TypeOK' /\ CallsOK' /\ Active' /\ Current' = Current /\ Steady
  BY <1>1, <1>2, ContinueOK
<1>4. st' = S /\ pc' = Run
  BY DEF Continue
<1>5. WellFormed(Settled)'
  BY <1>1, <1>2, <1>4 DEF Settled
<1>6. PcOK'
  BY <1>1, <1>3, <1>4 DEF PcOK
<1>7. QED
  BY <1>3, <1>5, <1>6 DEF IInv, ControlOK, Active

LEMMA OperateOK ==
    ASSUME IInv, NEW k, NEW r, NEW v \in Val, Operate(k, r, v)
    PROVE  IInv' /\ Steady
<1> DEFINE f == Current.frame
           P == PopN(st, k)
           R == PushVal(P, v)
<1>1. AtInstr /\ HasVals(st, k) /\ k \in Nat /\ <<v>> \in Seq(Val)
  BY DEF Operate, Profiles, ParametricProfiles, VariableProfiles, NumericProfiles,
     ReferenceProfiles, TableProfiles, LoadProfiles, StoreProfiles, MemoryProfiles
<1>2. Active /\ CallsOK /\ TypeOK /\ Body(st, f)
  BY <1>1, AtRun
<1>3. Body(P, f) /\ Agree(st, P)
  BY <1>1, <1>2, BodyPop
<1>4. Body(R, f) /\ Agree(R, P)
  BY <1>1, <1>3, BodyPush DEF PushVal
<1>5. P \in Stack /\ WellFormed(P)
  BY <1>3 DEF Body
<1>6. f \in Nat /\ f + 1 \in 0 .. P.idx /\ P.idx \in Int
  BY <1>3, BodyLabel
<1>7. /\ \A i \in 0 .. f : P.pool[i] = st.pool[i]
      /\ \A i \in 0 .. f : R.pool[i] = st.pool[i]
  BY <1>3, <1>4, <1>6 DEF Agree
<1>8. Continue(P, Run) \/ Continue(R, Run) \/ Throw(P)
  BY DEF Operate
<1> HIDE DEF P, R, f
<1>9. KeepsBelow(P)
  BY <1>3, <1>7, BelowOK DEF f
<1>10. QED
  BY <1>2, <1>3, <1>4, <1>5, <1>7, <1>8, <1>9, RunOK, ThrowInOK DEF f

LEMMA LocalTeeOK ==
    ASSUME IInv, LocalTee
    PROVE  IInv' /\ Steady
<1> DEFINE f == Current.frame
           v == TopVals(st, 1)[1]
           P == PushVal(PopN(st, 1), v)
           R == PushVal(P, v)
           Q == PopN(R, 1)
<1>1. AtInstr /\ HasVals(st, 1)
  BY DEF LocalTee
<1>2. Active /\ CallsOK /\ TypeOK /\ Body(st, f)
  BY <1>1, AtRun
<1>3. Body(PopN(st, 1), f) /\ TopVals(st, 1) \in Seq(Val) /\ Len(TopVals(st, 1)) = 1
      /\ Agree(st, PopN(st, 1))
  BY <1>1, <1>2, BodyPop
<1>4. <<v>> \in Seq(Val) /\ Len(<<v>>) = 1
  BY <1>3
<1> HIDE DEF v
<1>5. Body(P, f) /\ Agree(P, PopN(st, 1))
  BY <1>3, <1>4, BodyPush DEF PushVal
<1>6. P \in Stack /\ WellFormed(P)
  BY <1>5 DEF Body
<1>7. CASE Full(P) /\ Throw(P)
  <2>1. /\ f \in Nat
        /\ f + 1 \in 0 .. P.idx /\ P.idx \in Int
        /\ f + 1 \in 0 .. PopN(st, 1).idx /\ PopN(st, 1).idx \in Int
    BY <1>3, <1>5, BodyLabel
  <2>2. \A i \in 0 .. f : P.pool[i] = st.pool[i]
    BY <1>3, <1>5, <2>1 DEF Agree
  <2>3. QED
    BY <1>5, <1>6, <1>7, <2>2, BelowOK, ThrowInOK
<1>8. CASE ~Full(P) /\ Continue(Q, Run)
  <2>1. ~Overflows(P, 1)
    BY <1>6, <1>8, StackFields, NumSlotsAssumption DEF Full, Overflows
  <2>2. Body(R, f) /\ Agree(R, P) /\ HasVals(R, 1)
    BY <1>4, <1>5, <2>1, BodyPush DEF PushVal
  <2>3. Body(Q, f) /\ Agree(R, Q)
    BY <2>2, BodyPop
  <2>4. /\ f \in Nat
        /\ f + 1 \in 0 .. Q.idx /\ Q.idx \in Int
        /\ f + 1 \in 0 .. P.idx /\ P.idx \in Int
        /\ f + 1 \in 0 .. PopN(st, 1).idx /\ PopN(st, 1).idx \in Int
    BY <1>3, <1>5, <2>3, BodyLabel
  <2>5. \A i \in 0 .. f : Q.pool[i] = st.pool[i]
    BY <1>3, <1>5, <2>2, <2>3, <2>4 DEF Agree
  <2>6. QED
    BY <1>2, <1>8, <2>3, <2>5, RunOK
<1>9. QED
  BY <1>7, <1>8 DEF LocalTee, v

LEMMA TrapOK ==
    ASSUME IInv, NEW k \in 0 .. 3, Trap(k)
    PROVE  IInv' /\ Steady
<1>1. AtInstr /\ HasVals(st, k) /\ k \in Nat
  BY DEF Trap
<1>2. Body(st, Current.frame)
  BY <1>1, AtRun
<1>3. Body(PopN(st, k), Current.frame) /\ Agree(st, PopN(st, k))
  BY <1>1, <1>2, BodyPop
<1>4. \A i \in 0 .. Current.frame : PopN(st, k).pool[i] = st.pool[i]
  BY <1>3, BodyLabel DEF Agree
<1>5. QED
  BY <1>3, <1>4, BelowOK, ThrowInOK DEF Trap, Body

-----------------------------------------------------------------------------
(* Structured control.                                                     *)

LEMMA EnterBlockOK ==
    ASSUME TypeOK, Active, CallsOK,
           NEW S, Body(S, Current.frame),
           \A i \in 0 .. Current.frame : S.pool[i] = st.pool[i],
           NEW b \in Blocks, HasVals(S, b.rt1), EnterBlock(S, b)
    PROVE  IInv' /\ Steady
<1> DEFINE f == Current.frame
           vals == TopVals(S, b.rt1)
           P == PopN(S, b.rt1)
           L == PushLabel(P, LabelArity(b), b)
           V == PushVals(L, vals)
<1>1. b.rt1 \in Nat
  BY BlocksAssumption, MaxArityAssumption DEF Instr, Arities
<1>2. Body(P, f) /\ Agree(S, P) /\ vals \in Seq(Val)
  BY <1>1, BodyPop
<1> HIDE DEF vals
<1>3. P \in Stack /\ WellFormed(P)
  BY <1>2 DEF Body
<1>4. CASE Full(P) /\ Throw(P)
  <2>1. \A i \in 0 .. f : P.pool[i] = st.pool[i]
    BY <1>2, BodyLabel DEF Agree
  <2>2. QED
    BY <1>2, <1>3, <1>4, <2>1, BelowOK, ThrowInOK
<1>5. CASE ~Full(P) /\ (Throw(V) \/ Continue(V, Run))
  <2>1. Body(L, f) /\ Agree(L, P)
    BY <1>2, <1>5, BodyEnter
  <2>2. Body(V, f) /\ Agree(V, L)
    BY <1>2, <2>1, BodyPush
  <2>3. /\ f \in Nat
        /\ f + 1 \in 0 .. P.idx /\ P.idx \in Int
        /\ f + 1 \in 0 .. L.idx /\ L.idx \in Int
        /\ f + 1 \in 0 .. V.idx /\ V.idx \in Int
    BY <1>2, <2>1, <2>2, BodyLabel
  <2>4. \A i \in 0 .. f : V.pool[i] = st.pool[i]
    BY <1>2, <2>1, <2>2, <2>3 DEF Agree
  <2>5. V \in Stack /\ WellFormed(V)
    BY <2>2 DEF Body
  <2>6. QED
    BY <1>5, <2>2, <2>4, <2>5, BelowOK, RunOK, ThrowInOK
<1>6. QED
  BY <1>4, <1>5 DEF EnterBlock, vals

LEMMA BlockOK ==
    ASSUME IInv, NEW b \in Blocks, Block(b)
    PROVE  IInv' /\ Steady
<1>1. AtInstr /\ HasVals(st, b.rt1) /\ EnterBlock(st, b)
  BY DEF Block
<1>2. QED
  BY <1>1, AtRun, EnterBlockOK

LEMMA IfOK ==
    ASSUME IInv, NEW b \in Blocks, If(b)
    PROVE  IInv' /\ Steady
<1> DEFINE f == Current.frame
           S == PopN(st, 1)
<1>1. AtInstr /\ HasVals(st, b.rt1 + 1) /\ EnterBlock(S, b)
  BY DEF If
<1>2. Active /\ CallsOK /\ TypeOK /\ Body(st, f)
  BY <1>1, AtRun
<1>3. b.rt1 \in Nat /\ st.idx \in Int
  BY <1>2, Types, BlocksAssumption, MaxArityAssumption DEF Instr, Arities
<1>4. HasVals(st, 1)
  BY <1>1, <1>3 DEF HasVals
<1>5. Body(S, f) /\ Agree(st, S) /\ S.idx = st.idx - 1
  BY <1>2, <1>4, BodyPop
<1>6. HasVals(S, b.rt1)
  BY <1>1, <1>3, <1>5, BodyLabel DEF HasVals, Agree
<1>7. \A i \in 0 .. f : S.pool[i] = st.pool[i]
  BY <1>5, BodyLabel DEF Agree
<1>8. QED
  BY <1>1, <1>2, <1>5, <1>6, <1>7, EnterBlockOK

\* What the program counter says, case by case.
LEMMA PcCases ==
    ASSUME IInv, pc.at # "host"
    PROVE  /\ Active /\ CallsOK /\ TypeOK /\ PcOK /\ Top > 0
           /\ pc.at # "return" => st \in Stack /\ WellFormed(st)
<1>1. pc # AtHost
  BY DEF AtHost
<1>2. pc.at # "return" => pc # Return
  BY DEF Return
<1>3. QED
  BY <1>1, <1>2 DEF IInv, ControlOK, Active, CallsOK, Settled, TypeOK

LEMMA ReenterLoopOK ==
    ASSUME IInv, ReenterLoop
    PROVE  IInv' /\ Steady
<1>1. pc.at = "loop" /\ EnterBlock(st, pc.blk)
  BY DEF ReenterLoop
<1>2. /\ Active /\ CallsOK /\ TypeOK /\ PcOK
      /\ st \in Stack /\ WellFormed(st)
  BY <1>1, PcCases
<1>3. pc.blk \in Blocks
  BY <1>1, <1>2 DEF TypeOK, PCs, AtHost, Run, Return
<1>4. st.idx > Current.frame /\ HasVals(st, pc.blk.rt1)
  BY <1>1, <1>2 DEF PcOK, Run, Return
<1>5. IsTop(st, "frame", Current.frame) /\ st.idx \in Int /\ Current.frame \in Int
  BY <1>2, StackFields, NumSlotsAssumption DEF CallsOK, IsTop, SlotsOf
<1>6. Body(st, Current.frame)
  BY <1>2, <1>4, <1>5 DEF Body
<1>7. QED
  BY <1>1, <1>2, <1>3, <1>4, <1>6, EnterBlockOK

\* pop_vals brings the nearest label to the top.
LEMMA BaseOK ==
    ASSUME NEW S, NEW f, Body(S, f), NEW b, IsBase(S, b)
    PROVE  LET P == PopN(S, S.idx - b)
           IN  /\ b \in Nat /\ S.idx - b \in Nat /\ HasVals(S, S.idx - b)
               /\ Body(P, f) /\ P.idx = b /\ P.labels = S.labels /\ Agree(S, P)
               /\ P.pool[P.idx].type = "label" /\ P.pool[P.idx] = S.pool[b]
               /\ TopVals(S, S.idx - b) \in Seq(Val) /\ Len(TopVals(S, S.idx - b)) = S.idx - b
<1> DEFINE n == S.idx - b
           P == PopN(S, n)
<1>1. /\ S.idx \in Int /\ b \in 0 .. S.idx /\ S.pool[b].type # "val"
      /\ \A i \in b + 1 .. S.idx : S.pool[i].type = "val"
  BY BodyLabel DEF IsBase
<1>2. n \in Nat /\ n <= S.idx + 1 /\ S.idx + 1 - n = b + 1 /\ S.idx - n = b
  BY <1>1
<1>3. HasVals(S, n)
  BY <1>1, <1>2 DEF HasVals
<1> HIDE DEF n
<1>4. /\ Body(P, f) /\ P.idx = b /\ P.labels = S.labels /\ Agree(S, P)
      /\ TopVals(S, n) \in Seq(Val) /\ Len(TopVals(S, n)) = n
  BY <1>2, <1>3, BodyPop
<1> HIDE DEF P
<1>5. P.pool[b] = S.pool[b] /\ P.pool[b].type # "frame" /\ EntryOK(P, b)
  BY <1>1, <1>4, BodyLabel DEF Agree, Body, WellFormed
<1>6. P.pool[b].type = "label"
  BY <1>1, <1>5 DEF EntryOK
<1>7. QED
  BY <1>1, <1>2, <1>3, <1>4, <1>5, <1>6 DEF P, n

\* The activation's results lie on top and it is about to return.
LEMMA ReturnOK ==
    ASSUME TypeOK, Active, CallsOK,
           NEW S \in Stack, WellFormed(PopN(S, Current.arity)),
           HasVals(S, Current.arity), S.idx - Current.arity >= Current.frame,
           \A i \in SlotsOf(S, "val") : S.pool[i].val # LINK,
           IsTop(S, "frame", Current.frame),
           \A i \in 0 .. Current.frame : S.pool[i] = st.pool[i],
           Continue(S, Return)
    PROVE  IInv' /\ Steady
<1>1. Return \in PCs
  BY DEF PCs
<1>2. TypeOK' /\ CallsOK' /\ Active' /\ Current' = Current /\ Steady
  BY <1>1, ContinueOK
<1>3. st' = S /\ pc' = Return
  BY DEF Continue
<1>4. WellFormed(Settled)'
  BY <1>2, <1>3 DEF Settled
<1>5. PcOK'
  BY <1>2, <1>3 DEF PcOK, LiveValuesIntact
<1>6. QED
  BY <1>2, <1>4, <1>5 DEF IInv, ControlOK, Active

\* Once the function's label is gone the results go directly on its frame.
LEMMA LandOK ==
    ASSUME TypeOK, Active, CallsOK,
           NEW T \in Stack, WellFormed(T), IsTop(T, "frame", Current.frame),
           T.idx = Current.frame,
           \A i \in 0 .. Current.frame : T.pool[i] = st.pool[i],
           NEW vals \in Seq(Val), Len(vals) = Current.arity,
           ~Overflows(T, Len(vals)),
           Continue(PushVals(T, vals), Return)
    PROVE  IInv' /\ Steady
<1> DEFINE n == Len(vals)
           S == PushVals(T, vals)
           P == PopN(S, n)
<1>1. /\ S \in Stack /\ S.idx = T.idx + n /\ T.idx <= S.idx /\ Agree(S, T)
      /\ S.labels = T.labels /\ S.frames = T.frames
      /\ \A i \in T.idx + 1 .. S.idx : S.pool[i].type = "val" /\ S.pool[i].val # LINK
  BY PushValsType
<1>2. n \in Nat /\ T.idx \in Nat /\ S.idx \in Int
  BY <1>1, StackFields, NumSlotsAssumption DEF IsTop, SlotsOf
<1> HIDE DEF S, n
<1>3. HasVals(S, n) /\ S.idx - n = T.idx
  BY <1>1, <1>2 DEF HasVals
<1>4. WellFormed(P)
  BY PushPopOK DEF S, n
<1> HIDE DEF P
<1>5. IsTop(S, "frame", Current.frame) /\ \A i \in 0 .. Current.frame : S.pool[i] = st.pool[i]
  BY <1>1, TopFrameGrow
<1>6. ASSUME NEW i \in SlotsOf(S, "val")
      PROVE  S.pool[i].val # LINK
  <2>1. (i \in 0 .. T.idx /\ T.pool[i] = S.pool[i]) \/ i \in T.idx + 1 .. S.idx
    BY <1>1, <1>2 DEF SlotsOf, Agree
  <2>2. QED
    BY <1>1, <2>1 DEF WellFormed, EntryOK, SlotsOf
<1>7. QED
  BY <1>1, <1>2, <1>3, <1>4, <1>5, <1>6, ReturnOK DEF S, P, n

LEMMA EndOK ==
    ASSUME IInv, End
    PROVE  IInv' /\ Steady
<1> DEFINE f == Current.frame
<1>1. PICK b \in Slots :
        /\ IsBase(st, b)
        /\ st.pool[b].type = "label"
        /\ st.idx - b = NumResults(st.pool[b])
        /\ Continue(PushVals(PopLabel(PopN(st, st.idx - b)), TopVals(st, st.idx - b)),
                    IF st.pool[b].parent = NULL THEN Return ELSE Run)
  BY DEF End
<1> DEFINE n == st.idx - b
           vals == TopVals(st, n)
           P == PopN(st, n)
           T == PopLabel(P)
<1>2. Active /\ CallsOK /\ TypeOK /\ Body(st, f)
  BY AtRun DEF End
<1>3. /\ b \in Nat /\ n \in Nat
      /\ Body(P, f) /\ P.idx = b /\ Agree(st, P)
      /\ P.pool[P.idx].type = "label" /\ P.pool[P.idx] = st.pool[b]
      /\ vals \in Seq(Val) /\ Len(vals) = n
  BY <1>1, <1>2, BaseOK
<1> HIDE DEF n, vals, P
<1>4. /\ T \in Stack /\ WellFormed(T) /\ IsTop(T, "frame", f)
      /\ T.idx = b - 1 /\ Agree(P, T)
      /\ IF st.pool[b].parent = NULL
         THEN T.idx = f /\ st.pool[b].arity = P.pool[f].arity
         ELSE Body(T, f)
  BY <1>3, BodyExit, ZenonT(40)
<1> HIDE DEF T
<1>5. /\ f \in Nat /\ f + 1 \in 0 .. P.idx /\ st.idx \in Int /\ T.idx \in Int /\ f <= T.idx
      /\ st.idx < NumSlots /\ NumSlots \in Int
  BY <1>2, <1>3, <1>4, BodyLabel, StackFields, NumSlotsAssumption, SMTT(40) DEF Body, IsTop, SlotsOf
<1>6. \A i \in 0 .. f : T.pool[i] = st.pool[i] /\ P.pool[i] = st.pool[i]
  BY <1>3, <1>4, <1>5 DEF Agree
<1>7. ~Overflows(T, Len(vals))
  BY <1>3, <1>4, <1>5 DEF Overflows, n
<1>8. CASE st.pool[b].parent = NULL
  <2>1. n = Current.arity
    <3>1. n = P.pool[f].arity
      BY <1>1, <1>4, <1>8 DEF n, NumResults
    <3>2. P.pool[f] = st.pool[f]
      BY <1>5, <1>6
    <3>3. st.pool[f].arity = Current.arity
      BY <1>2, Types DEF CallsOK, Current
    <3>4. QED
      BY <3>1, <3>2, <3>3
  <2>2. Continue(PushVals(T, vals), Return)
    BY <1>1, <1>8 DEF n, vals, P, T
  <2>3. QED
    BY <1>2, <1>3, <1>4, <1>6, <1>7, <1>8, <2>1, <2>2, LandOK
<1>9. CASE st.pool[b].parent # NULL
  <2>1. Body(PushVals(T, vals), f) /\ Agree(PushVals(T, vals), T)
    BY <1>3, <1>4, <1>9, BodyPush
  <2>2. Continue(PushVals(T, vals), Run)
    BY <1>1, <1>9 DEF n, vals, P, T
  <2>3. \A i \in 0 .. f : PushVals(T, vals).pool[i] = st.pool[i]
    BY <1>5, <1>6, <2>1 DEF Agree
  <2>4. QED
    BY <1>2, <2>1, <2>2, <2>3, RunOK
<1>10. QED
  BY <1>8, <1>9

LEMMA ReturnInstrOK ==
    ASSUME IInv, ReturnInstr
    PROVE  IInv' /\ Steady
<1> DEFINE f == Current.frame
           n == Current.arity
<1>1. AtInstr /\ HasVals(st, n) /\ Continue(st, Return)
  BY DEF ReturnInstr
<1>2. Active /\ CallsOK /\ TypeOK /\ Body(st, f) /\ n \in Nat
  BY <1>1, AtRun, Types
<1>3. Body(PopN(st, n), f) /\ PopN(st, n).idx = st.idx - n
  BY <1>1, <1>2, BodyPop
<1>4. st.idx - n >= f
  BY <1>3, BodyLabel
<1>5. \A i \in SlotsOf(st, "val") : st.pool[i].val # LINK
  BY <1>2 DEF Body, WellFormed, EntryOK, SlotsOf
<1>6. QED
  BY <1>1, <1>2, <1>3, <1>4, <1>5, ReturnOK DEF Body

-----------------------------------------------------------------------------
(* Branches.                                                               *)

\* The walk through the labels does not depend on the values on top.
LEMMA WalkKept ==
    ASSUME NEW S \in Stack, NEW T \in Stack,
           T.idx <= S.idx, Agree(S, T), T.labels = S.labels,
           \A i \in T.idx + 1 .. S.idx : S.pool[i].type = "val",
           NEW l \in Nat, NEW walk, IsWalk(S, l, walk)
    PROVE  IsWalk(T, l, walk) /\ T.pool[walk[l]] = S.pool[walk[l]]
<1>1. S.idx \in Int /\ T.idx \in Int
  BY StackFields, NumSlotsAssumption
<1>2. \A i \in 0 .. T.idx : i \in 0 .. S.idx /\ T.pool[i] = S.pool[i]
  BY <1>1 DEF Agree
<1>3. \A i \in 0 .. S.idx : S.pool[i].type # "val" => i \in 0 .. T.idx
  BY <1>1
<1>4. ASSUME NEW ty \in {"label", "frame"}
      PROVE  SlotsOf(T, ty) = SlotsOf(S, ty)
  BY <1>2, <1>3 DEF SlotsOf
<1>5. OwnLabels(T) = OwnLabels(S)
  BY <1>4 DEF OwnLabels
<1>6. \A i \in OwnLabels(S) : T.pool[i] = S.pool[i]
  BY <1>2, <1>3 DEF OwnLabels, SlotsOf
<1>7. \A k \in 0 .. l : walk[k] \in OwnLabels(S)
  BY DEF IsWalk
<1>8. \A k \in 1 .. l : PrevOf(T.pool, walk[k - 1]) = PrevOf(S.pool, walk[k - 1])
  <2>1. \A k \in 1 .. l : k - 1 \in 0 .. l
    OBVIOUS
  <2>2. QED
    BY <1>6, <1>7, <2>1 DEF PrevOf
<1>9. T.pool[walk[l]] = S.pool[walk[l]]
  BY <1>6, <1>7
<1>10. QED
  BY <1>5, <1>8, <1>9 DEF IsWalk

\* The branch has labels left to pop.
LEMMA UnwindingOK ==
    ASSUME TypeOK, Active, CallsOK,
           NEW S, Body(S, Current.frame),
           \A i \in 0 .. Current.frame : S.pool[i] = st.pool[i],
           NEW left \in Nat, left > 0, NEW vals \in Seq(Val),
           NEW parent \in Blocks \cup {NULL},
           S.idx + Len(vals) < NumSlots,
           NEW walk, IsWalk(S, left - 1, walk),
           Len(vals) = S.pool[walk[left - 1]].arity,
           Continue(S, Unwinding(left, vals, parent))
    PROVE  IInv' /\ Steady
<1> DEFINE next == Unwinding(left, vals, parent)
<1>1. /\ next.at = "unwind" /\ next.left = left /\ next.vals = vals /\ next.parent = parent
      /\ next # Return
  BY DEF Unwinding, Return
<1>2. next \in PCs
  <2>1. vals \in Vals
    BY DEF Vals
  <2>2. QED
    BY <2>1 DEF PCs, Unwinding
<1> HIDE DEF next
<1>3. S \in Stack /\ WellFormed(S) /\ IsTop(S, "frame", Current.frame)
  BY DEF Body
<1>4. TypeOK' /\ CallsOK' /\ Active' /\ Current' = Current /\ Steady
  BY <1>2, <1>3, ContinueOK DEF next
<1>5. st' = S /\ pc' = next
  BY DEF Continue, next
<1>6. WellFormed(Settled)'
  BY <1>1, <1>3, <1>5 DEF Settled
<1>7. walk \in [0 .. left - 1 -> OwnLabels(S)]
  BY DEF IsWalk
<1>8. SavedOK'
  BY <1>1, <1>5 DEF SavedOK
<1>9. PcOK'
  BY <1>1, <1>5, <1>7, <1>8 DEF PcOK
<1>10. QED
  BY <1>4, <1>6, <1>9 DEF IInv, ControlOK, Active

LEMMA BrOK ==
    ASSUME IInv, NEW l \in 0 .. NumSlots, NEW c \in 0 .. 1, Br(l, c)
    PROVE  IInv' /\ Steady
<1> DEFINE f == Current.frame
<1>1. PICK walk \in [0 .. l -> OwnLabels(st)] :
        /\ IsWalk(st, l, walk)
        /\ HasVals(st, c + st.pool[walk[l]].arity)
        /\ Continue(PopN(st, c + st.pool[walk[l]].arity),
                    Unwinding(l + 1, TopVals(PopN(st, c), st.pool[walk[l]].arity), NULL))
  BY DEF Br
<1> DEFINE n == st.pool[walk[l]].arity
           P == PopN(st, c)
           S == PopN(st, c + n)
           vals == TopVals(P, n)
<1>2. Active /\ CallsOK /\ TypeOK /\ Body(st, f) /\ st \in Stack /\ l \in Nat /\ c \in Nat
  BY AtRun, NumSlotsAssumption DEF Br, Body
<1>3. n \in Nat
  <2>1. walk[l] \in 0 .. st.idx /\ st.pool[walk[l]].type = "label"
    BY <1>2 DEF OwnLabels, SlotsOf
  <2>2. st.pool[walk[l]] \in Objs
    BY <1>2, <2>1, StackFields, NumSlotsAssumption DEF Slots
  <2>3. st.pool[walk[l]] \in LabelObj
    BY <2>1, <2>2 DEF Objs, ValObj, FrameObj, FreeObj
  <2>4. QED
    BY <2>3, MaxArityAssumption DEF LabelObj, Arities
<1> HIDE DEF n, S, P, vals
<1>4. HasVals(st, c + n) /\ Continue(S, Unwinding(l + 1, vals, NULL))
  BY <1>1 DEF n, S, P, vals
<1>5. st.idx \in -1 .. NumSlots - 1 /\ NumSlots \in Int
  BY <1>2, StackFields, NumSlotsAssumption
<1>6. HasVals(st, c) /\ c + n \in Nat
  BY <1>2, <1>3, <1>4, <1>5 DEF HasVals
<1>7. Body(P, f) /\ P.idx = st.idx - c /\ Agree(st, P)
  BY <1>2, <1>6, BodyPop DEF P
<1>8. HasVals(P, n)
  <2>1. /\ n <= P.idx + 1
        /\ \A i \in P.idx + 1 - n .. P.idx :
              i \in st.idx + 1 - (c + n) .. st.idx /\ i \in 0 .. P.idx
    <3>1. c + n <= st.idx + 1 /\ c \in Int /\ n \in Int /\ st.idx \in Int /\ P.idx = st.idx - c
      BY <1>2, <1>3, <1>4, <1>5, <1>7 DEF HasVals
    <3>2. QED
      BY <3>1, SMTT(40)
  <2>2. QED
    BY <1>4, <1>7, <2>1 DEF HasVals, Agree
<1>9. vals \in Seq(Val) /\ Len(vals) = n
  BY <1>3, <1>7, <1>8, BodyPop DEF vals
<1>10. Body(S, f) /\ S.idx = st.idx - (c + n) /\ S.labels = st.labels /\ Agree(st, S)
  BY <1>2, <1>4, <1>6, BodyPop DEF S
<1>11. S \in Stack /\ S.idx <= st.idx /\ \A i \in S.idx + 1 .. st.idx : st.pool[i].type = "val"
  BY <1>2, <1>3, <1>4, <1>5, <1>10 DEF HasVals, Body
<1>12. IsWalk(S, l, walk) /\ S.pool[walk[l]].arity = n
  BY <1>1, <1>2, <1>10, <1>11, WalkKept DEF n
<1>13. \A i \in 0 .. f : S.pool[i] = st.pool[i]
  BY <1>10, BodyLabel DEF Agree
<1>14. S.idx + Len(vals) < NumSlots /\ l + 1 \in Nat /\ l + 1 > 0 /\ (l + 1) - 1 = l
  BY <1>2, <1>3, <1>5, <1>9, <1>10
<1>15. QED
  BY <1>2, <1>4, <1>9, <1>10, <1>12, <1>13, <1>14, UnwindingOK

\* The label popped first is the first of the walk, and the rest is the walk
\* of the stack that is left.
LEMMA WalkStep ==
    ASSUME NEW S, NEW f, Body(S, f), NEW b, IsBase(S, b),
           NEW l \in Nat, NEW walk, IsWalk(S, l, walk)
    PROVE  LET T == PopLabel(PopN(S, S.idx - b))
           IN  /\ walk[0] = b
               /\ l > 0 => LET rest == [k \in 0 .. l - 1 |-> walk[k + 1]]
                           IN  /\ IsWalk(T, l - 1, rest)
                               /\ T.pool[rest[l - 1]] = S.pool[walk[l]]
<1> DEFINE P == PopN(S, S.idx - b)
           T == PopLabel(P)
           rest == [k \in 0 .. l - 1 |-> walk[k + 1]]
<1>1. /\ b \in Nat /\ Body(P, f) /\ P.idx = b /\ P.labels = S.labels /\ Agree(S, P)
      /\ P.pool[P.idx].type = "label" /\ P.pool[P.idx] = S.pool[b]
  BY BaseOK
<1> HIDE DEF P
<1>2. walk[0] = b
  BY <1>1, TopIsTail DEF Body, IsWalk
<1>3. /\ T.idx = b - 1 /\ Agree(P, T) /\ T.labels = S.pool[b].prev /\ T \in Stack
  BY <1>1, BodyExit
<1> HIDE DEF T
<1>4. S \in Stack /\ S.idx \in Int /\ b \in 0 .. S.idx /\ 0 .. S.idx \subseteq Slots
      /\ \A i \in b + 1 .. S.idx : S.pool[i].type = "val"
  BY StackFields, NumSlotsAssumption DEF Body, IsBase, Slots
<1>5. \A i \in 0 .. b - 1 : T.pool[i] = S.pool[i]
  BY <1>1, <1>3, <1>4 DEF Agree
<1>6. ASSUME NEW i \in OwnLabels(S)
      PROVE  i \in 0 .. b /\ i \in Slots /\ S.pool[i].type = "label"
  BY <1>4 DEF OwnLabels, SlotsOf
<1>7. ASSUME NEW i \in OwnLabels(S), i < b
      PROVE  i \in OwnLabels(T) /\ T.pool[i] = S.pool[i]
  <2>1. i \in 0 .. b - 1 /\ T.pool[i] = S.pool[i] /\ S.pool[i].type = "label"
    BY <1>1, <1>5, <1>6, <1>7
  <2>2. SlotsOf(T, "frame") \subseteq SlotsOf(S, "frame")
    BY <1>3, <1>4, <1>5 DEF SlotsOf
  <2>3. QED
    BY <1>3, <2>1, <2>2 DEF OwnLabels, SlotsOf
<1>8. ASSUME l > 0
      PROVE  IsWalk(T, l - 1, rest) /\ T.pool[rest[l - 1]] = S.pool[walk[l]]
  <2>1. \A k \in 0 .. l : walk[k] \in OwnLabels(S) /\ walk[k] \in 0 .. b
    BY <1>6 DEF IsWalk
  <2>2. \A k \in 1 .. l : walk[k] = PrevOf(S.pool, walk[k - 1]) /\ walk[k] < walk[k - 1]
    BY DEF IsWalk
  <2>3. ASSUME NEW k \in 1 .. l
        PROVE  walk[k] \in OwnLabels(T) /\ T.pool[walk[k]] = S.pool[walk[k]]
    <3>1. k \in 0 .. l /\ k - 1 \in 0 .. l
      OBVIOUS
    <3>2. walk[k] \in OwnLabels(S) /\ walk[k] < b
      BY <1>1, <2>1, <2>2, <3>1
    <3>3. QED
      BY <1>7, <3>2
  <2>4. \A k \in 0 .. l - 1 : k + 1 \in 1 .. l /\ rest[k] = walk[k + 1]
    OBVIOUS
  <2>5. rest \in [0 .. l - 1 -> OwnLabels(T)]
    BY <2>3, <2>4
  <2>6. rest[0] = T.labels
    <3>1. 1 \in 1 .. l /\ 1 - 1 = 0 /\ rest[0] = walk[1]
      BY <1>8
    <3>2. b \in Slots /\ S.pool[b].type = "label"
      BY <1>1, <1>4
    <3>3. PrevOf(S.pool, b) = S.pool[b].prev
      BY <3>2 DEF PrevOf
    <3>4. walk[1] = PrevOf(S.pool, walk[0])
      BY <2>2, <3>1
    <3>5. QED
      BY <1>2, <1>3, <3>1, <3>3, <3>4
  <2>7. ASSUME NEW k \in 1 .. l - 1
        PROVE  rest[k] = PrevOf(T.pool, rest[k - 1]) /\ rest[k] < rest[k - 1]
    <3>1. /\ k \in 1 .. l /\ k + 1 \in 1 .. l /\ (k + 1) - 1 = k
          /\ rest[k] = walk[k + 1] /\ rest[k - 1] = walk[k]
      OBVIOUS
    <3>2. T.pool[walk[k]] = S.pool[walk[k]]
      BY <2>3, <3>1
    <3>3. PrevOf(T.pool, walk[k]) = PrevOf(S.pool, walk[k])
      BY <3>2 DEF PrevOf
    <3>4. walk[k + 1] = PrevOf(S.pool, walk[k]) /\ walk[k + 1] < walk[k]
      BY <2>2, <3>1
    <3>5. QED
      BY <3>1, <3>3, <3>4
  <2>8. rest[l - 1] = walk[l] /\ l \in 1 .. l
    BY <1>8
  <2> HIDE DEF rest
  <2>9. IsWalk(T, l - 1, rest)
    BY <2>5, <2>6, <2>7 DEF IsWalk
  <2>10. T.pool[rest[l - 1]] = S.pool[walk[l]]
    BY <2>3, <2>8
  <2>11. QED
    BY <2>9, <2>10
<1>9. QED
  BY <1>2, <1>8 DEF P, T

\* What a branch has saved.
LEMMA AtUnwind ==
    ASSUME IInv, pc.at = "unwind"
    PROVE  /\ Active /\ CallsOK /\ TypeOK /\ SavedOK /\ st \in Stack /\ WellFormed(st)
           /\ IsTop(st, "frame", Current.frame)
           /\ pc.left \in Nat /\ pc.parent \in Blocks \cup {NULL}
           /\ pc.vals \in Seq(Val) /\ Len(pc.vals) \in Nat
           /\ st.idx + Len(pc.vals) < NumSlots
           /\ IF pc.left > 0
              THEN \E walk \in [0 .. pc.left - 1 -> OwnLabels(st)] :
                      /\ IsWalk(st, pc.left - 1, walk)
                      /\ Len(pc.vals) = st.pool[walk[pc.left - 1]].arity
              ELSE IF pc.parent = NULL
                   THEN st.idx = Current.frame /\ Len(pc.vals) = Current.arity
                   ELSE st.idx > Current.frame /\ Len(pc.vals) = LabelArity(pc.parent)
<1>1. /\ Active /\ CallsOK /\ TypeOK /\ PcOK
      /\ st \in Stack /\ WellFormed(st)
  BY PcCases
<1>2. pc.left \in Nat /\ pc.parent \in Blocks \cup {NULL}
  BY <1>1 DEF TypeOK, PCs, AtHost, Run, Return
<1>3. pc # Run /\ pc # Return
  BY DEF Run, Return
<1>4. QED
  BY <1>1, <1>2, <1>3 DEF PcOK, SavedOK, CallsOK

\* A branch whose labels are all popped.
LEMMA UnwoundOK ==
    ASSUME TypeOK, Active, CallsOK,
           NEW S \in Stack, WellFormed(S), IsTop(S, "frame", Current.frame),
           \A i \in 0 .. Current.frame : S.pool[i] = st.pool[i],
           NEW vals \in Seq(Val), S.idx + Len(vals) < NumSlots,
           NEW parent \in Blocks \cup {NULL},
           IF parent = NULL
           THEN S.idx = Current.frame /\ Len(vals) = Current.arity
           ELSE S.idx > Current.frame /\ Len(vals) = LabelArity(parent),
           Continue(S, Unwinding(0, vals, parent))
    PROVE  IInv' /\ Steady
<1> DEFINE next == Unwinding(0, vals, parent)
<1>1. /\ next.at = "unwind" /\ next.left = 0 /\ next.vals = vals /\ next.parent = parent
      /\ next # Return
  BY DEF Unwinding, Return
<1>2. next \in PCs
  <2>1. vals \in Vals
    BY DEF Vals
  <2>2. QED
    BY <2>1 DEF PCs, Unwinding
<1> HIDE DEF next
<1>3. TypeOK' /\ CallsOK' /\ Active' /\ Current' = Current /\ Steady
  BY <1>2, ContinueOK DEF next
<1>4. st' = S /\ pc' = next
  BY DEF Continue, next
<1>5. WellFormed(Settled)'
  BY <1>1, <1>4 DEF Settled
<1>6. SavedOK'
  BY <1>1, <1>4 DEF SavedOK
<1>7. PcOK'
  BY <1>1, <1>3, <1>4, <1>6 DEF PcOK
<1>8. QED
  BY <1>3, <1>5, <1>7 DEF IInv, ControlOK, Active

LEMMA UnwindOK ==
    ASSUME IInv, Unwind
    PROVE  IInv' /\ Steady
<1> DEFINE f == Current.frame
           l == pc.left - 1
           vals == pc.vals
<1>1. pc.at = "unwind" /\ pc.left > 0
  BY DEF Unwind
<1>2. /\ Active /\ CallsOK /\ TypeOK /\ SavedOK /\ st \in Stack /\ WellFormed(st)
      /\ IsTop(st, "frame", f)
      /\ l \in Nat /\ vals \in Seq(Val) /\ Len(vals) \in Nat
      /\ st.idx + Len(vals) < NumSlots
  BY <1>1, AtUnwind
<1>3. PICK walk \in [0 .. l -> OwnLabels(st)] :
         IsWalk(st, l, walk) /\ Len(vals) = st.pool[walk[l]].arity
  BY <1>1, AtUnwind
<1>4. PICK b \in Slots :
        /\ IsBase(st, b)
        /\ Continue(PopLabel(PopN(st, st.idx - b)),
                    Unwinding(l, vals, IF PopN(st, st.idx - b).pool[b].type = "label"
                                       THEN PopN(st, st.idx - b).pool[b].parent ELSE NULL))
  BY DEF Unwind
<1> DEFINE P == PopN(st, st.idx - b)
           T == PopLabel(P)
           parent == P.pool[b].parent
<1>5. f \in 0 .. st.idx /\ st.idx \in Int /\ NumSlots \in Int
  BY <1>2, StackFields, NumSlotsAssumption DEF IsTop, SlotsOf
<1> HIDE DEF f, l, vals
<1>6. Body(st, f)
  <2>1. walk[0] \in OwnLabels(st)
    BY <1>2, <1>3
  <2>2. f < walk[0] /\ walk[0] \in 0 .. st.idx
    BY <1>2, <2>1 DEF OwnLabels, IsTop, SlotsOf
  <2>3. QED
    BY <1>2, <1>5, <2>2 DEF Body
<1>7. /\ b \in Nat /\ b <= st.idx
      /\ Body(P, f) /\ P.idx = b /\ Agree(st, P)
      /\ P.pool[b].type = "label" /\ P.pool[b] = st.pool[b]
  BY <1>4, <1>6, BaseOK DEF IsBase
<1>8. Continue(T, Unwinding(l, vals, parent))
  BY <1>4, <1>7
<1>9. /\ walk[0] = b
      /\ l > 0 => LET rest == [k \in 0 .. l - 1 |-> walk[k + 1]]
                  IN  /\ IsWalk(T, l - 1, rest)
                      /\ T.pool[rest[l - 1]] = st.pool[walk[l]]
  <2>1. IsBase(st, b) /\ l \in Nat /\ IsWalk(st, l, walk)
    BY <1>2, <1>3, <1>4
  <2>2. QED
    BY <1>6, <2>1, WalkStep
<1>10. parent \in Blocks \cup {NULL}
  <2>1. P.pool[b] \in Objs
    BY <1>4, <1>7, StackFields DEF Body
  <2>2. QED
    BY <1>7, <2>1 DEF Objs, ValObj, LabelObj, FrameObj, FreeObj
<1> HIDE DEF P, parent
<1>11. /\ T \in Stack /\ WellFormed(T) /\ IsTop(T, "frame", f)
       /\ T.idx = b - 1 /\ Agree(P, T)
       /\ IF parent = NULL
          THEN T.idx = f /\ P.pool[b].arity = P.pool[f].arity
          ELSE Body(T, f) /\ P.pool[b].arity = LabelArity(parent)
  BY <1>7, BodyExit DEF parent
<1> HIDE DEF T
<1>12. T.idx + Len(vals) < NumSlots /\ f <= T.idx /\ T.idx \in Int /\ f \in Nat
  BY <1>2, <1>5, <1>7, <1>11 DEF IsTop, SlotsOf
<1>13. \A i \in 0 .. f : T.pool[i] = st.pool[i] /\ P.pool[i] = st.pool[i]
  BY <1>7, <1>11, <1>12 DEF Agree
<1>14. CASE l = 0
  <2>1. Len(vals) = P.pool[b].arity
    BY <1>3, <1>7, <1>9, <1>14
  <2>2. P.pool[f].arity = Current.arity
    <3>1. P.pool[f] = st.pool[f]
      BY <1>12, <1>13
    <3>2. st.pool[f].arity = Current.arity
      BY <1>2, Types, SMTT(40) DEF CallsOK, Current, f
    <3>3. QED
      BY <3>1, <3>2
  <2>3. parent # NULL => T.idx > f
    BY <1>11 DEF Body
  <2>4. Continue(T, Unwinding(0, vals, parent))
    BY <1>8, <1>14
  <2>5. QED
    BY <1>2, <1>10, <1>11, <1>12, <1>13, <2>1, <2>2, <2>3, <2>4, UnwoundOK DEF f
<1>15. CASE l > 0
  <2> DEFINE rest == [k \in 0 .. l - 1 |-> walk[k + 1]]
  <2>1. IsWalk(T, l - 1, rest) /\ Len(vals) = T.pool[rest[l - 1]].arity
    BY <1>3, <1>9, <1>15
  <2>2. l - 1 \in Nat /\ 0 \in 0 .. l - 1
    BY <1>2, <1>15
  <2> HIDE DEF rest
  <2>3. rest[0] \in OwnLabels(T)
    BY <2>1, <2>2 DEF IsWalk
  <2>4. f < rest[0] /\ rest[0] \in 0 .. T.idx
    BY <1>11, <2>3 DEF OwnLabels, IsTop, SlotsOf
  <2>5. Body(T, f)
    BY <1>11, <1>12, <2>4
  <2>6. QED
    BY <1>2, <1>8, <1>10, <1>12, <1>13, <1>15, <2>1, <2>5, UnwindingOK DEF f
<1>16. QED
  BY <1>2, <1>14, <1>15

LEMMA FinishBrOK ==
    ASSUME IInv, FinishBr
    PROVE  IInv' /\ Steady
<1> DEFINE f == Current.frame
           S == PushVals(st, pc.vals)
<1>1. pc.at = "unwind" /\ ~(pc.left > 0)
  BY DEF FinishBr
<1>2. /\ Active /\ CallsOK /\ TypeOK /\ SavedOK /\ st \in Stack /\ WellFormed(st)
      /\ IsTop(st, "frame", f)
      /\ pc.parent \in Blocks \cup {NULL}
      /\ pc.vals \in Seq(Val) /\ Len(pc.vals) \in Nat
      /\ st.idx + Len(pc.vals) < NumSlots
      /\ IF pc.parent = NULL
         THEN st.idx = f /\ Len(pc.vals) = Current.arity
         ELSE st.idx > f /\ Len(pc.vals) = LabelArity(pc.parent)
  BY <1>1, AtUnwind
<1>3. ~Overflows(st, Len(pc.vals)) /\ f \in 0 .. st.idx /\ st.idx \in Int
  BY <1>2, StackFields, NumSlotsAssumption DEF Overflows, IsTop, SlotsOf
<1>4. CASE pc.parent = NULL
  <2>1. Continue(S, Return)
    BY <1>4 DEF FinishBr
  <2>2. QED
    BY <1>2, <1>3, <1>4, <2>1, LandOK
<1>5. CASE pc.parent # NULL
  <2>1. Body(st, f)
    BY <1>2, <1>3, <1>5 DEF Body
  <2>2. Body(S, f) /\ Agree(S, st) /\ HasVals(S, Len(pc.vals))
    BY <1>2, <1>3, <2>1, BodyPush
  <2> HIDE DEF S
  <2>3. \A i \in 0 .. f : S.pool[i] = st.pool[i]
    BY <1>3, <2>2 DEF Agree
  <2>4. CASE pc.parent.op # "loop"
    <3>1. Continue(S, Run)
      BY <1>5, <2>4 DEF FinishBr, S
    <3>2. QED
      BY <1>2, <2>2, <2>3, <3>1, RunOK
  <2>5. CASE pc.parent.op = "loop"
    <3> DEFINE b == pc.parent
               next == Reenter(b)
    <3>1. Continue(S, next)
      BY <1>5, <2>5 DEF FinishBr, S
    <3>2. b \in Blocks /\ Len(pc.vals) = b.rt1
      BY <1>2, <1>5, <2>5 DEF LabelArity
    <3>3. next \in PCs /\ next.at = "loop" /\ next.blk = b /\ next # Return
      BY <3>2 DEF Reenter, PCs, Return
    <3> HIDE DEF next
    <3>4. S \in Stack /\ WellFormed(S) /\ IsTop(S, "frame", f) /\ S.idx > f
      BY <2>2, BodyLabel DEF Body
    <3>5. TypeOK' /\ CallsOK' /\ Active' /\ Current' = Current /\ Steady
      BY <1>2, <2>3, <3>1, <3>3, <3>4, ContinueOK
    <3>6. st' = S /\ pc' = next
      BY <3>1 DEF Continue
    <3>7. WellFormed(Settled)'
      BY <3>3, <3>4, <3>6 DEF Settled
    <3>8. HasVals(S, b.rt1)
      BY <2>2, <3>2
    <3>9. PcOK'
      BY <2>5, <3>3, <3>4, <3>5, <3>6, <3>8 DEF PcOK
    <3>10. QED
      BY <3>5, <3>7, <3>9 DEF IInv, ControlOK, Active
  <2>6. QED
    BY <2>4, <2>5
<1>6. QED
  BY <1>4, <1>5

-----------------------------------------------------------------------------
(* Calls.                                                                  *)

\* A new activation on P, in the middle of another one or as the first.
LEMMA InvokeFuncOK ==
    ASSUME TypeOK, NEW S, NEW m, NEW n \in Arities, NEW caller \in {"invoke", "start"},
           InvokeFunc(S, m, n, caller),
           PopN(S, m) \in Stack, WellFormed(PopN(S, m)),
           \/ /\ Active /\ CallsOK /\ host = caller
              /\ Body(PopN(S, m), Current.frame)
              /\ \A i \in 0 .. Current.frame : PopN(S, m).pool[i] = st.pool[i]
           \/ /\ calls = <<>> /\ (caller = "start" => n = 0)
              /\ PopN(S, m).idx = (IF caller = "invoke" THEN -1 ELSE 0)
    PROVE  IInv' /\ Steady
<1> DEFINE P == PopN(S, m)
           F == PushFrame(P, n)
           L == PushLabel(F, n, NULL)
           f == Current.frame
           g == P.idx + 1
           call == [frame |-> g, arity |-> n]
<1>1. P \in Stack /\ WellFormed(P) /\ P.idx \in -1 .. NumSlots - 1 /\ NumSlots \in Nat
  BY StackFields, NumSlotsAssumption
<1>2. \/ Full(P) /\ Throw(P)
      \/ ~Full(P) /\ Full(F) /\ Throw(F)
      \/ /\ ~Full(P) /\ ~Full(F)
         /\ st' = L
         /\ calls' = Append(calls, [frame |-> L.frames, arity |-> n])
         /\ host' = caller
         /\ pc' = Run
  BY DEF InvokeFunc
<1>3. \/ Active /\ CallsOK /\ caller = host /\ Body(P, f) /\ \A i \in 0 .. f : P.pool[i] = st.pool[i]
      \/ /\ calls = <<>> /\ (caller = "start" => n = 0)
         /\ P.idx = (IF caller = "invoke" THEN -1 ELSE 0)
  OBVIOUS
<1> HIDE DEF P
<1>4. ASSUME ~Full(P)
      PROVE  /\ F \in Stack /\ WellFormed(F)
             /\ F.idx = g /\ Agree(F, P) /\ F.frames = g
             /\ F.pool[g].type = "frame" /\ F.pool[g].arity = n
  BY <1>1, <1>4, PushFrameOK
<1> HIDE DEF F
<1> DEFINE Kept(Q) == calls # <<>> => KeepsBelow(Q)
<1>a. Kept(P)
  <2>1. calls # <<>> => Body(P, f) /\ \A i \in 0 .. f : P.pool[i] = st.pool[i]
    BY <1>3
  <2>2. QED
    BY <2>1, BelowOK
<1>b. ASSUME NEW Q, Agree(Q, P), P.idx <= Q.idx, Q.idx \in Int
      PROVE  Kept(Q)
  <2>1. SUFFICES ASSUME calls # <<>>, NEW i \in 0 .. f - 1
                 PROVE  i <= Q.idx /\ Q.pool[i] = st.pool[i]
    BY DEF KeepsBelow
  <2>2. i <= P.idx /\ P.pool[i] = st.pool[i]
    BY <1>a, <2>1 DEF KeepsBelow
  <2>3. Q.pool[i] = P.pool[i]
    BY <1>1, <1>b, <2>2 DEF Agree
  <2>4. QED
    BY <1>1, <1>b, <2>2, <2>3
<1>5. CASE Full(P) /\ Throw(P)
  <2>1. ~Active'
    BY <1>5 DEF Throw, Active
  <2>2. QED
    BY <1>1, <1>5, <1>a, <2>1, ThrowOK DEF Steady, FrameSet, Untouched, Throw
<1>6. CASE ~Full(P) /\ Full(F) /\ Throw(F)
  <2>1. g \in Int /\ P.idx <= g
    BY <1>1
  <2>2. Kept(F)
    BY <1>4, <1>6, <1>b, <2>1
  <2>3. ~Active'
    BY <1>6 DEF Throw, Active
  <2>4. QED
    BY <1>4, <1>6, <2>2, <2>3, ThrowOK DEF Steady, FrameSet, Untouched, Throw
<1>7. CASE /\ ~Full(P) /\ ~Full(F)
           /\ st' = L
           /\ calls' = Append(calls, [frame |-> L.frames, arity |-> n])
           /\ host' = caller
           /\ pc' = Run
  <2>1. g >= 0 /\ g \in Int
    BY <1>1
  <2>2. /\ L \in Stack /\ WellFormed(L) /\ L.idx = g + 1 /\ Agree(L, F) /\ L.frames = g
        /\ L.pool[L.idx].type = "label" /\ L.pool[L.idx].parent = NULL
    BY <1>4, <1>7, <2>1, PushLabelOK
  <2> HIDE DEF L
  <2>3. /\ \A i \in 0 .. P.idx : L.pool[i] = P.pool[i] /\ i \in 0 .. L.idx
        /\ L.pool[g].type = "frame" /\ L.pool[g].arity = n
        /\ g \in 0 .. L.idx /\ g \in Nodes /\ g < L.idx
    BY <1>1, <1>4, <1>7, <2>2, StackFields, SMTT(40) DEF Agree, Nodes, Slots
  <2> HIDE DEF g
  <2>4. calls' = Append(calls, call) /\ call \in Call /\ call.frame = g /\ call.arity = n
    BY <1>7, <2>2, <2>3 DEF Call
  <2>5. /\ calls \in Seq(Call) /\ Top \in Nat /\ Top' = Top + 1 /\ Current' = call
        /\ calls'[Top + 1] = call
        /\ \A k \in 1 .. Top : calls'[k] = calls[k]
    BY <2>4, Types DEF TypeOK, Top, Current
  <2>6. TypeOK' /\ Active'
    BY <1>7, <2>2, <2>4, <2>5 DEF TypeOK, Hosts, PCs, Active
  <2>7. IsTop(L, "frame", g)
    <3>1. \A j \in g + 1 .. L.idx : j = L.idx
      BY <2>1, <2>2
    <3>2. QED
      BY <2>2, <2>3, <3>1 DEF IsTop, SlotsOf
  <2> HIDE DEF call
  <2>8. CallsOK'
    <3>1. CASE /\ calls = <<>> /\ (caller = "start" => n = 0)
               /\ P.idx = (IF caller = "invoke" THEN -1 ELSE 0)
      <4>1. Top = 0
        BY <3>1 DEF Top
      <4>2. calls'[1] = call /\ Top' = 1 /\ g = (IF caller = "invoke" THEN 0 ELSE 1)
        BY <2>5, <3>1, <4>1 DEF g
      <4>3. \A k \in 1 .. Top' - 1 : FALSE
        BY <4>2
      <4>4. \A k \in 1 .. Top' : k = 1
        BY <4>2
      <4>5. g \in SlotsOf(L, "frame")
        BY <2>3 DEF SlotsOf
      <4>6. \A k \in 1 .. Top' : \A j \in 1 .. k - 1 : FALSE
        BY <4>2
      <4>7. QED
        BY <1>7, <2>3, <2>4, <2>5, <2>7, <3>1, <4>2, <4>3, <4>4, <4>5, <4>6 DEF CallsOK
    <3>2. CASE /\ Active /\ CallsOK /\ caller = host
               /\ Body(P, f) /\ \A i \in 0 .. f : P.pool[i] = st.pool[i]
      <4>1. /\ IsTop(P, "frame", f) /\ f \in Nat /\ f + 1 \in 0 .. P.idx
        BY <3>2, BodyLabel DEF Body
      <4>2. Top > 0 /\ IsTop(st, "frame", f)
        BY <3>2 DEF CallsOK
      <4>3. \A i \in 0 .. f : L.pool[i] = st.pool[i] /\ i \in 0 .. L.idx
        BY <1>1, <2>3, <3>2, <4>1
      <4>4. ASSUME NEW k \in 1 .. Top
            PROVE  /\ calls[k].frame \in 0 .. f
                   /\ calls[k].frame \in SlotsOf(L, "frame")
                   /\ calls[k].arity = L.pool[calls[k].frame].arity
        <5>1. /\ calls[k].frame \in SlotsOf(st, "frame")
              /\ calls[k].arity = st.pool[calls[k].frame].arity
          BY <3>2 DEF CallsOK
        <5>2. st.idx \in Int
          BY Types
        <5>3. calls[k].frame \in 0 .. f
          BY <4>2, <5>1, <5>2 DEF IsTop, SlotsOf
        <5>4. QED
          BY <4>3, <5>1, <5>3 DEF SlotsOf
      <4>5. ASSUME NEW k \in 1 .. Top - 1
            PROVE  IsBelow(L, "frame", calls[k + 1].frame, calls[k].frame)
        <5>1. IsBelow(st, "frame", calls[k + 1].frame, calls[k].frame)
          BY <3>2 DEF CallsOK
        <5>2. k + 1 \in 1 .. Top
          BY <2>5
        <5>3. calls[k + 1].frame \in 0 .. f
          BY <4>4, <5>2
        <5>4. \A j \in 0 .. calls[k + 1].frame - 1 : L.pool[j] = st.pool[j]
          BY <4>1, <4>3, <5>3
        <5>5. \A j \in calls[k].frame + 1 .. calls[k + 1].frame - 1 :
                 j \in 0 .. calls[k + 1].frame - 1
          BY <5>1, <5>3, <4>1 DEF IsBelow
        <5>6. QED
          BY <5>1, <5>4, <5>5 DEF IsBelow
      <4>6. IsBelow(L, "frame", g, f) /\ f + 1 < g
        <5>1. f + 1 < g /\ f \in 0 .. g - 1 /\ \A j \in f + 1 .. g - 1 : j \in f + 1 .. P.idx /\ j \in 0 .. P.idx
          BY <1>1, <4>1 DEF g
        <5>2. f \in 0 .. P.idx
          BY <1>1, <4>1
        <5>3. QED
          BY <2>3, <4>1, <5>1, <5>2 DEF IsBelow, IsTop, SlotsOf
      <4>7. \A k \in 1 .. Top' : k = Top + 1 \/ k \in 1 .. Top
        BY <2>5
      <4>8. \A k \in 1 .. Top' : /\ calls'[k].frame \in SlotsOf(L, "frame")
                                 /\ calls'[k].arity = L.pool[calls'[k].frame].arity
        <5>1. g \in SlotsOf(L, "frame") /\ n = L.pool[g].arity
          BY <2>3 DEF SlotsOf
        <5>2. QED
          BY <2>4, <2>5, <4>4, <4>7, <5>1, ZenonT(40)
      <4>9. ASSUME NEW k \in 1 .. Top' - 1
            PROVE  IsBelow(L, "frame", calls'[k + 1].frame, calls'[k].frame)
        <5>1. CASE k = Top
          <6>1. calls'[k + 1].frame = g /\ calls'[k] = Current /\ k \in 1 .. Top
            <7>1. k \in 1 .. Top
              BY <2>5, <4>2, <5>1
            <7>2. calls'[k] = Current
              BY <2>5, <5>1, <7>1 DEF Current
            <7>3. calls'[k + 1].frame = g
              BY <2>4, <2>5, <5>1
            <7>4. QED
              BY <7>1, <7>2, <7>3
          <6>2. QED
            BY <4>6, <6>1
        <5>2. CASE k \in 1 .. Top - 1
          <6>1. k \in 1 .. Top /\ k + 1 \in 1 .. Top
            BY <2>5, <5>2
          <6>2. QED
            BY <2>5, <4>5, <5>2, <6>1
        <5>3. QED
          BY <2>5, <5>1, <5>2
      <4>10. calls'[1] = calls[1] /\ Top' > 0
        BY <2>5, <4>2
      <4>11. /\ calls'[1].frame = (IF host' = "invoke" THEN 0 ELSE 1)
             /\ host' = "start" => calls'[1].arity = 0
        BY <1>7, <3>2, <4>10 DEF CallsOK
      <4>12. ASSUME NEW k \in 1 .. Top', NEW j \in 1 .. k - 1
             PROVE  calls'[j].frame + 1 < calls'[k].frame
        <5>1. j \in 1 .. Top /\ calls'[j] = calls[j] /\ calls[j].frame \in 0 .. f
          <6>1. j \in 1 .. Top
            BY <2>5
          <6>2. QED
            BY <2>5, <4>4, <6>1
        <5>2. CASE k = Top + 1
          <6>1. calls'[k].frame = g
            BY <2>4, <2>5, <5>2
          <6>2. calls[j].frame + 1 < g
            BY <2>1, <4>1, <4>6, <5>1
          <6>3. QED
            BY <5>1, <6>1, <6>2
        <5>3. CASE k \in 1 .. Top
          BY <2>5, <3>2, <5>1, <5>3 DEF CallsOK
        <5>4. QED
          BY <4>7, <5>2, <5>3
      <4>13. QED
        BY <1>7, <2>4, <2>5, <2>7, <4>8, <4>9, <4>10, <4>11, <4>12 DEF CallsOK
    <3>3. QED
      BY <1>3, <3>1, <3>2
  <2>9. WellFormed(Settled)'
    BY <1>7, <2>2 DEF Settled, Run, Return
  <2>10. PcOK'
    BY <1>7, <2>3, <2>4, <2>5 DEF PcOK
  <2>11. Kept(L)
    <3>1. L.idx \in Int /\ P.idx <= L.idx /\ \A i \in 0 .. P.idx : L.pool[i] = P.pool[i]
      BY <1>1, <2>2, <2>3, StackFields DEF g
    <3>2. Agree(L, P)
      BY <1>1, <3>1 DEF Agree
    <3>3. QED
      BY <1>b, <3>1, <3>2
  <2>12. Untouched
    BY <1>7, <2>11 DEF Untouched
  <2>13. SlotsOf(L, "frame") = SlotsOf(P, "frame") \cup {g}
    <3>1. \A i \in 0 .. L.idx : i \in 0 .. P.idx \/ i = g \/ i = L.idx
      BY <1>1, <2>2 DEF g
    <3>2. \A i \in 0 .. P.idx : i \in 0 .. L.idx /\ L.pool[i] = P.pool[i]
      BY <2>3
    <3>3. QED
      BY <2>2, <2>3, <3>1, <3>2 DEF SlotsOf
  <2>14. FrameSet => FrameSet'
    <3>1. {calls'[k].frame : k \in 1 .. Top'} = {calls[k].frame : k \in 1 .. Top} \cup {g}
      <4>1. \A k \in 1 .. Top' : k = Top + 1 \/ k \in 1 .. Top
        BY <2>5
      <4>2. 1 .. Top \subseteq 1 .. Top' /\ Top + 1 \in 1 .. Top'
        BY <2>5
      <4>3. QED
        BY <2>4, <2>5, <4>1, <4>2
    <3>2. CASE calls = <<>> /\ P.idx = (IF caller = "invoke" THEN -1 ELSE 0)
      <4>1. Top = 0 /\ {calls[k].frame : k \in 1 .. Top} = {}
        BY <3>2 DEF Top
      <4>2. SlotsOf(P, "frame") = IF caller = "invoke" THEN {} ELSE {0}
        <5>1. CASE caller = "invoke"
          BY <3>2, <5>1 DEF SlotsOf
        <5>2. CASE caller # "invoke"
          <6>1. P.idx = 0 /\ EntryOK(P, 0)
            BY <1>1, <3>2, <5>2 DEF WellFormed
          <6>2. P.pool[0].type = "frame"
            BY <6>1 DEF EntryOK
          <6>3. QED
            BY <5>2, <6>1, <6>2 DEF SlotsOf
        <5>3. QED
          BY <5>1, <5>2
      <4>3. QED
        BY <1>7, <2>13, <3>1, <4>1, <4>2 DEF FrameSet
    <3>3. CASE Active /\ CallsOK /\ caller = host /\ Body(P, f) /\ \A i \in 0 .. f : P.pool[i] = st.pool[i]
      <4>1. SlotsOf(P, "frame") = SlotsOf(st, "frame")
        <5>1. IsTop(P, "frame", f) /\ IsTop(st, "frame", f) /\ st.idx \in Int /\ f \in Nat
          BY <3>3, Types, BodyLabel DEF CallsOK, Body
        <5>2. QED
          BY <1>1, <3>3, <5>1 DEF SlotsOf, IsTop
      <4>2. QED
        BY <1>7, <2>13, <3>1, <3>3, <4>1 DEF FrameSet
    <3>4. QED
      BY <1>3, <3>2, <3>3
  <2>15. QED
    BY <2>6, <2>8, <2>9, <2>10, <2>12, <2>14 DEF IInv, ControlOK, Active, Steady
<1>8. QED
  BY <1>2, <1>5, <1>6, <1>7

LEMMA CallFuncOK ==
    ASSUME IInv, NEW m \in Arities, NEW n \in Arities, NEW c \in 0 .. 1, CallFunc(m, n, c)
    PROVE  IInv' /\ Steady
<1> DEFINE f == Current.frame
           S == PopN(st, c)
           P == PopN(S, m)
<1>1. HasVals(st, c + m) /\ InvokeFunc(S, m, n, host) /\ m \in Nat /\ c \in Nat
  BY MaxArityAssumption DEF CallFunc, Arities
<1>2. Active /\ CallsOK /\ TypeOK /\ Body(st, f) /\ st.idx \in Int
  BY AtRun, Types DEF CallFunc
<1>3. HasVals(st, c)
  BY <1>1, <1>2 DEF HasVals
<1>4. Body(S, f) /\ Agree(st, S) /\ S.idx = st.idx - c
  BY <1>1, <1>2, <1>3, BodyPop
<1>5. HasVals(S, m)
  <2>1. /\ m <= S.idx + 1
        /\ \A i \in S.idx + 1 - m .. S.idx :
              i \in st.idx + 1 - (c + m) .. st.idx /\ i \in 0 .. S.idx
    BY <1>1, <1>2, <1>4 DEF HasVals
  <2>2. QED
    BY <1>1, <1>4, <2>1 DEF HasVals, Agree
<1>6. Body(P, f) /\ Agree(S, P)
  BY <1>1, <1>4, <1>5, BodyPop
<1>7. \A i \in 0 .. f : P.pool[i] = st.pool[i]
  <2>1. \A i \in 0 .. f : i \in 0 .. P.idx /\ i \in 0 .. S.idx
    BY <1>4, <1>6, BodyLabel
  <2>2. QED
    BY <1>4, <1>6, <2>1 DEF Agree
<1>8. P \in Stack /\ WellFormed(P) /\ host \in {"invoke", "start"}
  BY <1>2, <1>6 DEF Body, Active
<1>9. \/ /\ Active /\ CallsOK /\ host = host
         /\ Body(PopN(S, m), Current.frame)
         /\ \A i \in 0 .. Current.frame : PopN(S, m).pool[i] = st.pool[i]
      \/ /\ calls = <<>> /\ (host = "start" => n = 0)
         /\ PopN(S, m).idx = (IF host = "invoke" THEN -1 ELSE 0)
  BY <1>2, <1>6, <1>7
<1>10. /\ PopN(S, m) \in Stack /\ WellFormed(PopN(S, m))
       /\ TypeOK /\ InvokeFunc(S, m, n, host) /\ host \in {"invoke", "start"}
  BY <1>1, <1>2, <1>8
<1> HIDE DEF S, P
<1>11. QED
  BY <1>9, <1>10, InvokeFuncOK

-----------------------------------------------------------------------------
(* Returns.                                                                *)

\* The results are in C variables and the rest of the activation goes.
LEMMA DiscardingOK ==
    ASSUME TypeOK, Active, CallsOK,
           NEW S \in Stack, WellFormed(S), IsTop(S, "frame", Current.frame),
           \A i \in 0 .. Current.frame : S.pool[i] = st.pool[i],
           NEW vals \in Seq(Val), Len(vals) = Current.arity,
           S.idx + Len(vals) < NumSlots,
           Continue(S, Discarding(vals))
    PROVE  IInv' /\ Steady
<1> DEFINE next == Discarding(vals)
<1>1. next.at = "discard" /\ next.vals = vals /\ next # Return
  BY DEF Discarding, Return
<1>2. next \in PCs
  <2>1. vals \in Vals
    BY DEF Vals
  <2>2. QED
    BY <2>1 DEF PCs, Discarding
<1> HIDE DEF next
<1>3. TypeOK' /\ CallsOK' /\ Active' /\ Current' = Current /\ Steady
  BY <1>2, ContinueOK DEF next
<1>4. st' = S /\ pc' = next
  BY DEF Continue, next
<1>5. WellFormed(Settled)'
  BY <1>1, <1>4 DEF Settled
<1>6. S.idx >= Current.frame
  BY StackFields, NumSlotsAssumption DEF IsTop, SlotsOf
<1>7. SavedOK'
  BY <1>1, <1>4 DEF SavedOK
<1>8. PcOK'
  BY <1>1, <1>3, <1>4, <1>6, <1>7 DEF PcOK
<1>9. QED
  BY <1>3, <1>5, <1>8 DEF IInv, ControlOK, Active

\* At a return, below the results.
LEMMA AtReturn ==
    ASSUME IInv, pc = Return
    PROVE  /\ Active /\ CallsOK /\ TypeOK /\ Top > 0 /\ st \in Stack
           /\ Current.arity \in Nat /\ HasVals(st, Current.arity)
           /\ st.idx - Current.arity >= Current.frame
           /\ LiveValuesIntact /\ WellFormed(PopN(st, Current.arity))
<1>1. pc.at = "return" /\ pc.at # "host"
  BY DEF Return
<1>2. Active /\ CallsOK /\ TypeOK /\ PcOK /\ Top > 0
  BY <1>1, PcCases
<1>3. pc # Run
  BY DEF Return, Run
<1>4. QED
  BY <1>1, <1>2, <1>3, Types DEF PcOK, IInv, Settled

LEMMA PopResultsOK ==
    ASSUME IInv, PopResults
    PROVE  IInv' /\ Steady
<1> DEFINE f == Current.frame
           n == Current.arity
           vals == TopVals(st, n)
           P == PopN(st, n)
<1>1. pc = Return /\ Continue(P, Discarding(vals))
  BY DEF PopResults
<1>2. /\ Active /\ CallsOK /\ TypeOK /\ st \in Stack
      /\ n \in Nat /\ HasVals(st, n) /\ st.idx - n >= f
      /\ LiveValuesIntact /\ WellFormed(P)
  BY <1>1, AtReturn
<1>3. /\ st.idx \in -1 .. NumSlots - 1 /\ NumSlots \in Int
      /\ IsTop(st, "frame", f) /\ f \in Int
  BY <1>2, StackFields, NumSlotsAssumption DEF CallsOK, IsTop, SlotsOf
<1>4. P \in Stack /\ P.idx = st.idx - n /\ Agree(st, P)
  BY <1>2, PopNType DEF HasVals
<1>5. \A i \in st.idx + 1 - n .. st.idx : st.pool[i].val # LINK
  BY <1>2, <1>3 DEF LiveValuesIntact, HasVals, SlotsOf
<1>6. vals \in Seq(Val) /\ Len(vals) = n
  BY <1>2, <1>5, TopValsType
<1> HIDE DEF P, vals
<1>7. IsTop(P, "frame", f) /\ \A i \in 0 .. f : P.pool[i] = st.pool[i]
  BY <1>2, <1>3, <1>4, TopFrameCut
<1>8. P.idx + Len(vals) < NumSlots
  BY <1>2, <1>3, <1>4, <1>6
<1>9. QED
  BY <1>1, <1>2, <1>4, <1>6, <1>7, <1>8, DiscardingOK DEF P

\* What a return has saved.
LEMMA AtDiscard ==
    ASSUME IInv, pc.at = "discard"
    PROVE  /\ Active /\ CallsOK /\ TypeOK /\ Top > 0
           /\ st \in Stack /\ WellFormed(st) /\ IsTop(st, "frame", Current.frame)
           /\ Current.frame \in Nat /\ st.idx \in Nat /\ Current.frame <= st.idx
           /\ pc.vals \in Seq(Val) /\ Len(pc.vals) \in Nat /\ Len(pc.vals) = Current.arity
           /\ st.idx + Len(pc.vals) < NumSlots /\ NumSlots \in Nat
<1>1. /\ Active /\ CallsOK /\ TypeOK /\ PcOK /\ Top > 0
      /\ st \in Stack /\ WellFormed(st)
  BY PcCases
<1>2. pc # Run /\ pc # Return
  BY DEF Run, Return
<1>3. SavedOK /\ Len(pc.vals) = Current.arity
  BY <1>1, <1>2 DEF PcOK
<1>4. IsTop(st, "frame", Current.frame)
  BY <1>1 DEF CallsOK
<1>5. QED
  BY <1>1, <1>3, <1>4, StackFields, NumSlotsAssumption DEF SavedOK, IsTop, SlotsOf

LEMMA DiscardEntryOK ==
    ASSUME IInv, DiscardEntry
    PROVE  IInv' /\ Steady
<1> DEFINE f == Current.frame
<1>1. pc.at = "discard"
  BY DEF DiscardEntry
<1>2. /\ Active /\ CallsOK /\ TypeOK
      /\ st \in Stack /\ WellFormed(st) /\ IsTop(st, "frame", f)
      /\ f \in Nat /\ st.idx \in Nat /\ f <= st.idx
      /\ pc.vals \in Seq(Val) /\ Len(pc.vals) \in Nat /\ Len(pc.vals) = Current.arity
      /\ st.idx + Len(pc.vals) < NumSlots /\ NumSlots \in Nat
  BY <1>1, AtDiscard
<1>3. pc = Discarding(pc.vals)
  BY <1>1, <1>2 DEF TypeOK, PCs, AtHost, Run, Return, Discarding
<1>4. ASSUME NEW S \in Stack, WellFormed(S), S.idx = st.idx - 1, Agree(st, S),
             st.pool[st.idx].type # "frame", Continue(S, pc)
      PROVE  IInv' /\ Steady
  <2>1. f <= S.idx /\ S.idx <= st.idx
    BY <1>2, <1>4 DEF IsTop, SlotsOf
  <2>2. IsTop(S, "frame", f) /\ \A i \in 0 .. f : S.pool[i] = st.pool[i]
    BY <1>2, <1>4, <2>1, TopFrameCut
  <2>3. S.idx + Len(pc.vals) < NumSlots
    BY <1>2, <1>4
  <2>4. Continue(S, Discarding(pc.vals))
    BY <1>3, <1>4
  <2>5. QED
    BY <1>2, <1>4, <2>2, <2>3, <2>4, DiscardingOK
<1>5. CASE st.pool[st.idx].type = "val" /\ Continue(PopN(st, 1), pc)
  <2>1. HasVals(st, 1)
    BY <1>2, <1>5 DEF HasVals
  <2>2. /\ PopN(st, 1) \in Stack /\ PopN(st, 1).idx = st.idx - 1 /\ Agree(st, PopN(st, 1))
        /\ WellFormed(PopN(st, 1))
    BY <1>2, <2>1, PopNType, PopNWellFormed DEF HasVals
  <2>3. QED
    BY <1>4, <1>5, <2>2
<1>6. CASE st.pool[st.idx].type = "label" /\ Continue(PopLabel(st), pc)
  <2>1. /\ PopLabel(st) \in Stack /\ WellFormed(PopLabel(st))
        /\ PopLabel(st).idx = st.idx - 1 /\ Agree(st, PopLabel(st))
    BY <1>2, <1>6, PopLabelOK
  <2>2. QED
    BY <1>4, <1>6, <2>1
<1>7. QED
  BY <1>5, <1>6 DEF DiscardEntry

\* The frame on top is that of the innermost activation.
LEMMA AtFrameOK ==
    ASSUME IInv, AtFrame
    PROVE  LET T == PopFrame(st)
           IN  /\ Current.frame = st.idx
               /\ T \in Stack /\ WellFormed(T) /\ T.idx = st.idx - 1 /\ Agree(st, T)
               /\ ~Overflows(T, Len(pc.vals))
<1>1. pc.at = "discard" /\ st.pool[st.idx].type = "frame"
  BY DEF AtFrame
<1>2. /\ st \in Stack /\ WellFormed(st) /\ IsTop(st, "frame", Current.frame)
      /\ Current.frame \in Nat /\ st.idx \in Nat /\ Current.frame <= st.idx
      /\ Len(pc.vals) \in Nat /\ st.idx + Len(pc.vals) < NumSlots /\ NumSlots \in Nat
  BY <1>1, AtDiscard
<1>3. Current.frame = st.idx
  BY <1>1, <1>2 DEF IsTop
<1>4. /\ PopFrame(st) \in Stack /\ WellFormed(PopFrame(st))
      /\ PopFrame(st).idx = st.idx - 1 /\ Agree(st, PopFrame(st))
  BY <1>1, <1>2, PopFrameOK
<1>5. ~Overflows(PopFrame(st), Len(pc.vals))
  BY <1>2, <1>4 DEF Overflows
<1>6. QED
  BY <1>3, <1>4, <1>5

LEMMA ReturnToCallerOK ==
    ASSUME IInv, ReturnToCaller
    PROVE  IInv' /\ Steady
<1> DEFINE T == PopFrame(st)
           S == PushVals(T, pc.vals)
           f == calls[Top - 1].frame
           g == Current.frame
<1>1. /\ AtFrame /\ Top > 1
      /\ st' = S /\ calls' = SubSeq(calls, 1, Top - 1) /\ host' = host /\ pc' = Run
  BY DEF ReturnToCaller, Leave
<1>2. /\ Active /\ CallsOK /\ TypeOK
      /\ st \in Stack /\ WellFormed(st)
      /\ st.idx \in Nat /\ pc.vals \in Seq(Val)
  BY <1>1, AtDiscard DEF AtFrame
<1>3. /\ g = st.idx
      /\ T \in Stack /\ WellFormed(T) /\ T.idx = st.idx - 1 /\ Agree(st, T)
  BY <1>1, AtFrameOK
<1> HIDE DEF T
<1>4. Top \in Nat /\ Top - 1 \in 1 .. Top - 1 /\ (Top - 1) + 1 = Top /\ calls \in Seq(Call)
  BY <1>1, <1>2, Types DEF TypeOK
<1>5. calls[(Top - 1) + 1] = Current
  BY <1>4 DEF Current
<1>6. IsBelow(st, "frame", g, f) /\ f + 1 < g
  BY <1>2, <1>4, <1>5 DEF CallsOK
<1>7. f \in Nat /\ f < T.idx /\ f <= T.idx /\ T.idx \in Int
  BY <1>2, <1>3, <1>6 DEF IsBelow
<1>8. \A i \in 0 .. T.idx : T.pool[i] = st.pool[i]
  BY <1>3 DEF Agree
<1> HIDE DEF f, g
<1>9. IsTop(T, "frame", f)
  <2>1. f \in 0 .. T.idx /\ \A j \in f + 1 .. T.idx : j \in f + 1 .. g - 1 /\ j \in 0 .. T.idx
    BY <1>2, <1>3, <1>7
  <2>2. QED
    BY <1>6, <1>8, <2>1 DEF IsTop, IsBelow, SlotsOf
<1>10. Body(T, f)
  BY <1>3, <1>7, <1>9 DEF Body
<1>11. Body(S, f) /\ Agree(S, T) /\ T.idx <= S.idx /\ S.idx \in Int
  BY <1>2, <1>3, <1>10, BodyPush, BodyLabel, PushValsType
<1> HIDE DEF S
<1>12. \A i \in 0 .. f : S.pool[i] = st.pool[i] /\ i \in 0 .. S.idx
  BY <1>7, <1>8, <1>11, BodyLabel DEF Agree
<1>13. /\ calls' \in Seq(Call) /\ Top' = Top - 1
       /\ \A k \in 1 .. Top - 1 : calls'[k] = calls[k]
  BY <1>1, <1>4 DEF Top
<1>14. Current' = calls[Top - 1]
  BY <1>4, <1>13 DEF Current
<1>15. TypeOK' /\ Active'
  BY <1>1, <1>2, <1>11, <1>13 DEF TypeOK, PCs, Active, Body
<1>16. IsTop(S, "frame", f) /\ S.idx > f
  BY <1>7, <1>11, BodyLabel DEF Body
<1>17. ASSUME NEW k \in 1 .. Top - 1
       PROVE  /\ calls[k].frame \in 0 .. f
              /\ calls[k].frame \in SlotsOf(S, "frame")
              /\ calls[k].arity = S.pool[calls[k].frame].arity
  <2>1. k \in 1 .. Top /\ calls[Top] = Current
    BY <1>4 DEF Current
  <2>2. /\ calls[k].frame \in SlotsOf(st, "frame")
        /\ calls[k].arity = st.pool[calls[k].frame].arity
    BY <1>2, <2>1 DEF CallsOK
  <2>3. calls[k].frame + 1 < g
    BY <1>2, <1>4, <2>1 DEF CallsOK, g
  <2>4. calls[k].frame \in 0 .. f
    <3>1. calls[k].frame \in Nat /\ st.pool[calls[k].frame].type = "frame"
      BY <1>2, <2>2 DEF SlotsOf
    <3>2. ~(calls[k].frame \in f + 1 .. g - 1)
      BY <1>6, <3>1 DEF IsBelow
    <3>3. g \in Int
      BY <1>2, <1>3
    <3>4. QED
      BY <1>7, <2>3, <3>1, <3>2, <3>3
  <2>5. QED
    BY <1>12, <2>2, <2>4 DEF SlotsOf
<1>18. ASSUME NEW k \in 1 .. Top - 2
       PROVE  IsBelow(S, "frame", calls[k + 1].frame, calls[k].frame)
  <2>1. k \in 1 .. Top - 1 /\ k + 1 \in 1 .. Top - 1
    BY <1>4
  <2>2. IsBelow(st, "frame", calls[k + 1].frame, calls[k].frame)
    BY <1>2, <2>1 DEF CallsOK
  <2>3. calls[k + 1].frame \in 0 .. f
    BY <1>17, <2>1
  <2>4. \A j \in 0 .. calls[k + 1].frame - 1 : S.pool[j] = st.pool[j]
    BY <1>7, <1>12, <2>3
  <2>5. \A j \in calls[k].frame + 1 .. calls[k + 1].frame - 1 :
           j \in 0 .. calls[k + 1].frame - 1
    BY <1>7, <2>2, <2>3 DEF IsBelow
  <2>6. QED
    BY <2>2, <2>4, <2>5 DEF IsBelow
<1>19. CallsOK'
  <2>1. Top' > 0 /\ Top' - 1 = Top - 2 /\ Current'.frame = f
    BY <1>1, <1>4, <1>13, <1>14 DEF f
  <2>2. \A k \in 1 .. Top' : /\ calls'[k].frame \in SlotsOf(S, "frame")
                             /\ calls'[k].arity = S.pool[calls'[k].frame].arity
    BY <1>13, <1>17
  <2>3. ASSUME NEW k \in 1 .. Top' - 1
        PROVE  IsBelow(S, "frame", calls'[k + 1].frame, calls'[k].frame)
    <3>1. k \in 1 .. Top - 2 /\ k \in 1 .. Top - 1 /\ k + 1 \in 1 .. Top - 1
      BY <1>4, <2>1
    <3>2. QED
      BY <1>13, <1>18, <3>1
  <2>4. ASSUME NEW k \in 1 .. Top', NEW j \in 1 .. k - 1
        PROVE  calls'[j].frame + 1 < calls'[k].frame
    <3>1. k \in 1 .. Top - 1 /\ j \in 1 .. Top - 1 /\ k \in 1 .. Top
      BY <1>4, <1>13
    <3>2. calls[j].frame + 1 < calls[k].frame
      BY <1>2, <3>1 DEF CallsOK
    <3>3. QED
      BY <1>13, <3>1, <3>2
  <2>5. calls'[1] = calls[1]
    BY <1>1, <1>4, <1>13
  <2>6. /\ calls'[1].frame = (IF host' = "invoke" THEN 0 ELSE 1)
        /\ host' = "start" => calls'[1].arity = 0
    BY <1>1, <1>2, <2>5 DEF CallsOK
  <2>7. QED
    BY <1>1, <1>16, <2>1, <2>2, <2>3, <2>4, <2>6 DEF CallsOK
<1>20. WellFormed(Settled)'
  BY <1>1, <1>11 DEF Settled, Run, Return, Body
<1>21. PcOK'
  BY <1>1, <1>14, <1>16 DEF PcOK, f
<1>22. Untouched
  <2>1. \A i \in 0 .. g - 1 : i \in 0 .. T.idx
    BY <1>2, <1>3
  <2>2. \A i \in 0 .. T.idx : i <= S.idx /\ S.pool[i] = T.pool[i]
    BY <1>7, <1>11 DEF Agree
  <2>3. QED
    BY <1>1, <1>8, <2>1, <2>2 DEF Untouched, KeepsBelow, g
<1>23. FrameSet => FrameSet'
  <2>1. SlotsOf(S, "frame") = SlotsOf(st, "frame") \ {g}
    <3>1. SlotsOf(S, "frame") = SlotsOf(T, "frame")
      BY <1>7, <1>9, <1>12, <1>16, <1>11, <1>8 DEF SlotsOf, IsTop
    <3>2. SlotsOf(T, "frame") = SlotsOf(st, "frame") \ {g}
      <4>1. \A i \in 0 .. st.idx : i \in 0 .. T.idx \/ i = g
        BY <1>2, <1>3
      <4>2. \A i \in 0 .. T.idx : i \in 0 .. st.idx /\ i # g
        BY <1>2, <1>3
      <4>3. QED
        BY <1>8, <4>1, <4>2 DEF SlotsOf
    <3>3. QED
      BY <3>1, <3>2
  <2>2. {calls'[k].frame : k \in 1 .. Top'} = {calls[k].frame : k \in 1 .. Top} \ {g}
    <3>1. \A k \in 1 .. Top : k \in 1 .. Top - 1 \/ k = Top
      BY <1>4
    <3>2. calls[Top].frame = g
      BY DEF g, Current
    <3>3. ASSUME NEW k \in 1 .. Top - 1
          PROVE  calls'[k] = calls[k] /\ k \in 1 .. Top /\ calls[k].frame # g
      BY <1>4, <1>13, <1>17, <1>6, <1>7
    <3>4. QED
      BY <1>13, <3>1, <3>2, <3>3
  <2>3. g # 0
    BY <1>6, <1>7
  <2>4. QED
    BY <1>1, <1>2, <1>15, <2>1, <2>2, <2>3 DEF FrameSet
<1>24. QED
  BY <1>15, <1>19, <1>20, <1>21, <1>22, <1>23 DEF IInv, ControlOK, Active, Steady

-----------------------------------------------------------------------------
(* The host.                                                               *)

\* No activation is under way.
LEMMA HostOK ==
    ASSUME NEW S \in Stack, WellFormed(S),
           st' = S, calls' = <<>>, pc' = AtHost,
           host' \in {"idle", "allocs", "inits", "done"},
           S.idx = (IF host' = "idle" THEN -1 ELSE 0)
    PROVE  IInv'
<1>1. AtHost # Return
  BY DEF AtHost, Return
<1>2. TypeOK'
  BY DEF TypeOK, Hosts, PCs
<1>3. WellFormed(Settled)'
  BY <1>1 DEF Settled
<1>4. ControlOK'
  BY DEF ControlOK
<1>5. QED
  BY <1>2, <1>3, <1>4 DEF IInv

LEMMA AtHostOK ==
    ASSUME IInv, ~Active
    PROVE  /\ TypeOK /\ st \in Stack /\ WellFormed(st) /\ calls = <<>> /\ pc = AtHost
           /\ host = "idle" => st.idx = -1
           /\ host \in {"allocs", "inits", "done"} => st.idx = 0
<1>1. /\ calls = <<>> /\ pc = AtHost
      /\ host = "idle" => st.idx = -1
      /\ host \in {"allocs", "inits", "done"} => st.idx = 0
  BY DEF IInv, ControlOK, Active
<1>2. pc # Return
  BY <1>1 DEF AtHost, Return
<1>3. QED
  BY <1>1, <1>2 DEF IInv, TypeOK, Settled

LEMMA ReturnToHostOK ==
    ASSUME IInv, ReturnToHost
    PROVE  IInv' /\ Steady
<1> DEFINE T == PopFrame(st)
           P == PopN(PushVals(T, pc.vals), Len(pc.vals))
<1>1. /\ AtFrame /\ Top = 1 /\ host = "invoke"
      /\ st' = P /\ calls' = SubSeq(calls, 1, Top - 1) /\ host' = "idle" /\ pc' = AtHost
  BY DEF ReturnToHost, Leave
<1>2. CallsOK /\ pc.vals \in Seq(Val) /\ calls \in Seq(Call)
  BY <1>1, AtDiscard DEF AtFrame, TypeOK
<1>3. /\ Current.frame = st.idx
      /\ T \in Stack /\ WellFormed(T) /\ T.idx = st.idx - 1
      /\ ~Overflows(T, Len(pc.vals))
  BY <1>1, AtFrameOK
<1>4. T.idx = -1
  BY <1>1, <1>2, <1>3 DEF CallsOK, Current
<1> HIDE DEF T
<1>5. P \in Stack /\ WellFormed(P) /\ P.idx = -1
  BY <1>2, <1>3, <1>4, PushPopOK
<1> HIDE DEF P
<1>6. calls' = <<>>
  BY <1>1, <1>2
<1>7. Untouched
  <2>1. Current.frame = 0
    BY <1>1, <1>2 DEF CallsOK, Current
  <2>2. QED
    BY <2>1 DEF Untouched, KeepsBelow
<1>8. FrameSet'
  BY <1>1 DEF FrameSet, Active
<1>9. QED
  BY <1>1, <1>5, <1>6, <1>7, <1>8, HostOK DEF Steady

LEMMA ReturnFromStartOK ==
    ASSUME IInv, ReturnFromStart
    PROVE  IInv' /\ Steady
<1> DEFINE T == PopFrame(st)
           S == PushVals(T, pc.vals)
<1>1. /\ AtFrame /\ Top = 1 /\ host = "start"
      /\ st' = S /\ calls' = SubSeq(calls, 1, Top - 1) /\ host' = "done" /\ pc' = AtHost
  BY DEF ReturnFromStart, Leave
<1>2. /\ CallsOK /\ pc.vals \in Seq(Val) /\ calls \in Seq(Call)
      /\ Len(pc.vals) = Current.arity
  BY <1>1, AtDiscard DEF AtFrame, TypeOK
<1>3. /\ Current.frame = st.idx
      /\ T \in Stack /\ WellFormed(T) /\ T.idx = st.idx - 1
      /\ ~Overflows(T, Len(pc.vals))
  BY <1>1, AtFrameOK
<1>4. T.idx = 0 /\ Len(pc.vals) = 0
  BY <1>1, <1>2, <1>3 DEF CallsOK, Current
<1> HIDE DEF T
<1>5. /\ S \in Stack /\ S.idx = T.idx /\ Agree(S, T)
      /\ S.labels = T.labels /\ S.frames = T.frames
  BY <1>2, <1>3, <1>4, PushValsType
<1> HIDE DEF S
<1>6. Agree(T, S) /\ Tailed(T)
  BY <1>3, <1>5 DEF Agree, WellFormed, Linked, Tailed
<1>7. Tailed(S)
  BY <1>3, <1>4, <1>5, <1>6, SameTails
<1>8. WellFormed(S)
  BY <1>3, <1>4, <1>5, <1>6, <1>7, CutWellFormed
<1>9. calls' = <<>>
  BY <1>1, <1>2
<1>10. Untouched
  <2>1. Current.frame = 1 /\ Agree(st, T)
    BY <1>1, <1>2, AtFrameOK DEF CallsOK, Current, T
  <2>2. S.idx = 0 /\ S.pool[0] = st.pool[0]
    BY <1>4, <1>5, <2>1 DEF Agree
  <2>3. QED
    BY <1>1, <2>1, <2>2 DEF Untouched, KeepsBelow
<1>11. FrameSet'
  BY <1>1 DEF FrameSet, Active
<1>12. QED
  BY <1>1, <1>4, <1>5, <1>8, <1>9, <1>10, <1>11, HostOK DEF Steady

LEMMA HostInvokeOK ==
    ASSUME IInv, NEW m \in Arities, NEW n \in Arities, NEW v \in Val, HostInvoke(m, n, v)
    PROVE  IInv' /\ Steady
<1> DEFINE vals == [k \in 1 .. m |-> v]
           S == PushVals(st, vals)
<1>1. host = "idle" /\ InvokeFunc(S, m, n, "invoke")
  BY DEF HostInvoke
<1>2. TypeOK /\ st \in Stack /\ WellFormed(st) /\ calls = <<>> /\ st.idx = -1
  BY <1>1, AtHostOK DEF Active
<1>3. m \in Nat /\ m <= MaxArity /\ MaxArity \in Nat
  BY MaxArityAssumption DEF Arities
<1>4. vals \in Seq(Val) /\ Len(vals) = m
  BY <1>3
<1> HIDE DEF vals
<1>5. ~Overflows(st, Len(vals))
  BY <1>2, <1>3, <1>4, NumSlotsAssumption DEF Overflows
<1>6. PopN(S, m) \in Stack /\ WellFormed(PopN(S, m)) /\ PopN(S, m).idx = -1
  BY <1>2, <1>4, <1>5, PushPopOK
<1> HIDE DEF S
<1>7. QED
  BY <1>1, <1>2, <1>6, InvokeFuncOK

LEMMA InstBeginOK ==
    ASSUME IInv, InstBegin
    PROVE  IInv'
<1>1. host = "idle" /\ st' = PushFrame(st, 0) /\ host' = "allocs" /\ calls' = calls /\ pc' = pc
  BY DEF InstBegin, InstStep
<1>2. st \in Stack /\ WellFormed(st) /\ calls = <<>> /\ pc = AtHost /\ st.idx = -1
  BY <1>1, AtHostOK DEF Active
<1>3. ~Full(st) /\ 0 \in Arities
  BY <1>2, NumSlotsAssumption, MaxArityAssumption DEF Full, Arities
<1>4. PushFrame(st, 0) \in Stack /\ WellFormed(PushFrame(st, 0)) /\ PushFrame(st, 0).idx = 0
  BY <1>2, <1>3, PushFrameOK
<1>5. QED
  BY <1>1, <1>2, <1>4, HostOK

LEMMA InstAllocOK ==
    ASSUME IInv, NEW v \in Val, InstAlloc(v)
    PROVE  IInv'
<1> DEFINE S == PopN(PushVals(st, <<v>>), 1)
<1>1. host = "allocs" /\ st' = S /\ host' = "allocs" /\ calls' = calls /\ pc' = pc
  BY DEF InstAlloc, InstStep, PushVal
<1>2. st \in Stack /\ WellFormed(st) /\ calls = <<>> /\ pc = AtHost /\ st.idx = 0
  BY <1>1, AtHostOK DEF Active
<1>3. <<v>> \in Seq(Val) /\ Len(<<v>>) = 1
  OBVIOUS
<1>4. ~Overflows(st, 1)
  BY <1>2, NumSlotsAssumption, MaxArityAssumption DEF Overflows
<1>5. S \in Stack /\ WellFormed(S) /\ S.idx = 0
  BY <1>2, <1>3, <1>4, PushPopOK
<1> HIDE DEF S
<1>6. QED
  BY <1>1, <1>2, <1>5, HostOK

LEMMA InstExportsOK ==
    ASSUME IInv, InstExports
    PROVE  IInv'
<1>1. host = "allocs" /\ st' = st /\ host' = "inits" /\ calls' = calls /\ pc' = pc
  BY DEF InstExports, InstStep
<1>2. st \in Stack /\ WellFormed(st) /\ calls = <<>> /\ pc = AtHost /\ st.idx = 0
  BY <1>1, AtHostOK DEF Active
<1>3. QED
  BY <1>1, <1>2, HostOK

LEMMA InstInitOK ==
    ASSUME IInv, NEW v \in Val, InstInit(v)
    PROVE  IInv'
<1> DEFINE S == PopN(PushVals(st, <<v, v, v>>), 3)
<1>1. host = "inits" /\ (InstStep(S, "inits") \/ Throw(S))
  BY DEF InstInit
<1>2. st \in Stack /\ WellFormed(st) /\ calls = <<>> /\ pc = AtHost /\ st.idx = 0
  BY <1>1, AtHostOK DEF Active
<1>3. <<v, v, v>> \in Seq(Val) /\ Len(<<v, v, v>>) = 3
  OBVIOUS
<1>4. ~Overflows(st, 3)
  BY <1>2, NumSlotsAssumption, MaxArityAssumption DEF Overflows
<1>5. S \in Stack /\ WellFormed(S) /\ S.idx = 0
  BY <1>2, <1>3, <1>4, PushPopOK
<1> HIDE DEF S
<1>6. CASE InstStep(S, "inits")
  BY <1>2, <1>5, <1>6, HostOK DEF InstStep
<1>7. QED
  BY <1>1, <1>5, <1>6, ThrowOK

LEMMA InstStartOK ==
    ASSUME IInv, InstStart
    PROVE  IInv' /\ Steady
<1>1. host = "inits" /\ InvokeFunc(st, 0, 0, "start")
  BY DEF InstStart
<1>2. TypeOK /\ st \in Stack /\ WellFormed(st) /\ calls = <<>> /\ st.idx = 0
  BY <1>1, AtHostOK DEF Active
<1>3. HasVals(st, 0) /\ 0 \in Arities
  BY <1>2, MaxArityAssumption DEF HasVals, Arities
<1>4. PopN(st, 0) \in Stack /\ WellFormed(PopN(st, 0)) /\ PopN(st, 0).idx = 0
  BY <1>2, <1>3, PopNType, PopNWellFormed
<1>5. QED
  BY <1>1, <1>2, <1>3, <1>4, InvokeFuncOK

LEMMA InstEndOK ==
    ASSUME IInv, InstEnd
    PROVE  IInv'
<1>1. /\ host \in {"inits", "done"}
      /\ st' = PopFrame(st) /\ host' = "idle" /\ calls' = calls /\ pc' = pc
  BY DEF InstEnd, InstStep
<1>2. st \in Stack /\ WellFormed(st) /\ calls = <<>> /\ pc = AtHost /\ st.idx = 0
  BY <1>1, AtHostOK DEF Active
<1>3. st.pool[0].type = "frame"
  BY <1>2 DEF WellFormed, EntryOK
<1>4. PopFrame(st) \in Stack /\ WellFormed(PopFrame(st)) /\ PopFrame(st).idx = -1
  BY <1>2, <1>3, PopFrameOK
<1>5. QED
  BY <1>1, <1>2, <1>4, HostOK

LEMMA HostResetOK ==
    ASSUME IInv, HostReset
    PROVE  IInv'
<1> DEFINE S == SetTop(st, -1)
<1>1. host = "trapped" /\ st' = S /\ host' = "idle" /\ calls' = calls /\ pc' = pc
  BY DEF HostReset, InstStep
<1>2. st \in Stack /\ WellFormed(st) /\ calls = <<>> /\ pc = AtHost
  BY <1>1, AtHostOK DEF Active
<1>3. -1 \in -1 .. st.idx /\ st.idx \in Int /\ -1 <= st.idx
  BY <1>2, StackFields, NumSlotsAssumption
<1>4. S \in Stack /\ S.idx = -1
  BY <1>2, <1>3, SetTopType
<1> HIDE DEF S
<1>5. Agree(st, S) /\ Tailed(S)
  BY <1>4 DEF Agree, Tailed, SlotsOf
<1>6. WellFormed(S)
  BY <1>2, <1>3, <1>4, <1>5, CutWellFormed
<1>7. QED
  BY <1>1, <1>2, <1>4, <1>6, HostOK

-----------------------------------------------------------------------------
(* The theorems.                                                           *)

LEMMA InitOK == Init => IInv
<1> SUFFICES ASSUME Init PROVE IInv
  OBVIOUS
<1>1. st.idx = -1 /\ st \in Stack
  BY NumSlotsAssumption DEF Init, NewStack, Stk, Stack, Free, FreeObj, Nodes
<1>2. WellFormed(st)
  BY <1>1 DEF WellFormed, Linked, SlotsOf
<1>3. pc # Return
  BY DEF Init, AtHost, Return
<1>4. TypeOK
  BY <1>1 DEF TypeOK, Init, Hosts, PCs
<1>5. QED
  BY <1>1, <1>2, <1>3, <1>4 DEF IInv, Init, Settled, ControlOK

LEMMA HostNextOK ==
    ASSUME IInv, HostNext
    PROVE  IInv' /\ Steady
<1>1. CASE InstBegin \/ (\E v \in Val : InstAlloc(v) \/ InstInit(v)) \/ InstExports \/ InstEnd \/ HostReset
  <2>1. IInv'
    BY <1>1, InstBeginOK, InstAllocOK, InstInitOK, InstExportsOK, InstEndOK, HostResetOK
  <2>2. host \notin {"invoke", "start"} /\ ~Active'
    BY <1>1 DEF InstBegin, InstAlloc, InstInit, InstExports, InstEnd, HostReset, InstStep, Throw,
       Active
  <2>3. calls = <<>>
    BY <2>2 DEF IInv, ControlOK
  <2>4. QED
    BY <2>1, <2>2, <2>3 DEF Untouched, FrameSet, Steady
<1>2. QED
  BY <1>1, HostInvokeOK, InstStartOK DEF HostNext

LEMMA StepOK == IInv /\ [Next]_vars => IInv' /\ (Steady \/ UNCHANGED vars)
<1> SUFFICES ASSUME IInv, [Next]_vars PROVE IInv' /\ (Steady \/ UNCHANGED vars)
  OBVIOUS
<1>1. CASE HostNext
  BY <1>1, HostNextOK
<1>2. CASE ExecNext
  BY <1>2, OperateOK, LocalTeeOK, TrapOK, BlockOK, IfOK, EndOK, BrOK, CallFuncOK,
     ReturnInstrOK DEF ExecNext
<1>3. CASE Unwinder
  BY <1>3, ReenterLoopOK, UnwindOK, FinishBrOK, PopResultsOK, DiscardEntryOK,
     ReturnToCallerOK, ReturnToHostOK, ReturnFromStartOK DEF Unwinder
<1>4. CASE UNCHANGED vars
  BY <1>4 DEF vars, IInv, TypeOK, Settled, ControlOK, CallsOK, PcOK, SavedOK, LiveValuesIntact,
     Current, Top
<1>5. QED
  BY <1>1, <1>2, <1>3, <1>4 DEF Next

\* The inductive invariant holds in every reachable state of the interpreter,
\* whatever instructions the program executes and wherever it traps.
THEOREM Invariant == Spec => []IInv
  BY InitOK, StepOK, PTL DEF Spec

\* Type correctness.
THEOREM TypeCorrect == Spec => []TypeOK
<1>1. IInv => TypeOK
  BY DEF IInv
<1>2. QED
  BY <1>1, Invariant, PTL

\* No list operation writes a link over a live value.
THEOREM LiveValues == Spec => []LiveValuesIntact
<1>1. IInv => LiveValuesIntact
  <2> SUFFICES ASSUME IInv PROVE LiveValuesIntact
    OBVIOUS
  <2>1. CASE pc = Return
    BY <2>1, AtReturn
  <2>2. CASE pc # Return
    <3>1. WellFormed(st)
      BY <2>2 DEF IInv, Settled
    <3>2. QED
      BY <3>1 DEF WellFormed, EntryOK, LiveValuesIntact, SlotsOf
  <2>3. QED
    BY <2>1, <2>2
<1>2. QED
  BY <1>1, Invariant, PTL

\* The two lists visit the live labels and the live frames, from the top down,
\* in every state: also at a return, when results lie on top of the activation.
THEOREM Lists == Spec => []ListsFollowStack
<1>1. IInv => ListsFollowStack
  <2> SUFFICES ASSUME IInv PROVE ListsFollowStack
    OBVIOUS
  <2>1. CASE pc # Return
    BY <2>1 DEF IInv, Settled, WellFormed, ListsFollowStack
  <2>2. CASE pc = Return
    <3> DEFINE n == Current.arity
               P == PopN(st, n)
    <3>1. st \in Stack /\ n \in Nat /\ HasVals(st, n) /\ WellFormed(P)
      BY <2>2, AtReturn
    <3>2. /\ P \in Stack /\ P.idx = st.idx - n /\ Agree(st, P)
          /\ P.labels = st.labels /\ P.frames = st.frames /\ P.idx <= st.idx
      BY <3>1, PopNType, StackFields, NumSlotsAssumption DEF HasVals
    <3>3. \A i \in P.idx + 1 .. st.idx : st.pool[i].type = "val"
      BY <3>1, <3>2, StackFields, NumSlotsAssumption DEF HasVals
    <3> HIDE DEF P
    <3>4. Linked(st, "label", st.labels) /\ Linked(st, "frame", st.frames)
      BY <3>1, <3>2, <3>3, LinkedUnderValues DEF WellFormed
    <3>5. QED
      BY <3>4 DEF ListsFollowStack
  <2>3. QED
    BY <2>1, <2>2
<1>2. QED
  BY <1>1, Invariant, PTL

\* An invocation or an instantiation that has succeeded leaves nothing behind.
THEOREM NothingLeaks == Spec => []IdleStackEmpty
<1>1. IInv => IdleStackEmpty
  BY DEF IInv, ControlOK, IdleStackEmpty
<1>2. QED
  BY <1>1, Invariant, PTL

\* What invoke_func takes off the stack at a return are the callee's values.
THEOREM Results == Spec => []ReturnTakesResults
<1>1. IInv => ReturnTakesResults
  BY AtReturn DEF ReturnTakesResults
<1>2. QED
  BY <1>1, Invariant, PTL

\* Nothing that a function does, nor its traps, nor its return, reaches the
\* entries of its callers: neither the walk of a branch through the one list of
\* labels nor the unwinding goes too far.
THEOREM CallersKept == Spec => CallersUntouched
<1>1. IInv /\ [Next]_vars => [calls # <<>> =>
         \A i \in 0 .. Current.frame - 1 :
            i <= st'.idx /\ st'.pool[i] = st.pool[i]]_vars
  BY StepOK DEF Steady, Untouched, KeepsBelow
<1>2. QED
  BY <1>1, Invariant, PTL DEF Spec, CallersUntouched

-----------------------------------------------------------------------------
(* Counting on the stack: the activations own its frames one by one, and a *)
(* label index counts the labels of its activation.                        *)

-----------------------------------------------------------------------------
(* Induction, as a fact about sets of numbers.                             *)

LEMMA LeastBy ==
    ASSUME NEW R, NEW S, IsWellFoundedOn(R, S), NEW T, T \subseteq S, T # {}
    PROVE  \E x \in T : \A y \in T : ~(<<y, x>> \in R)
  BY WFMin, Zenon

LEMMA LessThan == IsWellFoundedOn({ss \in Nat \X Nat : ss[1] < ss[2]}, Nat)
  BY NatLessThanWellFounded, Zenon DEF OpToRel

LEMMA LeastNat ==
    ASSUME NEW T \in SUBSET Nat, T # {}
    PROVE  \E m \in T : \A k \in T : m <= k
<1> DEFINE R == {ss \in Nat \X Nat : ss[1] < ss[2]}
<1>1. \A k, m \in Nat : k < m => <<k, m>> \in R
  OBVIOUS
<1>2. IsWellFoundedOn(R, Nat)
  BY LessThan
<1> HIDE DEF R
<1>3. T \subseteq Nat
  OBVIOUS
<1>4. \E m \in T : \A k \in T : ~(<<k, m>> \in R)
  BY <1>2, <1>3, LeastBy, Zenon
<1>5. PICK m \in T : \A k \in T : ~(<<k, m>> \in R)
  BY <1>4
<1>6. m \in Nat /\ \A k \in T : k \in Nat /\ ~(k < m)
  BY <1>1, <1>5
<1>7. QED
  BY <1>6

\* A set that holds 0 and every successor of its numbers holds them all.
LEMMA Induct ==
    ASSUME NEW T, 0 \in T, \A k \in Nat : k \in T => k + 1 \in T
    PROVE  Nat \subseteq T
<1> DEFINE U == Nat \ T
<1>1. SUFFICES ASSUME U # {} PROVE FALSE
  OBVIOUS
<1>2. PICK m \in U : \A k \in U : m <= k
  BY <1>1, LeastNat
<1>3. m \in Nat /\ m \notin T /\ m # 0
  OBVIOUS
<1>4. m - 1 \in Nat /\ m - 1 \in T
  BY <1>2, <1>3
<1>5. (m - 1) + 1 = m
  BY <1>3
<1>6. QED
  BY <1>3, <1>4, <1>5

-----------------------------------------------------------------------------
(* Frames.                                                                 *)

LEMMA FrameSetInvariant == Spec => [](IInv /\ FrameSet)
<1> DEFINE I == IInv /\ FrameSet
<1>1. Init => I
  BY InitOK DEF Init, FrameSet, Active
<1>2. I /\ [Next]_vars => I'
  <2> SUFFICES ASSUME I, [Next]_vars PROVE I'
    OBVIOUS
  <2>1. IInv' /\ (Steady \/ UNCHANGED vars)
    BY StepOK
  <2>2. CASE Steady
    BY <2>1, <2>2 DEF Steady
  <2>3. CASE UNCHANGED vars
    BY <2>1, <2>3 DEF vars, FrameSet, Active, Top
  <2>4. QED
    BY <2>1, <2>2, <2>3
<1> HIDE DEF I
<1>3. Spec => []I
  BY <1>1, <1>2, PTL DEF Spec
<1>4. QED
  BY <1>3 DEF I

FramesOf(k) == {calls[j].frame : j \in 1 .. k}
InstFrame == IF host = "invoke" THEN {} ELSE {0}

\* The first k activations have k frames.
LEMMA PrefixCount ==
    ASSUME TypeOK, CallsOK, NEW k \in 0 .. Top
    PROVE  IsFiniteSet(FramesOf(k)) /\ Cardinality(FramesOf(k)) = k
<1> DEFINE F == [j \in 1 .. k |-> calls[j].frame]
<1>1. Top \in Nat /\ k \in Nat /\ \A j \in 1 .. k : j \in 1 .. Top
  BY Types
<1>2. \A j \in 1 .. Top : calls[j].frame \in Nat
  BY Types DEF CallsOK, SlotsOf
<1>3. ASSUME NEW a \in 1 .. k, NEW b \in 1 .. k, a # b
      PROVE  F[a] # F[b]
  <2>1. a < b => a \in 1 .. b - 1
    BY <1>1
  <2>2. b < a => b \in 1 .. a - 1
    BY <1>1
  <2>3. /\ a < b => calls[a].frame + 1 < calls[b].frame
        /\ b < a => calls[b].frame + 1 < calls[a].frame
    BY <1>1, <2>1, <2>2 DEF CallsOK
  <2>4. a < b \/ b < a
    BY <1>1, <1>3
  <2>5. QED
    BY <1>1, <1>2, <2>3, <2>4
<1>4. F \in [1 .. k -> FramesOf(k)] /\ \A f \in FramesOf(k) : \E j \in 1 .. k : F[j] = f
  BY DEF FramesOf
<1> HIDE DEF F
<1>5. F \in Bijection(1 .. k, FramesOf(k))
  BY <1>3, <1>4 DEF Bijection, Injection, Surjection, IsInjective
<1>6. ExistsBijection(1 .. k, FramesOf(k))
  BY <1>5 DEF ExistsBijection
<1>7. QED
  BY <1>1, <1>6, FS_NatBijection, FS_CountingElements

LEMMA FramesCount ==
    ASSUME TypeOK, CallsOK, Active, NEW k \in 0 .. Top
    PROVE  Cardinality(FramesOf(k) \cup InstFrame) = k + (IF host = "invoke" THEN 0 ELSE 1)
<1>1. IsFiniteSet(FramesOf(k)) /\ Cardinality(FramesOf(k)) = k
  BY PrefixCount
<1>2. CASE host = "invoke"
  <2>1. FramesOf(k) \cup InstFrame = FramesOf(k) /\ k \in Int
    BY <1>2, Types DEF InstFrame
  <2>2. QED
    BY <1>1, <1>2, <2>1
<1>3. CASE host # "invoke"
  <2>1. ASSUME NEW j \in 1 .. k
        PROVE  calls[j].frame # 0
    <3>1. j \in 1 .. Top /\ j \in Nat /\ (j # 1 => 1 \in 1 .. j - 1)
      BY Types
    <3>2. calls[1].frame = 1 /\ (j # 1 => calls[1].frame + 1 < calls[j].frame)
      BY <1>3, <3>1 DEF CallsOK
    <3>3. QED
      BY <3>2
  <2>2. 0 \notin FramesOf(k)
    BY <2>1 DEF FramesOf
  <2>3. InstFrame = {0}
    BY <1>3 DEF InstFrame
  <2>4. QED
    BY <1>1, <1>3, <2>2, <2>3, FS_AddElement
<1>4. QED
  BY <1>2, <1>3

\* The frames on the stack are those that the C activations cached, in their
\* order, above the one of instantiate: no nested call, branch, trap or return
\* makes F the frame of somebody else.
THEOREM FramesCounted == Spec => []FramesMatchCalls
<1> DEFINE I == IInv /\ FrameSet
<1>1. I => FramesMatchCalls
  <2> SUFFICES ASSUME IInv, FrameSet, host # "trapped" PROVE FramesMatchCalls
    BY DEF FramesMatchCalls
  <2>1. CASE Active
    <3> DEFINE frames == SlotsOf(st, "frame")
               inst == IF host = "invoke" THEN 0 ELSE 1
    <3>1. TypeOK /\ CallsOK /\ Top \in Nat /\ Top = Len(calls)
      BY <2>1, Types DEF IInv, ControlOK, Active, Top
    <3>2. frames = FramesOf(Top) \cup InstFrame
      BY <2>1 DEF FrameSet, FramesOf, InstFrame
    <3>3. Cardinality(frames) = Top + inst
      BY <2>1, <3>1, <3>2, FramesCount
    <3>4. ASSUME NEW k \in 1 .. Top
          PROVE  Cardinality({f \in frames : f < calls[k].frame}) = k - 1 + inst
      <4>1. \A j \in 1 .. Top : calls[j].frame \in Nat
        BY <3>1, Types DEF CallsOK, SlotsOf
      <4>2. ASSUME NEW j \in 1 .. Top
            PROVE  calls[j].frame < calls[k].frame <=> j \in 1 .. k - 1
        <5>1. j \in 1 .. k - 1 \/ j = k \/ k \in 1 .. j - 1
          BY <3>1
        <5>2. j \in 1 .. k - 1 => calls[j].frame + 1 < calls[k].frame
          BY <3>1 DEF CallsOK
        <5>3. k \in 1 .. j - 1 => calls[k].frame + 1 < calls[j].frame
          BY <3>1 DEF CallsOK
        <5>4. (j = k \/ k \in 1 .. j - 1) => ~(j \in 1 .. k - 1)
          BY <3>1
        <5>5. calls[j].frame \in Nat /\ calls[k].frame \in Nat
          BY <4>1
        <5>6. QED
          BY <5>1, <5>2, <5>3, <5>4, <5>5
      <4>3. InstFrame # {} => 0 < calls[k].frame
        <5>1. SUFFICES ASSUME host # "invoke" PROVE 0 < calls[k].frame
          BY DEF InstFrame
        <5>2. calls[1].frame = 1 /\ (k # 1 => calls[1].frame + 1 < calls[k].frame)
          <6>1. k # 1 => 1 \in 1 .. k - 1
            BY <3>1
          <6>2. QED
            BY <3>1, <5>1, <6>1 DEF CallsOK
        <5>3. QED
          BY <4>1, <5>2
      <4>4. InstFrame \subseteq {0} /\ \A j \in 1 .. k - 1 : j \in 1 .. Top
        BY <3>1 DEF InstFrame
      <4>5. {f \in frames : f < calls[k].frame} = FramesOf(k - 1) \cup InstFrame
        BY <3>2, <4>2, <4>3, <4>4 DEF FramesOf
      <4>6. k - 1 \in 0 .. Top
        BY <3>1
      <4>7. QED
        BY <2>1, <3>1, <4>5, <4>6, FramesCount
    <3>5. \A k \in 1 .. Top : /\ calls[k].frame \in frames
                              /\ st.pool[calls[k].frame].arity = calls[k].arity
      BY <3>1 DEF CallsOK
    <3>6. (IF host \in {"idle", "invoke"} THEN 0 ELSE 1) = inst
      BY <2>1 DEF Active
    <3>7. QED
      BY <3>1, <3>3, <3>4, <3>5, <3>6 DEF FramesMatchCalls
  <2>2. CASE ~Active
    <3>1. calls = <<>> /\ pc = AtHost /\ TypeOK /\ WellFormed(Settled) /\ AtHost # Return
      BY <2>2 DEF IInv, ControlOK, Active, AtHost, Return
    <3>2. Len(calls) = 0 /\ WellFormed(st)
      BY <3>1 DEF Settled
    <3>3. CASE host = "idle"
      <4>1. SlotsOf(st, "frame") = {}
        BY <2>2, <3>3 DEF IInv, ControlOK, Active, SlotsOf
      <4>2. QED
        BY <3>2, <3>3, <4>1, FS_EmptySet DEF FramesMatchCalls
    <3>4. CASE host # "idle"
      <4>1. host \in {"allocs", "inits", "done"}
        BY <2>2, <3>1, <3>4 DEF TypeOK, Hosts, Active
      <4>2. st.idx = 0
        BY <2>2, <4>1 DEF IInv, ControlOK, Active
      <4>3. EntryOK(st, 0)
        BY <3>2, <4>2 DEF WellFormed
      <4>4. SlotsOf(st, "frame") = {0}
        BY <4>2, <4>3 DEF SlotsOf, EntryOK
      <4>5. Cardinality({0}) = 1 /\ host \notin {"idle", "invoke"}
        BY <4>1, FS_Singleton
      <4>6. Cardinality(SlotsOf(st, "frame")) = 1
        BY <4>4, <4>5
      <4>7. 1 .. Len(calls) = {}
        BY <3>2
      <4>8. QED
        BY <3>2, <4>5, <4>6, <4>7 DEF FramesMatchCalls
    <3>5. QED
      BY <3>3, <3>4
  <2>3. QED
    BY <2>1, <2>2
<1>2. Spec => []I
  BY FrameSetInvariant
<1> HIDE DEF I
<1>3. QED
  BY <1>1, <1>2, PTL

-----------------------------------------------------------------------------
(* Labels.                                                                 *)

\* The hops of list_get_elem lead to the label with l labels above it.
Reaches(l) ==
    \E walk \in [0 .. l -> OwnLabels(st)] :
        /\ IsWalk(st, l, walk)
        /\ Cardinality({j \in OwnLabels(st) : j > walk[l]}) = l

LEMMA OwnFinite ==
    ASSUME TypeOK
    PROVE  /\ IsFiniteSet(OwnLabels(st)) /\ OwnLabels(st) \subseteq 0 .. st.idx
           /\ st.idx \in Int /\ 0 .. st.idx \subseteq Slots
           /\ \A T \in SUBSET OwnLabels(st) : IsFiniteSet(T)
<1>1. st.idx \in -1 .. NumSlots - 1 /\ st.idx \in Int /\ NumSlots \in Nat
  BY Types
<1>2. OwnLabels(st) \subseteq 0 .. st.idx
  BY DEF OwnLabels, SlotsOf
<1>3. IsFiniteSet(0 .. st.idx)
  BY <1>1, FS_Interval
<1>4. IsFiniteSet(OwnLabels(st))
  BY <1>2, <1>3, FS_Subset
<1>5. \A T \in SUBSET OwnLabels(st) : IsFiniteSet(T)
  BY <1>4, FS_Subset
<1>6. QED
  BY <1>1, <1>2, <1>4, <1>5 DEF Slots

\* The top label is the tail of the list.
LEMMA FirstLabel ==
    ASSUME TypeOK, WellFormed(st), 0 < Cardinality(OwnLabels(st))
    PROVE  Reaches(0)
<1> DEFINE Own == OwnLabels(st)
           walk == [k \in 0 .. 0 |-> st.labels]
<1>1. st.idx \in Int /\ Own \subseteq 0 .. st.idx /\ IsFiniteSet(Own)
  BY OwnFinite
<1>2. PICK j \in Own : TRUE
  <2>1. Own # {}
    BY FS_EmptySet
  <2>2. QED
    BY <2>1
<1>3. j \in SlotsOf(st, "label")
  BY DEF OwnLabels
<1>4. IsTop(st, "label", st.labels)
  BY <1>3 DEF WellFormed, Linked
<1>5. st.labels \in 0 .. st.idx /\ \A i \in Own : i <= st.labels
  BY <1>1, <1>4 DEF IsTop, SlotsOf, OwnLabels
<1>6. st.labels \in Own
  <2>1. \A f \in SlotsOf(st, "frame") : f < j /\ f \in Int
    BY <1>1 DEF OwnLabels, SlotsOf
  <2>2. QED
    BY <1>1, <1>4, <1>5, <2>1 DEF OwnLabels, IsTop
<1>7. {i \in Own : i > st.labels} = {}
  BY <1>1, <1>5
<1>8. walk \in [0 .. 0 -> Own] /\ walk[0] = st.labels /\ \A k \in 1 .. 0 : FALSE
  BY <1>6
<1> HIDE DEF walk
<1>9. IsWalk(st, 0, walk)
  BY <1>8 DEF IsWalk
<1>10. Cardinality({i \in Own : i > walk[0]}) = 0
  BY <1>7, <1>8, FS_EmptySet
<1>11. QED
  BY <1>8, <1>9, <1>10 DEF Reaches

\* From there one hop leads to the next label below, if there is one.
LEMMA NextLabel ==
    ASSUME TypeOK, WellFormed(st), NEW l \in Nat, Reaches(l),
           l + 1 < Cardinality(OwnLabels(st))
    PROVE  Reaches(l + 1)
<1> DEFINE Own == OwnLabels(st)
<1>1. /\ st.idx \in Int /\ Own \subseteq 0 .. st.idx /\ IsFiniteSet(Own)
      /\ 0 .. st.idx \subseteq Slots
      /\ \A T \in SUBSET Own : IsFiniteSet(T)
  BY OwnFinite
<1>2. PICK walk \in [0 .. l -> Own] :
         IsWalk(st, l, walk) /\ Cardinality({j \in Own : j > walk[l]}) = l
  BY DEF Reaches
<1> DEFINE w == walk[l]
           prev == st.pool[w].prev
           above == {j \in Own : j > w}
           next == [k \in 0 .. l + 1 |-> IF k <= l THEN walk[k] ELSE prev]
<1>3. w \in Own /\ w \in Int /\ w \in SlotsOf(st, "label") /\ w \in Slots /\ st.pool[w].type = "label"
  <2>1. w \in Own
    OBVIOUS
  <2>2. QED
    BY <1>1, <2>1 DEF OwnLabels, SlotsOf
<1>4. IsFiniteSet(above \cup {w}) /\ Cardinality(above \cup {w}) = l + 1
  <2>1. w \notin above /\ IsFiniteSet(above)
    BY <1>1, <1>3
  <2>2. QED
    BY <1>2, <2>1, FS_AddElement
<1>5. PICK j \in Own : j < w
  <2>1. Own # above \cup {w}
    <3>1. l + 1 < Cardinality(Own) /\ ~(l + 1 < l + 1)
      OBVIOUS
    <3>2. QED
      BY <1>4, <3>1, Zenon
  <2>2. PICK j \in Own : j \notin above \cup {w}
    BY <1>3, <2>1
  <2>3. QED
    BY <1>1, <1>3, <2>2
<1>6. j \in SlotsOf(st, "label") /\ j \in 0 .. w - 1 /\ st.pool[j].type = "label"
  BY <1>1, <1>3, <1>5 DEF OwnLabels, SlotsOf
<1>7. IsBelow(st, "label", w, prev)
  <2>1. IsBelow(st, "label", w, prev) \/ \A i \in 0 .. w - 1 : st.pool[i].type # "label"
    BY <1>3 DEF WellFormed, Linked
  <2>2. QED
    BY <1>6, <2>1
<1> HIDE DEF w, prev
<1>8. /\ prev \in 0 .. w - 1 /\ prev \in 0 .. st.idx /\ prev < w
      /\ st.pool[prev].type = "label"
      /\ \A i \in prev + 1 .. w - 1 : st.pool[i].type # "label"
  <2>1. w <= st.idx
    BY <1>1, <1>3
  <2>2. QED
    BY <1>1, <1>3, <1>7, <2>1 DEF IsBelow
<1>9. \A i \in Own : i < w => i <= prev
  BY <1>1, <1>3, <1>8 DEF OwnLabels, SlotsOf
<1>10. prev \in Own
  <2>1. j <= prev
    BY <1>5, <1>9
  <2>2. \A f \in SlotsOf(st, "frame") : f < j /\ f \in Int
    BY <1>1 DEF OwnLabels, SlotsOf
  <2>3. QED
    BY <1>1, <1>5, <1>8, <2>1, <2>2 DEF OwnLabels, SlotsOf
<1>11. {i \in Own : i > prev} = above \cup {w}
  BY <1>1, <1>3, <1>8, <1>9, SMTT(40)
<1> HIDE DEF above
<1>12. /\ next \in [0 .. l + 1 -> Own] /\ next[l + 1] = prev
       /\ \A k \in 0 .. l : next[k] = walk[k]
  BY <1>10
<1>13. PrevOf(st.pool, w) = prev
  BY <1>3 DEF PrevOf, prev
<1> HIDE DEF next
<1>14. ASSUME NEW k \in 1 .. l + 1
       PROVE  next[k] = PrevOf(st.pool, next[k - 1]) /\ next[k] < next[k - 1]
  <2>1. CASE k \in 1 .. l
    <3>1. k \in 0 .. l /\ k - 1 \in 0 .. l
      BY <2>1
    <3>2. walk[k] = PrevOf(st.pool, walk[k - 1]) /\ walk[k] < walk[k - 1]
      BY <1>2, <2>1 DEF IsWalk
    <3>3. QED
      BY <1>12, <3>1, <3>2
  <2>2. CASE k = l + 1
    <3>1. k - 1 = l /\ l \in 0 .. l
      BY <2>2
    <3>2. next[k - 1] = w /\ next[k] = prev
      BY <1>12, <2>2, <3>1 DEF w
    <3>3. QED
      BY <1>8, <1>13, <3>2
  <2>3. QED
    BY <2>1, <2>2
<1>15. next[0] = st.labels
  BY <1>2, <1>12 DEF IsWalk
<1>16. IsWalk(st, l + 1, next)
  BY <1>12, <1>14, <1>15 DEF IsWalk
<1>17. Cardinality({i \in Own : i > next[l + 1]}) = l + 1
  BY <1>4, <1>11, <1>12
<1>18. QED
  BY <1>12, <1>16, <1>17 DEF Reaches

\* Every label index that validation admits is found by its hops, whatever
\* calls, branches and abandoned computations made the list what it is.
THEOREM LabelsReached == Spec => []BranchFindsLabel
<1>1. IInv => BranchFindsLabel
  <2> SUFFICES ASSUME IInv, AtInstr PROVE BranchFindsLabel
    BY DEF BranchFindsLabel
  <2>1. TypeOK /\ WellFormed(st)
    BY AtRun DEF Body
  <2> DEFINE n == Cardinality(OwnLabels(st))
             T == {l \in Nat : l < n => Reaches(l)}
  <2>2. n \in Nat
    BY <2>1, OwnFinite, FS_CardinalityType
  <2> HIDE DEF n
  <2>3. 0 \in T
    BY <2>1, FirstLabel DEF n
  <2>4. ASSUME NEW l \in Nat, l \in T
        PROVE  l + 1 \in T
    <3>1. CASE l + 1 < n
      <4>1. Reaches(l)
        BY <2>2, <2>4, <3>1
      <4>2. Reaches(l + 1)
        BY <2>1, <3>1, <4>1, NextLabel DEF n
      <4>3. QED
        BY <4>2
    <3>2. CASE ~(l + 1 < n)
      BY <3>2
    <3>3. QED
      BY <3>1, <3>2
  <2> HIDE DEF T
  <2>5. Nat \subseteq T
    BY <2>3, <2>4, Induct
  <2>6. ASSUME NEW l \in 0 .. n - 1
        PROVE  Reaches(l)
    <3>1. l \in Nat /\ l < n
      BY <2>2
    <3>2. QED
      BY <2>5, <3>1 DEF T
  <2>7. QED
    BY <2>6 DEF BranchFindsLabel, Reaches, n
<1>2. QED
  BY <1>1, Invariant, PTL

-----------------------------------------------------------------------------
(* Sequences of entries.                                                   *)

\* What the slots from a up to b, b excluded, hold.
Seg(S, a, b) == [i \in 1 .. b - a |-> Entry(S.pool[a + i - 1])]

\* A set that holds them.
EntsOf(S) == {Entry(S.pool[i]) : i \in Int}

\* The entries of a segment.
LEMMA SegType ==
    ASSUME NEW S, NEW a \in Int, NEW b \in Int, a <= b
    PROVE  /\ Seg(S, a, b) \in Seq(EntsOf(S))
           /\ Len(Seg(S, a, b)) = b - a
           /\ \A i \in 1 .. b - a : Seg(S, a, b)[i] = Entry(S.pool[a + i - 1])
<1> DEFINE E == EntsOf(S)
<1>1. b - a \in Nat
  OBVIOUS
<1>2. \A i \in 1 .. b - a : Entry(S.pool[a + i - 1]) \in E
  BY DEF EntsOf
<1> HIDE DEF E
<1>3. Seg(S, a, b) \in [1 .. b - a -> E]
  BY <1>2 DEF Seg
<1>4. Seg(S, a, b) \in Seq(E)
  BY <1>1, <1>3
<1>5. Len(Seg(S, a, b)) = b - a
  BY <1>1, <1>3, <1>4, LenProperties
<1>6. QED
  BY <1>4, <1>5 DEF Seg, E

\* Adjacent segments make one.
LEMMA SegJoin ==
    ASSUME NEW S, NEW a \in Int, NEW b \in Int, NEW c \in Int, a <= b, b <= c
    PROVE  Seg(S, a, b) \o Seg(S, b, c) = Seg(S, a, c)
<1> DEFINE E == EntsOf(S)
           s == Seg(S, a, b)
           t == Seg(S, b, c)
           u == Seg(S, a, c)
<1>1. /\ s \in Seq(E) /\ Len(s) = b - a /\ \A i \in 1 .. b - a : s[i] = Entry(S.pool[a + i - 1])
      /\ t \in Seq(E) /\ Len(t) = c - b /\ \A i \in 1 .. c - b : t[i] = Entry(S.pool[b + i - 1])
      /\ u \in Seq(E) /\ Len(u) = c - a /\ \A i \in 1 .. c - a : u[i] = Entry(S.pool[a + i - 1])
  <2>1. a <= c
    OBVIOUS
  <2>2. s \in Seq(E) /\ Len(s) = b - a /\ \A i \in 1 .. b - a : s[i] = Entry(S.pool[a + i - 1])
    BY SegType, ZenonT(40)
  <2>3. t \in Seq(E) /\ Len(t) = c - b /\ \A i \in 1 .. c - b : t[i] = Entry(S.pool[b + i - 1])
    BY SegType, ZenonT(40)
  <2>4. u \in Seq(E) /\ Len(u) = c - a /\ \A i \in 1 .. c - a : u[i] = Entry(S.pool[a + i - 1])
    BY <2>1, SegType
  <2>5. QED
    BY <2>2, <2>3, <2>4
<1> HIDE DEF E, s, t, u
<1>2. /\ s \o t \in Seq(E) /\ Len(s \o t) = c - a
      /\ \A i \in 1 .. c - a : (s \o t)[i] = IF i <= b - a THEN s[i] ELSE t[i - (b - a)]
  <2>1. /\ s \o t \in Seq(E) /\ Len(s \o t) = Len(s) + Len(t)
        /\ \A i \in 1 .. Len(s) + Len(t) :
              (s \o t)[i] = IF i <= Len(s) THEN s[i] ELSE t[i - Len(s)]
    BY <1>1, ConcatProperties
  <2>2. Len(s) = b - a /\ Len(t) = c - b /\ Len(s) + Len(t) = c - a
    BY <1>1
  <2>3. QED
    BY <2>1, <2>2
<1>3. ASSUME NEW i \in 1 .. c - a
      PROVE  (s \o t)[i] = u[i]
  <2>1. CASE i <= b - a
    BY <1>1, <1>2, <2>1
  <2>2. CASE ~(i <= b - a)
    <3>1. i - (b - a) \in 1 .. c - b /\ b + (i - (b - a)) - 1 = a + i - 1
      BY <2>2
    <3>2. QED
      BY <1>1, <1>2, <2>2, <3>1
  <2>3. QED
    BY <2>1, <2>2
<1>4. s \o t = u
  BY <1>1, <1>2, <1>3, SeqEqual
<1>5. QED
  BY <1>4 DEF s, t, u

\* A part of the lowest entries.
LEMMA SegPart ==
    ASSUME NEW S, NEW b \in Int, NEW m \in Int, NEW n \in Int, 1 <= m, m <= n + 1, n <= b
    PROVE  SubSeq(Seg(S, 0, b), m, n) = Seg(S, m - 1, n)
<1> DEFINE E == EntsOf(S)
           c == m - 1
           s == Seg(S, 0, b)
           u == Seg(S, c, n)
           w == SubSeq(s, m, n)
<1>1. /\ 0 <= b /\ c \in Int /\ c <= n /\ n - c = n - m + 1 /\ b - 0 = b
      /\ \A i \in 1 .. n - m + 1 : m + i - 1 \in 1 .. b /\ 0 + (m + i - 1) - 1 = c + i - 1
  OBVIOUS
<1> HIDE DEF E, c
<1>2. s \in Seq(E) /\ Len(s) = b /\ \A i \in 1 .. b : s[i] = Entry(S.pool[0 + i - 1])
  <2>1. s \in Seq(E) /\ Len(s) = b - 0 /\ \A i \in 1 .. b - 0 : s[i] = Entry(S.pool[0 + i - 1])
    BY <1>1, SegType DEF E
  <2>2. QED
    BY <1>1, <2>1
<1>3. u \in Seq(E) /\ Len(u) = n - c /\ \A i \in 1 .. n - c : u[i] = Entry(S.pool[c + i - 1])
  BY <1>1, SegType DEF E
<1> HIDE DEF s, u
<1>4. \A i \in m .. n : s[i] \in E
  <2>1. \A i \in m .. n : i \in 1 .. Len(s)
    BY <1>2
  <2>2. QED
    BY <1>2, <2>1, ElementOfSeq
<1>5. /\ w \in Seq(E) /\ Len(w) = n - m + 1
      /\ \A i \in 1 .. n - m + 1 : w[i] = s[m + i - 1]
  <2>1. /\ w \in Seq(E) /\ Len(w) = (IF m <= n THEN n - m + 1 ELSE 0)
        /\ \A i \in 1 .. n - m + 1 : w[i] = s[m + i - 1]
    BY <1>4, SubSeqProperties
  <2>2. QED
    BY <2>1
<1> HIDE DEF w
<1>6. ASSUME NEW i \in 1 .. n - m + 1
      PROVE  w[i] = u[i]
  BY <1>1, <1>2, <1>3, <1>5, ZenonT(40)
<1>7. w = u
  BY <1>1, <1>3, <1>5, <1>6, SeqEqual
<1>8. QED
  BY <1>7 DEF w, u, s, c

\* A prefix of the stack is a segment.
LEMMA SegPrefix ==
    ASSUME NEW S, NEW b \in Int, NEW n \in Int, 0 <= n, n <= b
    PROVE  SubSeq(Seg(S, 0, b), 1, n) = Seg(S, 0, n)
<1> DEFINE m == 1
<1>1. m \in Int /\ 1 <= m /\ m <= n + 1 /\ m - 1 = 0
  OBVIOUS
<1> HIDE DEF m
<1>2. SubSeq(Seg(S, 0, b), m, n) = Seg(S, m - 1, n)
  BY <1>1, SegPart
<1>3. QED
  BY <1>1, <1>2 DEF m

\* A segment depends on its own slots only.
LEMMA SegSame ==
    ASSUME NEW S, NEW T, NEW a \in Int, NEW b \in Int,
           \A i \in a .. b - 1 : T.pool[i] = S.pool[i]
    PROVE  Seg(T, a, b) = Seg(S, a, b)
<1>1. \A i \in 1 .. b - a : a + i - 1 \in a .. b - 1
  OBVIOUS
<1>2. QED
  BY <1>1 DEF Seg

\* A segment of no slot.
LEMMA SegEmpty ==
    ASSUME NEW S, NEW a \in Int
    PROVE  Seg(S, a, a) = <<>>
  BY DEF Seg

\* A segment of one slot.
LEMMA SegOne ==
    ASSUME NEW S, NEW a \in Int
    PROVE  Seg(S, a, a + 1) = << Entry(S.pool[a]) >>
<1>1. 1 .. (a + 1) - a = 1 .. 1
  OBVIOUS
<1>2. Seg(S, a, a + 1) = [i \in 1 .. 1 |-> Entry(S.pool[a + i - 1])]
  BY <1>1 DEF Seg
<1>3. QED
  BY <1>2

\* The entries that a push of values makes.
LEMMA SegPushed ==
    ASSUME NEW S \in Stack, NEW vals \in Seq(Val), ~Overflows(S, Len(vals))
    PROVE  Seg(PushVals(S, vals), S.idx + 1, S.idx + Len(vals) + 1) = Repushed(vals)
<1> DEFINE n == Len(vals)
           p == S.idx
           R == PushVals(S, vals)
<1>1. p \in Int /\ p >= -1 /\ n \in Nat /\ p + n < NumSlots /\ NumSlots \in Int
  BY StackFields, NumSlotsAssumption DEF Overflows
<1>2. \A i \in Slots : R.pool[i] = IF p < i /\ i <= p + n
                                   THEN [type |-> "val", val |-> vals[n + 1 - (i - p)]]
                                   ELSE S.pool[i]
  BY <1>1 DEF PushVals, Stk
<1> HIDE DEF n, p, R
<1>3. ASSUME NEW i \in 1 .. n
      PROVE  Entry(R.pool[(p + 1) + i - 1]) = [type |-> "val", val |-> vals[n + 1 - i]]
  <2>1. (p + 1) + i - 1 \in Slots /\ p < (p + 1) + i - 1 /\ (p + 1) + i - 1 <= p + n
        /\ ((p + 1) + i - 1) - p = i
    BY <1>1 DEF Slots
  <2>2. R.pool[(p + 1) + i - 1] = [type |-> "val", val |-> vals[n + 1 - i]]
    BY <1>2, <2>1
  <2>3. QED
    BY <2>2 DEF Entry
<1>4. (p + n + 1) - (p + 1) = n
  BY <1>1
<1>5. Seg(R, p + 1, p + n + 1) = [i \in 1 .. n |-> [type |-> "val", val |-> vals[n + 1 - i]]]
  BY <1>3, <1>4 DEF Seg
<1>6. QED
  BY <1>5 DEF Repushed, n, p, R

\* Popped values are the entries they came from.
LEMMA SegPopped ==
    ASSUME NEW S \in Stack, NEW n \in Nat, HasVals(S, n)
    PROVE  Repushed(TopVals(S, n)) = Seg(S, S.idx + 1 - n, S.idx + 1)
<1> DEFINE p == S.idx
           vals == TopVals(S, n)
<1>1. p \in Int /\ n <= p + 1
  BY StackFields, NumSlotsAssumption DEF HasVals
<1>2. Len(vals) = n /\ \A k \in 1 .. n : vals[k] = ValAt(S, p + 1 - k)
  BY DEF TopVals
<1>3. \A i \in p + 1 - n .. p : S.pool[i].type = "val"
  BY DEF HasVals
<1> HIDE DEF p, vals
<1>4. ASSUME NEW i \in 1 .. n
      PROVE  [type |-> "val", val |-> vals[n + 1 - i]] = Entry(S.pool[(p + 1 - n) + i - 1])
  <2>1. n + 1 - i \in 1 .. n /\ p + 1 - (n + 1 - i) = (p + 1 - n) + i - 1
        /\ (p + 1 - n) + i - 1 \in p + 1 - n .. p
    BY <1>1
  <2>2. S.pool[(p + 1 - n) + i - 1].type = "val"
    BY <1>3, <2>1
  <2>3. vals[n + 1 - i] = S.pool[(p + 1 - n) + i - 1].val
    BY <1>2, <2>1, <2>2 DEF ValAt
  <2>4. QED
    BY <2>2, <2>3 DEF Entry
<1>5. (p + 1) - (p + 1 - n) = n
  BY <1>1
<1>6. QED
  BY <1>2, <1>4, <1>5 DEF Repushed, Seg, p, vals

\* What an entry is, by its type.
LEMMA EntryIs ==
    ASSUME NEW obj
    PROVE  /\ obj.type = "val" => Entry(obj) = A!V(obj.val)
           /\ obj.type = "label" => Entry(obj) = A!L(obj.arity, obj.parent)
           /\ obj.type = "frame" => Entry(obj) = A!F(obj.arity)
  BY DEF Entry, A!V, A!L, A!F

\* The abstract types and fields of an entry.
LEMMA EntryFields ==
    ASSUME NEW obj, obj.type \in {"val", "label", "frame"}
    PROVE  /\ Entry(obj).type = obj.type
           /\ obj.type = "label" => Entry(obj).arity = obj.arity /\ Entry(obj).parent = obj.parent
           /\ obj.type = "frame" => Entry(obj).arity = obj.arity
  BY DEF Entry

-----------------------------------------------------------------------------
(* The walk of list_get_elem counts labels.                                *)

\* The labels of an activation are finitely many live slots.
LEMMA OwnIs ==
    ASSUME NEW S \in Stack
    PROVE  /\ IsFiniteSet(OwnLabels(S)) /\ OwnLabels(S) \subseteq 0 .. S.idx
           /\ S.idx \in Int /\ 0 .. S.idx \subseteq Slots
           /\ \A T \in SUBSET OwnLabels(S) : IsFiniteSet(T)
<1>1. S.idx \in -1 .. NumSlots - 1 /\ S.idx \in Int /\ NumSlots \in Nat
  BY StackFields, NumSlotsAssumption
<1>2. OwnLabels(S) \subseteq 0 .. S.idx
  BY DEF OwnLabels, SlotsOf
<1>3. IsFiniteSet(0 .. S.idx)
  BY <1>1, FS_Interval
<1>4. IsFiniteSet(OwnLabels(S))
  BY <1>2, <1>3, FS_Subset
<1>5. \A T \in SUBSET OwnLabels(S) : IsFiniteSet(T)
  BY <1>4, FS_Subset
<1>6. QED
  BY <1>1, <1>2, <1>4, <1>5 DEF Slots

\* A walk starts at the highest label.
LEMMA WalkStart ==
    ASSUME NEW S \in Stack, WellFormed(S), NEW l \in Nat, NEW walk, IsWalk(S, l, walk)
    PROVE  Cardinality({j \in OwnLabels(S) : j > walk[0]}) = 0
<1>1. S.idx \in Int /\ OwnLabels(S) \subseteq 0 .. S.idx
  BY OwnIs
<1>2. walk[0] = S.labels /\ walk[0] \in OwnLabels(S)
  BY DEF IsWalk
<1>3. walk[0] \in SlotsOf(S, "label")
  BY <1>2 DEF OwnLabels
<1>4. IsTop(S, "label", walk[0])
  BY <1>2, <1>3 DEF WellFormed, Linked
<1>5. \A j \in OwnLabels(S) : ~(j > walk[0])
  BY <1>1, <1>2, <1>4 DEF IsTop, SlotsOf, OwnLabels
<1>6. {j \in OwnLabels(S) : j > walk[0]} = {}
  BY <1>5
<1>7. QED
  BY <1>6, FS_EmptySet

\* Every hop passes one label.
LEMMA WalkHop ==
    ASSUME NEW S \in Stack, WellFormed(S), NEW v \in OwnLabels(S), NEW w \in OwnLabels(S),
           w = PrevOf(S.pool, v), w < v
    PROVE  Cardinality({j \in OwnLabels(S) : j > w})
              = Cardinality({j \in OwnLabels(S) : j > v}) + 1
<1> DEFINE Own == OwnLabels(S)
           above == {j \in Own : j > v}
<1>1. S.idx \in Int /\ Own \subseteq 0 .. S.idx /\ 0 .. S.idx \subseteq Slots /\ IsFiniteSet(above)
  BY OwnIs
<1>2. /\ v \in SlotsOf(S, "label") /\ S.pool[v].type = "label" /\ v \in Slots /\ v \in Int
      /\ w \in SlotsOf(S, "label") /\ S.pool[w].type = "label" /\ w \in Int /\ w >= 0
  BY <1>1 DEF OwnLabels, SlotsOf
<1>3. w = S.pool[v].prev
  BY <1>2 DEF PrevOf
<1>4. w \in 0 .. v - 1
  BY <1>2
<1>5. IsBelow(S, "label", v, w)
  <2>1. IsBelow(S, "label", v, S.pool[v].prev) \/ \A j \in 0 .. v - 1 : S.pool[j].type # "label"
    BY <1>2 DEF WellFormed, Linked
  <2>2. QED
    BY <1>2, <1>3, <1>4, <2>1
<1>6. \A j \in w + 1 .. v - 1 : S.pool[j].type # "label"
  BY <1>5 DEF IsBelow
<1>7. \A j \in Own : j \in Int /\ S.pool[j].type = "label"
  BY <1>1 DEF OwnLabels, SlotsOf
<1> HIDE DEF Own
<1>8. ASSUME NEW j \in Own
      PROVE  j > w <=> (j > v \/ j = v)
  <2>1. j \in Int /\ ~(j \in w + 1 .. v - 1)
    BY <1>6, <1>7
  <2>2. QED
    BY <1>2, <2>1
<1>9. {j \in Own : j > w} = above \cup {v} /\ v \notin above
  <2>1. v \in Own
    BY DEF Own
  <2>2. QED
    BY <1>2, <1>8, <2>1
<1> HIDE DEF above
<1>10. Cardinality(above \cup {v}) = Cardinality(above) + 1
  BY <1>1, <1>9, FS_AddElement
<1>11. QED
  BY <1>9, <1>10 DEF above, Own

\* The k-th hop is at a label with k labels of the activation above it.
LEMMA WalkCount ==
    ASSUME NEW S \in Stack, WellFormed(S), NEW l \in Nat, NEW walk, IsWalk(S, l, walk)
    PROVE  \A k \in 0 .. l : Cardinality({j \in OwnLabels(S) : j > walk[k]}) = k
<1> DEFINE C(k) == Cardinality({j \in OwnLabels(S) : j > walk[k]})
           T == {k \in Nat : k <= l => C(k) = k}
<1>1. C(0) = 0
  BY WalkStart
<1>2. ASSUME NEW k \in Nat, k + 1 <= l
      PROVE  C(k + 1) = C(k) + 1
  <2>1. k + 1 \in 1 .. l /\ k + 1 \in 0 .. l /\ k \in 0 .. l /\ (k + 1) - 1 = k
    BY <1>2
  <2>2. /\ walk[k + 1] = PrevOf(S.pool, walk[k]) /\ walk[k + 1] < walk[k]
        /\ walk[k + 1] \in OwnLabels(S) /\ walk[k] \in OwnLabels(S)
    BY <2>1 DEF IsWalk
  <2>3. QED
    BY <2>2, WalkHop
<1> HIDE DEF C
<1>3. 0 \in T
  BY <1>1
<1>4. ASSUME NEW k \in Nat, k \in T
      PROVE  k + 1 \in T
  BY <1>2, <1>4
<1> HIDE DEF T
<1>5. Nat \subseteq T
  BY <1>3, <1>4, Induct
<1>6. \A k \in 0 .. l : C(k) = k
  BY <1>5 DEF T
<1>7. QED
  BY <1>6 DEF C

\* Two labels do not have the same number of labels above them.
LEMMA CountDiffers ==
    ASSUME NEW S \in Stack, NEW v \in OwnLabels(S), NEW w \in OwnLabels(S), w < v
    PROVE  Cardinality({j \in OwnLabels(S) : j > w}) # Cardinality({j \in OwnLabels(S) : j > v})
<1> DEFINE Own == OwnLabels(S)
           above == {j \in Own : j > v}
           more == {j \in Own : j > w}
<1>1. Own \subseteq Int /\ IsFiniteSet(more)
  BY OwnIs
<1>2. above \subseteq more /\ v \in more /\ v \notin above
  BY <1>1
<1> HIDE DEF above, more
<1>3. Cardinality(more) # Cardinality(above)
  BY <1>1, <1>2, FS_Subset
<1>4. QED
  BY <1>3 DEF above, more

\* The l-th hop leads to the one label with l labels above it.
LEMMA WalkTarget ==
    ASSUME NEW S \in Stack, WellFormed(S), NEW l \in Nat, NEW walk, IsWalk(S, l, walk)
    PROVE  \A t : /\ t \in OwnLabels(S)
                  /\ Cardinality({j \in OwnLabels(S) : j > t}) = l
                  <=> t = walk[l]
<1>1. walk[l] \in OwnLabels(S)
  BY DEF IsWalk
<1>2. Cardinality({j \in OwnLabels(S) : j > walk[l]}) = l
  BY WalkCount
<1>3. ASSUME NEW t \in OwnLabels(S), t # walk[l]
      PROVE  Cardinality({j \in OwnLabels(S) : j > t}) # l
  <2>1. t < walk[l] \/ walk[l] < t
    BY <1>1, <1>3, OwnIs
  <2>2. CASE t < walk[l]
    BY <1>1, <1>2, <2>2, CountDiffers
  <2>3. CASE walk[l] < t
    BY <1>1, <1>2, <2>3, CountDiffers
  <2>4. QED
    BY <2>1, <2>2, <2>3
<1>4. QED
  BY <1>1, <1>2, <1>3

-----------------------------------------------------------------------------
(* The abstract stack in each state of the interpreter.                    *)

Mode == IF host = "invoke" THEN "invoke" ELSE "inst"

ReturnedAs(S, out, f, results) == IF out THEN <<>> ELSE Seg(S, 0, f) \o results

BranchedAs(S, n, b, vals) ==
    Seg(S, 0, n) \o (IF b.op = "loop" THEN << LabelEntry(b) >> ELSE <<>>) \o vals

\* The branch under way is to the label with block p and keeps n entries below it.
Goes(n, p) ==
    IF pc.left = 0
    THEN n = st.idx + 1 /\ p = pc.parent
    ELSE \E walk \in [0 .. pc.left - 1 -> OwnLabels(st)] :
            /\ IsWalk(st, pc.left - 1, walk)
            /\ n = walk[pc.left - 1]
            /\ p = st.pool[n].parent

\* The two modules count with the same operator.
LEMMA CountsAlike == \A T : A!Cardinality(T) = Cardinality(T)
  BY DEF A!Cardinality, Cardinality

\* The refinement mapping in terms of segments.
LEMMA BelowIs == \A n \in Int : Below(n) = Seg(st, 0, n)
  BY DEF Below, Seg

\* At work on an instruction.
LEMMA ActiveMode ==
    ASSUME Active
    PROVE  /\ host # "trapped"
           /\ host \notin {"allocs", "inits", "done"}
           /\ AbsMode = IF Outermost /\ Returning THEN "idle" ELSE Mode
           /\ Mode \in {"invoke", "inst"}
<1>1. CASE host = "invoke"
  BY <1>1 DEF AbsMode, Mode
<1>2. CASE host = "start"
  BY <1>2 DEF AbsMode, Mode, Outermost
<1>3. QED
  BY <1>1, <1>2 DEF Active

\* The abstract stack while instructions are executed, ...
LEMMA AbsRun ==
    IInv /\ pc = Run => /\ AbsStack = Seg(st, 0, st.idx + 1) /\ AbsMode = Mode
<1> SUFFICES ASSUME IInv, pc = Run PROVE AbsStack = Seg(st, 0, st.idx + 1) /\ AbsMode = Mode
  OBVIOUS
<1>1. Active /\ st.idx \in Int /\ pc.at = "run"
  BY AtRun, Types DEF AtInstr, Run
<1>2. ~Returning /\ ~ToFunctionLabel
  BY <1>1 DEF Returning, ToFunctionLabel
<1>3. AbsStack = Live
  BY <1>1, <1>2, ActiveMode DEF AbsStack
<1>4. QED
  BY <1>1, <1>2, <1>3, ActiveMode, BelowIs DEF Live

\* ... when a return is due, ...
LEMMA AbsReturn ==
    IInv /\ pc = Return =>
        /\ AbsStack = ReturnedAs(st, Outermost, Current.frame,
                                 Seg(st, st.idx + 1 - Current.arity, st.idx + 1))
        /\ AbsMode = IF Outermost THEN "idle" ELSE Mode
<1> SUFFICES ASSUME IInv, pc = Return
    PROVE /\ AbsStack = ReturnedAs(st, Outermost, Current.frame,
                                   Seg(st, st.idx + 1 - Current.arity, st.idx + 1))
          /\ AbsMode = IF Outermost THEN "idle" ELSE Mode
  OBVIOUS
<1> DEFINE n == Current.arity
           p == st.idx
<1>1. /\ Active /\ p \in Int /\ p >= -1 /\ pc.at = "return" /\ n \in Nat /\ n <= p + 1
      /\ Current.frame \in Int
  <2>1. /\ Active /\ st \in Stack /\ n \in Nat /\ HasVals(st, n) /\ CallsOK
    BY AtReturn
  <2>2. p \in Int /\ p >= -1
    BY <2>1, StackFields, NumSlotsAssumption
  <2>3. QED
    BY <2>1, <2>2 DEF HasVals, Return, CallsOK, IsTop, SlotsOf
<1>2. Returning /\ host # "trapped" /\ ~ToFunctionLabel
  BY <1>1, ActiveMode DEF Returning, ToFunctionLabel
<1>3. AbsStack = Returned(SubSeq(Live, p + 2 - n, p + 1))
  BY <1>1, <1>2 DEF AbsStack
<1>4. Live = Seg(st, 0, p + 1)
  BY <1>1, BelowIs DEF Live
<1> HIDE DEF n, p
<1>5. SubSeq(Live, p + 2 - n, p + 1) = Seg(st, p + 1 - n, p + 1)
  <2> DEFINE m == p + 2 - n
             d == p + 1
  <2>1. m \in Int /\ d \in Int /\ 1 <= m /\ m <= d + 1 /\ d <= d /\ m - 1 = p + 1 - n
    BY <1>1
  <2> HIDE DEF d, m
  <2>2. SubSeq(Seg(st, 0, d), m, d) = Seg(st, m - 1, d)
    BY <2>1, SegPart
  <2>3. QED
    BY <1>4, <2>1, <2>2 DEF d, m
<1>6. Below(Current.frame) = Seg(st, 0, Current.frame)
  BY <1>1, BelowIs
<1>7. QED
  BY <1>1, <1>2, <1>3, <1>5, <1>6, ActiveMode DEF Returned, ReturnedAs, n, p

\* ... while pop_while_not_frame runs, ...
LEMMA AbsDiscard ==
    IInv /\ pc.at = "discard" =>
        /\ AbsStack = ReturnedAs(st, Outermost, Current.frame, Repushed(pc.vals))
        /\ AbsMode = IF Outermost THEN "idle" ELSE Mode
<1> SUFFICES ASSUME IInv, pc.at = "discard"
    PROVE /\ AbsStack = ReturnedAs(st, Outermost, Current.frame, Repushed(pc.vals))
          /\ AbsMode = IF Outermost THEN "idle" ELSE Mode
  OBVIOUS
<1>1. Active /\ Current.frame \in Int
  BY AtDiscard
<1>2. Returning /\ host # "trapped" /\ ~ToFunctionLabel
  BY <1>1, ActiveMode DEF Returning, ToFunctionLabel
<1>3. AbsStack = Returned(Repushed(pc.vals))
  BY <1>1, <1>2 DEF AbsStack
<1>4. Below(Current.frame) = Seg(st, 0, Current.frame)
  BY <1>1, BelowIs, SMTT(40)
<1>5. QED
  BY <1>1, <1>2, <1>3, <1>4, ActiveMode DEF Returned, ReturnedAs

\* A branch to a loop is about to execute the loop instruction again.
LoopingIs ==
    IInv /\ pc.at = "loop" =>
        LET n == pc.blk.rt1
        IN  /\ AbsStack = Seg(st, 0, st.idx + 1 - n) \o << LabelEntry(pc.blk) >>
                          \o Seg(st, st.idx + 1 - n, st.idx + 1)
            /\ AbsMode = Mode
            /\ pc.blk \in Blocks /\ pc.blk.op = "loop"
            /\ n \in Nat /\ HasVals(st, n) /\ Body(st, Current.frame)

\* A loop re-entered is a label that the branch has kept.
LEMMA AbsLoop == LoopingIs
<1> SUFFICES ASSUME IInv, pc.at = "loop"
    PROVE  LET n == pc.blk.rt1
           IN  /\ AbsStack = Seg(st, 0, st.idx + 1 - n) \o << LabelEntry(pc.blk) >>
                             \o Seg(st, st.idx + 1 - n, st.idx + 1)
               /\ AbsMode = Mode
               /\ pc.blk \in Blocks /\ pc.blk.op = "loop"
               /\ n \in Nat /\ HasVals(st, n) /\ Body(st, Current.frame)
  BY DEF LoopingIs
<1> DEFINE n == pc.blk.rt1
           p == st.idx
<1>1. /\ Active /\ CallsOK /\ TypeOK /\ PcOK
      /\ st \in Stack /\ WellFormed(st)
  BY PcCases
<1>2. pc.blk \in Blocks
  BY <1>1 DEF TypeOK, PCs, AtHost, Run, Return
<1>3. n \in Nat
  BY <1>2, BlocksAssumption, MaxArityAssumption DEF Instr, Arities
<1>4. pc # Run /\ pc # Return
  BY DEF Run, Return
<1>5. pc.blk.op = "loop" /\ HasVals(st, n) /\ st.idx > Current.frame
  BY <1>1, <1>4 DEF PcOK
<1>6. Body(st, Current.frame)
  <2>1. IsTop(st, "frame", Current.frame)
    BY <1>1 DEF CallsOK
  <2>2. Current.frame < st.idx
    BY <1>5, <2>1, <1>1, StackFields, NumSlotsAssumption DEF IsTop, SlotsOf
  <2>3. QED
    BY <1>1, <2>1, <2>2 DEF Body
<1>7. p \in Int /\ n <= p + 1 /\ p >= -1
  BY <1>1, <1>5, StackFields, NumSlotsAssumption DEF HasVals
<1>8. ~Returning /\ ~ToFunctionLabel
  BY SMTT(40) DEF Returning, ToFunctionLabel
<1>9. AbsStack = SubSeq(Live, 1, p + 1 - n) \o << LabelEntry(pc.blk) >>
                 \o SubSeq(Live, p + 2 - n, p + 1)
  BY <1>1, <1>8, ActiveMode DEF AbsStack
<1>10. Live = Seg(st, 0, p + 1)
  BY <1>7, BelowIs DEF Live
<1> HIDE DEF n, p
<1>11. SubSeq(Live, 1, p + 1 - n) = Seg(st, 0, p + 1 - n)
       /\ SubSeq(Live, p + 2 - n, p + 1) = Seg(st, p + 1 - n, p + 1)
  <2> DEFINE m == p + 2 - n
             d == p + 1
             e == p + 1 - n
  <2>1. m \in Int /\ d \in Int /\ 1 <= m /\ m <= d + 1 /\ d <= d
    BY <1>3, <1>7
  <2>2. e \in Int /\ 0 <= e /\ e <= d /\ m - 1 = e
    BY <1>3, <1>7
  <2> HIDE DEF d, e, m
  <2>3. SubSeq(Seg(st, 0, d), m, d) = Seg(st, m - 1, d)
    BY <2>1, SegPart
  <2>4. SubSeq(Seg(st, 0, d), 1, e) = Seg(st, 0, e)
    BY <2>1, <2>2, SegPrefix
  <2>5. QED
    BY <1>10, <2>2, <2>3, <2>4 DEF d, e, m
<1>12. QED
  BY <1>1, <1>2, <1>3, <1>5, <1>6, <1>8, <1>9, <1>11, ActiveMode, ZenonT(40) DEF n, p

\* What a branch is to do is settled when it leaves its instruction.
LEMMA GoesSome ==
    ASSUME IInv, pc.at = "unwind"
    PROVE  \E n, p : Goes(n, p)
<1>1. CASE pc.left = 0
  BY <1>1 DEF Goes
<1>2. CASE pc.left # 0
  <2>1. pc.left > 0
    BY <1>2, AtUnwind
  <2>2. PICK walk \in [0 .. pc.left - 1 -> OwnLabels(st)] : IsWalk(st, pc.left - 1, walk)
    BY <2>1, AtUnwind
  <2>3. QED
    BY <1>2, <2>2 DEF Goes
<1>3. QED
  BY <1>1, <1>2

\* What is left of the walk decides where the branch goes.
LEMMA GoesTo ==
    ASSUME IInv, pc.at = "unwind", NEW n, NEW p, Goes(n, p)
    PROVE  /\ n \in 0 .. st.idx + 1 /\ st.idx \in Int
           /\ p \in Blocks \cup {NULL}
           /\ pc.left # 0 => \A t : (t \in OwnLabels(st) /\ IsTarget(t)) <=> t = n
           /\ pc.left # 0 => n \in OwnLabels(st) /\ p = st.pool[n].parent
           /\ pc.left = 0 => n = st.idx + 1 /\ p = pc.parent
<1>1. /\ st \in Stack /\ WellFormed(st) /\ pc.left \in Nat /\ pc.parent \in Blocks \cup {NULL}
  BY AtUnwind
<1>2. st.idx \in Int /\ st.idx >= -1 /\ OwnLabels(st) \subseteq 0 .. st.idx
      /\ 0 .. st.idx \subseteq Slots
  BY <1>1, OwnIs, StackFields, NumSlotsAssumption
<1>3. CASE pc.left = 0
  BY <1>1, <1>2, <1>3 DEF Goes
<1>4. CASE pc.left # 0
  <2> DEFINE l == pc.left - 1
  <2>1. l \in Nat
    BY <1>1, <1>4
  <2>2. PICK walk \in [0 .. l -> OwnLabels(st)] :
            IsWalk(st, l, walk) /\ n = walk[l] /\ p = st.pool[n].parent
    BY <1>4 DEF Goes
  <2> HIDE DEF l
  <2>3. \A t : /\ t \in OwnLabels(st)
               /\ Cardinality({j \in OwnLabels(st) : j > t}) = l
               <=> t = n
    BY <1>1, <2>1, <2>2, WalkTarget
  <2>4. n \in OwnLabels(st)
    BY <2>1, <2>2
  <2>5. \A t : (t \in OwnLabels(st) /\ IsTarget(t)) <=> t = n
    BY <2>3 DEF IsTarget, l
  <2>6. n \in 0 .. st.idx /\ st.pool[n].type = "label" /\ st.pool[n] \in Objs
    BY <1>1, <1>2, <2>4, StackFields DEF OwnLabels, SlotsOf
  <2>7. p \in Blocks \cup {NULL}
    BY <2>2, <2>6 DEF Objs, ValObj, LabelObj, FrameObj, FreeObj
  <2>8. QED
    BY <1>2, <1>4, <2>2, <2>4, <2>5, <2>6, <2>7
<1>5. QED
  BY <1>3, <1>4

\* The abstract stack while labels are popped.
UnwindingIs ==
    \A n, p :
    IInv /\ pc.at = "unwind" /\ Goes(n, p) =>
        /\ AbsStack = IF p = NULL
                      THEN ReturnedAs(st, Outermost, Current.frame, Repushed(pc.vals))
                      ELSE BranchedAs(st, n, p, Repushed(pc.vals))
        /\ AbsMode = IF p = NULL /\ Outermost THEN "idle" ELSE Mode

\* ... and in the loop of __br.
LEMMA AbsUnwind == UnwindingIs
<1> SUFFICES ASSUME NEW n, NEW p, IInv, pc.at = "unwind", Goes(n, p)
    PROVE  /\ AbsStack = IF p = NULL
                         THEN ReturnedAs(st, Outermost, Current.frame, Repushed(pc.vals))
                         ELSE BranchedAs(st, n, p, Repushed(pc.vals))
           /\ AbsMode = IF p = NULL /\ Outermost THEN "idle" ELSE Mode
  BY DEF UnwindingIs
<1>1. /\ n \in Int /\ st.idx \in Int
      /\ pc.left # 0 => \A t : (t \in OwnLabels(st) /\ IsTarget(t)) <=> t = n
      /\ pc.left # 0 => n \in OwnLabels(st) /\ p = st.pool[n].parent
      /\ pc.left = 0 => n = st.idx + 1 /\ p = pc.parent
  BY GoesTo
<1>2. Active /\ Current.frame \in Int /\ host # "trapped"
  BY AtUnwind, ActiveMode DEF IsTop, SlotsOf
<1>3. ToFunctionLabel <=> p = NULL
  <2>1. CASE pc.left = 0
    BY <1>1, <2>1 DEF ToFunctionLabel
  <2>2. CASE pc.left # 0
    <3>1. IsTarget(n)
      BY <1>1, <2>2
    <3>2. \A t \in OwnLabels(st) : IsTarget(t) => t = n
      BY <1>1, <2>2
    <3>3. QED
      BY <1>1, <2>2, <3>1, <3>2 DEF ToFunctionLabel
  <2>3. QED
    BY <2>1, <2>2
<1>4. Returning <=> p = NULL
  BY <1>3 DEF Returning
<1>5. AbsMode = IF p = NULL /\ Outermost THEN "idle" ELSE Mode
  BY <1>2, <1>4, ActiveMode
<1>6. CASE p = NULL
  <2>1. AbsStack = Returned(Repushed(pc.vals))
    BY <1>2, <1>3, <1>6 DEF AbsStack
  <2>2. Below(Current.frame) = Seg(st, 0, Current.frame)
    BY <1>2, BelowIs
  <2>3. QED
    BY <1>5, <1>6, <2>1, <2>2 DEF Returned, ReturnedAs
<1>7. CASE p # NULL
  <2>1. AbsStack = IF pc.left = 0 THEN Branched(Live, pc.parent)
                   ELSE LET t == CHOOSE t \in OwnLabels(st) : IsTarget(t)
                        IN  Branched(Below(t), st.pool[t].parent)
    BY <1>2, <1>3, <1>7 DEF AbsStack
  <2>2. Below(n) = Seg(st, 0, n)
    BY <1>1, BelowIs
  <2>3. AbsStack = Branched(Below(n), p)
    <3>1. CASE pc.left = 0
      BY <1>1, <2>1, <3>1 DEF Live
    <3>2. CASE pc.left # 0
      <4> DEFINE t == CHOOSE t \in OwnLabels(st) : IsTarget(t)
      <4>1. n \in OwnLabels(st) /\ IsTarget(n)
        BY <1>1, <3>2
      <4>2. t \in OwnLabels(st) /\ IsTarget(t)
        BY <4>1
      <4> HIDE DEF t
      <4>3. t = n
        BY <1>1, <3>2, <4>2
      <4>4. AbsStack = Branched(Below(t), st.pool[t].parent)
        BY <2>1, <3>2 DEF t
      <4>5. QED
        BY <1>1, <3>2, <4>3, <4>4
    <3>3. QED
      BY <3>1, <3>2
  <2>4. QED
    BY <1>5, <1>7, <2>2, <2>3 DEF Branched, BranchedAs
<1>8. QED
  BY <1>6, <1>7

\* Between the host's commands, or while instantiate is at work itself.
LEMMA AbsHostIs ==
    IInv /\ ~Active =>
        /\ pc.at = "host"
        /\ AbsStack = IF host = "trapped" THEN <<>> ELSE Seg(st, 0, st.idx + 1)
        /\ AbsMode = IF host \in {"allocs", "inits", "done"} THEN "inst" ELSE host
<1> SUFFICES ASSUME IInv, ~Active
    PROVE  /\ pc.at = "host"
           /\ AbsStack = IF host = "trapped" THEN <<>> ELSE Seg(st, 0, st.idx + 1)
           /\ AbsMode = IF host \in {"allocs", "inits", "done"} THEN "inst" ELSE host
  OBVIOUS
<1>1. pc = AtHost /\ TypeOK /\ st.idx \in Int /\ host \in Hosts
  BY AtHostOK, Types DEF TypeOK
<1>2. pc.at = "host" /\ ~Returning /\ ~ToFunctionLabel
  BY <1>1 DEF AtHost, Returning, ToFunctionLabel
<1>3. AbsStack = IF host = "trapped" THEN <<>> ELSE Live
  <2>1. CASE host = "trapped"
    BY <1>2, <2>1 DEF AbsStack
  <2>2. CASE host # "trapped"
    BY <1>2, <2>2 DEF AbsStack
  <2>3. QED
    BY <2>1, <2>2
<1>4. Live = Seg(st, 0, st.idx + 1)
  BY <1>1, BelowIs DEF Live
<1>5. AbsMode = IF host \in {"allocs", "inits", "done"} THEN "inst" ELSE host
  BY <1>2 DEF AbsMode, Active
<1>6. QED
  BY <1>2, <1>3, <1>4, <1>5

\* The same in the next state.
LEMMA AbsNext ==
    /\ (IInv /\ pc = Run => /\ AbsStack = Seg(st, 0, st.idx + 1) /\ AbsMode = Mode)'
    /\ (IInv /\ ~Active =>
        /\ pc.at = "host"
        /\ AbsStack = IF host = "trapped" THEN <<>> ELSE Seg(st, 0, st.idx + 1)
        /\ AbsMode = IF host \in {"allocs", "inits", "done"} THEN "inst" ELSE host)'
  BY AbsRun, AbsHostIs, PTL

-----------------------------------------------------------------------------
(* What the operations of the pool do to its entries.                      *)

\* A lower part of a stack holds the same entries.
LEMMA SegAgree ==
    ASSUME NEW S, NEW T, T.idx \in Int, Agree(S, T), NEW a \in Int, NEW n \in Int,
           0 <= a, n <= T.idx + 1
    PROVE  Seg(T, a, n) = Seg(S, a, n)
<1>1. \A i \in a .. n - 1 : i \in 0 .. T.idx
  OBVIOUS
<1>2. \A i \in a .. n - 1 : T.pool[i] = S.pool[i]
  BY <1>1 DEF Agree
<1>3. QED
  BY <1>2, SegSame

\* The same from the first entry on.
LEMMA SegLow ==
    ASSUME NEW S, NEW T, T.idx \in Int, Agree(S, T), NEW n \in Int, n <= T.idx + 1
    PROVE  Seg(T, 0, n) = Seg(S, 0, n)
<1> DEFINE a == 0
<1>1. a \in Int /\ 0 <= a
  OBVIOUS
<1> HIDE DEF a
<1>2. Seg(T, a, n) = Seg(S, a, n)
  BY <1>1, SegAgree
<1>3. QED
  BY <1>2 DEF a

\* One more entry.
LEMMA SegGrow ==
    ASSUME NEW S, NEW R, S.idx \in Int, S.idx >= -1, Agree(R, S)
    PROVE  Seg(R, 0, S.idx + 2) = Seg(S, 0, S.idx + 1) \o << Entry(R.pool[S.idx + 1]) >>
<1> DEFINE n == S.idx + 1
           m == S.idx + 2
<1>1. n \in Int /\ m \in Int /\ 0 \in Int /\ 0 <= n /\ n <= m /\ m = n + 1 /\ n <= S.idx + 1
  OBVIOUS
<1> HIDE DEF n, m
<1>2. Seg(S, 0, n) = Seg(R, 0, n)
  BY <1>1, SegLow
<1>3. Seg(R, 0, n) \o Seg(R, n, m) = Seg(R, 0, m)
  BY <1>1, SegJoin, ZenonT(40)
<1>4. Seg(R, n, m) = << Entry(R.pool[n]) >>
  BY <1>1, SegOne
<1>5. QED
  BY <1>2, <1>3, <1>4 DEF n, m

\* Pushed and popped values.
LEMMA SegPush ==
    ASSUME NEW S \in Stack, NEW vals \in Seq(Val), ~Overflows(S, Len(vals))
    PROVE  Seg(PushVals(S, vals), 0, S.idx + Len(vals) + 1)
              = Seg(S, 0, S.idx + 1) \o Repushed(vals)
<1> DEFINE R == PushVals(S, vals)
           n == S.idx + 1
           m == S.idx + Len(vals) + 1
<1>1. S.idx \in Int /\ S.idx >= -1 /\ Len(vals) \in Nat
  BY StackFields, NumSlotsAssumption
<1>2. n \in Int /\ m \in Int /\ 0 <= n /\ n <= m /\ 0 \in Int
  BY <1>1
<1>3. Agree(R, S)
  BY PushValsType
<1>4. Seg(R, n, m) = Repushed(vals)
  BY SegPushed
<1>5. Seg(R, 0, n) = Seg(S, 0, n)
  BY <1>1, <1>3, SegLow
<1> HIDE DEF n, m, R
<1>6. Seg(R, 0, n) \o Seg(R, n, m) = Seg(R, 0, m)
  BY <1>2, SegJoin
<1>7. QED
  BY <1>4, <1>5, <1>6 DEF n, m, R

\* What is left after a pop.
LEMMA SegPop ==
    ASSUME NEW S \in Stack, NEW n \in Nat, n <= S.idx + 1
    PROVE  Seg(PopN(S, n), 0, S.idx + 1 - n) = Seg(S, 0, S.idx + 1 - n)
<1>1. PopN(S, n).idx = S.idx - n /\ Agree(S, PopN(S, n)) /\ S.idx \in Int
  BY PopNType, StackFields, NumSlotsAssumption
<1>2. PopN(S, n).idx \in Int /\ S.idx + 1 - n \in Int /\ S.idx + 1 - n <= PopN(S, n).idx + 1
  BY <1>1
<1>3. QED
  BY <1>1, <1>2, SegLow

\* A pushed value.
LEMMA RepushedOne ==
    ASSUME NEW v
    PROVE  Repushed(<< v >>) = << A!V(v) >>
<1>1. Len(<< v >>) = 1 /\ << v >>[1] = v
  OBVIOUS
<1>2. Repushed(<< v >>) = [i \in 1 .. 1 |-> [type |-> "val", val |-> << v >>[1 + 1 - i]]]
  BY <1>1 DEF Repushed
<1>3. \A i \in 1 .. 1 : 1 + 1 - i = 1
  OBVIOUS
<1>4. Repushed(<< v >>) = [i \in 1 .. 1 |-> [type |-> "val", val |-> v]]
  BY <1>1, <1>2, <1>3
<1>5. QED
  BY <1>4 DEF A!V

\* A pushed value is one more entry.
LEMMA SegPushVal ==
    ASSUME NEW S \in Stack, ~Full(S), NEW v \in Val
    PROVE  Seg(PushVal(S, v), 0, S.idx + 2) = Seg(S, 0, S.idx + 1) \o << A!V(v) >>
<1>1. << v >> \in Seq(Val) /\ Len(<< v >>) = 1
  OBVIOUS
<1>2. S.idx \in -1 .. NumSlots - 1 /\ S.idx \in Int /\ NumSlots \in Int
  BY StackFields, NumSlotsAssumption
<1>3. ~Overflows(S, Len(<< v >>)) /\ S.idx + Len(<< v >>) + 1 = S.idx + 2
  BY <1>1, <1>2 DEF Full, Overflows
<1>4. Seg(PushVals(S, << v >>), 0, S.idx + Len(<< v >>) + 1) = Seg(S, 0, S.idx + 1) \o Repushed(<< v >>)
  BY <1>1, <1>3, SegPush
<1>5. QED
  BY <1>3, <1>4, RepushedOne DEF PushVal

\* A pushed label and a pushed frame.
LEMMA SegPushLabel ==
    ASSUME NEW S \in Stack, WellFormed(S), ~Full(S),
           NEW arity \in Arities, NEW parent \in Blocks \cup {NULL}
    PROVE  LET R == PushLabel(S, arity, parent)
           IN  /\ Seg(R, 0, S.idx + 2) = Seg(S, 0, S.idx + 1) \o << A!L(arity, parent) >>
               /\ R \in Stack /\ R.idx = S.idx + 1 /\ Agree(R, S)
<1> DEFINE obj == [type |-> "label", prev |-> S.labels, arity |-> arity, parent |-> parent]
           R == PushLabel(S, arity, parent)
<1>1. obj \in LabelObj
  BY StackFields DEF LabelObj
<1>2. /\ S.idx \in Int /\ -1 <= S.idx /\ S.idx + 1 \in Nodes
      /\ S.labels \in Nodes /\ S.frames \in Nodes
  BY StackFields, NumSlotsAssumption DEF Full, Nodes, Slots
<1>3. R = Stk(S.idx + 1, WriteNext([S.pool EXCEPT ![S.idx + 1] = obj], S.labels),
              S.idx + 1, S.frames)
  BY DEF PushLabel
<1>4. Pushed(S, R, obj)
  BY <1>1, <1>2, <1>3, PushEntry
<1>5. Entry(obj) = A!L(arity, parent)
  BY DEF Entry, A!L
<1> HIDE DEF R, obj
<1>6. R \in Stack /\ R.idx = S.idx + 1 /\ Agree(R, S) /\ R.pool[S.idx + 1] = obj
  BY <1>4 DEF Pushed
<1>7. QED
  BY <1>2, <1>5, <1>6, SegGrow DEF R

\* A pushed frame is one more entry.
LEMMA SegPushFrame ==
    ASSUME NEW S \in Stack, WellFormed(S), ~Full(S), NEW arity \in Arities
    PROVE  Seg(PushFrame(S, arity), 0, S.idx + 2) = Seg(S, 0, S.idx + 1) \o << A!F(arity) >>
<1> DEFINE obj == [type |-> "frame", prev |-> S.frames, arity |-> arity]
           R == PushFrame(S, arity)
<1>1. obj \in FrameObj
  BY StackFields DEF FrameObj
<1>2. /\ S.idx \in Int /\ -1 <= S.idx /\ S.idx + 1 \in Nodes
      /\ S.labels \in Nodes /\ S.frames \in Nodes
  BY StackFields, NumSlotsAssumption DEF Full, Nodes, Slots
<1>3. R = Stk(S.idx + 1, WriteNext([S.pool EXCEPT ![S.idx + 1] = obj], S.frames),
              S.labels, S.idx + 1)
  BY DEF PushFrame
<1>4. Pushed(S, R, obj)
  BY <1>1, <1>2, <1>3, PushEntry
<1>5. Entry(obj) = A!F(arity)
  BY DEF Entry, A!F
<1> HIDE DEF R, obj
<1>6. R.idx = S.idx + 1 /\ Agree(R, S) /\ R.pool[S.idx + 1] = obj
  BY <1>4 DEF Pushed
<1>7. QED
  BY <1>2, <1>5, <1>6, SegGrow DEF R

-----------------------------------------------------------------------------
(* Instructions that leave the function where it is.                       *)

\* The stack that an instruction finds.
LEMMA Found ==
    ASSUME IInv, AtInstr
    PROVE  LET N == st.idx + 1
           IN  /\ Active /\ TypeOK /\ CallsOK /\ Body(st, Current.frame) /\ st \in Stack
               /\ pc.at = "run" /\ st.idx \in Int /\ N \in Nat /\ N >= 2 /\ N <= NumSlots /\ NumSlots \in Int
               /\ AbsStack = Seg(st, 0, N) /\ AbsMode = Mode /\ Mode \in {"invoke", "inst"}
               /\ AbsStack \in Seq(EntsOf(st)) /\ Len(AbsStack) = N
               /\ \A i \in 1 .. N : /\ AbsStack[i] = Entry(st.pool[i - 1])
                                    /\ AbsStack[i].type = st.pool[i - 1].type
                                    /\ st.pool[i - 1].type \in {"val", "label", "frame"}
<1> DEFINE N == st.idx + 1
<1>1. /\ Active /\ TypeOK /\ CallsOK /\ Body(st, Current.frame) /\ st \in Stack /\ WellFormed(st)
      /\ pc = Run /\ pc.at = "run"
  BY AtRun DEF Body, AtInstr, Run
<1>2. st.idx \in Int /\ N \in Nat /\ N >= 2 /\ N <= NumSlots /\ NumSlots \in Int
  BY <1>1, BodyLabel, StackFields, NumSlotsAssumption
<1>3. AbsStack = Seg(st, 0, N) /\ AbsMode = Mode /\ Mode \in {"invoke", "inst"}
  BY <1>1, AbsRun, ActiveMode
<1> DEFINE z == 0
<1>4. z \in Int /\ N \in Int /\ z <= N /\ N - z = N /\ \A i \in 1 .. N : z + i - 1 = i - 1
  BY <1>2
<1>5. \A i \in 1 .. N : st.pool[i - 1].type \in {"val", "label", "frame"}
  <2>1. \A i \in 0 .. st.idx : st.pool[i].type \in {"val", "label", "frame"}
    BY <1>1 DEF WellFormed, EntryOK
  <2>2. \A i \in 1 .. N : i - 1 \in 0 .. st.idx
    BY <1>2
  <2>3. QED
    BY <2>1, <2>2
<1> HIDE DEF N, z
<1>6. /\ Seg(st, z, N) \in Seq(EntsOf(st)) /\ Len(Seg(st, z, N)) = N
      /\ \A i \in 1 .. N : Seg(st, z, N)[i] = Entry(st.pool[i - 1])
  BY <1>4, SegType
<1>7. \A i \in 1 .. N : Entry(st.pool[i - 1]).type = st.pool[i - 1].type
  BY <1>5, EntryFields
<1>8. QED
  BY <1>1, <1>2, <1>3, <1>5, <1>6, <1>7 DEF N, z

\* The operands of an instruction are values of the abstract stack.
LEMMA ValsFound ==
    ASSUME IInv, AtInstr, NEW n \in Nat, HasVals(st, n)
    PROVE  A!AreVals(n) /\ n <= st.idx + 1
<1> DEFINE N == st.idx + 1
<1>1. /\ N \in Nat /\ Len(AbsStack) = N
      /\ \A i \in 1 .. N : AbsStack[i].type = st.pool[i - 1].type
  BY Found
<1>2. n <= st.idx + 1 /\ \A i \in st.idx + 1 - n .. st.idx : st.pool[i].type = "val"
  BY DEF HasVals
<1>3. st.idx \in Int /\ n <= N
  BY <1>2, Found
<1>4. \A i \in N + 1 - n .. N : i - 1 \in st.idx + 1 - n .. st.idx /\ i \in 1 .. N
  BY <1>3
<1> HIDE DEF N
<1>5. \A i \in N + 1 - n .. N : AbsStack[i].type = "val"
  BY <1>1, <1>2, <1>4
<1>6. QED
  BY <1>1, <1>2, <1>3, <1>5 DEF A!AreVals, A!Len0

\* Some label is live, that of the function at least.
LEMMA RunningFound ==
    ASSUME IInv, AtInstr
    PROVE  A!Running
<1> DEFINE N == st.idx + 1
           i == Current.frame + 2
<1>1. /\ N \in Nat /\ Len(AbsStack) = N /\ AbsMode \in {"invoke", "inst"}
      /\ \A k \in 1 .. N : AbsStack[k].type = st.pool[k - 1].type
      /\ Body(st, Current.frame)
  BY Found
<1>2. i \in 1 .. N /\ i - 1 = Current.frame + 1 /\ st.pool[Current.frame + 1].type = "label"
  BY <1>1, BodyLabel
<1>3. AbsStack[i].type = "label"
  BY <1>1, <1>2
<1>4. QED
  BY <1>1, <1>2, <1>3 DEF A!Running, A!Len0

\* After the instruction the next one is due.
LEMMA RunsOn ==
    ASSUME IInv, IInv', AtInstr, NEW S, Continue(S, Run)
    PROVE  /\ AbsStack' = Seg(S, 0, S.idx + 1)
           /\ UNCHANGED AbsMode
           /\ pc'.at = "run"
<1>1. pc' = Run /\ st' = S /\ host' = host
  BY DEF Continue
<1>2. AbsStack' = Seg(S, 0, S.idx + 1) /\ AbsMode' = Mode'
  BY <1>1, AbsNext
<1>3. Mode' = Mode
  BY <1>1 DEF Mode
<1>4. QED
  BY <1>1, <1>2, <1>3, Found DEF Run

\* A trap abandons the abstract stack too.
LEMMA TrapMaps ==
    ASSUME IInv, IInv', host # "trapped", host' = "trapped"
    PROVE  A!Next
<1>1. ~Active'
  BY DEF Active
<1>2. pc'.at = "host" /\ AbsStack' = <<>> /\ AbsMode' = "trapped"
  BY <1>1, AbsNext
<1>3. AbsMode # "trapped"
  <2>1. CASE Active
    BY <2>1, ActiveMode
  <2>2. CASE ~Active
    BY <2>2, AbsHostIs
  <2>3. QED
    BY <2>1, <2>2
<1>4. QED
  BY <1>2, <1>3 DEF A!Next, A!Trap

\* What is to be shown of an instruction.
LEMMA InstructionMaps ==
    ASSUME pc.at \in {"run", "host"}, A!Instruction
    PROVE  A!Next
  BY DEF A!Next

\* What remains of the abstract stack below the entries of an instruction.
LEMMA UptoFound ==
    ASSUME IInv, AtInstr, NEW n \in Int, 0 <= n, n <= st.idx + 1
    PROVE  SubSeq(AbsStack, 1, n) = Seg(st, 0, n) /\ A!Upto(n) = Seg(st, 0, n)
  BY Found, SegPrefix DEF A!Upto

\* What remains once its operands are popped.
LEMMA AllButFound ==
    ASSUME IInv, AtInstr, NEW k \in Nat, k <= st.idx + 1
    PROVE  A!AllBut(k) = Seg(st, 0, st.idx + 1 - k)
<1> DEFINE n == st.idx + 1 - k
           N == Len(AbsStack)
<1>1. st.idx \in Int /\ N = st.idx + 1
  BY Found
<1> HIDE DEF N
<1>2. n \in Int /\ 0 <= n /\ n <= st.idx + 1 /\ N - k = n
  BY <1>1
<1> HIDE DEF n
<1>3. A!AllBut(k) = SubSeq(AbsStack, 1, N - k)
  BY DEF A!AllBut, A!Len0, N
<1>4. SubSeq(AbsStack, 1, n) = Seg(st, 0, n)
  BY <1>2, UptoFound
<1>5. QED
  BY <1>2, <1>3, <1>4 DEF n

\* An instruction that pops its operands and pushes at most one result.
LEMMA OperateMaps ==
    ASSUME IInv, IInv', NEW k, NEW r, NEW v \in Val, Operate(k, r, v)
    PROVE  A!Next
<1> DEFINE P == PopN(st, k)
           n == st.idx + 1 - k
<1>1. /\ AtInstr /\ HasVals(st, k) /\ k \in 0 .. 3 /\ k \in Nat /\ r \in 0 .. 1
      /\ \/ r = 0 /\ Continue(P, Run)
         \/ r = 1 /\ ~Full(P) /\ Continue(PushVal(P, v), Run)
         \/ r = 1 /\ Full(P) /\ Throw(P)
  BY DEF Operate, Profiles, ParametricProfiles, VariableProfiles, NumericProfiles,
         ReferenceProfiles, TableProfiles, LoadProfiles, StoreProfiles, MemoryProfiles
<1>2. st \in Stack /\ st.idx \in Int /\ host # "trapped" /\ pc.at = "run"
      /\ Len(AbsStack) = st.idx + 1
  BY <1>1, Found, Types, ActiveMode
<1>3. A!AreVals(k) /\ k <= st.idx + 1 /\ A!Running
  BY <1>1, ValsFound, RunningFound
<1>4. P \in Stack /\ P.idx = st.idx - k /\ Seg(P, 0, n) = Seg(st, 0, n)
  BY <1>1, <1>2, <1>3, PopNType, SegPop
<1>5. A!AllBut(k) = Seg(P, 0, n)
  BY <1>1, <1>3, <1>4, AllButFound
<1>6. n \in Int /\ 0 <= n /\ n <= st.idx + 1 /\ P.idx + 1 = n /\ P.idx + 2 = n + 1
  <2> HIDE DEF P
  <2>1. QED
    BY <1>1, <1>2, <1>3, <1>4, SMTT(40)
<1> HIDE DEF P, n
<1>7. CASE r = 0 /\ Continue(P, Run)
  <2>1. AbsStack' = Seg(P, 0, n) /\ UNCHANGED AbsMode
    BY <1>1, <1>6, <1>7, RunsOn
  <2>2. Seg(P, 0, n) \o <<>> = Seg(P, 0, n)
    <3>1. Seg(P, 0, n) \in Seq(EntsOf(P))
      BY <1>6, SegType
    <3>2. QED
      BY <3>1, ConcatEmptySeq
  <2>3. A!Operate(k, 0, v)
    BY <1>3, <1>5, <2>1, <2>2 DEF A!Operate
  <2>4. A!Instruction
    BY <1>1, <2>3 DEF A!Instruction
  <2>5. QED
    BY <1>2, <2>4, InstructionMaps
<1>8. CASE r = 1 /\ ~Full(P) /\ Continue(PushVal(P, v), Run)
  <2>1. PushVal(P, v).idx = n
    <3>1. << v >> \in Seq(Val) /\ Len(<< v >>) = 1
      OBVIOUS
    <3>2. ~Overflows(P, 1)
      BY <1>4, <1>8, StackFields, NumSlotsAssumption DEF Full, Overflows
    <3>3. PushVals(P, << v >>).idx = P.idx + 1
      BY <1>4, <3>1, <3>2, PushValsType
    <3>4. QED
      BY <1>6, <3>3 DEF PushVal, n
  <2>2. AbsStack' = Seg(PushVal(P, v), 0, n + 1) /\ UNCHANGED AbsMode
    BY <1>1, <1>8, <2>1, RunsOn
  <2>3. AbsStack' = Seg(P, 0, n) \o << A!V(v) >>
    BY <1>4, <1>6, <1>8, <2>2, SegPushVal
  <2>4. A!Operate(k, 1, v)
    BY <1>3, <1>5, <2>2, <2>3 DEF A!Operate
  <2>5. A!Instruction
    BY <1>1, <2>4 DEF A!Instruction
  <2>6. QED
    BY <1>2, <2>5, InstructionMaps
<1>9. CASE r = 1 /\ Full(P) /\ Throw(P)
  BY <1>2, <1>9, TrapMaps DEF Throw
<1>10. QED
  BY <1>1, <1>7, <1>8, <1>9

\* Entries in the middle of the stack that an instruction finds.
LEMMA PartFound ==
    ASSUME IInv, AtInstr, NEW m \in Int, NEW n \in Int, 0 <= m, m <= n, n <= st.idx + 1
    PROVE  SubSeq(AbsStack, m + 1, n) = Seg(st, m, n)
<1> DEFINE N == st.idx + 1
           q == m + 1
<1>1. AbsStack = Seg(st, 0, N)
  BY Found
<1>2. N \in Int /\ q \in Int /\ 1 <= q /\ q <= n + 1 /\ n <= N
  BY Found
<1>3. q - 1 = m
  OBVIOUS
<1> HIDE DEF N, q
<1>4. SubSeq(Seg(st, 0, N), q, n) = Seg(st, q - 1, n)
  BY <1>2, SegPart, ZenonT(40)
<1>5. QED
  BY <1>1, <1>3, <1>4 DEF q

\* local.tee leaves the value it takes.
LEMMA LocalTeeMaps ==
    ASSUME IInv, IInv', LocalTee
    PROVE  A!Next
<1> DEFINE f == Current.frame
           v == TopVals(st, 1)[1]
           M == PopN(st, 1)
           P == PushVal(M, v)
           R == PushVal(P, v)
           Q == PopN(R, 1)
           n == st.idx
<1>1. /\ AtInstr /\ HasVals(st, 1) /\ 1 \in Nat
      /\ (Full(P) /\ Throw(P)) \/ (~Full(P) /\ Continue(Q, Run))
  BY DEF LocalTee
<1>2. /\ Active /\ Body(st, f) /\ st \in Stack /\ n \in Int /\ NumSlots \in Int
      /\ host # "trapped" /\ pc.at = "run" /\ Len(AbsStack) = n + 1 /\ n <= NumSlots - 1
  BY <1>1, Found, ActiveMode
<1>3. A!AreVals(1) /\ 0 <= n /\ A!Running
  BY <1>1, <1>2, ValsFound, RunningFound
<1>4. Body(M, f) /\ M.idx = n - 1 /\ TopVals(st, 1) \in Seq(Val) /\ Len(TopVals(st, 1)) = 1
  BY <1>1, <1>2, BodyPop
<1>5. v \in Val /\ << v >> \in Seq(Val) /\ Len(<< v >>) = 1
  BY <1>4
<1>6. Seg(M, 0, n) = Seg(st, 0, n) /\ A!AllBut(1) = Seg(st, 0, n)
  <2>1. st.idx + 1 - 1 = n /\ 1 <= st.idx + 1
    BY <1>2, <1>3
  <2>2. Seg(M, 0, st.idx + 1 - 1) = Seg(st, 0, st.idx + 1 - 1)
    BY <1>1, <1>2, <2>1, SegPop
  <2>3. A!AllBut(1) = Seg(st, 0, st.idx + 1 - 1)
    BY <1>1, <2>1, AllButFound
  <2>4. QED
    BY <2>1, <2>2, <2>3
<1>7. CASE Full(P) /\ Throw(P)
  BY <1>2, <1>7, TrapMaps DEF Throw
<1> HIDE DEF n, M, v
<1>8. CASE ~Full(P) /\ Continue(Q, Run)
  <2>1. M \in Stack /\ ~Overflows(M, 1) /\ ~Full(M) /\ M.idx + 2 = n + 1 /\ M.idx + 1 = n
    BY <1>2, <1>4 DEF Body, Full, Overflows
  <2>2. Body(P, f) /\ P.idx = n
    BY <1>2, <1>4, <1>5, <2>1, BodyPush DEF PushVal
  <2>3. Seg(P, 0, M.idx + 2) = Seg(M, 0, M.idx + 1) \o << A!V(v) >>
    BY <1>5, <2>1, SegPushVal
  <2>4. P \in Stack /\ ~Overflows(P, 1)
    BY <1>2, <1>8, <2>2 DEF Body, Full, Overflows
  <2> HIDE DEF P
  <2>5. Body(R, f) /\ Agree(R, P) /\ R.idx = n + 1 /\ HasVals(R, 1)
    BY <1>5, <2>2, <2>4, BodyPush DEF PushVal
  <2> HIDE DEF R
  <2>6. Agree(R, Q) /\ Q.idx = n /\ Q.idx \in Int
    BY <1>1, <1>2, <2>5, BodyPop
  <2> HIDE DEF Q
  <2>7. Seg(Q, 0, n + 1) = Seg(R, 0, n + 1)
    <3>1. n + 1 \in Int /\ n + 1 <= Q.idx + 1
      BY <1>2, <2>6
    <3>2. QED
      BY <2>6, <3>1, SegLow
  <2>8. Seg(P, 0, n + 1) = Seg(R, 0, n + 1)
    <3>1. n + 1 \in Int /\ n + 1 <= P.idx + 1 /\ P.idx \in Int
      BY <1>2, <2>2
    <3>2. QED
      BY <2>5, <3>1, SegLow
  <2>9. AbsStack' = Seg(Q, 0, n + 1) /\ UNCHANGED AbsMode
    BY <1>1, <1>8, <2>6, RunsOn
  <2>10. A!Operate(1, 1, v)
    BY <1>3, <1>6, <2>1, <2>3, <2>7, <2>8, <2>9 DEF A!Operate
  <2>11. A!Instruction
    BY <1>5, <2>10 DEF A!Instruction
  <2>12. QED
    BY <1>2, <2>11, InstructionMaps
<1>9. QED
  BY <1>1, <1>7, <1>8

\* An instruction that traps.
LEMMA TrapInstrMaps ==
    ASSUME IInv, IInv', NEW k \in 0 .. 3, Trap(k)
    PROVE  A!Next
<1>1. AtInstr /\ Throw(PopN(st, k))
  BY DEF Trap
<1>2. host # "trapped" /\ host' = "trapped"
  BY <1>1, AtRun, ActiveMode, SMTT(40) DEF Throw
<1>3. QED
  BY <1>2, TrapMaps

-----------------------------------------------------------------------------
(* Structured control.                                                     *)

\* What entering a block leaves on the stack.
LEMMA Entered ==
    ASSUME NEW S, NEW f, Body(S, f), NEW b \in Blocks, HasVals(S, b.rt1),
           ~Full(PopN(S, b.rt1)),
           ~Overflows(PushLabel(PopN(S, b.rt1), LabelArity(b), b), b.rt1)
    PROVE  LET n == b.rt1
               V == PushVals(PushLabel(PopN(S, n), LabelArity(b), b), TopVals(S, n))
           IN  /\ n \in Nat /\ n <= S.idx + 1 /\ S.idx \in Int
               /\ V.idx = S.idx + 1
               /\ Seg(V, 0, S.idx + 2) = Seg(S, 0, S.idx + 1 - n) \o << A!LabelOf(b) >>
                                         \o Seg(S, S.idx + 1 - n, S.idx + 1)
<1> DEFINE n == b.rt1
           p == S.idx
           vals == TopVals(S, n)
           P == PopN(S, n)
           L == PushLabel(P, LabelArity(b), b)
           V == PushVals(L, vals)
<1>1. n \in Nat /\ p \in Int /\ n <= p + 1 /\ S \in Stack
  BY BlocksAssumption, MaxArityAssumption, BodyLabel DEF Instr, Arities, HasVals, Body
<1>2. Body(P, f) /\ P.idx = p - n /\ Agree(S, P) /\ vals \in Seq(Val) /\ Len(vals) = n
  BY <1>1, BodyPop
<1>3. Seg(P, 0, p + 1 - n) = Seg(S, 0, p + 1 - n)
  BY <1>1, SegPop
<1>4. Repushed(vals) = Seg(S, p + 1 - n, p + 1)
  BY <1>1, SegPopped
<1>5. ~Full(P) /\ ~Overflows(L, Len(vals)) /\ LabelArity(b) \in Arities /\ b \in Blocks \cup {NULL}
  BY <1>2, BlocksAssumption DEF LabelArity, Instr
<1> HIDE DEF n, p, vals, P
<1>6. /\ Seg(L, 0, P.idx + 2) = Seg(P, 0, P.idx + 1) \o << A!L(LabelArity(b), b) >>
      /\ L \in Stack /\ L.idx = P.idx + 1
  BY <1>2, <1>5, SegPushLabel DEF Body
<1> HIDE DEF L
<1>7. /\ V.idx = L.idx + Len(vals)
      /\ Seg(V, 0, L.idx + Len(vals) + 1) = Seg(L, 0, L.idx + 1) \o Repushed(vals)
  BY <1>2, <1>5, <1>6, PushValsType, SegPush
<1> HIDE DEF V
<1>8. /\ P.idx + 2 = L.idx + 1 /\ P.idx + 1 = p + 1 - n
      /\ L.idx + Len(vals) + 1 = p + 2 /\ L.idx + Len(vals) = p + 1
  BY <1>1, <1>2, <1>6
<1>9. A!L(LabelArity(b), b) = A!LabelOf(b)
  BY DEF A!LabelOf, LabelArity
<1>10. QED
  BY <1>1, <1>3, <1>4, <1>6, <1>7, <1>8, <1>9 DEF n, p, vals, P, L, V

\* A block, a loop or an if, whose condition c is popped before.
LEMMA EnterMaps ==
    ASSUME IInv, IInv', AtInstr, NEW b \in Blocks, NEW c \in 0 .. 1, HasVals(st, c + b.rt1),
           NEW S, Body(S, Current.frame), S.idx = st.idx - c, Agree(st, S), HasVals(S, b.rt1),
           EnterBlock(S, b)
    PROVE  A!Next
<1> DEFINE n == b.rt1
           vals == TopVals(S, n)
           P == PopN(S, n)
           L == PushLabel(P, LabelArity(b), b)
           V == PushVals(L, vals)
           m == S.idx + 1 - n
           k == c + n
<1>1. /\ st.idx \in Int /\ host # "trapped" /\ pc.at = "run" /\ Len(AbsStack) = st.idx + 1
  BY Found, ActiveMode
<1>2. n \in Nat /\ k \in Nat /\ c \in Nat
  BY BlocksAssumption, MaxArityAssumption DEF Instr, Arities
<1>3. A!AreVals(k) /\ k <= st.idx + 1 /\ A!Running
  BY <1>2, ValsFound, RunningFound
<1>4. /\ m \in Int /\ 0 <= m /\ m <= S.idx + 1 /\ S.idx + 1 <= st.idx + 1 /\ S.idx \in Int
      /\ m = st.idx + 1 - k
      /\ A!Len0 - c - n + 1 = m + 1 /\ A!Len0 - c = S.idx + 1
  <2>1. A!Len0 = st.idx + 1
    BY <1>1 DEF A!Len0
  <2>2. S.idx = st.idx - c /\ st.idx \in Int
    BY <1>1
  <2> HIDE DEF n
  <2>3. QED
    BY <1>2, <1>3, <2>1, <2>2
<1>5. CASE Throw(P) \/ Throw(V)
  BY <1>1, <1>5, TrapMaps DEF Throw
<1>6. CASE ~Full(P) /\ ~Overflows(L, n) /\ Continue(V, Run)
  <2>1. /\ V.idx = S.idx + 1
        /\ Seg(V, 0, S.idx + 2) = Seg(S, 0, m) \o << A!LabelOf(b) >> \o Seg(S, m, S.idx + 1)
    BY <1>6, Entered
  <2>2. AbsStack' = Seg(V, 0, V.idx + 1) /\ UNCHANGED AbsMode
    BY <1>6, RunsOn
  <2> HIDE DEF V, m, k, n
  <2>3. A!AllBut(k) = Seg(st, 0, m)
    BY <1>2, <1>3, <1>4, AllButFound
  <2>4. SubSeq(AbsStack, m + 1, S.idx + 1) = Seg(st, m, S.idx + 1)
    <3> DEFINE q == S.idx + 1
    <3>1. q \in Int /\ m <= q /\ q <= st.idx + 1
      BY <1>4
    <3> HIDE DEF q
    <3>2. SubSeq(AbsStack, m + 1, q) = Seg(st, m, q)
      BY <1>4, <3>1, PartFound
    <3>3. QED
      BY <3>2 DEF q
  <2>5. Seg(S, 0, m) = Seg(st, 0, m)
    BY <1>4, SegLow
  <2>6. Seg(S, m, S.idx + 1) = Seg(st, m, S.idx + 1)
    <3> DEFINE q == S.idx + 1
    <3>1. q \in Int /\ q <= S.idx + 1
      BY <1>4
    <3> HIDE DEF q
    <3>2. Seg(S, m, q) = Seg(st, m, q)
      BY <1>4, <3>1, SegAgree
    <3>3. QED
      BY <3>2 DEF q
  <2>7. V.idx + 1 = S.idx + 2
    BY <1>4, <2>1
  <2>8. /\ A!AreVals(c + b.rt1)
        /\ AbsStack' = A!AllBut(c + b.rt1) \o << A!LabelOf(b) >>
                       \o SubSeq(AbsStack, A!Len0 - c - b.rt1 + 1, A!Len0 - c)
    BY <1>3, <1>4, <2>1, <2>2, <2>3, <2>4, <2>5, <2>6, <2>7 DEF k, n
  <2>9. A!Enter(b)
    BY <1>3, <2>2, <2>8 DEF A!Enter
  <2>10. A!Instruction
    BY <2>9 DEF A!Instruction
  <2>11. QED
    BY <1>1, <2>10, InstructionMaps
<1>7. QED
  BY <1>5, <1>6 DEF EnterBlock

\* The block instructions.
LEMMA BlockMaps ==
    ASSUME IInv, IInv', NEW b \in Blocks, Block(b)
    PROVE  A!Next
<1> DEFINE c == 0
<1>1. AtInstr /\ HasVals(st, b.rt1) /\ EnterBlock(st, b)
  BY DEF Block
<1>2. b.rt1 \in Nat /\ st.idx \in Int /\ Body(st, Current.frame)
  BY <1>1, Found, BlocksAssumption, MaxArityAssumption DEF Instr, Arities
<1>3. c \in 0 .. 1 /\ c + b.rt1 = b.rt1 /\ st.idx = st.idx - c /\ Agree(st, st)
  BY <1>2 DEF Agree
<1> HIDE DEF c
<1>4. QED
  BY <1>1, <1>2, <1>3, EnterMaps

\* An if pops its condition first.
LEMMA IfMaps ==
    ASSUME IInv, IInv', NEW b \in Blocks, If(b)
    PROVE  A!Next
<1> DEFINE c == 1
           f == Current.frame
           S == PopN(st, c)
<1>1. AtInstr /\ HasVals(st, b.rt1 + 1) /\ EnterBlock(S, b)
  BY DEF If
<1>2. b.rt1 \in Nat /\ st.idx \in Int /\ Body(st, f)
  BY <1>1, Found, BlocksAssumption, MaxArityAssumption DEF Instr, Arities
<1>3. c \in 0 .. 1 /\ c \in Nat /\ c + b.rt1 = b.rt1 + 1 /\ HasVals(st, c)
  BY <1>1, <1>2 DEF HasVals
<1>4. Body(S, f) /\ Agree(st, S) /\ S.idx = st.idx - c
  BY <1>2, <1>3, BodyPop
<1>5. HasVals(S, b.rt1)
  BY <1>1, <1>2, <1>4, BodyLabel DEF HasVals, Agree
<1> HIDE DEF c, S
<1>6. QED
  BY <1>1, <1>3, <1>4, <1>5, EnterMaps

\* The last of the steps that an instruction takes.
LEMMA DoneMaps ==
    ASSUME pc.at \notin {"run", "host"}, pc'.at \in {"run", "host"},
           UNCHANGED << AbsStack, AbsMode >>
    PROVE  A!Next
  BY DEF A!Next

\* The others are not seen.
LEMMA StutterMaps ==
    ASSUME pc.at \notin {"run", "host"}, pc'.at \notin {"run", "host"},
           UNCHANGED << AbsStack, AbsMode >>
    PROVE  UNCHANGED A!avars
  BY DEF A!avars

\* The loop instruction that a branch executes again pushes the label that the
\* branch of the execution model had kept.
LEMMA ReenterLoopMaps ==
    ASSUME IInv, IInv', ReenterLoop
    PROVE  A!Next
<1> DEFINE f == Current.frame
           b == pc.blk
           n == b.rt1
           P == PopN(st, n)
           L == PushLabel(P, LabelArity(b), b)
           V == PushVals(L, TopVals(st, n))
<1>1. pc.at = "loop" /\ EnterBlock(st, b)
  BY DEF ReenterLoop
<1>2. /\ AbsStack = Seg(st, 0, st.idx + 1 - n) \o << LabelEntry(b) >>
                    \o Seg(st, st.idx + 1 - n, st.idx + 1)
      /\ AbsMode = Mode /\ b \in Blocks /\ HasVals(st, n) /\ Body(st, f)
  BY <1>1, AbsLoop DEF LoopingIs
<1>3. Active
  BY <1>1, PcCases
<1>4. CASE Throw(P) \/ Throw(V)
  BY <1>3, <1>4, ActiveMode, TrapMaps DEF Throw
<1>5. CASE ~Full(P) /\ ~Overflows(L, n) /\ Continue(V, Run)
  <2>1. /\ V.idx = st.idx + 1 /\ st.idx \in Int
        /\ Seg(V, 0, st.idx + 2) = Seg(st, 0, st.idx + 1 - n) \o << A!LabelOf(b) >>
                                   \o Seg(st, st.idx + 1 - n, st.idx + 1)
    BY <1>2, <1>5, Entered
  <2> HIDE DEF V
  <2>2. pc' = Run /\ st' = V /\ host' = host
    BY <1>5 DEF Continue
  <2>3. AbsStack' = Seg(V, 0, V.idx + 1) /\ AbsMode' = Mode'
    BY <2>2, AbsNext
  <2>4. Mode' = Mode /\ V.idx + 1 = st.idx + 2 /\ pc'.at = "run"
    BY <2>1, <2>2 DEF Mode, Run
  <2>5. LabelEntry(b) = A!LabelOf(b)
    BY DEF LabelEntry, A!LabelOf, A!L
  <2>6. UNCHANGED << AbsStack, AbsMode >>
    BY <1>2, <2>1, <2>3, <2>4, <2>5
  <2>7. QED
    BY <1>1, <2>4, <2>6, DoneMaps, SMTT(40)
<1>6. QED
  BY <1>1, <1>4, <1>5 DEF EnterBlock

-----------------------------------------------------------------------------
(* Returns.                                                                *)

\* The function has come to its end: its results are on top.
LEMMA ReturnsNow ==
    ASSUME IInv', NEW S, Continue(S, Return)
    PROVE  /\ AbsStack' = ReturnedAs(S, Outermost, Current.frame,
                                     Seg(S, S.idx + 1 - Current.arity, S.idx + 1))
           /\ AbsMode' = IF Outermost THEN "idle" ELSE Mode
           /\ pc'.at = "return"
<1>1. pc' = Return /\ st' = S /\ host' = host /\ calls' = calls
  BY DEF Continue
<1>2. (IInv /\ pc = Return =>
        /\ AbsStack = ReturnedAs(st, Outermost, Current.frame,
                                 Seg(st, st.idx + 1 - Current.arity, st.idx + 1))
        /\ AbsMode = IF Outermost THEN "idle" ELSE Mode)'
  BY AbsReturn, PTL
<1>3. Outermost' = Outermost /\ Current' = Current /\ Mode' = Mode
  BY <1>1 DEF Outermost, Current, Top, Mode
<1>4. QED
  BY <1>1, <1>2, <1>3 DEF Return, ReturnedAs, Seg

\* The current frame in the abstract stack that an instruction finds.
LEMMA FrameFound ==
    ASSUME IInv, AtInstr
    PROVE  LET i == Current.frame + 1
           IN  /\ i \in 1 .. A!Len0 /\ Current.frame \in Nat /\ Current.frame < st.idx
               /\ A!IsFrame(i)
               /\ AbsStack[i].arity = Current.arity /\ Current.arity \in Nat
               /\ AbsMode \in {"invoke", "inst"}
               /\ Outermost => AbsMode = "invoke" /\ i = 1
               /\ ~Outermost => AbsMode = "inst" \/ i > 1
<1> DEFINE f == Current.frame
           i == f + 1
           N == st.idx + 1
<1>1. /\ Body(st, f) /\ TypeOK /\ CallsOK /\ st.idx \in Int
      /\ Len(AbsStack) = N /\ AbsMode = Mode /\ Mode \in {"invoke", "inst"}
      /\ \A k \in 1 .. N : /\ AbsStack[k] = Entry(st.pool[k - 1])
                           /\ AbsStack[k].type = st.pool[k - 1].type
                           /\ st.pool[k - 1].type \in {"val", "label", "frame"}
  BY Found
<1>2. f \in Nat /\ f + 1 \in 0 .. st.idx /\ st.pool[f].type = "frame"
  BY <1>1, BodyLabel
<1>3. Top \in Nat /\ Top > 0 /\ Current.arity \in Nat /\ Current = calls[Top]
  BY <1>1, Types DEF CallsOK, Current
<1>4. st.pool[f].arity = Current.arity
  BY <1>1, <1>3 DEF CallsOK
<1>5. i \in 1 .. N /\ i - 1 = f
  BY <1>1, <1>2
<1>6. AbsStack[i].type = "frame" /\ AbsStack[i].arity = Current.arity
  <2>1. AbsStack[i] = Entry(st.pool[f]) /\ AbsStack[i].type = st.pool[f].type
    BY <1>1, <1>5
  <2>2. QED
    BY <1>2, <1>4, <2>1, EntryFields
<1>7. \A j \in i + 1 .. N : AbsStack[j].type # "frame"
  <2>1. \A j \in f + 1 .. st.idx : st.pool[j].type # "frame"
    BY <1>1 DEF Body, IsTop
  <2>2. \A j \in i + 1 .. N : j \in 1 .. N /\ j - 1 \in f + 1 .. st.idx
    BY <1>1, <1>2
  <2>3. QED
    BY <1>1, <2>1, <2>2
<1>8. Outermost => Mode = "invoke" /\ i = 1
  <2>1. calls[1].frame = 0 \/ host # "invoke"
    BY <1>1 DEF CallsOK
  <2>2. QED
    BY <1>3, <2>1 DEF Outermost, Mode
<1>9. ~Outermost => Mode = "inst" \/ i > 1
  <2>1. CASE host # "invoke"
    BY <2>1 DEF Mode
  <2>2. CASE host = "invoke" /\ Top > 1
    <3>1. calls[1].frame = 0 /\ calls[1].frame + 1 < calls[Top].frame
      BY <1>1, <1>3, <2>2 DEF CallsOK
    <3>2. QED
      BY <1>2, <1>3, <3>1
  <2>3. QED
    BY <1>3, <2>1, <2>2 DEF Outermost
<1>10. QED
  BY <1>1, <1>2, <1>3, <1>5, <1>6, <1>7, <1>8, <1>9 DEF A!IsFrame, A!Len0

\* A return to the caller, or to the host.
LEMMA LeaveFound ==
    ASSUME IInv, AtInstr, NEW c \in 0 .. 1, HasVals(st, c + Current.arity),
           AbsStack' = ReturnedAs(st, Outermost, Current.frame,
                            Seg(st, st.idx + 1 - c - Current.arity, st.idx + 1 - c)),
           AbsMode' = IF Outermost THEN "idle" ELSE Mode
    PROVE  A!Leave(c)
<1> DEFINE f == Current.frame
           i == f + 1
           n == Current.arity
           m == st.idx + 1 - c - n
           q == st.idx + 1 - c
           k == c + n
<1>1. /\ i \in 1 .. A!Len0 /\ f \in Nat /\ f < st.idx /\ A!IsFrame(i)
      /\ AbsStack[i].arity = n /\ n \in Nat
      /\ Outermost => AbsMode = "invoke" /\ i = 1
      /\ ~Outermost => AbsMode = "inst" \/ i > 1
  BY FrameFound
<1>2. st.idx \in Int /\ A!Len0 = st.idx + 1 /\ AbsMode = Mode /\ A!Running
  BY Found, RunningFound DEF A!Len0
<1>3. k \in Nat /\ c \in Int
  BY <1>1
<1>4. A!AreVals(k) /\ k <= st.idx + 1
  BY <1>3, ValsFound
<1> HIDE DEF n
<1>5. /\ m \in Int /\ q \in Int /\ 0 <= m /\ m <= q /\ q <= st.idx + 1
      /\ A!Len0 - c - n + 1 = m + 1 /\ A!Len0 - c = q
  BY <1>1, <1>2, <1>3, <1>4
<1> HIDE DEF m, q, k
<1>6. SubSeq(AbsStack, m + 1, q) = Seg(st, m, q)
  BY <1>5, PartFound
<1>7. f \in Int /\ 0 <= f /\ f <= st.idx + 1 /\ i - 1 = f
  BY <1>1, <1>2
<1>8. A!Upto(i - 1) = Seg(st, 0, f)
  BY <1>7, UptoFound
<1>9. \/ /\ AbsMode = "invoke" /\ i = 1
         /\ AbsStack' = <<>> /\ AbsMode' = "idle"
      \/ /\ AbsMode = "inst" \/ i > 1
         /\ AbsStack' = A!Upto(i - 1) \o SubSeq(AbsStack, A!Len0 - c - n + 1, A!Len0 - c)
         /\ UNCHANGED AbsMode
  <2>1. AbsStack' = ReturnedAs(st, Outermost, f, Seg(st, m, q))
    BY DEF m, q, n
  <2>2. CASE Outermost
    BY <1>1, <2>1, <2>2 DEF ReturnedAs
  <2>3. CASE ~Outermost
    BY <1>1, <1>2, <1>5, <1>6, <1>8, <2>1, <2>3 DEF ReturnedAs
  <2>4. QED
    BY <2>2, <2>3
<1>10. QED
  BY <1>1, <1>2, <1>4, <1>9 DEF A!Leave, k

\* The instruction return.
LEMMA ReturnInstrMaps ==
    ASSUME IInv, IInv', ReturnInstr
    PROVE  A!Next
<1> DEFINE c == 0
           n == Current.arity
<1>1. AtInstr /\ HasVals(st, n) /\ Continue(st, Return)
  BY DEF ReturnInstr
<1>2. n \in Nat /\ st.idx \in Int /\ pc.at = "run"
  BY <1>1, FrameFound, Found
<1>3. c \in 0 .. 1 /\ c + n = n /\ st.idx + 1 - c - n = st.idx + 1 - n /\ st.idx + 1 - c = st.idx + 1
  BY <1>2
<1> HIDE DEF c
<1>4. A!Leave(c)
  BY <1>1, <1>3, ReturnsNow, LeaveFound
<1>5. A!Instruction
  BY <1>4 DEF A!Instruction, c
<1>6. QED
  BY <1>2, <1>5, InstructionMaps

\* The activation has the arity of its frame.
LEMMA FrameArity ==
    ASSUME IInv, AtInstr
    PROVE  st.pool[Current.frame].arity = Current.arity
<1>1. TypeOK /\ CallsOK
  BY Found
<1>2. Top \in 1 .. Top
  BY <1>1, Types DEF CallsOK
<1>3. QED
  BY <1>1, <1>2 DEF CallsOK, Current

\* The end of a body leaves its block, or its function.
LEMMA EndMaps ==
    ASSUME IInv, IInv', End
    PROVE  A!Next
<1> DEFINE f == Current.frame
<1>1. PICK b \in Slots :
        /\ IsBase(st, b)
        /\ st.pool[b].type = "label"
        /\ st.idx - b = NumResults(st.pool[b])
        /\ Continue(PushVals(PopLabel(PopN(st, st.idx - b)), TopVals(st, st.idx - b)),
                    IF st.pool[b].parent = NULL THEN Return ELSE Run)
  BY DEF End
<1> DEFINE n == st.idx - b
           vals == TopVals(st, n)
           P == PopN(st, n)
           T == PopLabel(P)
           R == PushVals(T, vals)
           N == st.idx + 1
<1>2. /\ AtInstr /\ Active /\ CallsOK /\ Body(st, f) /\ st \in Stack /\ pc.at = "run"
      /\ st.idx \in Int /\ N \in Nat /\ N <= NumSlots /\ NumSlots \in Int
      /\ Len(AbsStack) = N
      /\ \A i \in 1 .. N : /\ AbsStack[i] = Entry(st.pool[i - 1])
                           /\ AbsStack[i].type = st.pool[i - 1].type
  BY Found DEF End
<1>3. /\ b \in Nat /\ n \in Nat /\ HasVals(st, n)
      /\ Body(P, f) /\ P.idx = b /\ Agree(st, P)
      /\ P.pool[P.idx].type = "label" /\ P.pool[P.idx] = st.pool[b]
      /\ vals \in Seq(Val) /\ Len(vals) = n
  BY <1>1, <1>2, BaseOK
<1>4. Repushed(vals) = Seg(st, b + 1, N)
  <2>1. Repushed(vals) = Seg(st, st.idx + 1 - n, st.idx + 1)
    BY <1>2, <1>3, SegPopped
  <2>2. st.idx + 1 - n = b + 1
    BY <1>2, <1>3
  <2>3. QED
    BY <2>1, <2>2
<1>5. n = NumResults(st.pool[b]) /\ n = st.idx - b
      /\ Continue(R, IF st.pool[b].parent = NULL THEN Return ELSE Run)
  BY <1>1
<1> HIDE DEF n, vals, P
<1>6. /\ T \in Stack /\ WellFormed(T) /\ IsTop(T, "frame", f)
      /\ T.idx = b - 1 /\ Agree(P, T)
      /\ IF st.pool[b].parent = NULL
         THEN T.idx = f /\ st.pool[b].arity = P.pool[f].arity
         ELSE Body(T, f)
  BY <1>3, BodyExit, ZenonT(40)
<1> HIDE DEF T
<1>7. Agree(st, T) /\ ~Overflows(T, Len(vals)) /\ T.idx + 1 = b /\ T.idx \in Int
      /\ T.idx + Len(vals) = st.idx - 1
  <2>1. T.idx = b - 1 /\ P.idx = b /\ Len(vals) = st.idx - b
    BY <1>3, <1>5, <1>6
  <2>2. T.idx + 1 = b /\ T.idx \in Int /\ T.idx + Len(vals) = st.idx - 1
    BY <1>2, <1>3, <2>1
  <2>3. ~Overflows(T, Len(vals))
    BY <1>2, <2>2 DEF Overflows
  <2>4. \A i \in 0 .. T.idx : i \in 0 .. P.idx
    BY <1>3, <2>1
  <2>5. Agree(st, T)
    BY <1>3, <1>6, <2>4 DEF Agree
  <2>6. QED
    BY <2>2, <2>3, <2>5
<1>8. /\ R.idx = st.idx - 1 /\ Agree(R, T)
      /\ Seg(R, 0, T.idx + Len(vals) + 1) = Seg(T, 0, T.idx + 1) \o Repushed(vals)
      /\ Seg(R, T.idx + 1, T.idx + Len(vals) + 1) = Repushed(vals)
  BY <1>3, <1>6, <1>7, PushValsType, SegPush, SegPushed
<1>9. Seg(T, 0, b) = Seg(st, 0, b)
  <2>1. b \in Int /\ b <= T.idx + 1
    BY <1>3, <1>7
  <2>2. QED
    BY <1>7, <2>1, SegLow
<1> HIDE DEF R, N
<1>10. /\ Seg(R, 0, st.idx) = Seg(st, 0, b) \o Seg(st, b + 1, N)
       /\ Seg(R, b, st.idx) = Seg(st, b + 1, N)
  <2>1. T.idx + Len(vals) + 1 = st.idx
    BY <1>2, <1>7
  <2>2. QED
    BY <1>4, <1>7, <1>8, <1>9, <2>1
<1>11. CASE st.pool[b].parent # NULL
  <2> DEFINE i == b + 1
  <2>1. i \in 1 .. N /\ i - 1 = b /\ i \in Int /\ 0 <= i /\ i <= N
    BY <1>2, <1>3, <1>5 DEF N
  <2>2. AbsStack[i].type = "label" /\ AbsStack[i].parent = st.pool[b].parent
    BY <1>1, <1>2, <2>1, EntryFields
  <2>3. \A j \in i + 1 .. N : AbsStack[j].type = "val"
    <3>1. \A j \in i + 1 .. N : j \in 1 .. N /\ j - 1 \in b + 1 .. st.idx
      BY <1>2, <2>1 DEF N
    <3>2. QED
      BY <1>1, <1>2, <3>1 DEF IsBase
  <2>4. A!IsLabel(0, i)
    <3>1. \A j \in i + 1 .. A!Len0 : AbsStack[j].type = "val"
      BY <1>2, <2>3 DEF A!Len0
    <3> HIDE DEF i
    <3>2. /\ \A j \in i + 1 .. A!Len0 : AbsStack[j].type # "frame"
          /\ {j \in i + 1 .. A!Len0 : AbsStack[j].type = "label"} = {}
      BY <3>1
    <3>3. Cardinality({j \in i + 1 .. A!Len0 : AbsStack[j].type = "label"}) = 0
      BY <3>2, FS_EmptySet
    <3>4. QED
      BY <2>2, <3>2, <3>3, CountsAlike DEF A!IsLabel
  <2>5. A!Len0 - i = AbsStack[i].parent.rt2
    <3>1. n = AbsStack[i].parent.rt2
      BY <1>5, <1>11, <2>2 DEF NumResults
    <3>2. A!Len0 = N
      BY <1>2 DEF A!Len0
    <3>3. QED
      BY <1>2, <1>3, <1>5, <3>1, <3>2, SMTT(40) DEF N
  <2>6. A!Upto(i - 1) = Seg(st, 0, b)
    <3>1. b \in Int /\ 0 <= b /\ b <= st.idx + 1
      BY <1>2, <1>3, <2>1 DEF N
    <3>2. QED
      BY <1>2, <2>1, <3>1, UptoFound
  <2>7. A!Last(A!Len0 - i) = Seg(st, i, N)
    <3>1. A!Len0 = N /\ N + 1 - (N - i) = i + 1 /\ N <= st.idx + 1 /\ N \in Int
      BY <1>2, <2>1 DEF A!Len0, N
    <3> HIDE DEF i
    <3>2. SubSeq(AbsStack, i + 1, N) = Seg(st, i, N)
      BY <1>2, <2>1, <3>1, PartFound
    <3>3. QED
      BY <3>1, <3>2 DEF A!Last
  <2>8. AbsStack' = Seg(R, 0, R.idx + 1) /\ UNCHANGED AbsMode
    BY <1>2, <1>5, <1>11, RunsOn
  <2>9. R.idx + 1 = st.idx
    BY <1>2, <1>8
  <2>10. A!Exit
    <3>1. AbsStack' = A!Upto(i - 1) \o A!Last(A!Len0 - i)
      BY <1>10, <2>6, <2>7, <2>8, <2>9
    <3>2. i \in 1 .. A!Len0 /\ A!Running /\ AbsStack[i].parent # NULL
      BY <1>2, <1>11, <2>1, <2>2, RunningFound DEF A!Len0
    <3>3. QED
      BY <2>4, <2>5, <2>8, <3>1, <3>2 DEF A!Exit
  <2>11. A!Instruction
    BY <2>10 DEF A!Instruction
  <2>12. QED
    BY <1>2, <2>11, InstructionMaps
<1>12. CASE st.pool[b].parent = NULL
  <2> DEFINE c == 0
             a == Current.arity
  <2>1. a = n
    <3>1. f \in 0 .. P.idx /\ f \in 0 .. T.idx
      BY <1>3, <1>6, <1>12, BodyLabel DEF IsTop, SlotsOf
    <3>2. P.pool[f] = st.pool[f]
      BY <1>3, <3>1 DEF Agree
    <3>3. st.pool[f].arity = a
      BY <1>2, FrameArity
    <3>4. n = P.pool[f].arity
      BY <1>5, <1>6, <1>12 DEF NumResults
    <3>5. QED
      BY <3>2, <3>3, <3>4
  <2>2. /\ c \in 0 .. 1 /\ c + a = n /\ st.idx + 1 - c - a = b + 1 /\ st.idx + 1 - c = N
        /\ R.idx + 1 - a = b /\ R.idx + 1 = st.idx /\ b = f + 1 /\ f \in Int /\ f <= R.idx + 1
    <3>1. f \in Int /\ T.idx = f
      BY <1>2, <1>6, <1>12, BodyLabel
    <3>2. R.idx = st.idx - 1 /\ n = st.idx - b /\ T.idx = b - 1 /\ st.idx \in Int /\ n \in Nat /\ b \in Nat
      BY <1>2, <1>3, <1>5, <1>6, <1>8
    <3>3. QED
      BY <2>1, <3>1, <3>2 DEF N
  <2> HIDE DEF c, a
  <2>3. AbsStack' = ReturnedAs(R, Outermost, f, Seg(R, R.idx + 1 - a, R.idx + 1))
        /\ AbsMode' = IF Outermost THEN "idle" ELSE Mode
    BY <1>5, <1>12, ReturnsNow DEF a
  <2>4. Seg(R, 0, f) = Seg(st, 0, f)
    <3>1. f <= T.idx + 1
      BY <1>7, <2>2
    <3>2. Seg(T, 0, f) = Seg(R, 0, f)
      BY <1>7, <1>8, <2>2, <3>1, SegLow
    <3>3. Seg(T, 0, f) = Seg(st, 0, f)
      BY <1>7, <2>2, <3>1, SegLow
    <3>4. QED
      BY <3>2, <3>3
  <2>5. AbsStack' = ReturnedAs(st, Outermost, f, Seg(st, st.idx + 1 - c - a, st.idx + 1 - c))
    BY <1>10, <2>2, <2>3, <2>4 DEF ReturnedAs
  <2>6. A!Leave(c)
    BY <1>2, <1>3, <2>2, <2>3, <2>5, LeaveFound DEF a
  <2>7. A!Instruction
    BY <2>6 DEF A!Instruction, c
  <2>8. QED
    BY <1>2, <2>7, InstructionMaps
<1>13. QED
  BY <1>11, <1>12

-----------------------------------------------------------------------------
(* Branches.                                                               *)

\* Moving a set by one does not change its size.
LEMMA ShiftCount ==
    ASSUME NEW S \in SUBSET Int, IsFiniteSet(S), NEW T \in SUBSET Int,
           \A j \in Int : j \in T <=> j - 1 \in S
    PROVE  Cardinality(T) = Cardinality(S)
<1> DEFINE F == [i \in S |-> i + 1]
<1>1. \A i \in S : i + 1 \in T /\ F[i] = i + 1
  OBVIOUS
<1>2. \A a, b \in S : F[a] = F[b] => a = b
  BY <1>1
<1>3. \A j \in T : j - 1 \in S /\ F[j - 1] = j
  BY <1>1
<1>4. F \in [S -> T]
  BY <1>1
<1> HIDE DEF F
<1>5. F \in Injection(S, T) /\ F \in Surjection(S, T)
  BY <1>2, <1>3, <1>4 DEF Injection, Surjection, IsInjective
<1>6. ExistsBijection(S, T)
  BY <1>5 DEF Bijection, ExistsBijection
<1>7. QED
  BY <1>6, FS_Bijection

\* The label that list_get_elem finds, seen in the abstract stack.
LEMMA LabelFound ==
    ASSUME IInv, AtInstr, NEW l \in Nat, NEW walk, IsWalk(st, l, walk)
    PROVE  LET t == walk[l]
               i == t + 1
           IN  /\ t \in OwnLabels(st) /\ t \in Nat /\ t \in 0 .. st.idx
               /\ i \in 1 .. A!Len0 /\ A!IsLabel(l, i)
               /\ AbsStack[i] = Entry(st.pool[t])
               /\ AbsStack[i].arity = st.pool[t].arity
               /\ AbsStack[i].parent = st.pool[t].parent
               /\ l \in 0 .. A!Len0
<1> DEFINE t == walk[l]
           i == t + 1
           N == st.idx + 1
           above == {j \in OwnLabels(st) : j > t}
<1>1. /\ st \in Stack /\ WellFormed(st) /\ st.idx \in Int /\ N \in Nat /\ A!Len0 = N
      /\ \A k \in 1 .. N : /\ AbsStack[k] = Entry(st.pool[k - 1])
                           /\ AbsStack[k].type = st.pool[k - 1].type
  BY Found DEF Body, A!Len0
<1>2. t \in OwnLabels(st) /\ Cardinality(above) = l
  BY <1>1, WalkTarget
<1>3. /\ IsFiniteSet(OwnLabels(st)) /\ OwnLabels(st) \subseteq 0 .. st.idx
      /\ IsFiniteSet(above)
  BY <1>1, OwnIs
<1>4. t \in 0 .. st.idx /\ t \in Nat /\ st.pool[t].type = "label"
      /\ \A f \in SlotsOf(st, "frame") : f < t
  BY <1>2, <1>3 DEF OwnLabels, SlotsOf
<1>5. i \in 1 .. N /\ i - 1 = t
  BY <1>1, <1>4
<1>6. AbsStack[i] = Entry(st.pool[t]) /\ AbsStack[i].type = "label"
  BY <1>1, <1>4, <1>5
<1>7. AbsStack[i].arity = st.pool[t].arity /\ AbsStack[i].parent = st.pool[t].parent
  BY <1>4, <1>6, EntryFields
<1>8. \A j \in i + 1 .. N : j \in 1 .. N /\ j \in Int /\ j - 1 \in 0 .. st.idx /\ t < j - 1
  BY <1>1, <1>5, <1>4
<1> HIDE DEF t, i, N
<1>9. \A j \in i + 1 .. N : AbsStack[j].type # "frame"
  <2>1. ASSUME NEW j \in i + 1 .. N, st.pool[j - 1].type = "frame" PROVE FALSE
    <3>1. j - 1 \in SlotsOf(st, "frame")
      BY <1>8, <2>1 DEF SlotsOf
    <3>2. j - 1 < t /\ t < j - 1 /\ j - 1 \in Int /\ t \in Int
      BY <1>4, <1>8, <3>1
    <3>3. QED
      BY <3>2
  <2>2. QED
    BY <1>1, <1>8, <2>1
<1>10. Cardinality({j \in i + 1 .. N : AbsStack[j].type = "label"}) = l
  <2> DEFINE T == {j \in i + 1 .. N : AbsStack[j].type = "label"}
  <2>1. T \in SUBSET Int /\ above \in SUBSET Int
    BY <1>3, <1>8
  <2>2. ASSUME NEW j \in Int
        PROVE  j \in T <=> j - 1 \in above
    <3>1. CASE j \in T
      <4>1. j \in i + 1 .. N /\ AbsStack[j].type = "label" /\ st.pool[j - 1].type = "label"
        BY <1>1, <1>8, <3>1
      <4>2. j - 1 \in SlotsOf(st, "label") /\ j - 1 > t
        BY <1>8, <4>1 DEF SlotsOf
      <4>3. \A f \in SlotsOf(st, "frame") : f < j - 1
        <5>1. \A f \in SlotsOf(st, "frame") : f \in Int
          BY DEF SlotsOf
        <5>2. QED
          BY <1>4, <4>2, <5>1
      <4>4. j - 1 \in above
        BY <4>2, <4>3 DEF OwnLabels
      <4>5. QED
        BY <3>1, <4>4
    <3>2. CASE j - 1 \in above
      <4>1. j - 1 \in 0 .. st.idx /\ j - 1 > t /\ st.pool[j - 1].type = "label"
        BY <1>3, <3>2 DEF OwnLabels, SlotsOf
      <4>2. j \in i + 1 .. N /\ j \in 1 .. N
        BY <1>1, <1>4, <4>1 DEF i, N
      <4>3. AbsStack[j].type = "label"
        BY <1>1, <4>1, <4>2
      <4>4. QED
        BY <3>2, <4>2, <4>3
    <3>3. QED
      BY <3>1, <3>2
  <2> HIDE DEF T, above
  <2>3. Cardinality(T) = Cardinality(above)
    BY <1>3, <2>1, <2>2, ShiftCount
  <2>4. QED
    BY <1>2, <2>3 DEF T
<1>11. A!IsLabel(l, i)
  <2>1. A!Len0 = N
    BY <1>1
  <2>2. \A j \in i + 1 .. A!Len0 : AbsStack[j].type # "frame"
    BY <1>9, <2>1
  <2>3. Cardinality({j \in i + 1 .. A!Len0 : AbsStack[j].type = "label"}) = l
    BY <1>10, <2>1
  <2>4. QED
    BY <1>6, <2>2, <2>3, CountsAlike DEF A!IsLabel
<1>12. l \in 0 .. N
  <2> DEFINE top == st.idx
  <2>1. above \in SUBSET (0 .. top) /\ top \in Nat /\ 0 \in Int
    BY <1>1, <1>3, <1>4
  <2> HIDE DEF above, top
  <2>2. IsFiniteSet(0 .. top) /\ Cardinality(0 .. top) = top + 1
    BY <2>1, FS_Interval
  <2>3. Cardinality(above) <= Cardinality(0 .. top) /\ Cardinality(above) \in Nat
    BY <2>1, <2>2, FS_Subset, FS_CardinalityType
  <2>4. QED
    BY <1>1, <1>2, <2>1, <2>2, <2>3 DEF N, top
<1>13. QED
  BY <1>1, <1>2, <1>4, <1>5, <1>6, <1>7, <1>11, <1>12 DEF t, i

\* A label without a block is the function's own; its arity is the frame's.
LEMMA FunctionLabel ==
    ASSUME IInv, AtInstr, NEW t \in OwnLabels(st)
    PROVE  /\ st.pool[t].arity \in Nat /\ st.pool[t].parent \in Blocks \cup {NULL}
           /\ IF st.pool[t].parent = NULL
              THEN st.pool[t].arity = Current.arity
              ELSE st.pool[t].arity = LabelArity(st.pool[t].parent)
<1> DEFINE f == Current.frame
           obj == st.pool[t]
<1>1. Body(st, f) /\ st \in Stack /\ WellFormed(st) /\ TypeOK /\ CallsOK /\ st.idx \in Int
  BY Found DEF Body
<1>2. /\ t \in 0 .. st.idx /\ t \in Slots /\ obj.type = "label"
      /\ \A j \in SlotsOf(st, "frame") : j < t
  BY <1>1, OwnIs DEF OwnLabels, SlotsOf
<1>3. obj \in Objs
  BY <1>1, <1>2, StackFields
<1>4. obj.arity \in Arities /\ obj.parent \in Blocks \cup {NULL}
  BY <1>2, <1>3 DEF Objs, ValObj, LabelObj, FrameObj, FreeObj
<1>5. EntryOK(st, t) /\ EntryOK(st, 0)
  BY <1>1, <1>2 DEF WellFormed
<1>6. CASE obj.parent = NULL
  <2>1. st.pool[t - 1].type = "frame" /\ st.pool[t - 1].arity = obj.arity
    BY <1>2, <1>5, <1>6 DEF EntryOK
  <2>2. t # 0
    BY <1>2, <1>5 DEF EntryOK
  <2>3. t - 1 \in SlotsOf(st, "frame")
    BY <1>1, <1>2, <2>1, <2>2 DEF SlotsOf
  <2>4. f \in SlotsOf(st, "frame") /\ \A j \in f + 1 .. st.idx : st.pool[j].type # "frame"
    BY <1>1 DEF Body, IsTop
  <2>5. t - 1 = f
    <3>1. f < t /\ f \in Int /\ ~(t - 1 \in f + 1 .. st.idx)
      BY <1>2, <2>1, <2>4 DEF SlotsOf
    <3>2. QED
      BY <1>1, <1>2, <3>1
  <2>6. st.pool[f].arity = Current.arity
    BY FrameArity
  <2>7. QED
    BY <1>4, <1>6, <2>1, <2>5, <2>6, MaxArityAssumption DEF Arities
<1>7. CASE obj.parent # NULL
  <2>1. obj.arity = LabelArity(obj.parent)
    BY <1>2, <1>5, <1>7 DEF EntryOK
  <2>2. QED
    BY <1>4, <1>7, <2>1, MaxArityAssumption DEF Arities
<1>8. QED
  BY <1>6, <1>7

\* The branch is under way: what it will leave is settled.
LEMMA UnwindsNow ==
    ASSUME IInv', NEW S, NEW left, NEW vals, NEW parent,
           Continue(S, Unwinding(left, vals, parent)), NEW m, NEW q, Goes(m, q)'
    PROVE  /\ AbsStack' = IF q = NULL
                          THEN ReturnedAs(S, Outermost, Current.frame, Repushed(vals))
                          ELSE BranchedAs(S, m, q, Repushed(vals))
           /\ AbsMode' = IF q = NULL /\ Outermost THEN "idle" ELSE Mode
           /\ pc'.at = "unwind"
<1>1. pc' = Unwinding(left, vals, parent) /\ st' = S /\ host' = host /\ calls' = calls
  BY DEF Continue
<1>2. pc'.at = "unwind" /\ pc'.vals = vals
  BY <1>1 DEF Unwinding
<1>3. UnwindingIs'
  BY AbsUnwind, PTL
<1>4. Outermost' = Outermost /\ Current' = Current /\ Mode' = Mode
  BY <1>1 DEF Outermost, Current, Top, Mode
<1>5. /\ AbsStack' = IF q = NULL
                     THEN ReturnedAs(st, Outermost, Current.frame, Repushed(pc.vals))'
                     ELSE BranchedAs(st, m, q, Repushed(pc.vals))'
      /\ AbsMode' = IF q = NULL /\ Outermost' THEN "idle" ELSE Mode'
  BY <1>2, <1>3 DEF UnwindingIs
<1>6. /\ ReturnedAs(st, Outermost, Current.frame, Repushed(pc.vals))'
            = ReturnedAs(S, Outermost, Current.frame, Repushed(vals))
      /\ BranchedAs(st, m, q, Repushed(pc.vals))' = BranchedAs(S, m, q, Repushed(vals))
  BY <1>1, <1>2, <1>4, SMTT(40) DEF ReturnedAs, BranchedAs, Seg
<1>7. QED
  BY <1>2, <1>4, <1>5, <1>6

\* What a branch does in the execution model: to a block or a loop ...
LEMMA BranchFound ==
    ASSUME IInv, AtInstr, NEW l \in Nat, NEW walk, IsWalk(st, l, walk), NEW c \in 0 .. 1,
           HasVals(st, c + st.pool[walk[l]].arity),
           st.pool[walk[l]].parent # NULL,
           AbsStack' = BranchedAs(st, walk[l], st.pool[walk[l]].parent,
                            Seg(st, st.idx + 1 - c - st.pool[walk[l]].arity, st.idx + 1 - c)),
           UNCHANGED AbsMode
    PROVE  A!Branch(l, c)
<1> DEFINE t == walk[l]
           i == t + 1
           obj == st.pool[t]
           n == obj.arity
           b == obj.parent
           m == st.idx + 1 - c - n
           q == st.idx + 1 - c
           k == c + n
<1>1. /\ t \in OwnLabels(st) /\ t \in Nat /\ t \in 0 .. st.idx
      /\ i \in 1 .. A!Len0 /\ A!IsLabel(l, i)
      /\ AbsStack[i] = Entry(obj) /\ AbsStack[i].arity = n /\ AbsStack[i].parent = b
  BY LabelFound
<1>2. n \in Nat /\ b # NULL /\ n = LabelArity(b)
  BY <1>1, FunctionLabel
<1>3. st.idx \in Int /\ A!Len0 = st.idx + 1 /\ A!Running
  BY Found, RunningFound DEF A!Len0
<1>4. obj.type = "label"
  BY <1>1, SMTT(40) DEF OwnLabels, SlotsOf
<1>5. AbsStack' = Seg(st, 0, t) \o (IF b.op = "loop" THEN << LabelEntry(b) >> ELSE <<>>)
                  \o Seg(st, m, q)
  BY ZenonT(40) DEF BranchedAs
<1>6. A!AreVals(k) /\ k <= st.idx + 1 /\ k \in Nat
  BY <1>2, ValsFound
<1> HIDE DEF n, b, obj, t
<1>7. /\ m \in Int /\ q \in Int /\ 0 <= m /\ m <= q /\ q <= st.idx + 1
      /\ A!Len0 - c - n + 1 = m + 1 /\ A!Len0 - c = q
  BY <1>2, <1>3, <1>6
<1> HIDE DEF m, q, k
<1>8. SubSeq(AbsStack, m + 1, q) = Seg(st, m, q)
  BY <1>7, PartFound
<1>9. /\ i \in Int /\ 0 <= i /\ i <= st.idx + 1 /\ i - 1 = t
      /\ t \in Int /\ 0 <= t /\ t <= st.idx + 1
  BY <1>1, <1>3
<1>10. A!Upto(t) = Seg(st, 0, t)
  BY <1>9, UptoFound
<1>11. A!Upto(i) = Seg(st, 0, t) \o << LabelEntry(b) >>
  <2>1. A!Upto(i) = Seg(st, 0, i)
    <3> HIDE DEF i
    <3>1. QED
      BY <1>9, UptoFound
  <2>2. Seg(st, 0, t) \o Seg(st, t, i) = Seg(st, 0, i)
    <3> DEFINE z == 0
    <3>1. z \in Int /\ z <= t /\ t <= i
      BY <1>9
    <3> HIDE DEF i, z
    <3>2. Seg(st, z, t) \o Seg(st, t, i) = Seg(st, z, i)
      BY <1>9, <3>1, SegJoin, ZenonT(40)
    <3>3. QED
      BY <3>2 DEF z
  <2>3. Seg(st, t, i) = << Entry(obj) >>
    BY <1>9, SegOne DEF obj
  <2>4. Entry(obj) = LabelEntry(b)
    BY <1>2, <1>4 DEF Entry, LabelEntry, LabelArity, n, b
  <2>5. QED
    BY <2>1, <2>2, <2>3, <2>4
<1>12. Seg(st, 0, t) \o <<>> = Seg(st, 0, t)
  <2> DEFINE z == 0
  <2>1. z \in Int /\ z <= t
    BY <1>9
  <2> HIDE DEF z
  <2>2. Seg(st, z, t) \in Seq(EntsOf(st))
    BY <1>9, <2>1, SegType, SMTT(40)
  <2>3. QED
    BY <2>2, ConcatEmptySeq DEF z
<1>13. AbsStack' = (IF b.op = "loop" THEN A!Upto(i) ELSE A!Upto(i - 1))
                   \o SubSeq(AbsStack, A!Len0 - c - n + 1, A!Len0 - c)
  <2>1. A!Upto(i - 1) = Seg(st, 0, t)
    BY <1>9, <1>10
  <2> HIDE DEF i
  <2>2. QED
    BY <1>5, <1>7, <1>8, <1>11, <1>12, <2>1, ZenonT(40)
<1>14. QED
  <2> HIDE DEF i
  <2>1. /\ A!AreVals(c + AbsStack[i].arity) /\ AbsStack[i].parent # NULL
        /\ AbsStack' = (IF AbsStack[i].parent.op = "loop" THEN A!Upto(i) ELSE A!Upto(i - 1))
                       \o SubSeq(AbsStack, A!Len0 - c - AbsStack[i].arity + 1, A!Len0 - c)
    BY <1>1, <1>2, <1>6, <1>13, ZenonT(40) DEF k
  <2>2. QED
    BY <1>1, <1>3, <2>1, ZenonT(40) DEF A!Branch

\* ... or out of the function.
LEMMA BranchOut ==
    ASSUME IInv, AtInstr, NEW l \in Nat, NEW walk, IsWalk(st, l, walk), NEW c \in 0 .. 1,
           HasVals(st, c + st.pool[walk[l]].arity),
           st.pool[walk[l]].parent = NULL,
           A!Leave(c)
    PROVE  A!Branch(l, c)
<1> DEFINE t == walk[l]
           i == t + 1
           n == st.pool[t].arity
<1>1. /\ t \in OwnLabels(st)
      /\ i \in 1 .. A!Len0 /\ A!IsLabel(l, i)
      /\ AbsStack[i].arity = n /\ AbsStack[i].parent = NULL
  BY LabelFound
<1>2. n \in Nat
  BY <1>1, FunctionLabel
<1>3. A!AreVals(c + n) /\ A!Running
  BY <1>2, ValsFound, RunningFound
<1> HIDE DEF i, n
<1>4. QED
  BY <1>1, <1>3 DEF A!Branch

\* A br, br_if or br_table is the branch of the execution model as soon as it has
\* found its label; the loop that follows only catches up with it.
LEMMA BrMaps ==
    ASSUME IInv, IInv', NEW l \in 0 .. NumSlots, NEW c \in 0 .. 1, Br(l, c)
    PROVE  A!Branch(l, c) /\ A!Next
<1> DEFINE f == Current.frame
<1>1. PICK walk \in [0 .. l -> OwnLabels(st)] :
        /\ IsWalk(st, l, walk)
        /\ HasVals(st, c + st.pool[walk[l]].arity)
        /\ Continue(PopN(st, c + st.pool[walk[l]].arity),
                    Unwinding(l + 1, TopVals(PopN(st, c), st.pool[walk[l]].arity), NULL))
  BY DEF Br
<1> DEFINE t == walk[l]
           n == st.pool[t].arity
           k == c + n
           P == PopN(st, c)
           S == PopN(st, k)
           vals == TopVals(P, n)
<1>2. /\ AtInstr /\ Active /\ CallsOK /\ TypeOK /\ Body(st, f) /\ st \in Stack /\ l \in Nat
      /\ c \in Nat /\ st.idx \in Int /\ pc.at = "run" /\ AbsMode = Mode
  BY Found, NumSlotsAssumption DEF Br, Body
<1>3. t \in OwnLabels(st) /\ t \in 0 .. st.idx /\ l \in 0 .. A!Len0
  BY <1>1, <1>2, LabelFound
<1>4. /\ n \in Nat /\ st.pool[t].parent \in Blocks \cup {NULL}
      /\ st.pool[t].parent = NULL => n = Current.arity
  BY <1>2, <1>3, FunctionLabel
<1>5. PICK p : p = st.pool[t].parent
  OBVIOUS
<1>6. HasVals(st, k) /\ Continue(S, Unwinding(l + 1, vals, NULL))
  BY <1>1
<1> HIDE DEF n
<1>7. k \in Nat /\ HasVals(st, c) /\ k <= st.idx + 1 /\ k = c + n
  BY <1>2, <1>4, <1>6 DEF HasVals
<1> HIDE DEF k, S, P, vals
<1>8. Body(P, f) /\ P.idx = st.idx - c /\ Agree(st, P)
  BY <1>2, <1>7, BodyPop DEF P
<1>9. HasVals(P, n)
  <2>1. n \in Int /\ c \in Int /\ P.idx = st.idx - c /\ c + n <= st.idx + 1
    BY <1>2, <1>4, <1>7, <1>8
  <2>2. /\ n <= P.idx + 1
        /\ \A i \in P.idx + 1 - n .. P.idx : i \in st.idx + 1 - (c + n) .. st.idx /\ i \in 0 .. P.idx
    BY <1>2, <2>1, SMTT(40)
  <2>3. QED
    BY <1>6, <1>7, <1>8, <2>2 DEF HasVals, Agree
<1>10. Body(S, f) /\ S.idx = st.idx - k /\ S.labels = st.labels /\ Agree(st, S)
  BY <1>2, <1>6, <1>7, BodyPop DEF S
<1>11. S \in Stack /\ S.idx <= st.idx /\ \A i \in S.idx + 1 .. st.idx : st.pool[i].type = "val"
  BY <1>2, <1>6, <1>7, <1>10 DEF HasVals, Body
<1>12. IsWalk(S, l, walk) /\ S.pool[t] = st.pool[t]
  BY <1>1, <1>2, <1>10, <1>11, WalkKept
<1>13. Goes(t, p)'
  <2>1. st' = S /\ pc'.left = l + 1 /\ (l + 1) - 1 = l /\ l + 1 # 0
    BY <1>2, <1>6 DEF Continue, Unwinding
  <2>2. walk \in [0 .. l -> OwnLabels(S)]
    BY <1>12 DEF IsWalk
  <2> HIDE DEF t
  <2>3. \E w \in [0 .. pc'.left - 1 -> OwnLabels(st')] :
            /\ IsWalk(st', pc'.left - 1, w)
            /\ t = w[pc'.left - 1]
            /\ p = st'.pool[t].parent
    BY <1>5, <1>12, <2>1, <2>2 DEF t
  <2>4. QED
    BY <2>1, <2>3 DEF Goes
<1>14. /\ AbsStack' = IF p = NULL
                      THEN ReturnedAs(S, Outermost, f, Repushed(vals))
                      ELSE BranchedAs(S, t, p, Repushed(vals))
       /\ AbsMode' = IF p = NULL /\ Outermost THEN "idle" ELSE Mode
  BY <1>6, <1>13, UnwindsNow
<1>15. Repushed(vals) = Seg(st, st.idx + 1 - c - n, st.idx + 1 - c)
  <2> DEFINE a == P.idx + 1 - n
             d == P.idx + 1
  <2>1. Repushed(vals) = Seg(P, a, d)
    BY <1>4, <1>8, <1>9, SegPopped DEF vals, Body
  <2>2. /\ a \in Int /\ d \in Int /\ 0 <= a /\ d <= P.idx + 1 /\ P.idx \in Int
        /\ st.idx + 1 - c - n = a /\ st.idx + 1 - c = d
    BY <1>2, <1>4, <1>7, <1>8, SMTT(40)
  <2> HIDE DEF a, d
  <2>3. Seg(P, a, d) = Seg(st, a, d)
    BY <1>8, <2>2, SegAgree
  <2>4. QED
    BY <2>1, <2>2, <2>3
<1>16. ASSUME NEW j \in Int, j <= S.idx + 1
       PROVE  Seg(S, 0, j) = Seg(st, 0, j)
  <2>1. S.idx \in Int
    BY <1>2, <1>7, <1>10
  <2>2. QED
    BY <1>10, <1>16, <2>1, SegLow
<1>17. A!Branch(l, c)
  <2>1. CASE p = NULL
    <3>1. f \in Int /\ f <= S.idx + 1
      BY <1>10, BodyLabel
    <3>2. AbsStack' = ReturnedAs(st, Outermost, f, Seg(st, st.idx + 1 - c - n, st.idx + 1 - c))
      BY <1>14, <1>15, <1>16, <2>1, <3>1 DEF ReturnedAs
    <3>3. n = Current.arity
      BY <1>4, <1>5, <2>1
    <3>4. A!Leave(c)
      BY <1>2, <1>6, <1>7, <1>14, <2>1, <3>2, <3>3, LeaveFound, SMTT(40)
    <3>5. QED
      BY <1>1, <1>2, <1>5, <2>1, <3>4, BranchOut
  <2>2. CASE p # NULL
    <3>1. t \in Int /\ t <= S.idx + 1
      <4>1. t \in 0 .. S.idx
        BY <1>10, <1>12, OwnIs DEF IsWalk, Body
      <4>2. S.idx \in Int
        BY <1>2, <1>7, <1>10
      <4> HIDE DEF t
      <4>3. QED
        BY <4>1, <4>2
    <3>2. AbsStack' = BranchedAs(st, t, p, Seg(st, st.idx + 1 - c - n, st.idx + 1 - c))
      BY <1>14, <1>15, <1>16, <2>2, <3>1 DEF BranchedAs
    <3>3. UNCHANGED AbsMode
      BY <1>2, <1>14, <2>2
    <3>4. QED
      BY <1>1, <1>2, <1>5, <2>2, <3>2, <3>3, BranchFound DEF n
  <2>3. QED
    BY <2>1, <2>2
<1>18. A!Instruction
  BY <1>3, <1>17 DEF A!Instruction
<1>19. QED
  BY <1>2, <1>17, <1>18, InstructionMaps

\* Popping a label changes nothing of what the branch will leave.
LEMMA UnwindMaps ==
    ASSUME IInv, IInv', Unwind
    PROVE  UNCHANGED A!avars
<1> DEFINE f == Current.frame
           l == pc.left - 1
           vals == pc.vals
<1>1. pc.at = "unwind" /\ pc.left > 0
  BY DEF Unwind
<1>2. /\ Active /\ st \in Stack /\ WellFormed(st) /\ IsTop(st, "frame", f)
      /\ l \in Nat /\ pc.left = l + 1
  BY <1>1, AtUnwind
<1>3. PICK walk \in [0 .. l -> OwnLabels(st)] : IsWalk(st, l, walk)
  BY <1>1, AtUnwind
<1>4. PICK b \in Slots :
        /\ IsBase(st, b)
        /\ Continue(PopLabel(PopN(st, st.idx - b)),
                    Unwinding(l, vals, IF PopN(st, st.idx - b).pool[b].type = "label"
                                       THEN PopN(st, st.idx - b).pool[b].parent ELSE NULL))
  BY DEF Unwind
<1> DEFINE P == PopN(st, st.idx - b)
           T == PopLabel(P)
           parent == P.pool[b].parent
<1>5. PICK t, p : t = walk[l] /\ p = st.pool[t].parent
  OBVIOUS
<1>6. Goes(t, p)
  <2>1. pc.left - 1 = l /\ pc.left # 0
    BY <1>2
  <2> HIDE DEF l
  <2>2. QED
    BY <1>3, <1>5, <2>1 DEF Goes
<1>7. /\ AbsStack = IF p = NULL
                    THEN ReturnedAs(st, Outermost, f, Repushed(vals))
                    ELSE BranchedAs(st, t, p, Repushed(vals))
      /\ AbsMode = IF p = NULL /\ Outermost THEN "idle" ELSE Mode
  BY <1>1, <1>6, AbsUnwind DEF UnwindingIs
<1>8. f \in 0 .. st.idx /\ st.idx \in Int /\ NumSlots \in Int
  BY <1>2, StackFields, NumSlotsAssumption DEF IsTop, SlotsOf
<1> HIDE DEF f, l, vals
<1>9. Body(st, f)
  <2>1. walk[0] \in OwnLabels(st)
    BY <1>2, <1>3
  <2>2. f < walk[0] /\ walk[0] \in 0 .. st.idx
    BY <1>2, <2>1 DEF OwnLabels, IsTop, SlotsOf
  <2>3. QED
    BY <1>2, <1>8, <2>2 DEF Body
<1>10. /\ b \in Nat /\ b <= st.idx
       /\ Body(P, f) /\ P.idx = b /\ Agree(st, P)
       /\ P.pool[b].type = "label" /\ P.pool[b] = st.pool[b]
  BY <1>4, <1>9, BaseOK DEF IsBase
<1>11. Continue(T, Unwinding(l, vals, parent))
  BY <1>4, <1>10
<1>12. /\ walk[0] = b
       /\ l > 0 => LET rest == [k \in 0 .. l - 1 |-> walk[k + 1]]
                   IN  /\ IsWalk(T, l - 1, rest)
                       /\ T.pool[rest[l - 1]] = st.pool[walk[l]]
  BY <1>2, <1>3, <1>4, <1>9, WalkStep
<1> HIDE DEF P, parent
<1>13. T \in Stack /\ IsTop(T, "frame", f) /\ T.idx = b - 1 /\ Agree(P, T)
  BY <1>10, BodyExit
<1> HIDE DEF T
<1>14. T.idx \in Int /\ Agree(st, T) /\ f \in Int /\ f <= T.idx + 1
  BY <1>8, <1>10, <1>13 DEF Agree, IsTop, SlotsOf
<1>15. st' = T /\ pc'.left = l /\ pc'.parent = parent
  BY <1>11 DEF Continue, Unwinding
<1>16. Goes(t, p)' /\ t \in Int /\ t <= T.idx + 1
  <2>1. CASE l = 0
    <3>1. t = T.idx + 1 /\ p = parent /\ pc'.left = 0
      BY <1>5, <1>10, <1>12, <1>13, <1>15, <2>1 DEF parent
    <3>2. QED
      BY <1>14, <1>15, <3>1 DEF Goes
  <2>2. CASE l # 0
    <3> DEFINE rest == [k \in 0 .. l - 1 |-> walk[k + 1]]
               m == l - 1
    <3>1. m \in 0 .. l - 1 /\ l > 0 /\ m + 1 = l /\ m \in Nat
      BY <1>2, <2>2
    <3>2. IsWalk(T, m, rest) /\ T.pool[rest[m]] = st.pool[walk[l]] /\ rest[m] = walk[l]
      BY <1>12, <3>1
    <3>3. rest \in [0 .. m -> OwnLabels(T)]
      BY <3>2 DEF IsWalk
    <3>4. pc'.left - 1 = m /\ pc'.left # 0
      BY <1>15, <2>2
    <3> HIDE DEF m, rest
    <3>5. Goes(t, p)'
      BY <1>5, <1>15, <3>2, <3>3, <3>4 DEF Goes
    <3>6. t \in OwnLabels(T)
      BY <1>5, <3>1, <3>2, <3>3
    <3>7. t \in 0 .. T.idx
      BY <1>13, <3>6, OwnIs
    <3>8. QED
      BY <1>14, <3>5, <3>7
  <2>3. QED
    BY <2>1, <2>2
<1>17. /\ AbsStack' = IF p = NULL
                      THEN ReturnedAs(T, Outermost, f, Repushed(vals))
                      ELSE BranchedAs(T, t, p, Repushed(vals))
       /\ AbsMode' = IF p = NULL /\ Outermost THEN "idle" ELSE Mode
       /\ pc'.at = "unwind"
  BY <1>11, <1>16, UnwindsNow DEF f
<1>18. Seg(T, 0, f) = Seg(st, 0, f) /\ Seg(T, 0, t) = Seg(st, 0, t)
  BY <1>14, <1>16, SegLow
<1>19. UNCHANGED << AbsStack, AbsMode >>
  BY <1>7, <1>17, <1>18 DEF ReturnedAs, BranchedAs
<1>20. QED
  BY <1>1, <1>17, <1>19, StutterMaps

\* The next instruction of the activation is due.
LEMMA RunsNow ==
    ASSUME IInv', NEW S, Continue(S, Run)
    PROVE  AbsStack' = Seg(S, 0, S.idx + 1) /\ AbsMode' = Mode /\ pc'.at = "run"
<1>1. pc' = Run /\ st' = S /\ host' = host
  BY DEF Continue
<1>2. AbsStack' = Seg(S, 0, S.idx + 1) /\ AbsMode' = Mode'
  BY <1>1, AbsNext
<1>3. Mode' = Mode
  BY <1>1 DEF Mode
<1>4. QED
  BY <1>1, <1>2, <1>3 DEF Run

\* The loop instruction is due.
LEMMA LoopsNow ==
    ASSUME IInv', NEW S, NEW b, Continue(S, Reenter(b))
    PROVE  /\ AbsStack' = Seg(S, 0, S.idx + 1 - b.rt1) \o << LabelEntry(b) >>
                          \o Seg(S, S.idx + 1 - b.rt1, S.idx + 1)
           /\ AbsMode' = Mode /\ pc'.at = "loop"
<1>1. pc' = Reenter(b) /\ st' = S /\ host' = host
  BY DEF Continue
<1>2. pc'.at = "loop" /\ pc'.blk = b
  BY <1>1 DEF Reenter
<1>3. LoopingIs'
  BY AbsLoop, PTL
<1>4. /\ AbsStack' = Seg(S, 0, S.idx + 1 - b.rt1) \o << LabelEntry(b) >>
                     \o Seg(S, S.idx + 1 - b.rt1, S.idx + 1)
      /\ AbsMode' = Mode'
  BY <1>1, <1>2, <1>3 DEF LoopingIs, Seg, LabelEntry
<1>5. Mode' = Mode
  BY <1>1 DEF Mode
<1>6. QED
  BY <1>2, <1>4, <1>5

\* The values go back onto what is left.
LEMMA FinishBrMaps ==
    ASSUME IInv, IInv', FinishBr
    PROVE  A!Next \/ UNCHANGED A!avars
<1> DEFINE f == Current.frame
           vals == pc.vals
           S == PushVals(st, vals)
           N == st.idx + 1
           d == st.idx + Len(vals) + 1
           b == pc.parent
<1>1. pc.at = "unwind" /\ pc.left = 0
  BY DEF FinishBr
<1>2. /\ Active /\ st \in Stack /\ WellFormed(st) /\ IsTop(st, "frame", f)
      /\ b \in Blocks \cup {NULL}
      /\ vals \in Seq(Val) /\ Len(vals) \in Nat
      /\ st.idx + Len(vals) < NumSlots
      /\ IF b = NULL
         THEN st.idx = f /\ Len(vals) = Current.arity
         ELSE st.idx > f /\ Len(vals) = LabelArity(b)
  BY <1>1, AtUnwind
<1>3. ~Overflows(st, Len(vals)) /\ f \in 0 .. st.idx /\ st.idx \in Int /\ N \in Int
  BY <1>2, StackFields, NumSlotsAssumption, SMTT(40) DEF Overflows, IsTop, SlotsOf
<1>4. PICK n, p : n = N /\ p = b
  OBVIOUS
<1>5. Goes(n, p)
  BY <1>1, <1>4 DEF Goes
<1>6. /\ AbsStack = IF b = NULL
                    THEN ReturnedAs(st, Outermost, f, Repushed(vals))
                    ELSE BranchedAs(st, N, b, Repushed(vals))
      /\ AbsMode = IF b = NULL /\ Outermost THEN "idle" ELSE Mode
  <2> HIDE DEF N, b
  <2>1. QED
    BY <1>1, <1>4, <1>5, AbsUnwind DEF UnwindingIs
<1>7. /\ S.idx = st.idx + Len(vals) /\ Agree(S, st)
      /\ Seg(S, 0, d) = Seg(st, 0, N) \o Repushed(vals)
      /\ Seg(S, N, d) = Repushed(vals)
  BY <1>2, <1>3, PushValsType, SegPush, SegPushed
<1>8. Seg(S, 0, N) = Seg(st, 0, N) /\ Seg(S, 0, f) = Seg(st, 0, f)
  <2>1. N <= st.idx + 1 /\ f \in Int /\ f <= st.idx + 1
    BY <1>3
  <2> HIDE DEF N, f, S
  <2>2. QED
    BY <1>3, <1>7, <2>1, SegLow
<1>9. S.idx + 1 = d /\ S.idx + 1 - Len(vals) = N
  <2> HIDE DEF S
  <2>1. QED
    BY <1>2, <1>3, <1>7
<1> HIDE DEF S, N, d
<1>10. CASE b = NULL
  <2>1. Continue(S, Return) /\ Len(vals) = Current.arity
    BY <1>2, <1>10 DEF FinishBr, S
  <2>2. /\ AbsStack' = ReturnedAs(S, Outermost, f, Seg(S, S.idx + 1 - Current.arity, S.idx + 1))
        /\ AbsMode' = IF Outermost THEN "idle" ELSE Mode
        /\ pc'.at = "return"
    BY <2>1, ReturnsNow
  <2>3. UNCHANGED << AbsStack, AbsMode >>
    BY <1>6, <1>7, <1>8, <1>9, <1>10, <2>1, <2>2 DEF ReturnedAs
  <2>4. QED
    BY <1>1, <2>2, <2>3, StutterMaps
<1>11. CASE b # NULL /\ b.op = "loop"
  <2>1. Continue(S, Reenter(b)) /\ Len(vals) = b.rt1
    BY <1>2, <1>11 DEF FinishBr, S, LabelArity
  <2> HIDE DEF b
  <2>2. /\ AbsStack' = Seg(S, 0, S.idx + 1 - b.rt1) \o << LabelEntry(b) >>
                       \o Seg(S, S.idx + 1 - b.rt1, S.idx + 1)
        /\ AbsMode' = Mode /\ pc'.at = "loop"
    BY <2>1, LoopsNow
  <2>3. UNCHANGED << AbsStack, AbsMode >>
    BY <1>6, <1>7, <1>8, <1>9, <1>11, <2>1, <2>2 DEF BranchedAs
  <2>4. QED
    BY <1>1, <2>2, <2>3, StutterMaps
<1>12. CASE b # NULL /\ b.op # "loop"
  <2>1. Continue(S, Run)
    BY <1>12 DEF FinishBr, S
  <2>2. AbsStack' = Seg(S, 0, S.idx + 1) /\ AbsMode' = Mode /\ pc'.at = "run"
    BY <2>1, RunsNow
  <2>3. Seg(st, 0, N) \o <<>> = Seg(st, 0, N)
    <3> DEFINE z == 0
    <3>1. z \in Int /\ z <= N
      BY <1>3 DEF N
    <3> HIDE DEF z
    <3>2. Seg(st, z, N) \in Seq(EntsOf(st))
      BY <1>3, <3>1, SegType
    <3>3. QED
      BY <3>2, ConcatEmptySeq DEF z
  <2>4. UNCHANGED << AbsStack, AbsMode >>
    BY <1>6, <1>7, <1>8, <1>9, <1>12, <2>2, <2>3 DEF BranchedAs
  <2>5. QED
    BY <1>1, <2>2, <2>4, DoneMaps
<1>13. QED
  BY <1>10, <1>11, <1>12

-----------------------------------------------------------------------------
(* The end of a return.                                                    *)

\* The results are off the stack and the frame is looked for.
LEMMA DiscardsNow ==
    ASSUME IInv', NEW S, NEW next, next.at = "discard", Continue(S, next)
    PROVE  /\ AbsStack' = ReturnedAs(S, Outermost, Current.frame, Repushed(next.vals))
           /\ AbsMode' = IF Outermost THEN "idle" ELSE Mode
           /\ pc'.at = "discard"
<1>1. pc' = next /\ st' = S /\ host' = host /\ calls' = calls
  BY DEF Continue
<1>2. (IInv /\ pc.at = "discard" =>
        /\ AbsStack = ReturnedAs(st, Outermost, Current.frame, Repushed(pc.vals))
        /\ AbsMode = IF Outermost THEN "idle" ELSE Mode)'
  BY AbsDiscard, PTL
<1>3. Outermost' = Outermost /\ Current' = Current /\ Mode' = Mode
  BY <1>1 DEF Outermost, Current, Top, Mode
<1>4. QED
  BY <1>1, <1>2, <1>3 DEF ReturnedAs, Seg

\* The abstract stack was left already: the results go to C variables, ...
LEMMA PopResultsMaps ==
    ASSUME IInv, IInv', PopResults
    PROVE  UNCHANGED A!avars
<1> DEFINE f == Current.frame
           n == Current.arity
           vals == TopVals(st, n)
           P == PopN(st, n)
           next == Discarding(vals)
<1>1. pc = Return /\ Continue(P, next)
  BY DEF PopResults
<1>2. pc.at = "return" /\ next.at = "discard" /\ next.vals = vals
  BY <1>1 DEF Return, Discarding
<1>3. /\ st \in Stack /\ n \in Nat /\ HasVals(st, n) /\ st.idx - n >= f /\ CallsOK
  BY <1>1, AtReturn
<1>4. st.idx \in Int /\ f \in Int
  BY <1>3, StackFields, NumSlotsAssumption DEF CallsOK, IsTop, SlotsOf
<1>5. P \in Stack /\ P.idx = st.idx - n /\ Agree(st, P)
  BY <1>3, PopNType DEF HasVals
<1>6. /\ AbsStack = ReturnedAs(st, Outermost, f, Seg(st, st.idx + 1 - n, st.idx + 1))
      /\ AbsMode = IF Outermost THEN "idle" ELSE Mode
  BY <1>1, AbsReturn
<1>7. Repushed(vals) = Seg(st, st.idx + 1 - n, st.idx + 1)
  BY <1>3, SegPopped
<1> HIDE DEF P, vals, next
<1>8. /\ AbsStack' = ReturnedAs(P, Outermost, f, Repushed(vals))
      /\ AbsMode' = IF Outermost THEN "idle" ELSE Mode
      /\ pc'.at = "discard"
  BY <1>1, <1>2, DiscardsNow
<1>9. Seg(P, 0, f) = Seg(st, 0, f)
  <2>1. P.idx \in Int /\ f <= P.idx + 1
    BY <1>3, <1>4, <1>5
  <2>2. QED
    BY <1>4, <1>5, <2>1, SegLow
<1>10. UNCHANGED << AbsStack, AbsMode >>
  BY <1>6, <1>7, <1>8, <1>9 DEF ReturnedAs
<1>11. QED
  BY <1>2, <1>8, <1>10, StutterMaps

\* ... the entries above the frame are dropped one by one, ...
LEMMA DiscardEntryMaps ==
    ASSUME IInv, IInv', DiscardEntry
    PROVE  UNCHANGED A!avars
<1> DEFINE f == Current.frame
<1>1. pc.at = "discard"
  BY DEF DiscardEntry
<1>2. /\ st \in Stack /\ WellFormed(st)
      /\ f \in Nat /\ st.idx \in Nat /\ f <= st.idx
  BY <1>1, AtDiscard
<1>3. /\ AbsStack = ReturnedAs(st, Outermost, f, Repushed(pc.vals))
      /\ AbsMode = IF Outermost THEN "idle" ELSE Mode
  BY <1>1, AbsDiscard
<1>4. PICK S : S.idx = st.idx - 1 /\ Agree(st, S) /\ Continue(S, pc)
  <2>1. CASE st.pool[st.idx].type = "val" /\ Continue(PopN(st, 1), pc)
    <3>1. PopN(st, 1).idx = st.idx - 1 /\ Agree(st, PopN(st, 1))
      BY <1>2, PopNType
    <3>2. QED
      BY <2>1, <3>1
  <2>2. CASE st.pool[st.idx].type = "label" /\ Continue(PopLabel(st), pc)
    <3>1. PopLabel(st).idx = st.idx - 1 /\ Agree(st, PopLabel(st))
      BY <1>2, <2>2, PopLabelOK
    <3>2. QED
      BY <2>2, <3>1
  <2>3. QED
    BY <2>1, <2>2 DEF DiscardEntry
<1>5. /\ AbsStack' = ReturnedAs(S, Outermost, f, Repushed(pc.vals))
      /\ AbsMode' = IF Outermost THEN "idle" ELSE Mode
      /\ pc'.at = "discard"
  BY <1>1, <1>4, DiscardsNow
<1>6. Seg(S, 0, f) = Seg(st, 0, f)
  <2>1. S.idx \in Int /\ f <= S.idx + 1 /\ f \in Int
    BY <1>2, <1>4
  <2>2. QED
    BY <1>4, <2>1, SegLow
<1>7. UNCHANGED << AbsStack, AbsMode >>
  BY <1>3, <1>5, <1>6 DEF ReturnedAs
<1>8. QED
  BY <1>1, <1>5, <1>7, StutterMaps

\* The results lie where the frame was.
LEMMA AtFrameSeg ==
    ASSUME IInv, AtFrame
    PROVE  LET R == PushVals(PopFrame(st), pc.vals)
           IN  Seg(R, 0, R.idx + 1) = Seg(st, 0, Current.frame) \o Repushed(pc.vals)
<1> DEFINE T == PopFrame(st)
           vals == pc.vals
           R == PushVals(T, vals)
           f == Current.frame
<1>1. /\ f = st.idx
      /\ T \in Stack /\ T.idx = st.idx - 1 /\ Agree(st, T)
      /\ ~Overflows(T, Len(vals))
  BY AtFrameOK
<1>2. vals \in Seq(Val) /\ Len(vals) \in Nat /\ st.idx \in Nat
  BY AtDiscard DEF AtFrame
<1> HIDE DEF T, vals
<1>3. /\ R.idx = T.idx + Len(vals)
      /\ Seg(R, 0, T.idx + Len(vals) + 1) = Seg(T, 0, T.idx + 1) \o Repushed(vals)
  BY <1>1, <1>2, PushValsType, SegPush
<1>4. T.idx + 1 = f /\ f \in Int /\ T.idx \in Int /\ f <= T.idx + 1
  BY <1>1, <1>2
<1>5. Seg(T, 0, f) = Seg(st, 0, f)
  BY <1>1, <1>4, SegLow
<1>6. QED
  BY <1>3, <1>4, <1>5 DEF T, vals

\* ... and the results are pushed for the caller, or popped for the host.
LEMMA ReturnToCallerMaps ==
    ASSUME IInv, IInv', ReturnToCaller
    PROVE  A!Next
<1> DEFINE R == PushVals(PopFrame(st), pc.vals)
<1>1. AtFrame /\ Top > 1 /\ st' = R /\ host' = host /\ pc' = Run
  BY DEF ReturnToCaller, Leave
<1>2. pc.at = "discard" /\ ~Outermost
  BY <1>1, AtDiscard, Types DEF AtFrame, Outermost
<1>3. AbsStack = Seg(st, 0, Current.frame) \o Repushed(pc.vals) /\ AbsMode = Mode
  BY <1>2, AbsDiscard DEF ReturnedAs
<1>4. AbsStack' = Seg(R, 0, R.idx + 1) /\ AbsMode' = Mode'
  BY <1>1, AbsNext
<1>5. Mode' = Mode /\ pc'.at = "run"
  BY <1>1 DEF Mode, Run
<1>6. UNCHANGED << AbsStack, AbsMode >>
  BY <1>1, <1>3, <1>4, <1>5, AtFrameSeg
<1>7. QED
  BY <1>2, <1>5, <1>6, DoneMaps

\* The outermost return hands its results to the host.
LEMMA ReturnToHostMaps ==
    ASSUME IInv, IInv', ReturnToHost
    PROVE  A!Next
<1>1. AtFrame /\ Top = 1 /\ host = "invoke" /\ host' = "idle"
  BY DEF ReturnToHost, Leave
<1>2. pc.at = "discard" /\ Outermost
  BY <1>1 DEF AtFrame, Outermost
<1>3. AbsStack = <<>> /\ AbsMode = "idle"
  BY <1>2, AbsDiscard DEF ReturnedAs
<1>4. ~Active' /\ st'.idx = -1
  BY <1>1 DEF Active, IInv, ControlOK
<1>5. /\ pc'.at = "host" /\ AbsMode' = "idle"
      /\ AbsStack' = Seg(st', 0, st'.idx + 1)
  BY <1>1, <1>4, AbsNext
<1>6. AbsStack' = <<>>
  <2>1. st'.idx + 1 = 0 /\ 0 \in Int
    BY <1>4
  <2>2. QED
    BY <1>5, <2>1, SegEmpty
<1>7. UNCHANGED << AbsStack, AbsMode >>
  BY <1>3, <1>5, <1>6
<1>8. QED
  BY <1>2, <1>5, <1>7, DoneMaps

\* The start function returns to instantiate.
LEMMA ReturnFromStartMaps ==
    ASSUME IInv, IInv', ReturnFromStart
    PROVE  A!Next
<1> DEFINE R == PushVals(PopFrame(st), pc.vals)
<1>1. AtFrame /\ host = "start" /\ st' = R /\ host' = "done"
  BY DEF ReturnFromStart, Leave
<1>2. pc.at = "discard" /\ ~Outermost
  BY <1>1 DEF AtFrame, Outermost
<1>3. AbsStack = Seg(st, 0, Current.frame) \o Repushed(pc.vals) /\ AbsMode = "inst"
  BY <1>1, <1>2, AbsDiscard DEF ReturnedAs, Mode
<1>4. ~Active'
  BY <1>1 DEF Active
<1>5. AbsStack' = Seg(R, 0, R.idx + 1) /\ AbsMode' = "inst" /\ pc'.at = "host"
  BY <1>1, <1>4, AbsNext
<1>6. UNCHANGED << AbsStack, AbsMode >>
  BY <1>1, <1>3, <1>5, AtFrameSeg
<1>7. QED
  BY <1>2, <1>5, <1>6, DoneMaps

-----------------------------------------------------------------------------
(* Calls and the host's commands.                                          *)

\* Entries in a row.
LEMMA PairOf ==
    ASSUME NEW a, NEW b
    PROVE  << a >> \o << b >> = << a, b >>
<1> DEFINE D == {a, b}
           x == << a >>
           y == << b >>
           u == << a, b >>
           w == x \o y
<1>1. /\ x \in Seq(D) /\ y \in Seq(D) /\ u \in Seq(D)
      /\ Len(x) = 1 /\ Len(y) = 1 /\ Len(u) = 2
      /\ x[1] = a /\ y[1] = b /\ u[1] = a /\ u[2] = b
  OBVIOUS
<1> HIDE DEF D, x, y, u
<1>2. /\ w \in Seq(D) /\ Len(w) = Len(x) + Len(y)
      /\ \A i \in 1 .. Len(x) + Len(y) : w[i] = IF i <= Len(x) THEN x[i] ELSE y[i - Len(x)]
  BY <1>1, ConcatProperties
<1> HIDE DEF w
<1>3. Len(w) = 2 /\ w[1] = a /\ w[2] = b
  BY <1>1, <1>2
<1>4. w = u
  BY <1>1, <1>2, <1>3, SeqEqual
<1>5. QED
  BY <1>4 DEF w, x, y, u

\* Three of them.
LEMMA TripleOf ==
    ASSUME NEW a, NEW b, NEW c
    PROVE  << a >> \o << b, c >> = << a, b, c >>
<1> DEFINE D == {a, b, c}
           x == << a >>
           y == << b, c >>
           u == << a, b, c >>
           w == x \o y
<1>1. /\ x \in Seq(D) /\ y \in Seq(D) /\ u \in Seq(D)
      /\ Len(x) = 1 /\ Len(y) = 2 /\ Len(u) = 3
      /\ x[1] = a /\ y[1] = b /\ y[2] = c /\ u[1] = a /\ u[2] = b /\ u[3] = c
  OBVIOUS
<1> HIDE DEF D, x, y, u
<1>2. /\ w \in Seq(D) /\ Len(w) = Len(x) + Len(y)
      /\ \A i \in 1 .. Len(x) + Len(y) : w[i] = IF i <= Len(x) THEN x[i] ELSE y[i - Len(x)]
  BY <1>1, ConcatProperties
<1> HIDE DEF w
<1>3. Len(w) = 3 /\ w[1] = a /\ w[2] = b /\ w[3] = c
  BY <1>1, <1>2
<1>4. w = u
  BY <1>1, <1>2, <1>3, SeqEqual
<1>5. QED
  BY <1>4 DEF w, x, y, u

\* Two entries at once.
LEMMA AppendTwo ==
    ASSUME NEW E, NEW s \in Seq(E), NEW a, NEW b
    PROVE  (s \o << a >>) \o << b >> = s \o << a, b >>
<1> DEFINE D == E \cup {a, b}
           x == << a >>
           y == << b >>
<1>1. s \in Seq(D) /\ x \in Seq(D) /\ y \in Seq(D)
  OBVIOUS
<1>2. x \o y = << a, b >>
  BY PairOf
<1> HIDE DEF D, x, y
<1>3. (s \o x) \o y = s \o (x \o y)
  BY <1>1, ConcatAssociative, SMTT(40)
<1>4. QED
  BY <1>2, <1>3 DEF x, y

\* An activation begins: its frame and its function's label follow what is left
\* of the stack once the arguments are gone.
LEMMA InvokeNow ==
    ASSUME IInv', NEW S, NEW m, NEW n \in Arities, NEW caller,
           InvokeFunc(S, m, n, caller), PopN(S, m) \in Stack, WellFormed(PopN(S, m))
    PROVE  LET P == PopN(S, m)
           IN  \/ host' = "trapped"
               \/ /\ AbsStack' = Seg(P, 0, P.idx + 1) \o << A!F(n), A!L(n, NULL) >>
                  /\ AbsMode' = IF caller = "invoke" THEN "invoke" ELSE "inst"
                  /\ pc'.at = "run" /\ host' = caller
                  /\ P.idx \in Int /\ P.idx >= -1
                  /\ st'.idx = P.idx + 2 /\ Agree(st', P)
<1> DEFINE P == PopN(S, m)
           F == PushFrame(P, n)
           L == PushLabel(F, n, NULL)
           z == 0
           base == Seg(P, z, P.idx + 1)
<1>1. \/ host' = "trapped"
      \/ ~Full(P) /\ ~Full(F) /\ st' = L /\ host' = caller /\ pc' = Run
  BY DEF InvokeFunc, Throw
<1>2. P \in Stack /\ WellFormed(P) /\ P.idx \in Int /\ P.idx >= -1
  BY StackFields, NumSlotsAssumption
<1> HIDE DEF P
<1>3. ASSUME ~Full(P), ~Full(F), st' = L, host' = caller, pc' = Run
      PROVE  /\ AbsStack' = base \o << A!F(n), A!L(n, NULL) >>
             /\ AbsMode' = IF caller = "invoke" THEN "invoke" ELSE "inst"
             /\ st'.idx = P.idx + 2 /\ Agree(st', P)
  <2>1. F \in Stack /\ WellFormed(F) /\ F.idx = P.idx + 1 /\ Agree(F, P)
    BY <1>2, <1>3, PushFrameOK
  <2>2. Seg(F, 0, P.idx + 2) = base \o << A!F(n) >>
    BY <1>2, <1>3, SegPushFrame
  <2> HIDE DEF F
  <2>3. /\ Seg(L, 0, F.idx + 2) = Seg(F, 0, F.idx + 1) \o << A!L(n, NULL) >>
        /\ L.idx = F.idx + 1 /\ Agree(L, F)
    BY <1>3, <2>1, SegPushLabel
  <2> HIDE DEF L
  <2>4. F.idx + 1 = P.idx + 2 /\ L.idx = P.idx + 2 /\ F.idx + 2 = L.idx + 1
    BY <1>2, <2>1, <2>3
  <2>5. Agree(L, P)
    BY <1>2, <2>1, <2>3, <2>4 DEF Agree
  <2>6. Seg(L, 0, L.idx + 1) = (base \o << A!F(n) >>) \o << A!L(n, NULL) >>
    BY <2>2, <2>3, <2>4
  <2>7. base \in Seq(EntsOf(P))
    <3>1. z \in Int /\ P.idx + 1 \in Int /\ z <= P.idx + 1
      BY <1>2
    <3> HIDE DEF z
    <3>2. QED
      BY <3>1, SegType
  <2>8. AbsStack' = Seg(L, 0, L.idx + 1) /\ AbsMode' = Mode'
    BY <1>3, AbsNext
  <2>9. Mode' = IF caller = "invoke" THEN "invoke" ELSE "inst"
    BY <1>3 DEF Mode
  <2> HIDE DEF base
  <2>10. AbsStack' = base \o << A!F(n), A!L(n, NULL) >>
    BY <2>6, <2>7, <2>8, AppendTwo
  <2>11. QED
    BY <1>3, <2>4, <2>5, <2>8, <2>9, <2>10
<1>4. QED
  BY <1>1, <1>2, <1>3 DEF Run, P

\* A call, direct or through a table.
LEMMA CallFuncMaps ==
    ASSUME IInv, IInv', NEW m \in Arities, NEW n \in Arities, NEW c \in 0 .. 1, CallFunc(m, n, c)
    PROVE  A!Next
<1> DEFINE f == Current.frame
           S == PopN(st, c)
           P == PopN(S, m)
           k == c + m
<1>1. /\ AtInstr /\ HasVals(st, k) /\ InvokeFunc(S, m, n, host)
      /\ m \in Nat /\ c \in Nat /\ k \in Nat /\ k \in 0 .. MaxArity + 1 /\ n \in 0 .. MaxArity
  BY MaxArityAssumption DEF CallFunc, Arities
<1>2. Active /\ Body(st, f) /\ st.idx \in Int /\ AbsMode = Mode /\ pc.at = "run"
  BY <1>1, Found
<1>3. HasVals(st, c)
  BY <1>1, <1>2 DEF HasVals
<1>4. Body(S, f) /\ Agree(st, S) /\ S.idx = st.idx - c
  BY <1>1, <1>2, <1>3, BodyPop
<1>5. HasVals(S, m)
  <2>1. /\ m <= S.idx + 1
        /\ \A i \in S.idx + 1 - m .. S.idx :
              i \in st.idx + 1 - (c + m) .. st.idx /\ i \in 0 .. S.idx
    BY <1>1, <1>2, <1>4 DEF HasVals
  <2>2. QED
    BY <1>1, <1>4, <2>1 DEF HasVals, Agree
<1>6. Body(P, f) /\ Agree(S, P) /\ P.idx = S.idx - m
  BY <1>1, <1>4, <1>5, BodyPop
<1>7. P \in Stack /\ WellFormed(P)
  BY <1>6 DEF Body
<1> HIDE DEF P, S, k
<1>8. P.idx \in Int /\ P.idx + 1 = st.idx + 1 - k /\ Agree(st, P)
  BY <1>1, <1>2, <1>4, <1>6 DEF Agree, k
<1>9. CASE host' = "trapped"
  BY <1>2, <1>9, ActiveMode, TrapMaps
<1>10. CASE host' # "trapped"
  <2>1. /\ AbsStack' = Seg(P, 0, P.idx + 1) \o << A!F(n), A!L(n, NULL) >>
        /\ AbsMode' = IF host = "invoke" THEN "invoke" ELSE "inst"
    <3>1. PopN(S, m) \in Stack /\ WellFormed(PopN(S, m)) /\ InvokeFunc(S, m, n, host)
      BY <1>1, <1>7 DEF P
    <3>2. QED
      BY <1>10, <3>1, InvokeNow DEF P
  <2>2. Seg(P, 0, P.idx + 1) = Seg(st, 0, st.idx + 1 - k)
    <3>1. P.idx + 1 \in Int
      BY <1>8
    <3>2. Seg(P, 0, P.idx + 1) = Seg(st, 0, P.idx + 1)
      BY <1>8, <3>1, SegLow
    <3>3. QED
      BY <1>8, <3>2
  <2>3. A!AreVals(k) /\ k <= st.idx + 1
    BY <1>1, ValsFound
  <2>4. A!AllBut(k) = Seg(st, 0, st.idx + 1 - k)
    BY <1>1, <2>3, AllButFound
  <2>5. AbsStack' = A!AllBut(k) \o << A!F(n), A!L(n, NULL) >>
    BY <2>1, <2>2, <2>4
  <2>6. UNCHANGED AbsMode
    BY <1>2, <2>1 DEF Mode
  <2>7. A!Call(k, n)
    BY <1>1, <2>3, <2>5, <2>6, RunningFound DEF A!Call
  <2>8. A!Instruction
    BY <1>1, <2>7 DEF A!Instruction
  <2>9. QED
    BY <1>2, <2>8, InstructionMaps
<1>11. QED
  BY <1>9, <1>10

\* The frame of instantiate.
LEMMA InstFrameSeg ==
    ASSUME NEW S \in Stack, WellFormed(S), S.idx \in Int, S.idx >= 0, S.pool[0].arity = 0
    PROVE  Seg(S, 0, 1) = << A!F(0) >>
<1> DEFINE z == 0
<1>1. S.pool[0].type = "frame"
  BY DEF WellFormed, EntryOK
<1>2. Entry(S.pool[0]) = A!F(0)
  BY <1>1, EntryIs
<1>3. z \in Int /\ z + 1 = 1
  OBVIOUS
<1> HIDE DEF z
<1>4. Seg(S, z, 1) = << Entry(S.pool[z]) >>
  BY <1>3, SegOne
<1>5. QED
  BY <1>2, <1>4 DEF z

\* From the first entry on nothing is left of an empty stack.
LEMMA SegNone ==
    ASSUME NEW S, S.idx = -1
    PROVE  Seg(S, 0, S.idx + 1) = <<>>
<1>1. S.idx + 1 = 0 /\ 0 \in Int
  OBVIOUS
<1>2. QED
  BY <1>1, SegEmpty

\* While an instantiation is under way its frame, the lowest entry, has arity 0.
InstArity == host \in {"allocs", "inits", "start", "done"} => st.pool[0].arity = 0

\* The host invokes a function: its arguments are pushed and popped at once.
LEMMA HostInvokeMaps ==
    ASSUME IInv, IInv', NEW m \in Arities, NEW n \in Arities, NEW v \in Val, HostInvoke(m, n, v)
    PROVE  A!Next /\ InstArity'
<1> DEFINE vals == [k \in 1 .. m |-> v]
           S == PushVals(st, vals)
           P == PopN(S, m)
<1>1. host = "idle" /\ InvokeFunc(S, m, n, "invoke")
  BY DEF HostInvoke
<1>2. ~Active /\ host # "trapped"
  BY <1>1 DEF Active
<1>3. st \in Stack /\ WellFormed(st) /\ st.idx = -1
  BY <1>1, <1>2, AtHostOK
<1>4. m \in Nat /\ m <= MaxArity /\ MaxArity \in Nat /\ n \in 0 .. MaxArity
  BY MaxArityAssumption DEF Arities
<1>5. vals \in Seq(Val) /\ Len(vals) = m
  BY <1>4
<1> HIDE DEF vals
<1>6. ~Overflows(st, Len(vals))
  BY <1>3, <1>4, <1>5, NumSlotsAssumption DEF Overflows
<1>7. P \in Stack /\ WellFormed(P) /\ P.idx = -1
  BY <1>3, <1>5, <1>6, PushPopOK
<1> HIDE DEF S
<1>8. \/ host' = "trapped"
      \/ /\ AbsStack' = Seg(P, 0, P.idx + 1) \o << A!F(n), A!L(n, NULL) >>
         /\ AbsMode' = "invoke" /\ host' = "invoke"
  BY <1>1, <1>7, InvokeNow
<1> HIDE DEF P
<1>9. CASE host' = "trapped"
  BY <1>2, <1>9, TrapMaps DEF InstArity
<1>10. CASE host' # "trapped"
  <2>1. Seg(P, 0, P.idx + 1) = <<>>
    BY <1>7, SegNone
  <2>2. <<>> \o << A!F(n), A!L(n, NULL) >> = << A!F(n), A!L(n, NULL) >>
    <3> DEFINE a == A!F(n)
               b == A!L(n, NULL)
               s == << a, b >>
               D == {a, b}
    <3> HIDE DEF a, b
    <3>1. s \in Seq(D)
      OBVIOUS
    <3> HIDE DEF s, D
    <3>2. <<>> \o s = s
      BY <3>1, ConcatEmptySeq
    <3>3. QED
      BY <3>2 DEF s, a, b
  <2>3. AbsMode = "idle" /\ pc.at = "host"
    BY <1>1, <1>2, AbsHostIs
  <2>4. A!Invoke(n)
    BY <1>8, <1>10, <2>1, <2>2, <2>3 DEF A!Invoke
  <2>5. A!Instruction
    BY <1>4, <2>4 DEF A!Instruction
  <2>6. QED
    BY <1>8, <1>10, <2>3, <2>5, InstructionMaps DEF InstArity
<1>11. QED
  BY <1>9, <1>10

\* instantiate pushes its frame.
LEMMA InstBeginMaps ==
    ASSUME IInv, IInv', InstBegin
    PROVE  A!Next /\ InstArity'
<1> DEFINE R == PushFrame(st, 0)
<1>1. host = "idle" /\ st' = R /\ host' = "allocs" /\ pc' = pc
  BY DEF InstBegin, InstStep
<1>2. ~Active /\ ~Active'
  BY <1>1 DEF Active
<1>3. st \in Stack /\ WellFormed(st) /\ st.idx = -1
  BY <1>1, <1>2, AtHostOK
<1>4. ~Full(st) /\ 0 \in Arities
  BY <1>3, NumSlotsAssumption, MaxArityAssumption DEF Full, Arities
<1>5. R \in Stack /\ WellFormed(R) /\ R.idx = 0 /\ R.pool[0].arity = 0
  BY <1>3, <1>4, PushFrameOK
<1> HIDE DEF R
<1>6. Seg(R, 0, 1) = << A!F(0) >>
  BY <1>5, InstFrameSeg
<1>7. AbsStack' = Seg(R, 0, R.idx + 1) /\ AbsMode' = "inst"
  BY <1>1, <1>2, AbsNext
<1>8. R.idx + 1 = 1
  BY <1>5
<1>9. AbsMode = "idle" /\ pc.at = "host"
  BY <1>1, <1>2, AbsHostIs
<1>10. A!Instantiate
  BY <1>6, <1>7, <1>8, <1>9 DEF A!Instantiate
<1>11. A!Instruction
  BY <1>10 DEF A!Instruction
<1>12. QED
  BY <1>1, <1>5, <1>9, <1>11, InstructionMaps DEF InstArity

\* What instantiate finds on the stack.
LEMMA InstFound ==
    ASSUME IInv, InstArity, host \in {"allocs", "inits", "done"}
    PROVE  /\ ~Active /\ st \in Stack /\ WellFormed(st) /\ st.idx = 0 /\ pc.at = "host"
           /\ AbsStack = Seg(st, 0, 1) /\ AbsStack = << A!F(0) >> /\ AbsMode = "inst"
           /\ st.pool[0].arity = 0
<1>1. ~Active /\ st.pool[0].arity = 0
  BY DEF Active, InstArity
<1>2. st \in Stack /\ WellFormed(st) /\ st.idx = 0
  BY <1>1, AtHostOK
<1>3. Seg(st, 0, 1) = << A!F(0) >>
  BY <1>1, <1>2, InstFrameSeg
<1>4. AbsStack = Seg(st, 0, st.idx + 1) /\ AbsMode = "inst" /\ pc.at = "host"
  BY <1>1, AbsHostIs
<1>5. st.idx + 1 = 1
  BY <1>2
<1>6. QED
  BY <1>1, <1>2, <1>3, <1>4, <1>5

\* The values that instantiate pushes are popped again.
LEMMA InstSteady ==
    ASSUME IInv, InstArity, IInv', host \in {"allocs", "inits"}, host' \in {"allocs", "inits"},
           Agree(st, st'), st'.idx = 0
    PROVE  UNCHANGED A!avars /\ InstArity'
<1>1. /\ st.pool[0].arity = 0
      /\ AbsStack = << A!F(0) >> /\ AbsMode = "inst" /\ pc.at = "host"
  BY InstFound
<1>2. st'.pool[0].arity = 0
  BY <1>1 DEF Agree
<1>3. ~Active'
  BY DEF Active
<1>4. AbsStack' = Seg(st', 0, st'.idx + 1) /\ AbsMode' = "inst" /\ pc'.at = "host"
  BY <1>3, AbsNext
<1>5. st' \in Stack /\ WellFormed(st')
  BY <1>4 DEF IInv, TypeOK, Settled, Return
<1>6. Seg(st', 0, 1) = << A!F(0) >>
  BY <1>2, <1>3, <1>5, InstFrameSeg
<1>7. st'.idx + 1 = 1
  OBVIOUS
<1>8. QED
  BY <1>1, <1>2, <1>4, <1>6, <1>7 DEF A!avars, InstArity

\* Constant expressions and active segments leave no trace.
LEMMA InstAllocMaps ==
    ASSUME IInv, InstArity, IInv', NEW v \in Val, InstAlloc(v)
    PROVE  UNCHANGED A!avars /\ InstArity'
<1> DEFINE vals == << v >>
           S == PopN(PushVals(st, vals), 1)
<1>1. host = "allocs" /\ st' = S /\ host' = "allocs"
  BY DEF InstAlloc, InstStep, PushVal
<1>2. st \in Stack /\ WellFormed(st) /\ st.idx = 0
  BY <1>1, InstFound
<1>3. vals \in Seq(Val) /\ Len(vals) = 1
  OBVIOUS
<1>4. ~Overflows(st, 1)
  BY <1>2, NumSlotsAssumption, MaxArityAssumption DEF Overflows
<1> HIDE DEF vals
<1>5. S.idx = 0 /\ Agree(st, S)
  BY <1>2, <1>3, <1>4, PushPopOK
<1> HIDE DEF S
<1>6. QED
  BY <1>1, <1>5, InstSteady

\* Exports do not touch the stack.
LEMMA InstExportsMaps ==
    ASSUME IInv, InstArity, IInv', InstExports
    PROVE  UNCHANGED A!avars /\ InstArity'
<1>1. host = "allocs" /\ st' = st /\ host' = "inits"
  BY DEF InstExports, InstStep
<1>2. st.idx = 0
  BY <1>1, InstFound
<1>3. Agree(st, st') /\ st'.idx = 0
  BY <1>1, <1>2 DEF Agree
<1>4. QED
  BY <1>1, <1>3, InstSteady

\* An active segment may trap.
LEMMA InstInitMaps ==
    ASSUME IInv, InstArity, IInv', NEW v \in Val, InstInit(v)
    PROVE  (A!Next \/ UNCHANGED A!avars) /\ InstArity'
<1> DEFINE vals == << v, v, v >>
           S == PopN(PushVals(st, vals), 3)
<1>1. host = "inits" /\ (InstStep(S, "inits") \/ Throw(S))
  BY DEF InstInit
<1>2. st \in Stack /\ WellFormed(st) /\ st.idx = 0
  BY <1>1, InstFound
<1>3. vals \in Seq(Val) /\ Len(vals) = 3
  OBVIOUS
<1>4. ~Overflows(st, 3)
  BY <1>2, NumSlotsAssumption, MaxArityAssumption DEF Overflows
<1> HIDE DEF vals
<1>5. S.idx = 0 /\ Agree(st, S)
  BY <1>2, <1>3, <1>4, PushPopOK, ZenonT(40)
<1> HIDE DEF S
<1>6. CASE InstStep(S, "inits")
  <2>1. st' = S /\ host' = "inits"
    BY <1>6 DEF InstStep
  <2>2. QED
    BY <1>1, <1>5, <2>1, InstSteady
<1>7. CASE Throw(S)
  <2>1. host' = "trapped"
    BY <1>7 DEF Throw
  <2>2. QED
    BY <1>1, <2>1, TrapMaps DEF InstArity
<1>8. QED
  BY <1>1, <1>6, <1>7

\* The start function runs on the frame of instantiate, which goes at the end.
LEMMA InstStartMaps ==
    ASSUME IInv, InstArity, IInv', InstStart
    PROVE  A!Next /\ InstArity'
<1> DEFINE zero == 0
           P == PopN(st, zero)
<1>1. host = "inits" /\ InvokeFunc(st, zero, zero, "start")
  BY DEF InstStart
<1>2. /\ st \in Stack /\ WellFormed(st) /\ st.idx = 0 /\ st.pool[0].arity = 0 /\ pc.at = "host"
      /\ AbsStack = Seg(st, 0, 1) /\ AbsStack = << A!F(0) >> /\ AbsMode = "inst"
  BY <1>1, InstFound
<1>3. HasVals(st, zero) /\ zero \in Arities /\ zero \in Nat /\ zero <= st.idx + 1
  BY <1>2, MaxArityAssumption DEF HasVals, Arities
<1>4. P \in Stack /\ WellFormed(P) /\ P.idx = st.idx - zero /\ Agree(st, P)
  BY <1>2, <1>3, PopNType, PopNWellFormed
<1>5. P.idx = 0 /\ P.idx + 1 = 1
  BY <1>2, <1>4
<1> HIDE DEF zero
<1>6. \/ host' = "trapped"
      \/ /\ AbsStack' = Seg(P, 0, P.idx + 1) \o << A!F(zero), A!L(zero, NULL) >>
         /\ AbsMode' = "inst" /\ host' = "start" /\ st'.idx = P.idx + 2 /\ Agree(st', P)
  <2> DEFINE caller == "start"
  <2>1. caller # "invoke" /\ InvokeFunc(st, zero, zero, caller)
    BY <1>1
  <2>2. PopN(st, zero) \in Stack /\ WellFormed(PopN(st, zero)) /\ zero \in Arities
    BY <1>3, <1>4
  <2> HIDE DEF P, caller
  <2>3. LET Q == PopN(st, zero)
        IN  \/ host' = "trapped"
            \/ /\ AbsStack' = Seg(Q, 0, Q.idx + 1) \o << A!F(zero), A!L(zero, NULL) >>
               /\ AbsMode' = IF caller = "invoke" THEN "invoke" ELSE "inst"
               /\ host' = caller /\ st'.idx = Q.idx + 2 /\ Agree(st', Q)
    BY <2>1, <2>2, InvokeNow
  <2>4. QED
    BY <2>1, <2>3 DEF P, caller
<1> HIDE DEF P
<1>7. CASE host' = "trapped"
  BY <1>1, <1>7, TrapMaps DEF InstArity
<1>8. CASE host' # "trapped"
  <2>1. P.pool[0] = st.pool[0] /\ st'.pool[0] = P.pool[0]
    BY <1>4, <1>5, <1>6, <1>8 DEF Agree
  <2>2. InstArity'
    BY <1>2, <2>1 DEF InstArity
  <2>3. Seg(P, 0, 1) = << A!F(0) >>
    BY <1>2, <1>4, <1>5, <2>1, InstFrameSeg
  <2>4. AbsStack' = << A!F(0) >> \o << A!F(0), A!L(0, NULL) >>
    BY <1>5, <1>6, <1>8, <2>3 DEF zero
  <2>5. AbsStack' = << A!F(0), A!F(0), A!L(0, NULL) >>
    BY <2>4, TripleOf
  <2>6. A!Start
    BY <1>2, <1>6, <1>8, <2>5 DEF A!Start
  <2>7. A!Instruction
    BY <2>6 DEF A!Instruction
  <2>8. QED
    BY <1>2, <2>2, <2>7, InstructionMaps
<1>9. QED
  BY <1>7, <1>8

\* The frame of instantiate is popped.
LEMMA InstEndMaps ==
    ASSUME IInv, InstArity, IInv', InstEnd
    PROVE  A!Next /\ InstArity'
<1>1. host \in {"inits", "done"} /\ host' = "idle"
  BY DEF InstEnd, InstStep
<1>2. pc.at = "host" /\ AbsStack = << A!F(0) >> /\ AbsMode = "inst"
  BY <1>1, InstFound
<1>3. ~Active' /\ st'.idx = -1
  BY <1>1 DEF Active, IInv, ControlOK
<1>4. AbsStack' = Seg(st', 0, st'.idx + 1) /\ AbsMode' = "idle"
  BY <1>1, <1>3, AbsNext
<1>5. AbsStack' = <<>>
  BY <1>3, <1>4, SegNone
<1>6. A!Instantiated
  BY <1>2, <1>4, <1>5 DEF A!Instantiated
<1>7. A!Instruction
  BY <1>6 DEF A!Instruction
<1>8. QED
  BY <1>1, <1>2, <1>7, InstructionMaps DEF InstArity

\* The reset of idx alone is a reset of the whole stack.
LEMMA HostResetMaps ==
    ASSUME IInv, IInv', HostReset
    PROVE  A!Next /\ InstArity'
<1>1. host = "trapped" /\ host' = "idle"
  BY DEF HostReset, InstStep
<1>2. ~Active
  BY <1>1 DEF Active
<1>3. pc.at = "host" /\ AbsStack = <<>> /\ AbsMode = "trapped"
  BY <1>1, <1>2, AbsHostIs
<1>4. ~Active' /\ st'.idx = -1
  BY <1>1 DEF Active, IInv, ControlOK
<1>5. AbsStack' = Seg(st', 0, st'.idx + 1) /\ AbsMode' = "idle"
  BY <1>1, <1>4, AbsNext
<1>6. AbsStack' = <<>>
  BY <1>4, <1>5, SegNone
<1>7. A!Reset
  BY <1>3, <1>5, <1>6 DEF A!Reset
<1>8. A!Instruction
  BY <1>7 DEF A!Instruction
<1>9. QED
  BY <1>1, <1>3, <1>8, InstructionMaps DEF InstArity

-----------------------------------------------------------------------------
(* The theorems.                                                           *)

\* An activation leaves the frame of instantiate alone.
LEMMA ArityKept ==
    ASSUME IInv, InstArity, Active, Steady \/ UNCHANGED vars,
           host' \notin {"allocs", "inits"},
           host = "invoke" => host' \notin {"start", "done"}
    PROVE  InstArity'
<1>1. SUFFICES ASSUME host = "start" PROVE st'.pool[0].arity = 0
  BY DEF InstArity, Active
<1>2. st.pool[0].arity = 0
  BY <1>1 DEF InstArity
<1>3. CASE UNCHANGED vars
  BY <1>2, <1>3 DEF vars
<1>4. CASE Steady
  <2>1. TypeOK /\ CallsOK /\ Top \in Nat /\ Top > 0
    BY Types DEF IInv, ControlOK, Active, CallsOK
  <2>2. calls[1].frame = 1 /\ (Top # 1 => calls[1].frame + 1 < calls[Top].frame)
    <3>1. Top \in 1 .. Top /\ (Top # 1 => 1 \in 1 .. Top - 1)
      BY <2>1
    <3>2. QED
      BY <1>1, <2>1, <3>1 DEF CallsOK
  <2>3. Current.frame \in Nat /\ Current.frame >= 1
    <3>1. Current.frame \in Nat
      BY <2>1, Types DEF CallsOK, IsTop, SlotsOf
    <3>2. QED
      BY <2>1, <2>2, <3>1 DEF Current
  <2>4. calls # <<>>
    BY <2>1 DEF Top
  <2>5. KeepsBelow(st')
    BY <1>4, <2>4 DEF Steady, Untouched
  <2>6. 0 \in 0 .. Current.frame - 1
    BY <2>3
  <2>7. st'.pool[0] = st.pool[0]
    BY <2>5, <2>6 DEF KeepsBelow
  <2>8. QED
    BY <1>2, <2>7
<1>5. QED
  BY <1>3, <1>4

\* A function of an invocation never ends in an instantiation.
LEMMA InvokeStays ==
    ASSUME IInv, Active, Next
    PROVE  /\ host' \notin {"allocs", "inits"}
           /\ host = "invoke" => host' \notin {"start", "done"}
<1>1. host \in {"invoke", "start"}
  BY DEF Active
<1>2. ~HostNext
  BY <1>1 DEF HostNext, HostInvoke, InstBegin, InstAlloc, InstInit, InstExports, InstStart,
     InstEnd, HostReset
<1>3. CASE ExecNext
  <2>1. host' = host \/ host' = "trapped"
    BY <1>3, ZenonT(40) DEF ExecNext, Operate, LocalTee, Trap, Block, If, EnterBlock, End, Br, CallFunc,
       InvokeFunc, ReturnInstr, Continue, Throw
  <2>2. QED
    BY <1>1, <2>1
<1>4. CASE Unwinder
  <2>1. \/ host' \in {host, "trapped", "idle"}
        \/ host = "start" /\ host' = "done"
    BY <1>4 DEF Unwinder, ReenterLoop, EnterBlock, Unwind, FinishBr, PopResults, DiscardEntry,
       ReturnToCaller, ReturnToHost, ReturnFromStart, Leave, Continue, Throw
  <2>2. QED
    BY <1>1, <2>1
<1>5. QED
  BY <1>2, <1>3, <1>4 DEF Next

\* Outside an activation only the host's commands are enabled.
LEMMA HostOnly ==
    ASSUME IInv, ~Active, Next
    PROVE  HostNext
<1>1. pc = AtHost
  BY AtHostOK
<1>2. ~AtInstr /\ pc.at = "host" /\ pc # Return
  BY <1>1 DEF AtInstr, AtHost, Run, Return
<1>3. ~ExecNext
  BY <1>2 DEF ExecNext, Operate, LocalTee, Trap, Block, If, End, Br, CallFunc, ReturnInstr
<1>4. ~Unwinder
  BY <1>2 DEF Unwinder, ReenterLoop, Unwind, FinishBr, PopResults, DiscardEntry, AtFrame,
     ReturnToCaller, ReturnToHost, ReturnFromStart
<1>5. QED
  BY <1>3, <1>4 DEF Next

\* What holds between any two steps.
RefInv == IInv /\ InstArity

\* Every step of the interpreter is a step of the activation stack or is not seen.
LEMMA StepMaps == RefInv /\ [Next]_vars => RefInv' /\ [A!Next]_(A!avars)
<1> SUFFICES ASSUME IInv, InstArity, [Next]_vars
             PROVE  RefInv' /\ (A!Next \/ UNCHANGED A!avars)
  BY DEF RefInv
<1>1. IInv' /\ (Steady \/ UNCHANGED vars)
  BY StepOK
<1>2. CASE UNCHANGED vars
  <2>1. st' = st /\ host' = host /\ calls' = calls /\ pc' = pc
    BY <1>2 DEF vars
  <2>2. InstArity'
    BY <2>1 DEF InstArity
  <2>3. UNCHANGED AbsStack
    BY <2>1 DEF AbsStack, ToFunctionLabel, IsTarget, Returned, Branched, Repushed, LabelEntry,
       Below, Live, Current, Top, Outermost, Entry, OwnLabels, SlotsOf
  <2>4. UNCHANGED AbsMode
    BY <2>1 DEF AbsMode, Outermost, Returning, ToFunctionLabel, IsTarget, Top
  <2>5. QED
    BY <1>1, <2>1, <2>2, <2>3, <2>4 DEF RefInv, A!avars
<1>3. CASE Next /\ HostNext
  BY <1>1, <1>3, HostInvokeMaps, InstBeginMaps, InstAllocMaps, InstExportsMaps, InstInitMaps,
     InstStartMaps, InstEndMaps, HostResetMaps DEF HostNext, RefInv
<1>4. CASE Next /\ ~HostNext
  <2>1. Active
    BY <1>4, HostOnly
  <2>2. InstArity'
    <3>1. /\ host' \notin {"allocs", "inits"}
          /\ host = "invoke" => host' \notin {"start", "done"}
      BY <1>4, <2>1, InvokeStays
    <3>2. QED
      BY <1>1, <2>1, <3>1, ArityKept
  <2>3. ASSUME ExecNext PROVE A!Next \/ UNCHANGED A!avars
    <3>1. CASE \E p \in Profiles, v \in Val : Operate(p[1], p[2], v)
      <4>1. PICK p \in Profiles, v \in Val : Operate(p[1], p[2], v)
        BY <3>1
      <4>2. QED
        BY <1>1, <4>1, OperateMaps
    <3>2. CASE LocalTee \/ ReturnInstr \/ End
      BY <1>1, <3>2, LocalTeeMaps, ReturnInstrMaps, EndMaps
    <3>3. CASE \E k \in 0 .. 3 : Trap(k)
      <4>1. PICK k \in 0 .. 3 : Trap(k)
        BY <3>3
      <4>2. QED
        BY <1>1, <4>1, TrapInstrMaps
    <3>4. CASE \E b \in Blocks : Block(b) \/ If(b)
      BY <1>1, <3>4, BlockMaps, IfMaps
    <3>5. CASE \E l \in 0 .. NumSlots, c \in 0 .. 1 : Br(l, c)
      <4>1. PICK l \in 0 .. NumSlots, c \in 0 .. 1 : Br(l, c)
        BY <3>5
      <4>2. QED
        BY <1>1, <4>1, BrMaps
    <3>6. CASE \E m, n \in Arities, c \in 0 .. 1 : CallFunc(m, n, c)
      <4>1. PICK m \in Arities, n \in Arities, c \in 0 .. 1 : CallFunc(m, n, c)
        BY <3>6
      <4>2. QED
        BY <1>1, <4>1, CallFuncMaps
    <3>7. QED
      BY <2>3, <3>1, <3>2, <3>3, <3>4, <3>5, <3>6 DEF ExecNext
  <2>4. ASSUME Unwinder PROVE A!Next \/ UNCHANGED A!avars
    BY <1>1, <2>4, ReenterLoopMaps, UnwindMaps, FinishBrMaps, PopResultsMaps, DiscardEntryMaps,
       ReturnToCallerMaps, ReturnToHostMaps, ReturnFromStartMaps DEF Unwinder
  <2>5. A!Next \/ UNCHANGED A!avars
    BY <1>4, <2>3, <2>4 DEF Next
  <2>6. QED
    BY <1>1, <2>2, <2>5 DEF RefInv
<1>5. QED
  BY <1>2, <1>3, <1>4

\* An interpreter at rest is an empty activation stack at rest.
LEMMA InitMaps == Init => RefInv /\ A!Init
<1> SUFFICES ASSUME Init PROVE RefInv /\ A!Init
  OBVIOUS
<1>1. IInv
  BY InitOK
<1>2. host = "idle" /\ st.idx = -1
  BY DEF Init, NewStack, Stk
<1>3. ~Active /\ InstArity
  BY <1>2 DEF Active, InstArity
<1>4. pc.at = "host" /\ AbsStack = Seg(st, 0, st.idx + 1) /\ AbsMode = "idle"
  BY <1>1, <1>2, <1>3, AbsHostIs
<1>5. AbsStack = <<>>
  BY <1>2, <1>4, SegNone
<1>6. QED
  BY <1>1, <1>3, <1>4, <1>5 DEF RefInv, A!Init

\* The interpreter implements the activation stack: whatever the program, its
\* nesting and its traps, one pool of entries, two intrusive lists that survive
\* resets with stale tails, and loops that unwind entry by entry behave as the
\* sequence of values, labels and frames of the execution model.
THEOREM ImplementsTheStack == Spec => ImplementsActivationStack
<1>1. Init => RefInv /\ A!Init
  BY InitMaps
<1>2. RefInv /\ [Next]_vars => RefInv' /\ [A!Next]_(A!avars)
  BY StepMaps
<1>3. Spec => A!Spec
  BY <1>1, <1>2, PTL DEF Spec, A!Spec
<1>4. QED
  BY <1>3 DEF ImplementsActivationStack

\* A br, br_if or br_table comes to the branch of the execution model to the label
\* it names, though the loop of __br counts the labels of one list for all
\* activations and the index is forgotten when the loop begins.
THEOREM BranchesFound == Spec => BranchesToItsLabel
<1> DEFINE B == \A l \in 0 .. NumSlots, c \in 0 .. 1 : Br(l, c) => A!Branch(l, c)
<1>1. IInv /\ [Next]_vars => [B]_vars
  <2> SUFFICES ASSUME IInv, [Next]_vars PROVE B
    OBVIOUS
  <2>1. IInv'
    BY StepOK
  <2>2. QED
    BY <2>1, BrMaps
<1> HIDE DEF B
<1>2. Spec => [][B]_vars
  BY <1>1, Invariant, PTL DEF Spec
<1>3. QED
  BY <1>2 DEF BranchesToItsLabel, B

=============================================================================
