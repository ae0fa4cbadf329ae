---------------------------- MODULE OperandStack ----------------------------
(***************************************************************************)
(* The interpreter's stack_t: one pool of obj_t entries in which values,   *)
(* labels and activation frames are interleaved, and two intrusive lists   *)
(* (list.c) threaded through the label and the frame entries of that pool. *)
(*                                                                         *)
(* The module is a library of operators on a stack record S, one for each  *)
(* C function; the interpreter (module Interpreter) owns the variable.     *)
(*                                                                         *)
(* An obj_t is a union.  The first word of a label or a frame is link.next *)
(* and overlays the value of a TYPE_VAL entry, so a list operation that    *)
(* reaches an entry which now holds a value destroys that value.  No code  *)
(* follows link.next of these two lists, so next is not modelled except    *)
(* for this effect: writing it to a value makes the value LINK.            *)
(***************************************************************************)
EXTENDS Integers, Sequences

CONSTANTS
    NumSlots,  \* entries of the pool: NUM_STACK_ENT + 1
    Val,       \* the values the program computes with
    MaxArity,  \* bound on the parameters or results of a block or function
    Blocks,    \* the block instructions that occur in the program
    LINK,      \* the bits of a list pointer, read as a value
    NULL       \* the NULL pointer

ASSUME NumSlotsAssumption == NumSlots \in Nat /\ NumSlots > MaxArity + 3
ASSUME MaxArityAssumption == MaxArity \in Nat \ {0}
ASSUME ValAssumption == LINK \notin Val

Slots   == 0 .. NumSlots - 1
Arities == 0 .. MaxArity

\* Where a list pointer may point: an entry of the pool, the list head in
\* stack_t, or, once a value has been written over the link, nowhere known.
ListHead == -1
Junk == -2
Nodes == Slots \cup {ListHead, Junk}

\* A block instruction: its opcode and the lengths of its block type's
\* parameters (rt1) and results (rt2).
Instr == [op : {"block", "loop", "if"}, rt1 : Arities, rt2 : Arities]

ASSUME BlocksAssumption == Blocks \subseteq Instr /\ NULL \notin Blocks

ValObj   == [type : {"val"}, val : Val \cup {LINK}]
LabelObj == [type : {"label"}, prev : Nodes, arity : Arities,
             parent : Blocks \cup {NULL}]
FrameObj == [type : {"frame"}, prev : Nodes, arity : Arities]
FreeObj  == [type : {"free"}]        \* above idx: never written, or popped

Stack == [idx    : -1 .. NumSlots - 1,
          pool   : [Slots -> ValObj \cup LabelObj \cup FrameObj \cup FreeObj],
          labels : Nodes,            \* labels.prev, the tail of the list
          frames : Nodes]            \* frames.prev

Free == [type |-> "free"]

Stk(idx, pool, labels, frames) ==
    [idx |-> idx, pool |-> pool, labels |-> labels, frames |-> frames]

NewStack == Stk(-1, [i \in Slots |-> Free], ListHead, ListHead)

Full(S) == S.idx = NumSlots - 1

-----------------------------------------------------------------------------
(* Intrusive lists.  The two lists differ only in their head.              *)

\* Writes link.next of node e, which destroys a value that lives there.
WriteNext(pool, e) ==
    IF e \in Slots /\ pool[e].type = "val"
    THEN [pool EXCEPT ![e].val = LINK]
    ELSE pool

\* Reads link.prev of node e.
PrevOf(pool, e) ==
    IF e \in Slots /\ pool[e].type \in {"label", "frame"}
    THEN pool[e].prev
    ELSE Junk

-----------------------------------------------------------------------------
(* Pushes.  A push on a full stack changes nothing: the callers test Full. *)

\* Mutant: push_vals pushes in the order of the vector.
PushValsForwards(S, vals) ==
    LET top == IF S.idx + Len(vals) < NumSlots THEN S.idx + Len(vals) ELSE NumSlots - 1
    IN  Stk(top,
            [i \in Slots |-> IF S.idx < i /\ i <= top
                             THEN [type |-> "val", val |-> vals[i - S.idx]]
                             ELSE S.pool[i]],
            S.labels, S.frames)

\* push_vals: vals[1] was popped first and is pushed last.  It stops at the
\* first push that finds the stack full.
PushVals(S, vals) ==
    LET top    == IF S.idx + Len(vals) < NumSlots THEN S.idx + Len(vals)
                                                  ELSE NumSlots - 1
        obj(i) == [type |-> "val", val |-> vals[Len(vals) + 1 - (i - S.idx)]]
    IN  Stk(top,
            [i \in Slots |-> IF S.idx < i /\ i <= top THEN obj(i) ELSE S.pool[i]],
            S.labels, S.frames)

PushVal(S, v) == PushVals(S, <<v>>)

\* push_vals throws if one of the values does not fit.
Overflows(S, n) == S.idx + n >= NumSlots

\* Mutant: the label is linked to the head of its list instead of the tail.
PushLabelFirst(S, arity, parent) ==
    IF Full(S) THEN S ELSE
    LET obj == [type |-> "label", prev |-> ListHead, arity |-> arity, parent |-> parent]
    IN  Stk(S.idx + 1, [S.pool EXCEPT ![S.idx + 1] = obj], S.idx + 1, S.frames)

PushLabel(S, arity, parent) ==
    IF Full(S) THEN S ELSE
    LET new == S.idx + 1
        obj == [type |-> "label", prev |-> S.labels, arity |-> arity,
                parent |-> parent]
    IN  Stk(new, WriteNext([S.pool EXCEPT ![new] = obj], S.labels), new, S.frames)

PushFrame(S, arity) ==
    IF Full(S) THEN S ELSE
    LET new == S.idx + 1
        obj == [type |-> "frame", prev |-> S.frames, arity |-> arity]
    IN  Stk(new, WriteNext([S.pool EXCEPT ![new] = obj], S.frames), S.labels, new)

-----------------------------------------------------------------------------
(* Pops.  They move idx only.  What a popped entry still holds means       *)
(* nothing, every push overwrites a whole entry, so it is free and a read  *)
(* through a stale pointer finds Junk.                                     *)

Cut(pool, top) == [i \in Slots |-> IF i <= top THEN pool[i] ELSE Free]

SetTop(S, top) == Stk(top, Cut(S.pool, top), S.labels, S.frames)

ValAt(S, i) == IF S.pool[i].type = "val" THEN S.pool[i].val ELSE LINK

\* What pop_vals_n reads: the top n entries, the topmost first.
TopVals(S, n) == [k \in 1 .. n |-> ValAt(S, S.idx + 1 - k)]

PopN(S, n) == SetTop(S, S.idx - n)

\* pop_vals scans down from the top for the first entry that is not a value.
\* The scan has no lower bound: b exists only if such an entry does.
IsBase(S, b) ==
    /\ b \in 0 .. S.idx
    /\ S.pool[b].type # "val"
    /\ \A i \in b + 1 .. S.idx : S.pool[i].type = "val"

\* list_pop_tail gives the tail's predecessor a new next, then makes it the
\* tail.  An empty list is left alone.
PopTail(pool, tail) ==
    IF tail = ListHead THEN [pool |-> pool, tail |-> ListHead]
    ELSE LET prev == PrevOf(pool, tail)
         IN  [pool |-> WriteNext(pool, prev), tail |-> prev]

\* Mutants: pop_label without list_pop_tail, and the same for pop_frame.
PopLabelLinked(S) == Stk(S.idx - 1, Cut(S.pool, S.idx - 1), S.labels, S.frames)
PopFrameLinked(S) == Stk(S.idx - 1, Cut(S.pool, S.idx - 1), S.labels, S.frames)

PopLabel(S) ==
    LET list == PopTail(S.pool, S.labels)
    IN  Stk(S.idx - 1, Cut(list.pool, S.idx - 1), list.tail, S.frames)

PopFrame(S) ==
    LET list == PopTail(S.pool, S.frames)
    IN  Stk(S.idx - 1, Cut(list.pool, S.idx - 1), S.labels, list.tail)

-----------------------------------------------------------------------------
(* Reading the stack by position, as the WebAssembly specification does.   *)

SlotsOf(S, type) == {i \in 0 .. S.idx : S.pool[i].type = type}

\* i is the highest live entry of its type.
IsTop(S, type, i) ==
    /\ i \in SlotsOf(S, type)
    /\ \A j \in i + 1 .. S.idx : S.pool[j].type # type

\* j is the next entry of the type below i.
IsBelow(S, type, i, j) ==
    /\ j \in 0 .. i - 1
    /\ S.pool[j].type = type
    /\ \A k \in j + 1 .. i - 1 : S.pool[k].type # type

\* The list with this tail visits the live entries of the type from the top
\* down.  What the link of the lowest one holds is left open: it may be the
\* head, or an entry of a computation that was abandoned.
Linked(S, type, tail) ==
    /\ IsTop(S, type, tail) \/ SlotsOf(S, type) = {}
    /\ \A i \in SlotsOf(S, type) :
          \/ IsBelow(S, type, i, S.pool[i].prev)
          \/ \A j \in 0 .. i - 1 : S.pool[j].type # type

\* The labels of the current activation: those above its frame.
OwnLabels(S) ==
    {i \in SlotsOf(S, "label") : \A f \in SlotsOf(S, "frame") : f < i}

\* The top n entries are values.
HasVals(S, n) ==
    /\ n <= S.idx + 1
    /\ \A i \in S.idx + 1 - n .. S.idx : S.pool[i].type = "val"

\* list_get_elem(&labels, l) by its hops e = e->prev, the result being walk[l].
\* A hop that does not lead to a lower label of the activation reads whatever
\* the memory holds; there is no walk then.
IsWalk(S, l, walk) ==
    /\ walk[0] = S.labels
    /\ \A k \in 1 .. l : /\ walk[k] = PrevOf(S.pool, walk[k - 1])
                         /\ walk[k] < walk[k - 1]
    /\ walk \in [0 .. l -> OwnLabels(S)]

\* The number of values a branch to the block's label takes along.
LabelArity(b) == IF b.op = "loop" THEN b.rt1 ELSE b.rt2

\* What an entry of a stack between two instructions relies on.  The lowest
\* entry is a frame, a value has a label below it, and a frame carries its
\* function's label, unless it is on top or is the frame of instantiate under
\* the start function's.  So where no label is live no value is either, and a
\* list operation through a stale link cannot meet a value.
EntryOK(S, i) ==
    LET obj == S.pool[i]
    IN  /\ obj.type \in {"val", "label", "frame"}
        /\ i = 0 => obj.type = "frame"
        /\ obj.type = "val" => /\ obj.val # LINK
                               /\ \E j \in 0 .. i - 1 : S.pool[j].type = "label"
        /\ obj.type = "label" =>
              IF obj.parent = NULL
              THEN S.pool[i - 1].type = "frame" /\ S.pool[i - 1].arity = obj.arity
              ELSE obj.arity = LabelArity(obj.parent)
        /\ (obj.type = "frame" /\ i < S.idx) =>
              \/ S.pool[i + 1].type = "frame"
              \/ S.pool[i + 1].type = "label" /\ S.pool[i + 1].parent = NULL

WellFormed(S) ==
    /\ Linked(S, "label", S.labels)
    /\ Linked(S, "frame", S.frames)
    /\ \A i \in 0 .. S.idx : EntryOK(S, i)
=============================================================================
