------------------------------ MODULE Validator ------------------------------
(***************************************************************************)
(* validate.c on the functions of a module.  validate_instrs calls itself  *)
(* for the bodies of a block, with a type_stack of its own, and returns to *)
(* validate_instr, which only then checks the block's operands; the labels *)
(* are one list for the whole module.                                      *)
(*                                                                         *)
(* The body is any sequence of instructions: each step validates one more, *)
(* or comes to the end of a sequence.  Instructions without control are    *)
(* given by the types they pop, in this order, and push (Ops).             *)
(***************************************************************************)
EXTENDS Integers, SequencesExt

CONSTANTS
    Types,       \* value types
    Refs,        \* those that are reference types
    I32, ANY,    \* TYPE_NUM_I32; TYPE_ANY
    Ops,         \* the other instructions of the program
    BlockTypes,  \* function types of its blocks and loops,
    IfTypes,     \* of its ifs,
    Results,     \* and the results of its functions
    NumFuncs,    \* functions of a module
    MaxInstrs,   \* bound on the instructions of a module
    MaxLabel,    \* bound on a label index
    WildLabels,  \* whether a later function uses label indices out of range
    MixedTables, \* whether the labels of a br_table may differ in type
    AnyIsNull    \* whether ref.is_null may get something else than a reference

ASSUME TypesAssumption == I32 \in Types \ Refs /\ ANY \notin Types /\ Refs \subseteq Types
ASSUME OpsAssumption == Ops \subseteq [pops : Seq(Types), pushes : Seq(Types)]
ASSUME BlocksAssumption ==
    /\ BlockTypes \cup IfTypes \subseteq [rt1 : Seq(Types), rt2 : Seq(Types)]
    /\ Results \subseteq Seq(Types) /\ Results # {}
ASSUME BoundsAssumption ==
    NumFuncs \in Nat \ {0} /\ MaxInstrs \in Nat /\ MaxLabel \in Nat

VARIABLES
    seqs,     \* the activations of validate_instrs, the innermost one last
    labels,   \* C->labels, the tail last, from the label of the function on
    cycle,    \* whether the prev of that label is the label itself
    ret,      \* *C->ret
    verdict,  \* "open" while validate_module has not returned
    funcs,    \* functions validated so far
    instrs,   \* instructions validated so far, and the last one, or the end
    instr     \* of a sequence

vars == <<seqs, labels, cycle, ret, verdict, funcs, instrs, instr>>

\* The instructions of the program.
Instrs ==
    {[op |-> "other", pops |-> o.pops, pushes |-> o.pushes] : o \in Ops}
    \cup {[op |-> o] : o \in {"invalid", "unreachable", "nop", "drop", "select", "ref_is_null",
                              "return"}}
    \cup {[op |-> o, l |-> l] : o \in {"br", "br_if"}, l \in 0 .. MaxLabel}
    \cup {[op |-> "br_table", ls |-> ls, d |-> d] :
                ls \in {<<>>} \cup {<<l>> : l \in 0 .. MaxLabel}, d \in 0 .. MaxLabel}
    \cup {[op |-> o, bt |-> bt] : o \in {"block", "loop"}, bt \in BlockTypes}
    \cup {[op |-> "if", bt |-> bt] : bt \in IfTypes}

Start == [op |-> "start"]
End == [op |-> "end"]

Depth == Len(seqs)
Inner == seqs[Depth]

\* An activation: the body it validates, its type_stack and its results.
Activation(kind, bt) ==
    [kind |-> kind, bt |-> bt, stack |-> bt.rt1, polymorphic |-> FALSE]

Body(results) == Activation("func", [rt1 |-> <<>>, rt2 |-> results])

-----------------------------------------------------------------------------
(* type_stack.                                                             *)

\* A loop of try_pop over ts: every pop finds the type, or an empty stack that
\* is polymorphic.
CanPop(S, ts) ==
    \A k \in 1 .. Len(ts) :
        LET p == Len(S.stack) + 1 - k
        IN  IF p < 1 THEN S.polymorphic
            ELSE ts[k] = ANY \/ S.stack[p] = ts[k] \/ S.stack[p] = ANY

Popped(S, n) ==
    LET left == IF n < Len(S.stack) THEN Len(S.stack) - n ELSE 0
    IN  [S EXCEPT !.stack = SubSeq(@, 1, left)]

Pushed(S, ts) == [S EXCEPT !.stack = @ \o ts]

Emptied(S) == [S EXCEPT !.stack = <<>>, !.polymorphic = TRUE]

\* peek_stack_top.
TopType(S) == IF S.stack = <<>> THEN ANY ELSE Last(S.stack)

-----------------------------------------------------------------------------
(* One instruction.                                                        *)

\* validate_module returns, every activation and the context with it.
Finish(v) ==
    /\ verdict' = v
    /\ seqs' = <<>> /\ labels' = <<>> /\ ret' = <<>>
    /\ cycle' = FALSE
    /\ funcs' = 0

\* Every error ends validate_module.
Reject == Finish("rejected")

Goto(S) ==
    /\ seqs' = Append(Front(seqs), S)
    /\ UNCHANGED <<labels, cycle, ret, verdict, funcs>>

Check(ok, S) == IF ok THEN Goto(S) ELSE Reject

Other(pops, pushes) ==
    Check(CanPop(Inner, pops), Pushed(Popped(Inner, Len(pops)), pushes))

\* An index the module does not have, an immutable global, an alignment too
\* large.
Invalid == Reject

Unreachable == Goto(Emptied(Inner))

\* OP_NOP, and the OP_END or OP_ELSE that a sequence ends with.
Nop == UNCHANGED <<seqs, labels, cycle, ret, verdict, funcs>>

Drop == Check(CanPop(Inner, <<ANY>>), Popped(Inner, 1))

\* Mutant: the type on top is not looked at.
SelectAny == Check(CanPop(Inner, <<I32, ANY, ANY>>), Pushed(Popped(Inner, 3), <<ANY>>))

Select ==
    LET C == Popped(Inner, 1)
        t == TopType(C)
    IN  Check(/\ CanPop(Inner, <<I32>>)
              /\ C.stack # <<>> \/ C.polymorphic
              /\ t \notin Refs
              /\ CanPop(C, <<t, t>>),
              Pushed(Popped(C, 2), <<t>>))

\* try_pop does not verify the type if it is TYPE_ANY.
RefIsNull ==
    /\ AnyIsNull \/ TopType(Inner) \in Refs \cup {ANY}
    /\ Check(CanPop(Inner, <<ANY>>), Pushed(Popped(Inner, 1), <<I32>>))

\* LIST_GET_ELEM walks back from the tail.  Beyond the label of the function it
\* reaches the list head, which is NULL, or that label for ever.
HasLabel(l) == l < Len(labels) \/ cycle
LabelType(l) == IF l < Len(labels) THEN labels[Len(labels) - l] ELSE labels[1]

Named(l) == l < Len(labels) \/ ~cycle \/ WildLabels

Br(l) ==
    /\ Named(l)
    /\ Check(HasLabel(l) /\ CanPop(Inner, Reverse(LabelType(l))), Emptied(Inner))

BrIf(l) ==
    /\ Named(l)
    /\ LET pops == <<I32>> \o Reverse(LabelType(l))
       IN  Check(HasLabel(l) /\ CanPop(Inner, pops),
                 Pushed(Popped(Inner, Len(pops)), LabelType(l)))

\* Once the operands of one label are popped the stack is polymorphic.
BrTable(ls, d) ==
    /\ Named(d) /\ \A l \in ToSet(ls) : Named(l)
    /\ MixedTables \/ \A l \in ToSet(ls) : LabelType(l) = LabelType(d)
    /\ LET all == Append(ls, d)
           Checked(k) ==
               /\ HasLabel(all[k])
               /\ Len(LabelType(all[k])) = Len(LabelType(d))
               /\ CanPop(IF k = 1 THEN Inner ELSE Emptied(Inner),
                         <<I32>> \o Reverse(LabelType(all[k])))
       IN  Check(HasLabel(d) /\ \A k \in 1 .. Len(all) : Checked(k), Emptied(Inner))

Return == Check(CanPop(Inner, Reverse(ret)), Emptied(Inner))

-----------------------------------------------------------------------------
(* Blocks.                                                                 *)

Enter(kind, bt, label) ==
    /\ seqs' = Append(seqs, Activation(kind, bt))
    /\ labels' = Append(labels, label)
    /\ UNCHANGED <<cycle, ret, verdict, funcs>>

Block(bt) == Enter("block", bt, bt.rt2)

\* Mutant: the label of a loop takes its results.
LoopForward(bt) == Enter("loop", bt, bt.rt2)

Loop(bt) == Enter("loop", bt, bt.rt1)
If(bt) == Enter("then", bt, bt.rt2)

\* The end of validate_instrs or validate_expr.
Complete == /\ CanPop(Inner, Reverse(Inner.bt.rt2))
            /\ Popped(Inner, Len(Inner.bt.rt2)).stack = <<>>

\* Mutant: the label of an if is popped after each of its branches.
EndThenPops ==
    /\ Inner.kind = "then"
    /\ IF ~Complete THEN Reject
       ELSE /\ seqs' = Append(Front(seqs), Activation("else", Inner.bt))
            /\ labels' = Front(labels)
            /\ UNCHANGED <<cycle, ret, verdict, funcs>>

\* The sequence of the then branch is over: an empty else branch is validated
\* as well.
EndThen ==
    /\ Inner.kind = "then"
    /\ Check(Complete, Activation("else", Inner.bt))

\* What a block pops, in this order, after its body: OP_IF does not go through
\* its parameters in reverse.
Operands(S) == IF S.kind = "else" THEN <<I32>> \o S.bt.rt1 ELSE Reverse(S.bt.rt1)

EndBlock ==
    /\ Inner.kind \in {"block", "loop", "else"}
    /\ LET outer == seqs[Depth - 1]
           pops  == Operands(Inner)
       IN  IF Complete /\ CanPop(outer, pops)
           THEN /\ seqs' = Append(SubSeq(seqs, 1, Depth - 2),
                                  Pushed(Popped(outer, Len(pops)), Inner.bt.rt2))
                /\ labels' = Front(labels)
                /\ UNCHANGED <<cycle, ret, verdict, funcs>>
           ELSE Reject

\* validate_func for the next function.  The label of the last one was a local
\* variable at the address of this one's, and is still the tail of the list.
EndFunc ==
    /\ Inner.kind = "func"
    /\ \/ ~Complete /\ Reject
       \/ Complete /\ funcs + 1 = NumFuncs /\ Finish("accepted")
       \/ /\ Complete /\ funcs + 1 < NumFuncs
          /\ \E results \in Results :
                seqs' = <<Body(results)>> /\ labels' = <<results>> /\ ret' = results
          /\ cycle' = TRUE
          /\ funcs' = funcs + 1
          /\ UNCHANGED verdict

-----------------------------------------------------------------------------

\* validate_module with a new context.
Init ==
    /\ \E results \in Results :
          seqs = <<Body(results)>> /\ labels = <<results>> /\ ret = results
    /\ cycle = FALSE
    /\ verdict = "open"
    /\ funcs = 0
    /\ instrs = 0
    /\ instr = Start

NextModule ==
    /\ verdict # "open"
    /\ \E results \in Results :
          seqs' = <<Body(results)>> /\ labels' = <<results>> /\ ret' = results
    /\ cycle' = FALSE
    /\ verdict' = "open"
    /\ funcs' = 0
    /\ instrs' = 0
    /\ instr' = Start

\* validate_instr.
Instruction(i) ==
    \/ i.op = "other" /\ Other(i.pops, i.pushes)
    \/ i.op = "invalid" /\ Invalid
    \/ i.op = "unreachable" /\ Unreachable
    \/ i.op = "nop" /\ Nop
    \/ i.op = "drop" /\ Drop
    \/ i.op = "select" /\ Select
    \/ i.op = "ref_is_null" /\ RefIsNull
    \/ i.op = "br" /\ Br(i.l)
    \/ i.op = "br_if" /\ BrIf(i.l)
    \/ i.op = "br_table" /\ BrTable(i.ls, i.d)
    \/ i.op = "return" /\ Return
    \/ i.op = "block" /\ Block(i.bt)
    \/ i.op = "loop" /\ Loop(i.bt)
    \/ i.op = "if" /\ If(i.bt)

Validate(i) ==
    /\ verdict = "open" /\ instrs < MaxInstrs
    /\ Instruction(i)
    /\ instrs' = instrs + 1
    /\ instr' = i

EndSequence ==
    /\ verdict = "open"
    /\ EndThen \/ EndBlock \/ EndFunc
    /\ UNCHANGED instrs
    /\ instr' = End

Next == (\E i \in Instrs : Validate(i)) \/ EndSequence \/ NextModule

Spec == Init /\ [][Next]_vars

-----------------------------------------------------------------------------
(* Properties.                                                             *)

Kinds == {"func", "block", "loop", "then", "else"}

TypeOK ==
    /\ seqs \in Seq([kind : Kinds, bt : [rt1 : Seq(Types), rt2 : Seq(Types)],
                     stack : Seq(Types \cup {ANY}), polymorphic : BOOLEAN])
    /\ labels \in Seq(Seq(Types))
    /\ cycle \in BOOLEAN
    /\ ret \in Seq(Types)
    /\ verdict \in {"open", "accepted", "rejected"}
    /\ funcs \in 0 .. NumFuncs - 1
    /\ instrs \in 0 .. MaxInstrs
    /\ instr \in Instrs \cup {Start, End}

\* The label list is pushed and popped by hand around the recursive calls, once
\* for the two branches of an if: at every instruction its entries above the
\* function's are the labels of the open bodies, so an index counts bodies.
LabelsFollowBodies ==
    /\ Len(labels) = Depth
    /\ \A k \in 1 .. Depth :
          labels[k] = IF seqs[k].kind = "loop" THEN seqs[k].bt.rt1 ELSE seqs[k].bt.rt2
    /\ verdict = "open" => seqs[1].kind = "func" /\ ret = labels[1]
    /\ \A k \in 2 .. Depth : seqs[k].kind # "func"

\* select peeks at one operand and takes its type for the type of both.  That is
\* right because an operand of unknown type is only ever at the bottom of a
\* polymorphic stack: below it everything is unknown.
UnknownAtBottom ==
    \A k \in 1 .. Depth : \A p \in 1 .. Len(seqs[k].stack) :
        seqs[k].stack[p] = ANY => p = 1 /\ seqs[k].polymorphic
=============================================================================
