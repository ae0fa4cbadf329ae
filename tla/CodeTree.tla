------------------------------ MODULE CodeTree ------------------------------
(***************************************************************************)
(* A function body as the decoder builds it and the interpreter walks it.  *)
(*                                                                         *)
(* decode_instr turns the opcodes into instr_t nodes: the instructions of a *)
(* sequence are linked by next, and a block, loop or if has its sequences   *)
(* in in1 and in2.  A node is numbered by the opcode it was read from, 0 is *)
(* NULL.  decode_instr calls itself for what is inside a construct; frames  *)
(* is its activations, above the one of decode_expr.                        *)
(*                                                                         *)
(* exec_instrs then follows the pointers, with a label for each construct   *)
(* it is in.  "op" is every instruction without a structure: executing it   *)
(* may go on, return, or branch to any label the validator lets it name.    *)
(***************************************************************************)
EXTENDS Integers, Sequences, SequencesExt

CONSTANTS
    MaxInstrs, \* the longest function body
    StrayElse  \* whether a body may have an else that fits no if

ASSUME BodyAssumption == MaxInstrs \in Nat /\ StrayElse \in BOOLEAN

Structured == {"block", "loop", "if"}
Opcodes == Structured \cup {"op", "else", "end"}

NULL == 0
\* The static end instruction an if without an else arm is sent to.
StaticEnd == MaxInstrs + 1

VARIABLES
    nodes,  \* the instr_t: op1 and the pointers
    body,   \* func->body
    frames, \* the activations: the construct, the list it reads, its last node
    mode,   \* "decode", "refused", "ready", "run"
    ip,     \* the instruction to execute
    labels  \* the parents of the labels of the frame, the innermost last

vars == <<nodes, body, frames, mode, ip, labels>>

Top == Last(frames)

Frame(i, list) == [node |-> i, list |-> list, last |-> NULL]

Init ==
    /\ nodes = <<>>
    /\ body = NULL
    /\ frames = <<Frame(NULL, "body")>>
    /\ mode = "decode"
    /\ ip = NULL
    /\ labels = <<>>

-----------------------------------------------------------------------------
(* decode_instr                                                            *)

\* The input: an else comes where an if has its first arm open, or anywhere.
MayFollow(t) ==
    t = "else" /\ ~StrayElse => Top.list = "in1" /\ nodes[Top.node].op = "if"

New == Len(nodes) + 1

Alloc(t) == Append(nodes, [op |-> t, next |-> NULL, in1 |-> NULL, in2 |-> NULL])

\* Mutant: the second arm of an if is stored over the first.
LinkedIn1(ns, f, i) ==
    IF f.last # NULL THEN [ns EXCEPT ![f.last].next = i]
    ELSE IF f.list = "body" THEN ns
    ELSE [ns EXCEPT ![f.node].in1 = i]

\* *instr = i, with instr the next of the last node or the head of the list.
Linked(ns, f, i) ==
    IF f.last # NULL THEN [ns EXCEPT ![f.last].next = i]
    ELSE IF f.list = "in1" THEN [ns EXCEPT ![f.node].in1 = i]
    ELSE IF f.list = "in2" THEN [ns EXCEPT ![f.node].in2 = i]
    ELSE ns

BodyHead(f, i) == IF f.list = "body" /\ f.last = NULL THEN i ELSE body

\* The call returns node i to activation f: the list goes on behind it.
Behind(f, i) == [f EXCEPT !.last = i]

Decoding(t) ==
    /\ mode = "decode"
    /\ Len(nodes) < MaxInstrs
    /\ MayFollow(t)
    /\ UNCHANGED <<ip, labels>>

\* An instruction the list goes on behind; so is an else that ends no list.
DecodeLeaf(t) ==
    /\ Decoding(t)
    /\ t \in {"op", "else"}
    /\ t = "else" => Top.list # "in1"
    /\ nodes' = Linked(Alloc(t), Top, New)
    /\ body' = BodyHead(Top, New)
    /\ frames' = Append(Front(frames), Behind(Top, New))
    /\ UNCHANGED mode

\* The node is linked when all of the construct has been read.
DecodeOpener(t) ==
    /\ Decoding(t)
    /\ t \in Structured
    /\ nodes' = Alloc(t)
    /\ frames' = Append(frames, Frame(New, "in1"))
    /\ UNCHANGED <<body, mode>>

\* Whatever the construct, an else ends its first list and begins its second.
DecodeElse ==
    /\ Decoding("else")
    /\ Top.list = "in1"
    /\ nodes' = Linked(Alloc("else"), Top, New)
    /\ frames' = Append(Front(frames), Frame(Top.node, "in2"))
    /\ UNCHANGED <<body, mode>>

\* The end of a construct, which the activation below links.
DecodeEnd ==
    /\ Decoding("end")
    /\ Top.list # "body"
    /\ LET below == Last(Front(frames))
       IN  /\ nodes' = Linked(Linked(Alloc("end"), Top, New), below, Top.node)
           /\ body' = BodyHead(below, Top.node)
           /\ frames' = Append(Front(Front(frames)), Behind(below, Top.node))
    /\ UNCHANGED mode

\* decode_expr is done with the end of the function.
DecodeBodyEnd ==
    /\ Decoding("end")
    /\ Top.list = "body"
    /\ nodes' = Linked(Alloc("end"), Top, New)
    /\ body' = BodyHead(Top, New)
    /\ frames' = <<>>
    /\ mode' = "ready"

\* The buffer ends, or read_byte, an immediate or the opcode is refused.
DecodeError ==
    /\ mode = "decode"
    /\ mode' = "refused"
    /\ UNCHANGED <<nodes, body, frames, ip, labels>>

-----------------------------------------------------------------------------
(* exec_instrs and invoke_func                                             *)

\* invoke_func pushes a label without a parent and runs the body.
Invoke ==
    /\ mode = "ready"
    /\ mode' = "run"
    /\ ip' = body
    /\ labels' = <<NULL>>
    /\ UNCHANGED <<nodes, body, frames>>

Op == IF ip = StaticEnd THEN "end" ELSE nodes[ip].op

\* Without a next instruction the loop ends, and the frame goes.
Continue(i, ls) ==
    /\ ip' = i
    /\ mode' = IF i = NULL THEN "ready" ELSE "run"
    /\ labels' = IF i = NULL THEN <<>> ELSE ls
    /\ UNCHANGED <<nodes, body, frames>>

Plain == Op = "op" /\ Continue(nodes[ip].next, labels)

Return == Op = "op" /\ Continue(NULL, labels)

\* OP_BLOCK, OP_LOOP, and OP_IF whose condition is true.
Enter == Op \in Structured /\ Continue(nodes[ip].in1, Append(labels, ip))

\* OP_IF whose condition is false.
Skip ==
    /\ Op = "if"
    /\ Continue(IF nodes[ip].in2 # NULL THEN nodes[ip].in2 ELSE StaticEnd, Append(labels, ip))

\* Mutant: an else leads into the arm behind it.
LeaveThrough ==
    /\ Op \in {"else", "end"}
    /\ LET parent == Last(labels)
       IN  Continue(IF parent = NULL THEN NULL
                    ELSE IF Op = "else" THEN nodes[parent].in2
                    ELSE nodes[parent].next, Front(labels))

\* OP_ELSE and OP_END leave the sequence of the innermost label.
Leave ==
    /\ Op \in {"else", "end"}
    /\ LET parent == Last(labels)
       IN  Continue(IF parent = NULL THEN NULL ELSE nodes[parent].next, Front(labels))

\* Mutant: a branch keeps the label of its target.
BranchKeeps(n) ==
    /\ Op = "op"
    /\ n < Len(labels)
    /\ LET parent == labels[Len(labels) - n]
       IN  Continue(IF parent = NULL THEN NULL
                    ELSE IF nodes[parent].op = "loop" THEN parent
                    ELSE nodes[parent].next,
                    SubSeq(labels, 1, Len(labels) - n))

\* OP_BR and its kin pop the labels up to that of their target.
Branch(n) ==
    /\ Op = "op"
    /\ n < Len(labels)
    /\ LET parent == labels[Len(labels) - n]
       IN  Continue(IF parent = NULL THEN NULL
                    ELSE IF nodes[parent].op = "loop" THEN parent
                    ELSE nodes[parent].next,
                    SubSeq(labels, 1, Len(labels) - n - 1))

Execute ==
    /\ mode = "run"
    /\ \/ Plain \/ Return \/ Enter \/ Skip \/ Leave
       \/ \E n \in 0 .. MaxInstrs : Branch(n)

Next ==
    \/ \E t \in Opcodes : DecodeLeaf(t) \/ DecodeOpener(t)
    \/ DecodeElse
    \/ DecodeEnd
    \/ DecodeBodyEnd
    \/ DecodeError
    \/ Invoke
    \/ Execute

Spec == Init /\ [][Next]_vars
=============================================================================
