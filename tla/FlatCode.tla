------------------------------ MODULE FlatCode ------------------------------
(***************************************************************************)
(* What the decoder and the interpreter promise together about the shape of *)
(* a function: its body is a flat sequence of opcodes, and control moves    *)
(* over that sequence by its lexical structure alone.  There is no tree and *)
(* no label stack here: the target of a branch is found by counting the     *)
(* constructs that enclose it in the text.                                  *)
(***************************************************************************)
EXTENDS FlatText

CONSTANTS MaxInstrs \* the longest function body

VARIABLES
    code, \* the opcodes read so far
    mode, \* "decode", "refused", "ready", "run"
    pc    \* the opcode to execute, 0 before and after

vars == <<code, mode, pc>>

\* An else belongs to an if that has none yet.
ElseFits ==
    LET open == OpenAfter(code, Len(code)) IN
    /\ open # <<>>
    /\ code[Last(open)] = "if"
    /\ ElseOf(code, Last(open)) = {}

Init == code = <<>> /\ mode = "decode" /\ pc = 0

\* The end behind the last open construct closes the body.
Read(t) ==
    /\ mode = "decode"
    /\ Len(code) < MaxInstrs
    /\ t = "else" => ElseFits
    /\ code' = Append(code, t)
    /\ mode' = IF t = "end" /\ OpenAfter(code, Len(code)) = <<>> THEN "ready" ELSE "decode"
    /\ UNCHANGED pc

\* The bytes end before the body does, or an opcode is unknown.
Refuse ==
    /\ mode = "decode"
    /\ mode' = "refused"
    /\ UNCHANGED <<code, pc>>

Invoke ==
    /\ mode = "ready"
    /\ mode' = "run"
    /\ pc' = 1
    /\ UNCHANGED code

Goto(p) ==
    /\ pc' = p
    /\ mode' = IF p = 0 THEN "ready" ELSE "run"
    /\ UNCHANGED code

Return == code[pc] = "op" /\ Goto(0)

Plain == code[pc] = "op" /\ Goto(pc + 1)

Enter == code[pc] \in Openers /\ Goto(pc + 1)

\* The condition of an if is false: to its else arm, or to its end.
Skip ==
    /\ code[pc] = "if"
    /\ \/ \E e \in ElseOf(code, pc) : Goto(e + 1)
       \/ ElseOf(code, pc) = {} /\ Goto(EndOf(code, pc))

\* The first arm of an if runs into its else.
LeaveArm == code[pc] = "else" /\ Goto(EndOf(code, Innermost(code, pc)) + 1)

LeaveBlock == code[pc] = "end" /\ Goto(IF Innermost(code, pc) = 0 THEN 0 ELSE pc + 1)

\* Leave n constructs, and start the next one again or leave it too.
Branch(n) ==
    LET open == Enclosing(code, pc)
        k == Len(open) - n
    IN  /\ code[pc] = "op"
        /\ k >= 0
        /\ Goto(IF k = 0 THEN 0
                ELSE IF code[open[k]] = "loop" THEN open[k]
                ELSE EndOf(code, open[k]) + 1)

Execute ==
    /\ mode = "run"
    /\ \/ Return \/ Plain \/ Enter \/ Skip \/ LeaveArm \/ LeaveBlock
       \/ \E n \in 0 .. MaxInstrs : Branch(n)

Next ==
    \/ \E t \in Tokens : Read(t)
    \/ Refuse
    \/ Invoke
    \/ Execute

Spec == Init /\ [][Next]_vars
=============================================================================
