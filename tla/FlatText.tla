------------------------------ MODULE FlatText ------------------------------
(***************************************************************************)
(* The lexical structure of a function body, a flat sequence of opcodes.   *)
(***************************************************************************)
EXTENDS Integers, Sequences, SequencesExt

Openers == {"block", "loop", "if"}
Tokens == Openers \cup {"op", "else", "end"}

\* The constructs open behind the first p opcodes, from the outermost.
OpenAfter(code, p) ==
    LET open[n \in 0 .. p] ==
            IF n = 0 THEN <<>>
            ELSE IF code[n] \in Openers THEN Append(open[n - 1], n)
            ELSE IF code[n] = "end" /\ open[n - 1] # <<>> THEN Front(open[n - 1])
            ELSE open[n - 1]
    IN  open[p]

Enclosing(code, p) == OpenAfter(code, p - 1)

Innermost(code, p) ==
    LET open == Enclosing(code, p) IN IF open = <<>> THEN 0 ELSE Last(open)

\* The else and the end that belong to the construct opened at i.
ElseOf(code, i) == {p \in i + 1 .. Len(code) : code[p] = "else" /\ Innermost(code, p) = i}
EndOf(code, i) == CHOOSE p \in i + 1 .. Len(code) : code[p] = "end" /\ Innermost(code, p) = i
=============================================================================
