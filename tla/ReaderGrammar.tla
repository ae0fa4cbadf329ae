---------------------------- MODULE ReaderGrammar ----------------------------
(***************************************************************************)
(* What the readers of ByteReader promise: the binary grammar of integers, *)
(* written as the standard writes it, from the last byte to the first, and *)
(* the invariants that compare the loop with it.                           *)
(***************************************************************************)
EXTENDS ByteReader

\* The number a byte without another one behind it stands for, and whether N
\* bits hold it.
LastNumber(signed, b) == IF signed /\ SignBit(b) THEN b - Pow2[B] ELSE b

Holds(signed, N, n) ==
    IF signed THEN n \in -Pow2[N - 1] .. Pow2[N - 1] - 1 ELSE n < Pow2[N]

\* The numbers of N bits a string of bytes encodes, uN or sN of the standard:
\* none, or the only one.
Numbers(signed) ==
    LET numbers[N \in Nat] ==
            [s \in Seq(Byte) |->
                IF s = <<>> THEN {}
                ELSE IF ~More(Head(s))
                THEN {n \in {LastNumber(signed, Head(s))} : Len(s) = 1 /\ Holds(signed, N, n)}
                ELSE {m * Pow2[B] + Payload(Head(s)) :
                         m \in IF N > B THEN numbers[N - B][Tail(s)] ELSE {}}]
    IN  numbers

\* The lengths n of the strings that s encodes.
StringMeaning(s) ==
    {n \in 0 .. MaxName : \E k \in 0 .. Len(s) :
        /\ n \in Numbers(FALSE)[W32][SubSeq(s, 1, k)]
        /\ Len(s) = k + n}

Meaning(s) ==
    IF reader = "bytes" THEN StringMeaning(s)
    ELSE Numbers(reader \in Signed)[num_max_bits[reader]][s]

-----------------------------------------------------------------------------

\* A reader answers when, and only when, what it has read is an encoding of
\* the binary grammar, with the number that encoding stands for, sign and width
\* included, and it takes no byte beyond it.
AnswersByTheGrammar ==
    /\ out.kind = "value" => Meaning(read) = {out.value}
    /\ out = Running => Meaning(read) = {} \/ str.filled = str.len

\* What a reader refuses, as too long or as too large, is neither an encoding
\* nor the beginning of one.
RefusesOnlyTheMalformed ==
    out.kind = "error" =>
        /\ Meaning(read) = {}
        /\ out.error # "unexpected end" =>
               \A b \in Byte : Meaning(Append(read, b)) = {}

\* read_bytes writes its string and the zero behind it into what it allocated.
StringFits == str.filled <= str.alloc
=============================================================================
