----------------------------- MODULE ByteReader -----------------------------
(***************************************************************************)
(* The readers every decoder is built from: one byte, the LEB128 integers  *)
(* and a string of bytes whose length comes first.  The machine runs one   *)
(* reader over a buffer whose bytes show up as they are read, so that every *)
(* buffer of at most MaxBytes bytes is one of its behaviours.              *)
(*                                                                         *)
(* A LEB128 byte holds B bits of the number and a bit that says whether    *)
(* another one follows.  In the code B is 7, W32 is 32 and W64 is 64; what *)
(* the readers depend on is that one bit of the last byte of a W64 number  *)
(* counts; of the last byte of a W32 number several may.                   *)
(***************************************************************************)
EXTENDS Integers, Sequences

CONSTANTS
    B,        \* the bits of a number in one byte
    W32, W64, \* the widths of the integers
    MaxBytes, \* the longest buffer
    MaxName   \* the longest string an image announces

ASSUME WidthAssumption ==
    /\ W64 \in Nat /\ W32 \in 1 .. W64 - 1 /\ B \in 1 .. W32
    /\ (W64 - 1) % B = 0

\* The powers of two, 1 << n.
Pow2[n \in Nat] == IF n = 0 THEN 1 ELSE 2 * Pow2[n - 1]

ASSUME BoundAssumption == MaxBytes \in Nat /\ MaxName \in 0 .. Pow2[W32] - 1

VARIABLES
    reader, \* the reader that runs
    read,   \* the bytes it has taken from the buffer
    result, \* its result, a 64-bit pattern
    shift,  \* and the place of the next byte in it
    str,    \* the string of read_bytes: what malloc gave and what is in it
    out     \* its answer

vars == <<reader, read, result, shift, str, out>>

Unsigned == {"u7", "u32", "bytes"}
Signed == {"i32", "i64"}

num_max_bits == [r \in Unsigned \cup Signed |->
                    CASE r = "u7" -> B [] r = "i64" -> W64 [] OTHER -> W32]

Byte == 0 .. Pow2[B + 1] - 1
Payload(b) == b % Pow2[B]
More(b) == b >= Pow2[B]
SignBit(b) == Payload(b) >= Pow2[B - 1]

Running == [kind |-> "running"]
Error(e) == [kind |-> "error", error |-> e]
Value(v) == [kind |-> "value", value |-> v]

NoString == [alloc |-> 0, len |-> 0, filled |-> -1]

Init ==
    /\ reader \in Unsigned \cup Signed
    /\ read = <<>>
    /\ result = 0
    /\ shift = 0
    /\ str = NoString
    /\ out = Running

\* Mutant: only a zero may complete 64 bits.
LastByteFitsZero(b, s) ==
    LET full == B * ((W64 + B - 1) \div B)
    IN  s = full => Payload(b) = 0

\* Mutant: the top byte of a 64-bit number is not looked at.
LastByteFitsAny(b, s) == TRUE

\* All but one bit of the byte that completes 64 bits must repeat the sign.
LastByteFits(b, s) ==
    LET full == B * ((W64 + B - 1) \div B)
    IN  s = full => Payload(b) \in {0, Pow2[B] - 1}

\* result |= (~0UL << shift) when the last byte is negative, as an int64_t.
SignExtended(r, b, s) ==
    LET bits == IF SignBit(b) /\ s < W64 THEN r + (Pow2[W64] - Pow2[s]) ELSE r
    IN  IF bits >= Pow2[W64 - 1] THEN bits - Pow2[W64] ELSE bits

\* The range checks of read_u32_leb128 and read_i32_leb128.
InRange(v) ==
    CASE reader \in {"u32", "bytes"} -> v <= Pow2[W32] - 1
      [] reader = "i32" -> -(Pow2[W32 - 1]) <= v /\ v <= Pow2[W32 - 1] - 1
      [] OTHER -> TRUE

\* Mutant: no room for the zero behind the string.
StartStringTight(n) ==
    /\ n <= MaxName
    /\ str' = [alloc |-> n, len |-> n, filled |-> 0]
    /\ out' = Running

\* read_bytes has the length n of its string: malloc(n + 1), in 32 bits.
StartString(n) ==
    /\ n <= MaxName
    /\ str' = [alloc |-> (n + 1) % Pow2[W32], len |-> n, filled |-> 0]
    /\ out' = Running

Finish(b, r, s) ==
    LET v == IF reader \in Signed THEN SignExtended(r, b, s) ELSE r IN
    IF reader \in Signed /\ ~LastByteFits(b, s)
    THEN out' = Error("integer too large") /\ UNCHANGED str
    ELSE IF ~InRange(v)
    THEN out' = Error("integer too large") /\ UNCHANGED str
    ELSE IF reader = "bytes"
    THEN StartString(v)
    ELSE out' = Value(v) /\ UNCHANGED str

TooLong(s) == s >= num_max_bits[reader]

InNumber == out = Running /\ str.filled = -1

\* result |= ((uint64_t)byte & 0x7f) << shift: the bits are still clear there.
Shifted(r, b, s) == (r + Payload(b) * Pow2[s]) % Pow2[W64]

\* One round of read_leb128_unsigned and read_leb128_signed.
NumberByte(b) ==
    LET r == Shifted(result, b, shift)
        s == shift + B
    IN  /\ InNumber
        /\ Len(read) < MaxBytes
        /\ read' = Append(read, b)
        /\ result' = r
        /\ shift' = s
        /\ IF ~More(b)
           THEN Finish(b, r, s)
           ELSE /\ out' = IF TooLong(s) THEN Error("representation too long") ELSE Running
                /\ UNCHANGED str
        /\ UNCHANGED reader

\* One round of read_bytes.
StringByte(b) ==
    /\ out = Running
    /\ str.filled \in 0 .. str.len - 1
    /\ Len(read) < MaxBytes
    /\ read' = Append(read, b)
    /\ str' = [str EXCEPT !.filled = @ + 1]
    /\ UNCHANGED <<reader, result, shift, out>>

\* str[n] = '\0'
StringEnd ==
    /\ out = Running
    /\ str.filled = str.len
    /\ str' = [str EXCEPT !.filled = @ + 1]
    /\ out' = Value(str.len)
    /\ UNCHANGED <<reader, read, result, shift>>

\* read_byte finds the buffer at its end.
EndOfBuffer ==
    /\ out = Running
    /\ str.filled < str.len
    /\ out' = Error("unexpected end")
    /\ UNCHANGED <<reader, read, result, shift, str>>

Next ==
    \/ \E b \in Byte : NumberByte(b) \/ StringByte(b)
    \/ StringEnd
    \/ EndOfBuffer

Spec == Init /\ [][Next]_vars
=============================================================================
