------------------------------ MODULE MCMemory ------------------------------
(* Model checking of a linear memory of a few bytes.                      *)
EXTENDS MemoryRefinement

OneSegment == [seg \in {"d0"} |-> <<1, 0>>]
SomeOperands == 0 .. 4 \cup {W - 1}
AroundTheSign == {2, 3, 4}
NonNegative == 0 .. (W \div 2) - 1
=============================================================================
