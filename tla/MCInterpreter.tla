--------------------------- MODULE MCInterpreter ---------------------------
(* Model checking of the interpreter's stack on a small pool.             *)
EXTENDS Interpreter, TLC

B(op, rt1, rt2) == [op |-> op, rt1 |-> rt1, rt2 |-> rt2]

SmallBlocks == {B("block", 0, 1), B("loop", 1, 0), B("if", 1, 1)}

Symmetry == Permutations(Val)
=============================================================================
