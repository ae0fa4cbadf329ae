---------------------------- MODULE MCRefinement ----------------------------
(* The refinement on a pool that holds two values to tell apart.          *)
EXTENDS InterpreterRefinement, TLC

B(op, rt1, rt2) == [op |-> op, rt1 |-> rt1, rt2 |-> rt2]

PairBlocks == {B("block", 2, 2), B("loop", 2, 0), B("if", 1, 2)}

Symmetry == Permutations(Val)
=============================================================================
