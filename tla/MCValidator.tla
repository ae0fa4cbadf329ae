----------------------------- MODULE MCValidator -----------------------------
(* Model checking of the validator with three value types.                *)
EXTENDS ValidatorRefinement

Consts == {[pops |-> <<>>, pushes |-> <<t>>] : t \in Types}
SomeOps == Consts \cup {[pops |-> <<"i64", "i32">>, pushes |-> <<"i64">>]}

FT(a, b) == [rt1 |-> a, rt2 |-> b]
SomeBlocks == {FT(<<>>, <<"i32">>), FT(<<"i32", "i64">>, <<"i64">>)}
OneOperand == {FT(<<>>, <<>>), FT(<<"i64">>, <<"i32">>)}
TwoOperands == {FT(<<"i32", "i64">>, <<"i32", "i64">>)}
SomeResults == {<<>>, <<"i64">>}
=============================================================================
