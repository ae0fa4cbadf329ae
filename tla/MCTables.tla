------------------------------ MODULE MCTables ------------------------------
(* Model checking of two small tables, one of them under two indices.     *)
EXTENDS TableRefinement

TwoTables ==
    [a \in Addrs |-> IF a = "t0" THEN [min |-> 1, max |-> 2, has_max |-> TRUE]
                                 ELSE [min |-> 1, max |-> 0, has_max |-> FALSE]]
Aliased == [x \in TableIdx |-> IF x = "x0" THEN "t0" ELSE "t1"]
OneSegment == [seg \in Segments |-> <<"f", REF_NULL>>]
TypeF == [rt1 |-> <<>>, rt2 |-> <<"i32">>]
TypeG == [rt1 |-> <<>>, rt2 |-> <<"i64">>]
TypeOf == [f \in Funcs |-> TypeF]
Types == {TypeF, TypeG}
SomeOperands == 0 .. 2 \cup {W - 1}
NonNegative == {0, 1, 2}
=============================================================================
