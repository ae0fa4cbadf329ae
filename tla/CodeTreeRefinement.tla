------------------------- MODULE CodeTreeRefinement -------------------------
(***************************************************************************)
(* The tree of nodes and its labels are the text of the function and a     *)
(* position in it.                                                         *)
(***************************************************************************)
EXTENDS CodeTree, FlatText, FiniteSets

Text == [i \in 1 .. Len(nodes) |-> nodes[i].op]

\* The static end stands for the end of the if that was sent there.
Position == IF ip # StaticEnd THEN ip ELSE EndOf(Text, Last(labels))

Flat == INSTANCE FlatCode WITH
    code <- Text,
    pc   <- Position

\* The decoder accepts the bodies that are well nested, and control moves over
\* its tree as over the text: arms are entered and left, and branches find the
\* end or the loop they name, wherever constructs begin and end.
ImplementsFlatCode == Flat!Spec

-----------------------------------------------------------------------------

\* The labels of a running frame are the constructs that enclose its
\* instruction in the text of the function, below them the function itself:
\* no way out of a block, a loop or an arm leaves a label behind or takes one
\* too many.
LabelsAreScopes ==
    mode = "run" => labels = <<NULL>> \o Enclosing(Text, Position)

\* Where a pointer leads to node i: the body, or a field of a node.
Links(i) ==
    {l \in (1 .. Len(nodes)) \X {"next", "in1", "in2"} : nodes[l[1]][l[2]] = i}
      \cup {l \in {<<NULL, "body">>} : body = i}

\* The nodes form a tree: pointers lead to nodes that were read later, and each
\* node of a body that was accepted has one pointer to it, the head from the body.
\* Nothing that was read is lost, and nothing is run twice.
EveryNodeLinked ==
    /\ \A i \in 1 .. Len(nodes) :
          {nodes[i].next, nodes[i].in1, nodes[i].in2} \subseteq {NULL} \cup i + 1 .. Len(nodes)
    /\ mode \in {"ready", "run"} => \A i \in 1 .. Len(nodes) : Cardinality(Links(i)) = 1
=============================================================================
