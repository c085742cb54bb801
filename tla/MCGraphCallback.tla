--------------------------- MODULE MCGraphCallback --------------------------
(* GraphCallback for TLC: invocations and tasks are interchangeable, and    *)
(* states that differ only in what no property speaks of any more are one. *)
EXTENDS GraphCallback

Symmetry == Permutations(Invocations) \cup Permutations(Tasks)

\* Once invokes have overlapped, the histories are asked for the kinds of visits only;
\* and no guard looks at them, nor at _last_node.
VisitKinds == [t \in Tasks |-> [i \in DOMAIN visits[t] |-> visits[t][i].type]]
View ==
    <<autoIteration, at, nodeOf, within, root, iteration, iterOpen, ended, shapeVars, ends, drawn,
      IF overlap THEN <<VisitKinds>> ELSE <<from, lastNode, passOf, timeline, visits, edges>>>>
=============================================================================
