------------------------------ MODULE MCLayout ------------------------------
EXTENDS Layout, TLC

\* The nodes of a graph are interchangeable.
Symmetry == Permutations(Nodes)
=============================================================================
