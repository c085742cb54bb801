------------------------------ MODULE MCHandoff -----------------------------
(* Three graphs for TLC: the outer one runs the inner one, which runs a     *)
(* third one, which runs the outer one again.                              *)
EXTENDS Handoff

CONSTANTS outer, inner, leaf, a, w

Objects == {outer, inner, leaf}
Nodes == (outer :> {a, w}) @@ (inner :> {w}) @@ (leaf :> {a})
Calling == (outer :> (a :> NoGraph @@ w :> inner))
        @@ (inner :> (w :> leaf))
        @@ (leaf  :> (a :> outer))
FewEdges == (outer :> 3) @@ (inner :> 1) @@ (leaf :> 1)
=============================================================================
