---------------------------- MODULE MCRalphLoop -----------------------------
(* RalphLoop for TLC: an outer loop with every option, and an inner one    *)
(* with a single bare pass; either may be inside the other.                *)
EXTENDS RalphLoop

CONSTANTS outer, inner, plan, test

ForOuter(x, y) == [l \in Loops |-> IF l = outer THEN x ELSE y]

TwoPhases == ForOuter(<<plan, test>>, <<>>)
TwoSignals == ForOuter({0, 1}, {})
TwoPasses == ForOuter(2, 1)
StallAtOnce == ForOuter(1, 0)
TwoCalls == ForOuter(2, 0)
OuterOnly == {outer}

NoPhases == ForOuter(<<>>, <<>>)
NoSignals == ForOuter({}, {})
None == ForOuter(0, 0)
=============================================================================
