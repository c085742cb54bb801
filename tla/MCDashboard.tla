----------------------------- MODULE MCDashboard ----------------------------
(* Dashboard for TLC: runs are interchangeable.                            *)
EXTENDS Dashboard, TLC

Symmetry == Permutations(Runs)
=============================================================================
