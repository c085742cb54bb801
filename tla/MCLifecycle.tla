----------------------------- MODULE MCLifecycle ----------------------------
(* Lifecycle for TLC: the constants are given by the configurations.        *)
EXTENDS Lifecycle
=============================================================================
