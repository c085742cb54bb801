----------------------------- MODULE MCEventBus -----------------------------
(* The bus for TLC: its constants are given by the configuration.           *)
EXTENDS EventBus
=============================================================================
