---------------------------- MODULE MCLiveStream ----------------------------
(* One tab on small instances of the bus.  Connections are interchangeable. *)
EXTENDS LiveStream

Symmetry == Permutations(Queues)

=============================================================================
