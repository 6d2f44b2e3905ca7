-------------------------- MODULE MCNetworkServer --------------------------
(* Model checking of NetworkServer on small instances. *)
EXTENDS NetworkServer

=============================================================================
