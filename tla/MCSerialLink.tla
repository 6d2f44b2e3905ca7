---------------------------- MODULE MCSerialLink ---------------------------
(* Model checking of SerialLink on small instances. *)
EXTENDS SerialLink

AllCommands == {"voltage", "res", "open"}

=============================================================================
