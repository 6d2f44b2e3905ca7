-------------------------- MODULE MCCurrentSensor --------------------------
(* Model checking of CurrentSensor: readings that are zero, and that contain *)
(* the bytes a frame begins and ends with.                                   *)
EXTENDS CurrentSensor

Codes == {0, 256 * 7 + End, 256 * 9 + Sync}
Noise == {0, Sync, End}

=============================================================================
