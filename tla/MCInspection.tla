---------------------------- MODULE MCInspection ---------------------------
(* Model checking of Inspection on small instances. *)
EXTENDS Inspection

\* A group of one cell or of two: it can grow and shrink between restarts.
OneOrTwo == {1, 2}

\* The size never changes.
Two == {2}

=============================================================================
