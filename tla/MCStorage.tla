----------------------------- MODULE MCStorage -----------------------------
(* Storage with a group of one or two cells. *)
EXTENDS Storage

Totals == {1, 2}
=============================================================================
