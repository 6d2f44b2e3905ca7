--------------------------- MODULE MCBatteryPack ---------------------------
(* Model checking of BatteryPack with the requests its connections take; the *)
(* configurations name cells and clients.                                    *)
EXTENDS PackRequests

\* Commands with an answer and without, numbers of cells, numbers that look like
\* commands, and bytes that look cleared.
SomeAsks == {0, 1, 2, 3, 4, 255} \X {0, 1, 2, 3, 255}

=============================================================================
