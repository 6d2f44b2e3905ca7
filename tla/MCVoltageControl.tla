-------------------------- MODULE MCVoltageControl -------------------------
(* Model checking of VoltageControl on small instances, with voltages as they *)
(* come over the line.                                                        *)
EXTENDS VoltageControl

\* 2.000, 2.030 and 2.035 V, in three codes of one exponent: two cells within
\* the margin, at the margin, and beyond it.
AroundTheMargin == {decodeData(2048 * 8 + man) : man \in {0, 31, 36}}

=============================================================================
