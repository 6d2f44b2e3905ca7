----------------------------- MODULE SerialCall -----------------------------
(***************************************************************************)
(* What a call of sendSerialTextCommand or sendSerialControlCommand         *)
(* (s800serialDAO.c) promises to the thread that makes it, as the passes of *)
(* VoltageControl and Inspection rely on it:                                *)
(*                                                                         *)
(*   - one call after the other, each with its arguments until it returns;  *)
(*   - if nothing was on its way when the call began, what it returns is an *)
(*     answer of its own cell to its own command: a number or -2 for a      *)
(*     voltage, a number for a resistance, the echo for a control command;  *)
(*   - or -1, after two lost or damaged replies or after a byte too many,   *)
(*     unless a resistance was asked for.                                   *)
(*                                                                         *)
(* SerialLink is the implementation with the bytes, the polls and the       *)
(* attempts.                                                               *)
(***************************************************************************)
EXTENDS Integers

CONSTANTS Cells,        \* the batteries on the line
          Commands      \* the commands issued: some of "voltage", "res", "open"

VARIABLES busy,         \* is a call under way?
          call,         \* its arguments, or those of the last one
          late,         \* did it begin with bytes on their way?
          losses,       \* its replies lost or damaged, 2 for more
          surplus,      \* did a stray byte come, or one after its window?
          answer        \* what the last call returned

vars == <<busy, call, late, losses, surplus, answer>>

Silence == [cell |-> "nobody", cmd |-> "none", ans |-> "-1"]

\* A resistance may be asked for with a second command.
CommandsOf(cmd) == {cmd} \cup IF cmd = "res" THEN {"res2"} ELSE {}

Answers(cmd) ==
    CASE cmd = "open" -> {"ack"}
      [] cmd = "res"  -> {"value"}
      [] OTHER        -> {"value", "nan"}

Own(c) == {[cell |-> c.cell, cmd |-> k, ans |-> a] :
              k \in CommandsOf(c.cmd), a \in Answers(c.cmd)}

\* An answer to whatever call, which may have been an earlier one.
Anybodys == [cell : Cells, cmd : UNION {CommandsOf(k) : k \in Commands},
             ans : {"value", "nan", "ack"}]

-----------------------------------------------------------------------------

Init ==
    /\ busy = FALSE
    /\ call \in [cell : Cells, cmd : Commands]
    /\ late = FALSE
    /\ losses = 2
    /\ surplus = FALSE
    /\ answer = Silence

Begin ==
    /\ ~busy
    /\ busy' = TRUE
    /\ call' \in [cell : Cells, cmd : Commands]
    /\ late' = FALSE
    /\ losses' = 0
    /\ surplus' = FALSE
    /\ answer' = Silence

\* The line disturbs the call under way.
Disturb ==
    /\ busy
    /\ late' \in BOOLEAN
    /\ losses' \in losses..2
    /\ surplus' \in {surplus, TRUE}
    /\ UNCHANGED <<busy, call, answer>>

Return ==
    /\ busy
    /\ busy' = FALSE
    /\ surplus' \in {surplus, TRUE}
    /\ \/ answer' \in IF late THEN Anybodys ELSE Own(call)
       \/ /\ answer' = Silence
          /\ late \/ surplus' \/ losses = 2 \/ call.cmd = "res"
    /\ UNCHANGED <<call, late, losses>>

Next == Begin \/ Disturb \/ Return

Spec == Init /\ [][Next]_vars

=============================================================================
