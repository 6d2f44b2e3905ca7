--------------------------- MODULE VoltageControl ---------------------------
(***************************************************************************)
(* control_voltage (bs01thread.c): once a minute bs01 measures every cell   *)
(* over the serial line, finds the lowest voltage, and tells every cell     *)
(* that lies above it to discharge and every other cell to stop.            *)
(*                                                                         *)
(* Voltages are integers in millivolts, the resolution decodeData gives     *)
(* them.  A measurement that fails returns -1 V or -2 V through the same    *)
(* float (sendSerialTextCommand); a command that fails is not noticed.      *)
(* The discharge relay of a cell is part of the cell: it outlives the pass  *)
(* and the process.                                                        *)
(***************************************************************************)
EXTENDS FrameCodec

CONSTANTS N,            \* battery_total
          Volts         \* the voltages a cell can report, in millivolts

ASSUME GroupSize  == N \in Nat \ {0}
ASSUME VoltsAreMV == Volts \subseteq Nat \ {0}

VARIABLES pc,           \* "measure", "command", "publish"
          i,            \* the loop counter
          MinValue,     \* the running minimum, an error code included
          bat_zu,       \* what the pass measured, 0 where it got nothing
          told,         \* the command each cell was sent in this pass
          relay,        \* what the discharger of each cell does
          voltage,      \* group_battery.single_bat[].voltage
          faults        \* frames are being lost, and the process killed

vars == <<pc, i, MinValue, bat_zu, told, relay, voltage, faults>>

Bats == 1..N

NoAnswer   == -1000     \* -1: no valid frame in two attempts
Zero       == 0         \* a reading below half a millivolt

Margin == 30            \* 0.03 V
Open   == "on"          \* charge_discharge_open
Off    == "off"         \* charge_discharge_off

Init ==
    /\ pc = "measure"
    /\ i = 1
    /\ MinValue = 0
    /\ bat_zu = [b \in Bats |-> 0]
    /\ told = [b \in Bats |-> Off]
    /\ relay = [b \in Bats |-> Off]
    /\ voltage = [b \in Bats |-> 0]
    /\ faults = TRUE

-----------------------------------------------------------------------------

\* What sendSerialTextCommand(test_voltage) can return.
Readings == IF faults THEN Volts \cup {NoAnswer, NotANumber, Zero} ELSE Volts

NewMinOfAll(b, v) == IF b = 1 \/ v < MinValue THEN v ELSE MinValue

\* The minimum after cell b read v: the first cell sets it, whatever v is.
NewMin(b, v) ==
    IF b = 1 THEN v
    ELSE IF v > 0 /\ v < MinValue THEN v ELSE MinValue

KeptRaw(v) == v

\* What is kept of it.
Kept(v) == IF v > 0 THEN v ELSE 0

Measure ==
    /\ pc = "measure"
    /\ i <= N
    /\ \E v \in Readings :
          /\ bat_zu' = [bat_zu EXCEPT ![i] = Kept(v)]
          /\ MinValue' = NewMin(i, v)
    /\ i' = i + 1
    /\ UNCHANGED <<pc, told, relay, voltage, faults>>

MeasuredAll ==
    /\ pc = "measure"
    /\ i > N
    /\ pc' = "command"
    /\ i' = 1
    /\ UNCHANGED <<MinValue, bat_zu, told, relay, voltage, faults>>

\* MinValue < bat_zu[b] - 0.03 is computed in floating point on rounded
\* decimals: when the two sides are equal in decimal it may go either way.
Commands(b) ==
    CASE MinValue < bat_zu[b] - Margin -> {Open}
      [] MinValue = bat_zu[b] - Margin -> {Open, Off}
      [] OTHER                         -> {Off}

CommandIfChanged ==
    /\ pc = "command"
    /\ i <= N
    /\ \E cmd \in Commands(i) :
          /\ told' = [told EXCEPT ![i] = cmd]
          /\ \/ cmd # told[i] /\ relay' = [relay EXCEPT ![i] = cmd]
             \/ (faults \/ cmd = told[i]) /\ UNCHANGED relay
    /\ i' = i + 1
    /\ UNCHANGED <<pc, MinValue, bat_zu, voltage, faults>>

\* sendSerialControlCommand tries twice; its result is not looked at.  The
\* cell obeys if a frame reached it, acknowledged or not.
Command ==
    /\ pc = "command"
    /\ i <= N
    /\ \E cmd \in Commands(i) :
          /\ told' = [told EXCEPT ![i] = cmd]
          /\ \/ relay' = [relay EXCEPT ![i] = cmd]
             \/ faults /\ UNCHANGED relay
    /\ i' = i + 1
    /\ UNCHANGED <<pc, MinValue, bat_zu, voltage, faults>>

CommandedAll ==
    /\ pc = "command"
    /\ i > N
    /\ pc' = "publish"
    /\ UNCHANGED <<i, MinValue, bat_zu, told, relay, voltage, faults>>

\* The locked copy into the shared record, and the next call a minute later.
Publish ==
    /\ pc = "publish"
    /\ voltage' = bat_zu
    /\ pc' = "measure"
    /\ i' = 1
    /\ MinValue' = 0
    /\ told' = [b \in Bats |-> Off]
    /\ UNCHANGED <<bat_zu, relay, faults>>

\* The process stops anywhere in the pass and is started again: its locals
\* and the shared record are gone, the relays are as they were.
Restart ==
    /\ faults
    /\ pc' = "measure"
    /\ i' = 1
    /\ MinValue' = 0
    /\ bat_zu' = [b \in Bats |-> 0]
    /\ told' = [b \in Bats |-> Off]
    /\ voltage' = [b \in Bats |-> 0]
    /\ UNCHANGED <<relay, faults>>

\* The faults end for good.
Heal ==
    /\ faults
    /\ faults' = FALSE
    /\ UNCHANGED <<pc, i, MinValue, bat_zu, told, relay, voltage>>

Pass == Measure \/ MeasuredAll \/ Command \/ CommandedAll \/ Publish

Next == Pass \/ Restart \/ Heal

Spec == Init /\ [][Next]_vars

\* bs01 runs: every serial call of the pass returns (two attempts of a second).
FairSpec == Spec /\ WF_vars(Pass)

-----------------------------------------------------------------------------

TypeOK ==
    /\ pc \in {"measure", "command", "publish"}
    /\ i \in 1..(N + 1)
    /\ MinValue \in Volts \cup {NoAnswer, NotANumber, Zero}
    /\ bat_zu \in [Bats -> Volts \cup {0}]
    /\ told \in [Bats -> {Open, Off}]
    /\ relay \in [Bats -> {Open, Off}]
    /\ voltage \in [Bats -> Volts \cup {0}]
    /\ faults \in BOOLEAN

\* The cells this pass got a voltage from.
Heard == {b \in Bats : bat_zu[b] > 0}

\* The cells this pass has sent a command to.
Reached == IF pc = "publish" THEN Bats
           ELSE IF pc = "command" THEN 1..(i - 1) ELSE {}

\* "Cells whose voltage is above that of the lowest cell of the group" are
\* told to discharge, and only they (bs01thread.c:40-48), whichever other
\* cells do not answer, provided cell 1 does: a cell that was told to
\* discharge lies at least the margin above another, and a cell that was told
\* to stop lies at most the margin above every other.
FollowsMinimum ==
    1 \in Heard => \A b \in Reached :
        /\ told[b] = Open => \E c \in Heard : bat_zu[b] - Margin >= bat_zu[c]
        /\ told[b] = Off  => \A c \in Heard : bat_zu[b] - Margin <= bat_zu[c]

\* The codes that a cell can have answered when it is taken to have voltage v.
CodesOf == [v \in Volts |-> {c \in Numbers : decodeData(c) = v}]

\* If cell 1 answers, a cell that is told to discharge sent a higher code than another,
\* whichever code it was: the control compares decoded voltages (bs01thread.c:41),
\* and a higher code is never decoded to a lower one (s800serialDAO.c:250-254).
DischargesHigherCode ==
    1 \in Heard => \A b \in Reached :
        told[b] = Open => \E c \in Heard :
            \A x \in CodesOf[bat_zu[b]], y \in CodesOf[bat_zu[c]] : x > y

\* A discharger does what the last pass ordered.
Obeyed == \A b \in Bats : relay[b] = told[b]

\* A lost command does no lasting harm, although nobody looks at its result:
\* once the line works and the process stays up, the passes bring every
\* discharger to what the voltages call for and keep it there
\* (bs01thread.c:40-48, s800serialDAO.c:142-187).
Recovers == ~faults ~> [](pc = "publish" => Obeyed /\ FollowsMinimum /\ Heard = Bats)

\* The comment of bs01thread.c:41 ("a cell whose voltage is 0.05 V above that
\* of the lowest cell of the group is discharged"), whatever the margin: a cell
\* that lies above no other cell is not discharged.
LowestNotDischarged ==
    \A b \in Reached \cap Heard : told[b] = Open => \E c \in Heard : bat_zu[b] > bat_zu[c]

=============================================================================
