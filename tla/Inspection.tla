----------------------------- MODULE Inspection -----------------------------
(***************************************************************************)
(* The inspection loop of bs01 (thread_bs01, bs01thread.c): every VolPeriod *)
(* it measures all cells and, once every ResPeriod, also their internal     *)
(* resistance, which takes six seconds a cell.  So that a restart does not  *)
(* repeat that, the inspection keeps a file (RES_FILE) with the schedule    *)
(* and the resistances, rewritten while it goes: truncated, then a header   *)
(* line, then one resistance after the other.  The process may be killed    *)
(* and started again between any two of these steps.                        *)
(*                                                                         *)
(* A resistance is modelled by the reading it is: the time it was taken.    *)
(* What "%.2f" and atof do to its digits is left out; that the file holds   *)
(* one number per cell, in order, is not.                                   *)
(***************************************************************************)
EXTENDS Integers, Sequences

CONSTANTS MaxTotal,     \* the largest group (MAX_BATTERY_TOTAL)
          Totals,       \* the totals the configuration table can hold
          VolPeriod,    \* ten minutes
          ResPeriod,    \* a day
          ControlPeriod,\* a minute
          MaxTime,      \* bound: the clock stops there
          MaxStay,      \* bound: the longest an inspection takes
          MaxCrashes    \* bound: how often the process is killed

ASSUME TotalsFit == MaxTotal \in Nat /\ Totals \subseteq 1..MaxTotal /\ Totals # {}
ASSUME PeriodsPositive ==
    {VolPeriod, ResPeriod, ControlPeriod} \subseteq Nat \ {0}
ASSUME Bounds == MaxTime \in Nat \ {0} /\ {MaxStay, MaxCrashes} \subseteq Nat

VARIABLES now,          \* time(NULL)
          config,       \* battery_total in the configuration table
          file,         \* RES_FILE
          pc,
          battery_total,
          t_now, t_voltage, t_resistance, t_control,
          old_count,    \* resistances found in the file at the start
          i,            \* the cell being inspected
          resistance,   \* mybattery_pack.single_bat[].resistance
          published,    \* group_battery.single_bat[].resistance
          crashes,      \* how often the process was killed
          began,        \* history: when the last inspection began
          latest,       \* history: the last reading of every cell
          tried         \* history: when every cell was last asked for one

timers  == <<t_now, t_voltage, t_resistance, t_control>>
history == <<crashes, began, latest, tried>>
vars == <<now, config, file, pc, battery_total, timers, old_count, i, resistance,
          published, history>>

Times   == 0..MaxTime
Bats    == 1..MaxTotal
Never   == -1           \* no time yet
Failed  == -2           \* what is stored, as 0, for a cell that gave no number
Garbage == -3           \* an uninitialised float
Reading == Times \cup {Failed}

\* The file: the first line, all zero when the file is missing or empty, and
\* the resistances of the second.
NoHeader == [total |-> 0, t_vol |-> 0, t_res |-> 0]
NoFile   == [header |-> NoHeader, res |-> <<>>]

\* All an inspection writes is there.
Complete(f) == f.header.total > 0 /\ Len(f.res) = f.header.total

Inspecting == pc \in {"header", "measure", "write"}

Init ==
    /\ now = 1
    /\ config \in Totals
    /\ file = NoFile
    /\ pc = "start"
    /\ battery_total = 0
    /\ t_now = 0 /\ t_voltage = 0 /\ t_resistance = 0 /\ t_control = 0
    /\ old_count = 0
    /\ i = 1
    /\ resistance = [b \in Bats |-> Garbage]
    /\ published = [b \in Bats |-> Failed]
    /\ crashes = 0
    /\ began = Never
    /\ latest = [b \in Bats |-> Failed]
    /\ tried = [b \in Bats |-> Never]

-----------------------------------------------------------------------------
(* The start of the thread: read the total, then what the file remembers.   *)

VoltageTimeOfAnyFile(total) ==
    IF /\ file.header.total = total
       /\ now < file.header.t_vol
    THEN file.header.t_vol ELSE now

VoltageTimeForgotten(total) == now

\* The stored times count only if they are in the future and belong to a
\* group of this size; the voltage's only if no resistance is missing too.
VoltageTime(total) ==
    IF /\ file.header.total = total
       /\ Len(file.res) = total
       /\ now < file.header.t_vol
    THEN file.header.t_vol ELSE now

ResistanceTime(total) ==
    IF file.header.total = total /\ now < file.header.t_res
    THEN file.header.t_res ELSE now

LoadedFromTwo ==
    [b \in Bats |-> IF b - 1 \in 1..Len(file.res) THEN file.res[b - 1] ELSE Garbage]

\* The resistances the file has; the rest of the record is not initialised.
Loaded == [b \in Bats |-> IF b <= Len(file.res) THEN file.res[b] ELSE Garbage]

Start ==
    /\ pc = "start"
    /\ battery_total' = config
    /\ t_now' = now
    /\ t_control' = now
    /\ t_voltage' = VoltageTime(config)
    /\ t_resistance' = ResistanceTime(config)
    /\ old_count' = Len(file.res)
    /\ resistance' = Loaded
    /\ pc' = "top"
    /\ UNCHANGED <<now, config, file, i, published, history>>

-----------------------------------------------------------------------------
(* One turn of the loop.                                                    *)

Due == t_now >= t_voltage \/ t_now >= t_resistance

AddedUp == t_voltage + VolPeriod

NextVoltageTime == now + VolPeriod

\* Open the file for writing, which truncates it.
BeginInspection ==
    /\ pc = "top"
    /\ Due
    /\ t_voltage' = NextVoltageTime
    /\ file' = NoFile
    /\ began' = now
    /\ pc' = "header"
    /\ UNCHANGED <<now, config, battery_total, t_now, t_resistance, t_control, old_count,
                   i, resistance, published, crashes, latest, tried>>

WriteHeader ==
    /\ pc = "header"
    /\ file' = [file EXCEPT !.header =
                    [total |-> battery_total, t_vol |-> t_voltage, t_res |-> now + ResPeriod]]
    /\ i' = 1
    /\ pc' = "measure"
    /\ UNCHANGED <<now, config, battery_total, timers, old_count, resistance, published,
                   history>>

WantedWhenDue(b) == t_now >= t_resistance

\* Is the resistance of cell b to be measured in this inspection?
Wanted(b) == t_now >= t_resistance \/ b > old_count

MeasureResistance ==
    /\ pc = "measure"
    /\ i <= battery_total
    /\ Wanted(i)
    /\ \E r \in {now, Failed} :
          /\ resistance' = [resistance EXCEPT ![i] = r]
          /\ latest' = [latest EXCEPT ![i] = r]
    /\ tried' = [tried EXCEPT ![i] = now]
    /\ t_resistance' = IF i = battery_total THEN now + ResPeriod ELSE t_resistance
    /\ pc' = "write"
    /\ UNCHANGED <<now, config, file, battery_total, t_now, t_voltage, t_control, old_count,
                   i, published, crashes, began>>

KeepResistance ==
    /\ pc = "measure"
    /\ i <= battery_total
    /\ ~Wanted(i)
    /\ pc' = "write"
    /\ UNCHANGED <<now, config, file, battery_total, timers, old_count, i, resistance,
                   published, history>>

WriteResistance ==
    /\ pc = "write"
    /\ file' = [file EXCEPT !.res = Append(@, resistance[i])]
    /\ i' = i + 1
    /\ pc' = "measure"
    /\ UNCHANGED <<now, config, battery_total, timers, old_count, resistance, published,
                   history>>

\* All cells done: the record goes into group_battery and to the database.
Publish ==
    /\ pc = "measure"
    /\ i > battery_total
    /\ published' = resistance
    /\ pc' = "control"
    /\ UNCHANGED <<now, config, file, battery_total, timers, old_count, i, resistance,
                   history>>

NotDue ==
    /\ pc = "top"
    /\ ~Due
    /\ pc' = "control"
    /\ UNCHANGED <<now, config, file, battery_total, timers, old_count, i, resistance,
                   published, history>>

\* A control pass when its time has come, a sleep otherwise.
Control ==
    /\ pc = "control"
    /\ t_control' = IF t_now >= t_control THEN now + ControlPeriod ELSE t_control
    /\ pc' = "rest"
    /\ UNCHANGED <<now, config, file, battery_total, t_now, t_voltage, t_resistance,
                   old_count, i, resistance, published, history>>

NextTurnWithoutClock ==
    /\ pc = "rest"
    /\ pc' = "top"
    /\ UNCHANGED <<now, config, file, battery_total, timers, old_count, i, resistance,
                   published, history>>

NextTurn ==
    /\ pc = "rest"
    /\ t_now' = now
    /\ pc' = "top"
    /\ UNCHANGED <<now, config, file, battery_total, t_voltage, t_resistance, t_control,
                   old_count, i, resistance, published, history>>

-----------------------------------------------------------------------------
(* The environment.                                                         *)

Tick ==
    /\ now < MaxTime
    /\ Inspecting => now < began + MaxStay
    /\ now' = now + 1
    /\ UNCHANGED <<config, file, pc, battery_total, timers, old_count, i, resistance,
                   published, history>>

\* Somebody changes the configured number of cells.
Reconfigure ==
    /\ config' \in Totals \ {config}
    /\ UNCHANGED <<now, file, pc, battery_total, timers, old_count, i, resistance,
                   published, history>>

\* The process is killed, or the power fails and takes the last writes to the
\* file, which nothing syncs, with it.  Assumed is that what survives is a
\* beginning of the new file: that a failure of the power undoes the truncation
\* too, and brings an older file back, is not modelled.
Kill ==
    /\ pc # "start"
    /\ crashes < MaxCrashes
    /\ crashes' = crashes + 1
    /\ \/ file' = NoFile
       \/ \E k \in 0..Len(file.res) : file' = [file EXCEPT !.res = SubSeq(@, 1, k)]
    /\ pc' = "start"
    /\ battery_total' = 0
    /\ t_now' = 0 /\ t_voltage' = 0 /\ t_resistance' = 0 /\ t_control' = 0
    /\ old_count' = 0
    /\ i' = 1
    /\ resistance' = [b \in Bats |-> Garbage]
    /\ published' = [b \in Bats |-> Failed]
    /\ UNCHANGED <<now, config, began, latest, tried>>

-----------------------------------------------------------------------------

Turn ==
    \/ Start
    \/ BeginInspection \/ NotDue
    \/ WriteHeader
    \/ MeasureResistance \/ KeepResistance \/ WriteResistance
    \/ Publish
    \/ Control \/ NextTurn

Next == Turn \/ Tick \/ Reconfigure \/ Kill

Spec == Init /\ [][Next]_vars

\* The thread is in calls over the serial line, and nothing makes them return:
\* the resistance may be asked for again and again, and a port that was not
\* opened is drained without end (s800serialDAO.c:77, 120-124).
Calling == (pc = "measure" /\ i <= battery_total) \/ (pc = "control" /\ t_now >= t_control)

\* Outside those calls the thread runs, and time passes.  Publishing waits for the
\* mutex, which is BatteryPack's subject.
FairSpec == Spec /\ WF_vars(Turn /\ ~Calling) /\ WF_vars(Tick)

-----------------------------------------------------------------------------

Locations == {"start", "top", "header", "measure", "write", "control", "rest"}

TypeOK ==
    /\ now \in Times
    /\ config \in Totals
    /\ file \in [header : [total : 0..MaxTotal, t_vol : Nat, t_res : Nat],
                 res : Seq(Reading)]
    /\ pc \in Locations
    /\ battery_total \in 0..MaxTotal
    /\ {t_now, t_voltage, t_resistance, t_control} \subseteq Nat
    /\ old_count \in 0..MaxTotal
    /\ i \in 1..(MaxTotal + 1)
    /\ resistance \in [Bats -> Reading \cup {Garbage}]
    /\ published \in [Bats -> Reading \cup {Garbage}]
    /\ crashes \in 0..MaxCrashes
    /\ began \in Times \cup {Never}
    /\ latest \in [Bats -> Reading]
    /\ tried \in [Bats -> Times \cup {Never}]

\* The stack record mybattery_pack is not initialised and most inspections do
\* not measure the resistances, yet no client and no database row ever gets
\* an uninitialised one for a cell of the group: what is not measured has
\* been read from the file, for groups that grow, shrink or were interrupted
\* (bs01thread.c:64, 82-126, 156-168, 196).
NothingUninitialised == \A b \in 1..battery_total : published[b] # Garbage

\* What the file remembers for a cell is the last reading of that cell, so
\* the resistance the thread works with is too, however often it was killed
\* between the truncation, the header and the resistances (bs01thread.c:85-117,
\* 139-143, 169-170).
RemembersLatest ==
    /\ \A k \in 1..Len(file.res) : file.res[k] = latest[k]
    /\ \A b \in Bats : resistance[b] \in {latest[b], Garbage}

\* No schedule, in memory or in the file, lies further ahead than a period: a
\* restart cannot postpone the next inspection beyond ten minutes or the next
\* resistances beyond a day from now (bs01thread.c:118-125, 135, 142, 166).
ScheduleBounded ==
    /\ file.header.t_vol <= now + VolPeriod
    /\ file.header.t_res <= now + ResPeriod
    /\ t_voltage <= now + VolPeriod
    /\ t_resistance <= now + ResPeriod
    /\ t_control <= now + ControlPeriod

\* An inspection that was cut short is done again at once after the restart
\* (bs01thread.c:118): the voltage time of an incomplete file is not used.
InterruptedIsRedone == [][pc = "start" /\ pc' = "top" /\ ~Complete(file) => Due']_vars

\* A restart repeats no complete inspection early: none begins within
\* VolPeriod of the last one that got through, in this life of the process or
\* an earlier one, unless a resistance is a day old
\* (bs01thread.c:118-121, 134-142).  The header is written up to MaxStay before
\* the resistances are measured.
NotRepeatedEarly ==
    [][pc = "top" /\ pc' = "header" /\ Complete(file) /\ file.header.total = battery_total
       => \/ t_now >= began + VolPeriod
          \/ \E b \in 1..battery_total : t_now >= tried[b] + ResPeriod - MaxStay]_vars

\* "A day, measure the resistance once" (bs01thread.c:166), from above, and
\* granted a further day for every restart (the file's header promises one,
\* bs01thread.c:142): no resistance is reused for longer.
\* (MaxStay is there because the day runs from the last cell of an inspection.)
ReuseIsBounded ==
    [][pc = "measure" /\ pc' = "write" /\ tried'[i] # now
       => t_now < tried[i] + (1 + crashes) * (ResPeriod + MaxStay)]_vars

\* The comment of bs01thread.c:166 from below: a resistance is not measured again before a
\* day has passed.
MeasuredOnceADay ==
    [][\A b \in Bats : tried'[b] # tried[b] /\ tried[b] # Never
          => now >= tried[b] + ResPeriod]_vars

\* Once the loop runs, the next inspection comes (bs01thread.c:221; the clock's
\* end aside), and one that has begun is published - unless the process is
\* killed, or the thread stays for ever in a call over the serial line, which is
\* all that can hold it up.
InspectionComes ==
    /\ pc = "top" /\ t_voltage <= MaxTime ~> (pc \in {"header", "start"} \/ []Calling)
    /\ pc = "header" ~> (pc \in {"control", "start"} \/ []Calling)

=============================================================================
