-------------------------- MODULE InspectionProofs --------------------------
(***************************************************************************)
(* Proofs about Inspection, for groups of every size, all periods and any   *)
(* number of crashes: types, no uninitialised resistance, a file that tells *)
(* the truth, a bounded schedule, and restarts that neither lose nor repeat *)
(* an inspection.                                                           *)
(*                                                                         *)
(* The argument: while an inspection runs, the file has one resistance for  *)
(* every cell that is done, and none of those is uninitialised; so a file   *)
(* of any length, read after any crash, yields initialised resistances for  *)
(* as many cells as old_count says, and the inspection measures the others. *)
(***************************************************************************)
EXTENDS Inspection, TLAPS

\* How far the file, the total and the loop counter agree.
Shape ==
    /\ pc # "start" => battery_total \in Totals
    /\ pc = "start" => battery_total = 0
    /\ Len(file.res) <= file.header.total
    /\ pc = "header" => file = NoFile
    /\ pc \in {"measure", "write"} =>
          file.header.total = battery_total /\ Len(file.res) = i - 1
    /\ pc = "write" => i <= battery_total

\* Which resistances are initialised.
Known ==
    /\ \A b \in 1..old_count : resistance[b] # Garbage
    /\ pc \in {"measure", "write"} => \A b \in 1..(i - 1) : resistance[b] # Garbage
    /\ pc = "write" => resistance[i] # Garbage
    /\ pc = "start" => \A b \in Bats : published[b] # Garbage

IInv == TypeOK /\ Shape /\ Known

-----------------------------------------------------------------------------

LEMMA InvariantStarts == Init => IInv /\ NothingUninitialised /\ RemembersLatest
<1> SUFFICES ASSUME Init PROVE IInv /\ NothingUninitialised /\ RemembersLatest
    OBVIOUS
<1> USE DEF Init
<1>1. file = NoFile /\ file.res = <<>> /\ file.header = NoHeader
    BY DEF NoFile
<1>2. TypeOK
    <2>1. file \in [header : [total : 0..MaxTotal, t_vol : Nat, t_res : Nat],
                    res : Seq(Reading)]
        BY TotalsFit DEF NoFile, NoHeader
    <2>2. /\ now \in Times /\ config \in Totals /\ pc \in Locations
          /\ battery_total \in 0..MaxTotal
          /\ {t_now, t_voltage, t_resistance, t_control} \subseteq Nat
          /\ old_count \in 0..MaxTotal /\ crashes \in 0..MaxCrashes
          /\ i \in 1..(MaxTotal + 1)
        BY TotalsFit, Bounds DEF Times, Locations
    <2>3. /\ resistance \in [Bats -> Reading \cup {Garbage}]
          /\ published \in [Bats -> Reading \cup {Garbage}]
          /\ began \in Times \cup {Never}
          /\ latest \in [Bats -> Reading]
          /\ tried \in [Bats -> Times \cup {Never}]
        BY DEF Reading
    <2> QED BY <2>1, <2>2, <2>3 DEF TypeOK
<1>3. Shape
    BY <1>1 DEF Shape, NoHeader
<1>4. Known /\ NothingUninitialised /\ RemembersLatest
    BY <1>1 DEF Known, NothingUninitialised, RemembersLatest, Failed, Garbage, Bats
<1> QED BY <1>2, <1>3, <1>4 DEF IInv

\* The numbers that the constants and the configuration give.
LEMMA Sizes ==
    /\ MaxTotal \in Nat
    /\ \A t \in Totals : t \in 1..MaxTotal
    /\ {VolPeriod, ResPeriod, ControlPeriod} \subseteq Nat
    /\ Times \subseteq Nat
    BY TotalsFit, PeriodsPositive, Bounds DEF Times

\* The clock and the schedule are numbers, and the file is a record of them.
FileType == [header : [total : 0..MaxTotal, t_vol : Nat, t_res : Nat], res : Seq(Reading)]

LEMMA Numbers ==
    ASSUME TypeOK
    PROVE  /\ now \in Nat
           /\ t_now \in Nat /\ t_voltage \in Nat /\ t_resistance \in Nat /\ t_control \in Nat
           /\ now + VolPeriod \in Nat /\ now + ResPeriod \in Nat /\ now + ControlPeriod \in Nat
           /\ file \in FileType
           /\ i \in Nat /\ battery_total \in Nat /\ old_count \in Nat
<1>1. now \in Nat
    BY Sizes DEF TypeOK
<1>2. VolPeriod \in Nat /\ ResPeriod \in Nat /\ ControlPeriod \in Nat
    BY Sizes
<1>3. /\ t_now \in Nat /\ t_voltage \in Nat /\ t_resistance \in Nat /\ t_control \in Nat
      /\ file \in FileType
    BY DEF TypeOK, FileType
<1>4. i \in Nat /\ battery_total \in Nat /\ old_count \in Nat
    BY Sizes DEF TypeOK
<1> QED BY <1>1, <1>2, <1>3, <1>4

LEMMA StartKeeps ==
    ASSUME IInv, Start
    PROVE  IInv'
<1> USE DEF IInv, Start
<1>1. Len(file.res) \in 0..MaxTotal /\ file.res \in Seq(Reading)
    BY Sizes DEF TypeOK, Shape
<1>2. \A b \in Bats : b <= Len(file.res) => file.res[b] \in Reading
    BY <1>1 DEF Bats
<1>3. resistance' \in [Bats -> Reading \cup {Garbage}]
    BY <1>2 DEF Loaded
<1>4. now \in Nat /\ t_voltage' \in Nat /\ t_resistance' \in Nat
    BY Sizes DEF TypeOK, VoltageTime, ResistanceTime
<1>5. battery_total' \in Totals /\ battery_total' \in 0..MaxTotal
    BY Sizes DEF TypeOK
<1>6. TypeOK'
    BY <1>1, <1>3, <1>4, <1>5 DEF TypeOK, history, Locations
<1>7. Shape'
    BY <1>5 DEF Shape
<1>8. Known'
    <2>1. ASSUME NEW b \in 1..old_count'
          PROVE  resistance'[b] = file.res[b] /\ file.res[b] \in Reading
        <3>1. b \in Bats /\ b <= Len(file.res)
            BY <1>1, Sizes DEF Bats
        <3> QED BY <3>1, <1>2 DEF Loaded
    <2>2. Garbage \notin Reading
        BY DEF Garbage, Reading, Failed, Times
    <2> QED BY <2>1, <2>2 DEF Known
<1> QED BY <1>6, <1>7, <1>8

LEMMA BeginInspectionKeeps ==
    ASSUME IInv, BeginInspection
    PROVE  IInv'
<1> USE DEF IInv, BeginInspection
<1>1. NextVoltageTime \in Nat
    BY Sizes DEF TypeOK, NextVoltageTime
<1>2. file' \in [header : [total : 0..MaxTotal, t_vol : Nat, t_res : Nat], res : Seq(Reading)]
    BY Sizes DEF NoFile, NoHeader
<1>3. TypeOK'
    BY <1>1, <1>2 DEF TypeOK, Locations
<1>4. Shape'
    BY DEF Shape, NoFile, NoHeader
<1>5. Known'
    BY DEF Known
<1> QED BY <1>3, <1>4, <1>5

LEMMA WriteHeaderKeeps ==
    ASSUME IInv, WriteHeader
    PROVE  IInv'
<1> USE DEF IInv, WriteHeader
<1> DEFINE h == [total |-> battery_total, t_vol |-> t_voltage, t_res |-> now + ResPeriod]
<1>1. file' = [header |-> h, res |-> <<>>]
    BY DEF Shape, NoFile
<1>2. /\ battery_total \in 1..MaxTotal
      /\ h \in [total : 0..MaxTotal, t_vol : Nat, t_res : Nat]
    <2>1. battery_total \in 1..MaxTotal
        BY Sizes DEF Shape
    <2> QED BY <2>1, Numbers, Sizes
<1>3. file' \in FileType
    <2>1. \A x \in [total : 0..MaxTotal, t_vol : Nat, t_res : Nat] :
             [header |-> x, res |-> <<>>] \in FileType
        BY DEF FileType
    <2> QED BY <1>1, <1>2, <2>1
<1>4. TypeOK'
    <2>1. i' \in 1..(MaxTotal + 1)
        BY Sizes
    <2> HIDE DEF h
    <2> QED BY <1>3, <2>1 DEF TypeOK, FileType, Locations, timers, history
<1>5. /\ file'.header.total = battery_total
      /\ file'.res = <<>>
    BY <1>1
<1>6. Shape'
    BY <1>2, <1>5, Sizes DEF Shape, timers
<1>7. Known'
    BY DEF Known, timers
<1> QED BY <1>4, <1>6, <1>7

LEMMA MeasureResistanceKeeps ==
    ASSUME IInv, MeasureResistance
    PROVE  IInv'
<1> USE DEF IInv
<1>1. PICK r \in {now, Failed} : /\ resistance' = [resistance EXCEPT ![i] = r]
                                /\ latest' = [latest EXCEPT ![i] = r]
    BY DEF MeasureResistance
<1>2. r \in Reading /\ r # Garbage
    BY <1>1, Sizes DEF TypeOK, Reading, Garbage, Failed
<1>3. i \in Bats /\ i <= battery_total
    BY Sizes DEF TypeOK, Shape, MeasureResistance, Bats
<1>4. t_resistance' \in Nat
    <2>1. now + ResPeriod \in Nat /\ t_resistance \in Nat
        BY Numbers
    <2> QED BY <2>1 DEF MeasureResistance
<1>5. TypeOK'
    BY <1>1, <1>2, <1>3, <1>4 DEF TypeOK, MeasureResistance, Locations
<1>6. Shape'
    BY <1>3 DEF Shape, MeasureResistance
<1>7. Known'
    BY <1>1, <1>2, <1>3 DEF TypeOK, Known, MeasureResistance
<1> QED BY <1>5, <1>6, <1>7

LEMMA KeepResistanceKeeps ==
    ASSUME IInv, KeepResistance
    PROVE  IInv'
<1> USE DEF IInv, KeepResistance
<1>1. i \in 1..old_count
    BY DEF TypeOK, Wanted
<1>2. TypeOK' /\ Shape'
    BY DEF TypeOK, Shape, Locations, timers, history
<1>3. Known'
    BY <1>1 DEF Known, timers, history
<1> QED BY <1>2, <1>3

LEMMA WriteResistanceKeeps ==
    ASSUME IInv, WriteResistance
    PROVE  IInv'
<1>0. /\ pc = "write" /\ i <= battery_total /\ battery_total \in Totals
      /\ i \in 1..(MaxTotal + 1) /\ resistance \in [Bats -> Reading \cup {Garbage}]
      /\ resistance[i] # Garbage
    BY DEF IInv, WriteResistance, TypeOK, Shape, Known
<1>1. i \in Bats /\ i <= battery_total /\ battery_total \in 1..MaxTotal
    BY <1>0, Sizes DEF Bats
<1>2. resistance[i] \in Reading
    BY <1>0, <1>1
<1> USE DEF IInv, WriteResistance
<1>3. file' = [header |-> file.header, res |-> Append(file.res, resistance[i])]
    BY DEF TypeOK
<1>4. /\ file'.header = file.header
      /\ file'.res \in Seq(Reading) /\ Len(file'.res) = Len(file.res) + 1
    BY <1>2, <1>3 DEF TypeOK
<1>5. file' \in FileType
    BY <1>3, <1>4, Numbers DEF FileType
<1>6. i' \in 1..(MaxTotal + 1)
    BY <1>1, Sizes DEF Bats
<1>7. TypeOK'
    BY <1>5, <1>6 DEF TypeOK, FileType, Locations, timers, history
<1>8. Shape'
    <2>1. Len(file.res) = i - 1 /\ file.header.total = battery_total
        BY DEF Shape
    <2>2. Len(file'.res) = i' - 1 /\ Len(file'.res) <= battery_total
        <3>1. i \in Int /\ battery_total \in Int
            BY <1>1, Sizes DEF Bats
        <3> HIDE DEF IInv
        <3> QED BY <3>1, <2>1, <1>1, <1>4
    <2> QED BY <2>1, <2>2, <1>4 DEF Shape, timers
<1>9. Known'
    <2>1. \A b \in 1..i : resistance[b] # Garbage
        BY <1>1 DEF Known, Bats
    <2> QED BY <2>1, <1>1 DEF Known, timers, history, Bats
<1> QED BY <1>7, <1>8, <1>9

LEMMA PublishKeeps ==
    ASSUME IInv, Publish
    PROVE  IInv' /\ NothingUninitialised'
<1> USE DEF IInv, Publish
<1>1. TypeOK' /\ Shape'
    BY DEF TypeOK, Shape, Locations, timers, history
<1>2. Known'
    BY DEF Known, timers, history
<1>3. NothingUninitialised'
    BY DEF Known, NothingUninitialised, TypeOK
<1> QED BY <1>1, <1>2, <1>3

\* The actions that touch neither the file nor a resistance.
LEMMA OthersKeep ==
    ASSUME IInv, NotDue \/ Control \/ NextTurn \/ Tick \/ Reconfigure
    PROVE  IInv'
<1> USE DEF IInv
<1>1. CASE NotDue
    BY <1>1 DEF NotDue, TypeOK, Shape, Known, Locations, timers, history
<1>2. CASE Control
    <2>1. t_control' \in Nat
        <3>1. t_control \in Nat /\ now + ControlPeriod \in Nat
            BY Numbers
        <3> HIDE DEF IInv
        <3> QED BY <1>2, <3>1 DEF Control
    <2> QED BY <1>2, <2>1 DEF Control, TypeOK, Shape, Known, Locations, history
<1>3. CASE NextTurn
    BY <1>3, Sizes DEF NextTurn, TypeOK, Shape, Known, Locations, history
<1>4. CASE Tick
    <2>1. now' \in Times
        <3>1. now \in Nat /\ now < MaxTime /\ now' = now + 1
            BY <1>4, Numbers DEF Tick
        <3> HIDE DEF IInv
        <3> QED BY <3>1, Bounds DEF Times
    <2>2. Reading' = Reading /\ Times' = Times
        BY DEF Reading, Times
    <2> QED BY <1>4, <2>1 DEF Tick, TypeOK, Shape, Known, timers, history
<1>5. CASE Reconfigure
    BY <1>5 DEF Reconfigure, TypeOK, Shape, Known, timers, history
<1> QED BY <1>1, <1>2, <1>3, <1>4, <1>5

\* What a kill leaves of the file is a beginning of it.
LEMMA KilledFile ==
    ASSUME TypeOK, Kill
    PROVE  /\ file' \in FileType
           /\ file'.header \in {file.header, NoHeader}
           /\ \/ file' = NoFile
              \/ file'.header = file.header /\ Len(file'.res) <= Len(file.res)
           /\ \A k \in 1..Len(file'.res) : k \in 1..Len(file.res) /\ file'.res[k] = file.res[k]
<1>1. CASE file' = NoFile
    BY <1>1, Sizes DEF NoFile, NoHeader, FileType
<1>2. CASE UNCHANGED file
    BY <1>2, Numbers
<1>3. ASSUME NEW k \in 0..Len(file.res), file' = [file EXCEPT !.res = SubSeq(@, 1, k)]
      PROVE  /\ file'.header = file.header
             /\ file' \in FileType
             /\ Len(file'.res) = k
             /\ \A n \in 1..k : file'.res[n] = file.res[n]
    <2>1. file' = [header |-> file.header, res |-> SubSeq(file.res, 1, k)]
        BY <1>3 DEF TypeOK
    <2>2. file.res \in Seq(Reading)
        BY DEF TypeOK
    <2>3. /\ SubSeq(file.res, 1, k) \in Seq(Reading)
          /\ Len(SubSeq(file.res, 1, k)) = k
          /\ \A n \in 1..k : SubSeq(file.res, 1, k)[n] = file.res[n]
        BY <2>2
    <2> QED BY <2>1, <2>3, Numbers DEF FileType
<1>4. \/ file' = NoFile \/ UNCHANGED file
      \/ \E k \in 0..Len(file.res) : file' = [file EXCEPT !.res = SubSeq(@, 1, k)]
    BY DEF Kill
<1>5. file.res \in Seq(Reading)
    BY DEF TypeOK
<1> QED BY <1>1, <1>2, <1>3, <1>4, <1>5

LEMMA KillKeeps ==
    ASSUME IInv, Kill
    PROVE  IInv' /\ NothingUninitialised'
<1> USE DEF IInv, Kill
<1>1. TypeOK'
    <2>1. resistance' \in [Bats -> Reading \cup {Garbage}]
        OBVIOUS
    <2>2. published' \in [Bats -> Reading \cup {Garbage}]
        BY DEF Reading
    <2>3. crashes' \in 0..MaxCrashes
        BY Bounds DEF TypeOK
    <2>4. i' \in 1..(MaxTotal + 1) /\ old_count' \in 0..MaxTotal /\ battery_total' \in 0..MaxTotal
        BY Sizes
    <2>5. file' \in FileType
        BY KilledFile
    <2>6. \A t \in {t_now', t_voltage', t_resistance', t_control'} : t \in Nat
        OBVIOUS
    <2>7. UNCHANGED <<now, config, began, latest, tried>>
        OBVIOUS
    <2>8. pc' \in Locations
        BY DEF Locations
    <2> HIDE DEF Kill
    <2> QED BY <2>1, <2>2, <2>3, <2>4, <2>5, <2>6, <2>7, <2>8 DEF TypeOK, FileType
<1>2. Len(file'.res) <= file'.header.total
    <2>1. CASE file' = NoFile
        BY <2>1 DEF NoFile, NoHeader
    <2>2. CASE file'.header = file.header /\ Len(file'.res) <= Len(file.res)
        <3>1. /\ Len(file.res) \in Nat /\ Len(file'.res) \in Nat
              /\ file.header.total \in Nat
            <4>1. file \in FileType /\ file' \in FileType
                BY KilledFile, Numbers
            <4> HIDE DEF Kill, IInv
            <4> QED BY <4>1, Sizes DEF FileType
        <3> QED BY <2>2, <3>1 DEF Shape
    <2> QED BY <2>1, <2>2, KilledFile
<1>3. Shape'
    BY <1>2 DEF Shape
<1>4. Known' /\ NothingUninitialised'
    BY DEF Known, NothingUninitialised, Failed, Garbage, Bats
<1> QED BY <1>1, <1>3, <1>4

LEMMA InvariantKept ==
    ASSUME IInv, [Next]_vars
    PROVE  IInv'
<1>1. CASE UNCHANGED vars
    BY <1>1 DEF vars, timers, history, IInv, TypeOK, Shape, Known
<1> QED
    BY <1>1, StartKeeps, BeginInspectionKeeps, WriteHeaderKeeps, MeasureResistanceKeeps,
       KeepResistanceKeeps, WriteResistanceKeeps, PublishKeeps, OthersKeep, KillKeeps
    DEF Next, Turn

\* The loop's variables, and what its file holds, keep their types
\* (bs01thread.c:57-223).
THEOREM TypeCorrect == Spec => []TypeOK
<1>1. IInv => TypeOK
    BY DEF IInv
<1> QED BY <1>1, InvariantStarts, InvariantKept, PTL DEF Spec

-----------------------------------------------------------------------------

LEMMA NothingUninitialisedKept ==
    ASSUME IInv, NothingUninitialised, [Next]_vars
    PROVE  NothingUninitialised'
<1>1. CASE Start
    <2>0. config \in 1..MaxTotal
        BY Sizes DEF IInv, TypeOK
    <2>1. \A b \in 1..config : b \in Bats
        BY <2>0, Sizes DEF Bats
    <2>2. battery_total' = config /\ published' = published /\ pc = "start"
        BY <1>1 DEF Start
    <2>3. \A b \in Bats : published[b] # Garbage
        BY <2>2 DEF IInv, Known
    <2> QED BY <2>1, <2>2, <2>3 DEF NothingUninitialised
<1>2. CASE Publish \/ Kill
    BY <1>2, PublishKeeps, KillKeeps
<1>3. CASE ~(Start \/ Publish \/ Kill)
    <2>1. UNCHANGED <<published, battery_total>>
        BY <1>3 DEF Next, Turn, vars, timers, history, BeginInspection, NotDue, WriteHeader,
              MeasureResistance, KeepResistance, WriteResistance, Control, NextTurn, Tick,
              Reconfigure
    <2> QED BY <2>1 DEF NothingUninitialised
<1> QED BY <1>1, <1>2, <1>3

\* No resistance that was never measured or read from the file is published
\* for a cell of the group, whatever the sizes and wherever the process is
\* killed (bs01thread.c:64, 82-126, 156-168, 196).
THEOREM PublishesNothingUninitialised == Spec => []NothingUninitialised
    BY InvariantStarts, InvariantKept, NothingUninitialisedKept, PTL DEF Spec

-----------------------------------------------------------------------------

LEMMA RemembersLatestKept ==
    ASSUME IInv, RemembersLatest, [Next]_vars
    PROVE  RemembersLatest'
<1> USE DEF RemembersLatest
<1>1. CASE Start
    <2>1. \A k \in 1..Len(file.res) : file.res[k] = latest[k]
        OBVIOUS
    <2>2. ASSUME NEW b \in Bats
          PROVE  resistance'[b] \in {latest[b], Garbage}
        <3>1. b \in Nat /\ b >= 1 /\ Len(file.res) \in Nat
            <4>1. file.res \in Seq(Reading)
                BY DEF IInv, TypeOK
            <4> QED BY <4>1, Sizes DEF Bats
        <3>2. b <= Len(file.res) => file.res[b] = latest[b]
            BY <2>1, <3>1
        <3>3. resistance'[b] = IF b <= Len(file.res) THEN file.res[b] ELSE Garbage
            BY <1>1 DEF Start, Loaded
        <3> QED BY <3>2, <3>3
    <2> QED BY <1>1, <2>1, <2>2 DEF Start, history
<1>2. CASE BeginInspection
    <2>1. file'.res = <<>>
        BY <1>2 DEF BeginInspection, NoFile
    <2> QED BY <1>2, <2>1 DEF BeginInspection
<1>3. CASE WriteHeader
    <2>1. file'.res = file.res
        BY <1>3, Numbers DEF WriteHeader, IInv, FileType
    <2> QED BY <1>3, <2>1 DEF WriteHeader, history
<1>4. CASE MeasureResistance
    <2>1. PICK r \in {now, Failed} : /\ resistance' = [resistance EXCEPT ![i] = r]
                                    /\ latest' = [latest EXCEPT ![i] = r]
        BY <1>4 DEF MeasureResistance
    <2>2. resistance \in [Bats -> Reading \cup {Garbage}] /\ latest \in [Bats -> Reading]
        BY DEF IInv, TypeOK
    <2>3. Len(file.res) = i - 1 /\ i \in Nat
        BY <1>4, Numbers DEF MeasureResistance, IInv, Shape
    <2>4. \A k \in 1..Len(file.res) : latest'[k] = latest[k]
        BY <2>1, <2>2, <2>3
    <2>5. file' = file
        BY <1>4 DEF MeasureResistance
    <2>6. \A b \in Bats : resistance'[b] \in {latest'[b], Garbage}
        BY <2>1, <2>2
    <2> QED BY <2>4, <2>5, <2>6
<1>5. CASE WriteResistance
    <2>1. /\ Len(file.res) = i - 1 /\ i \in Nat /\ i \in Bats
          /\ resistance[i] # Garbage
        <3>1. Len(file.res) = i - 1 /\ resistance[i] # Garbage /\ i <= battery_total
            BY <1>5 DEF WriteResistance, IInv, Shape, Known
        <3>2. i \in 1..(MaxTotal + 1) /\ battery_total \in 0..MaxTotal
            BY DEF IInv, TypeOK
        <3> QED BY <3>1, <3>2, Sizes DEF Bats
    <2>2. resistance[i] = latest[i]
        BY <2>1
    <2>3. file.res \in Seq(Reading) /\ resistance[i] \in Reading
        BY <2>1 DEF IInv, TypeOK
    <2>4. file'.res = Append(file.res, resistance[i])
        BY <1>5, Numbers DEF WriteResistance, IInv, FileType
    <2>5. \A k \in 1..Len(file'.res) : file'.res[k] = latest[k]
        BY <2>1, <2>2, <2>3, <2>4
    <2> QED BY <1>5, <2>5 DEF WriteResistance, history
<1>6. CASE Kill
    <2>1. TypeOK
        BY DEF IInv
    <2>2. \A k \in 1..Len(file'.res) : file'.res[k] = latest[k]
        BY <1>6, <2>1, KilledFile
    <2>3. resistance' = [b \in Bats |-> Garbage] /\ latest' = latest
        BY <1>6 DEF Kill
    <2> QED BY <2>2, <2>3
<1>7. CASE ~(Start \/ BeginInspection \/ WriteHeader \/ MeasureResistance
             \/ WriteResistance \/ Kill)
    <2>1. UNCHANGED <<file, resistance, latest>>
        BY <1>7 DEF Next, Turn, vars, timers, history, NotDue, KeepResistance, Publish,
              Control, NextTurn, Tick, Reconfigure
    <2> QED BY <2>1
<1> QED BY <1>1, <1>2, <1>3, <1>4, <1>5, <1>6, <1>7

\* The file holds the last reading of every cell it mentions, however often
\* the process was killed while it wrote it (bs01thread.c:85-117, 139-170).
THEOREM FileRemembersLatest == Spec => []RemembersLatest
    BY InvariantStarts, InvariantKept, RemembersLatestKept, PTL DEF Spec

-----------------------------------------------------------------------------

LEMMA ScheduleStarts == Init => ScheduleBounded
<1> SUFFICES ASSUME Init PROVE ScheduleBounded
    OBVIOUS
<1>1. VolPeriod \in Nat /\ ResPeriod \in Nat /\ ControlPeriod \in Nat
    BY Sizes
<1> QED BY <1>1 DEF Init, ScheduleBounded, NoFile, NoHeader

LEMMA ScheduleKept ==
    ASSUME IInv, ScheduleBounded, [Next]_vars
    PROVE  ScheduleBounded'
<1> USE DEF ScheduleBounded
<1>1. /\ VolPeriod \in Nat /\ ResPeriod \in Nat /\ ControlPeriod \in Nat
      /\ now \in Nat /\ t_voltage \in Nat /\ t_resistance \in Nat /\ t_control \in Nat
      /\ file.header.t_vol \in Nat /\ file.header.t_res \in Nat
    BY Sizes, Numbers DEF IInv, FileType
<1>2. CASE Start
    BY <1>1, <1>2 DEF Start, VoltageTime, ResistanceTime
<1>3. CASE BeginInspection
    BY <1>1, <1>3 DEF BeginInspection, NextVoltageTime, NoFile, NoHeader
<1>4. CASE WriteHeader
    <2>1. /\ file'.header.t_vol = t_voltage
          /\ file'.header.t_res = now + ResPeriod
        BY <1>4, Numbers DEF WriteHeader, IInv, FileType
    <2> QED BY <1>1, <1>4, <2>1 DEF WriteHeader, timers
<1>5. CASE MeasureResistance
    BY <1>1, <1>5 DEF MeasureResistance
<1>6. CASE WriteResistance
    <2>1. file'.header = file.header
        BY <1>6, Numbers DEF WriteResistance, IInv, FileType
    <2> QED BY <1>6, <2>1 DEF WriteResistance, timers
<1>7. CASE Control
    <2>1. /\ UNCHANGED <<now, file, t_voltage, t_resistance>>
          /\ t_control' = now + ControlPeriod \/ t_control' = t_control
        BY <1>7 DEF Control
    <2> QED BY <1>1, <2>1
<1>8. CASE Tick
    BY <1>1, <1>8 DEF Tick, timers
<1>9. CASE Kill
    <2>1. file'.header.t_vol <= now + VolPeriod /\ file'.header.t_res <= now + ResPeriod
        <3>1. file'.header \in {file.header, NoHeader}
            BY <1>9, KilledFile DEF IInv
        <3> QED BY <1>1, <3>1 DEF NoHeader
    <2>2. /\ now' = now
          /\ t_voltage' = 0 /\ t_resistance' = 0 /\ t_control' = 0
        BY <1>9 DEF Kill
    <2> QED BY <1>1, <2>1, <2>2
<1>10. CASE ~(Start \/ BeginInspection \/ WriteHeader \/ MeasureResistance \/ WriteResistance
              \/ Control \/ Tick \/ Kill)
    <2>1. UNCHANGED <<now, file, t_voltage, t_resistance, t_control>>
        BY <1>10 DEF Next, Turn, vars, timers, history, NotDue, KeepResistance, Publish,
              NextTurn, Reconfigure
    <2> QED BY <2>1
<1> QED BY <1>2, <1>3, <1>4, <1>5, <1>6, <1>7, <1>8, <1>9, <1>10

\* While the clock does not go back, no timer and no stored time lies more
\* than its period ahead (bs01thread.c:118-125, 135, 142, 166, 216).
THEOREM ScheduleIsBounded == Spec => []ScheduleBounded
    BY InvariantStarts, InvariantKept, ScheduleStarts, ScheduleKept, PTL DEF Spec

-----------------------------------------------------------------------------

\* An inspection that was cut short is due at once after the restart, at
\* whichever write the process died (bs01thread.c:118).
THEOREM InterruptedInspectionIsRedone == Spec => InterruptedIsRedone
<1>1. ASSUME IInv, [Next]_vars
      PROVE  pc = "start" /\ pc' = "top" /\ ~Complete(file) => Due'
    <2> SUFFICES ASSUME pc = "start", pc' = "top", ~Complete(file)
                 PROVE  Due'
        OBVIOUS
    <2>1. Start
        <3>1. ~(NotDue \/ BeginInspection \/ WriteHeader \/ MeasureResistance
                \/ KeepResistance \/ WriteResistance \/ Publish \/ Control \/ NextTurn)
            BY DEF NotDue, BeginInspection, WriteHeader, MeasureResistance, KeepResistance,
               WriteResistance, Publish, Control, NextTurn
        <3>2. ~(Tick \/ Reconfigure \/ Kill \/ UNCHANGED vars)
            BY DEF Tick, Reconfigure, Kill, vars
        <3> QED BY <1>1, <3>1, <3>2 DEF Next, Turn
    <2>2. config \in Nat /\ config > 0 /\ now \in Nat
        <3>1. TypeOK
            BY <1>1 DEF IInv
        <3>2. config \in Totals
            BY <3>1 DEF TypeOK
        <3>3. config \in 1..MaxTotal
            BY <3>2, Sizes
        <3>4. now \in Nat
            BY <3>1, Numbers
        <3> QED BY <3>3, <3>4, Sizes
    <2>3. t_voltage' = now
        BY <2>1, <2>2 DEF Start, VoltageTime, Complete
    <2> QED BY <2>1, <2>2, <2>3 DEF Start, Due
<1> QED BY <1>1, InvariantStarts, InvariantKept, PTL DEF Spec, InterruptedIsRedone

-----------------------------------------------------------------------------

\* The file is that of an inspection of this group that got through.
Finished == Complete(file) /\ file.header.total = battery_total

\* An inspection lasts MaxStay at most; no cell is tried after it.
Clocks ==
    /\ t_now <= now /\ began <= now
    /\ Inspecting => now <= began + MaxStay
    /\ \A b \in Bats : tried[b] <= now /\ tried[b] <= began + MaxStay

\* The voltage time, in the file and in memory, is that of the last inspection,
\* or had come when the thread was started.
VoltageSpaced ==
    /\ file.header.total > 0 => file.header.t_vol = began + VolPeriod
    /\ Inspecting => t_voltage = began + VolPeriod
    /\ pc \in {"top", "control", "rest"} /\ Finished =>
          t_voltage >= began + VolPeriod \/ t_now >= began + VolPeriod

\* t has the last cell's resistance tried a day ago, but for MaxStay.
DayAfterLastCell(t) == t >= tried[battery_total] + ResPeriod - MaxStay

\* The resistance time is a day after the last cell of the group was tried, or
\* has come, and then the inspection under way still measures that cell.
ResistanceSpaced ==
    /\ file.header.total > 0 => file.header.t_res >= began + ResPeriod
    /\ pc # "start" =>
          \/ DayAfterLastCell(t_resistance) \/ DayAfterLastCell(t_now)
          \/ /\ t_now >= t_resistance
             /\ ~Finished
             /\ ~(pc = "write" /\ i = battery_total)

Spaced == Clocks /\ VoltageSpaced /\ ResistanceSpaced

LEMMA Moments ==
    ASSUME TypeOK
    PROVE  /\ began \in Int /\ MaxStay \in Nat /\ VolPeriod \in Nat /\ ResPeriod \in Nat
           /\ \A b \in Bats : tried[b] \in Int
           /\ file.header.total \in Nat /\ file.header.t_vol \in Nat /\ file.header.t_res \in Nat
<1>1. began \in Int
    BY Sizes DEF TypeOK, Never
<1>2. MaxStay \in Nat /\ VolPeriod \in Nat /\ ResPeriod \in Nat
    BY Bounds, Sizes
<1>3. \A b \in Bats : tried[b] \in Int
    <2>1. \A b \in Bats : tried[b] \in Times \cup {Never}
        BY DEF TypeOK
    <2>2. \A t \in Times \cup {Never} : t \in Int
        BY Bounds DEF Times, Never
    <2> QED BY <2>1, <2>2
<1>4. file.header \in [total : 0..MaxTotal, t_vol : Nat, t_res : Nat]
    BY DEF TypeOK
<1> QED BY <1>1, <1>2, <1>3, <1>4, Sizes

\* The last cell of the group, once the thread has read the total.
LEMMA LastCell ==
    ASSUME IInv, pc # "start"
    PROVE  battery_total \in Bats /\ battery_total >= 1
    BY Sizes DEF IInv, Shape, Bats

LEMMA SpacedStarts == Init => Spaced
<1> SUFFICES ASSUME Init PROVE Spaced
    OBVIOUS
<1>1. MaxStay \in Nat
    BY Bounds
<1>2. file.header.total = 0 /\ pc = "start" /\ now = 1 /\ t_now = 0 /\ began = -1
    BY DEF Init, NoFile, NoHeader, Never
<1>3. \A b \in Bats : tried[b] = -1
    BY DEF Init, Never
<1> QED BY <1>1, <1>2, <1>3 DEF Spaced, Clocks, VoltageSpaced, ResistanceSpaced, Inspecting

LEMMA ClocksKept ==
    ASSUME IInv, Clocks, [Next]_vars
    PROVE  Clocks'
<1>1. /\ now \in Nat /\ t_now \in Nat /\ began \in Int /\ MaxStay \in Nat
      /\ \A b \in Bats : tried[b] \in Int
    BY Numbers, Moments DEF IInv
<1>2. CASE Start \/ NextTurn
    BY <1>1, <1>2 DEF Start, NextTurn, Clocks, Inspecting, history
<1>3. CASE BeginInspection
    BY <1>1, <1>3 DEF BeginInspection, Clocks, Inspecting
<1>4. CASE MeasureResistance
    <2>1. now <= began + MaxStay /\ pc = "measure" /\ pc' = "write"
        BY <1>4 DEF MeasureResistance, Clocks, Inspecting
    <2>2. \A b \in Bats : tried'[b] \in {tried[b], now}
        BY <1>4 DEF MeasureResistance, IInv, TypeOK
    <2> QED BY <1>1, <1>4, <2>1, <2>2 DEF MeasureResistance, Clocks, Inspecting
<1>5. CASE Tick
    <2>1. /\ now' = now + 1 /\ (Inspecting => now < began + MaxStay)
          /\ UNCHANGED <<t_now, began, tried, pc>>
        BY <1>5 DEF Tick, timers, history
    <2> QED BY <1>1, <2>1 DEF Clocks, Inspecting
<1>6. CASE Kill
    BY <1>1, <1>6 DEF Kill, Clocks, Inspecting
<1>7. CASE ~(Start \/ NextTurn \/ BeginInspection \/ MeasureResistance \/ Tick \/ Kill)
    <2>1. UNCHANGED <<now, t_now, began, tried>> /\ (Inspecting' => Inspecting)
        BY <1>7 DEF Next, Turn, vars, timers, history, NotDue, KeepResistance, Publish,
              WriteHeader, WriteResistance, Control, Reconfigure, Inspecting
    <2> QED BY <2>1 DEF Clocks
<1> QED BY <1>2, <1>3, <1>4, <1>5, <1>6, <1>7

\* What the steps of an inspection, and a kill, do to the header of the file.
LEMMA Headers ==
    ASSUME IInv
    PROVE  /\ WriteHeader => /\ file'.header.total = battery_total
                             /\ file'.header.t_vol = t_voltage
                             /\ file'.header.t_res = now + ResPeriod
           /\ WriteResistance => file'.header = file.header
           /\ BeginInspection => file'.header.total = 0
           /\ Kill => file'.header = file.header \/ file'.header.total = 0
<1>1. file \in FileType
    BY Numbers DEF IInv
<1>2. Kill => file'.header = file.header \/ file'.header.total = 0
    BY KilledFile DEF IInv, NoHeader
<1> QED BY <1>1, <1>2 DEF WriteHeader, WriteResistance, BeginInspection, NoFile, NoHeader,
        FileType

LEMMA VoltageSpacedKept ==
    ASSUME IInv, Clocks, VoltageSpaced, [Next]_vars
    PROVE  VoltageSpaced'
<1>1. /\ now \in Nat /\ t_now \in Nat /\ t_voltage \in Nat /\ t_now <= now
      /\ began \in Int /\ VolPeriod \in Nat /\ file.header.t_vol \in Nat
    BY Numbers, Moments DEF IInv, Clocks
<1>2. CASE Start
    <2>1. /\ UNCHANGED <<file, began>> /\ pc' = "top"
          /\ battery_total' = config /\ t_now' = now /\ t_voltage' = VoltageTime(config)
        BY <1>2 DEF Start, history
    <2>2. ASSUME Finished'
          PROVE  t_voltage' >= began' + VolPeriod \/ t_now' >= began' + VolPeriod
        <3>1. file.header.total = config /\ Len(file.res) = config /\ file.header.total > 0
            BY <2>1, <2>2 DEF Finished, Complete
        <3>2. file.header.t_vol = began + VolPeriod
            BY <3>1 DEF VoltageSpaced
        <3>3. now < file.header.t_vol \/ now >= file.header.t_vol
            BY <1>1
        <3> QED BY <1>1, <2>1, <3>1, <3>2, <3>3 DEF VoltageTime
    <2> QED BY <2>1, <2>2 DEF VoltageSpaced, Inspecting
<1>3. CASE BeginInspection
    BY <1>1, <1>3, Headers DEF BeginInspection, NextVoltageTime, VoltageSpaced, Inspecting
<1>4. CASE WriteHeader
    BY <1>4, Headers DEF WriteHeader, VoltageSpaced, Inspecting, timers, history
<1>5. CASE MeasureResistance \/ KeepResistance \/ WriteResistance
    <2>1. /\ UNCHANGED <<began, t_voltage>> /\ file'.header = file.header
          /\ pc \in {"measure", "write"} /\ pc' \in {"measure", "write"}
        BY <1>5, Headers DEF MeasureResistance, KeepResistance, WriteResistance, timers, history
    <2> QED BY <2>1 DEF VoltageSpaced, Inspecting
<1>6. CASE Publish
    BY <1>1, <1>6 DEF Publish, VoltageSpaced, Inspecting, timers, history
<1>7. CASE NextTurn
    <2>1. /\ UNCHANGED <<file, battery_total, began, t_voltage>> /\ t_now' = now
          /\ pc = "rest" /\ pc' = "top" /\ (Finished' <=> Finished)
        BY <1>7 DEF NextTurn, history, Finished, Complete
    <2> QED BY <1>1, <2>1 DEF VoltageSpaced, Inspecting
<1>8. CASE Kill
    BY <1>8, Headers DEF Kill, VoltageSpaced, Inspecting
<1>9. CASE ~(Start \/ BeginInspection \/ WriteHeader \/ MeasureResistance \/ KeepResistance
             \/ WriteResistance \/ Publish \/ NextTurn \/ Kill)
    <2>1. /\ UNCHANGED <<file, battery_total, began, t_voltage, t_now>>
          /\ \/ pc' = pc
             \/ pc \in {"top", "control"} /\ pc' \in {"control", "rest"}
        BY <1>9 DEF Next, Turn, vars, timers, history, NotDue, Control, Tick, Reconfigure
    <2> QED BY <2>1 DEF VoltageSpaced, Inspecting, Finished, Complete
<1> QED BY <1>2, <1>3, <1>4, <1>5, <1>6, <1>7, <1>8, <1>9

LEMMA ResistanceSpacedKept ==
    ASSUME IInv, Clocks, ResistanceSpaced, [Next]_vars
    PROVE  ResistanceSpaced'
<1>1. /\ now \in Nat /\ t_now \in Nat /\ t_resistance \in Nat /\ t_now <= now
      /\ began \in Int /\ MaxStay \in Nat /\ ResPeriod \in Nat
      /\ i \in Nat /\ battery_total \in Nat
      /\ file.header.t_res \in Nat /\ file.header.total \in Nat
      /\ \A b \in Bats : tried[b] \in Int /\ tried[b] <= began + MaxStay
    BY Numbers, Moments DEF IInv, Clocks
<1>2. pc # "start" => battery_total \in Bats
    BY LastCell
<1>3. CASE Start
    <2>1. /\ UNCHANGED <<file, began, tried>> /\ pc' = "top"
          /\ battery_total' = config /\ t_now' = now /\ t_resistance' = ResistanceTime(config)
        BY <1>3 DEF Start, history
    <2>2. config \in Bats /\ config > 0
        BY Sizes DEF IInv, TypeOK, Bats
    <2>3. CASE file.header.total = config
        <3>1. file.header.t_res >= began + ResPeriod
            BY <2>2, <2>3 DEF ResistanceSpaced
        <3>2. DayAfterLastCell(t_resistance)' \/ DayAfterLastCell(t_now)'
            BY <1>1, <2>1, <2>2, <2>3, <3>1 DEF ResistanceTime, DayAfterLastCell
        <3> QED BY <2>1, <3>2 DEF ResistanceSpaced
    <2>4. CASE file.header.total # config
        <3>1. ~Finished' /\ t_now' >= t_resistance'
            BY <1>1, <2>1, <2>4 DEF Finished, ResistanceTime
        <3> QED BY <2>1, <3>1 DEF ResistanceSpaced
    <2> QED BY <2>3, <2>4
<1>4. CASE BeginInspection
    <2>1. file'.header.total = 0
        BY <1>4, Headers
    <2>2. UNCHANGED <<tried, battery_total, t_resistance, t_now>> /\ pc # "start"
        BY <1>4 DEF BeginInspection
    <2>3. ~Finished' /\ pc' = "header"
        BY <1>4, <2>1 DEF BeginInspection, Finished, Complete
    <2> QED BY <2>1, <2>2, <2>3 DEF ResistanceSpaced, DayAfterLastCell
<1>5. CASE WriteHeader
    <2>1. /\ file'.header.t_res = now + ResPeriod /\ file'.header.total = battery_total
          /\ file'.res = <<>>
        BY <1>5, Headers, Numbers DEF WriteHeader, IInv, Shape, NoFile
    <2>2. UNCHANGED <<tried, battery_total, t_resistance, t_now, began>> /\ pc # "start"
        BY <1>5 DEF WriteHeader, timers, history
    <2>3. ~Finished' /\ pc' = "measure"
        BY <1>2, <1>5, <2>1, LastCell DEF WriteHeader, Finished, Complete
    <2>4. file'.header.t_res >= began' + ResPeriod
        BY <1>1, <2>1, <2>2 DEF Clocks
    <2> QED BY <2>2, <2>3, <2>4 DEF ResistanceSpaced, DayAfterLastCell
<1>6. CASE MeasureResistance
    <2>1. /\ UNCHANGED <<file, began, battery_total, t_now, i>>
          /\ pc = "measure" /\ pc' = "write"
          /\ tried' = [tried EXCEPT ![i] = now]
          /\ t_resistance' = IF i = battery_total THEN now + ResPeriod ELSE t_resistance
        BY <1>6 DEF MeasureResistance
    <2>2. tried \in [Bats -> Times \cup {Never}] /\ battery_total \in Bats
        BY <1>2, <2>1 DEF IInv, TypeOK
    <2>3. CASE i = battery_total
        <3>1. DayAfterLastCell(t_resistance)'
            BY <1>1, <2>1, <2>2, <2>3 DEF DayAfterLastCell
        <3> QED BY <2>1, <3>1 DEF ResistanceSpaced
    <2>4. CASE i # battery_total
        <3>1. tried'[battery_total] = tried[battery_total] /\ t_resistance' = t_resistance
            BY <2>1, <2>2, <2>4
        <3>2. Finished' <=> Finished
            BY <2>1 DEF Finished, Complete
        <3> QED BY <2>1, <2>4, <3>1, <3>2 DEF ResistanceSpaced, DayAfterLastCell
    <2> QED BY <2>3, <2>4
<1>7. CASE KeepResistance
    <2>1. /\ UNCHANGED <<file, began, battery_total, t_now, t_resistance, i, tried>>
          /\ pc = "measure" /\ t_now < t_resistance
        BY <1>1, <1>7 DEF KeepResistance, Wanted, timers, history
    <2>2. DayAfterLastCell(t_resistance) \/ DayAfterLastCell(t_now)
        BY <1>1, <2>1 DEF ResistanceSpaced
    <2> QED BY <2>1, <2>2 DEF ResistanceSpaced, DayAfterLastCell
<1>8. CASE WriteResistance
    <2>1. /\ UNCHANGED <<began, battery_total, t_now, t_resistance, tried>>
          /\ file'.header = file.header
          /\ i' = i + 1 /\ pc = "write" /\ pc' = "measure"
        BY <1>8, Headers DEF WriteResistance, timers, history
    <2>2. Len(file'.res) = i
        <3>1. file'.res = Append(file.res, resistance[i]) /\ Len(file.res) = i - 1
            BY <1>8, Numbers DEF WriteResistance, IInv, Shape, FileType
        <3>2. file.res \in Seq(Reading)
            BY DEF IInv, TypeOK
        <3> QED BY <1>1, <3>1, <3>2
    <2>3. CASE i = battery_total
        <3>1. DayAfterLastCell(t_resistance) \/ DayAfterLastCell(t_now)
            BY <2>1, <2>3 DEF ResistanceSpaced
        <3> QED BY <2>1, <3>1 DEF ResistanceSpaced, DayAfterLastCell
    <2>4. CASE i # battery_total
        <3>1. ~Finished'
            BY <2>1, <2>2, <2>4 DEF Finished, Complete
        <3> QED BY <2>1, <3>1 DEF ResistanceSpaced, DayAfterLastCell
    <2> QED BY <2>3, <2>4
<1>9. CASE NextTurn
    <2>1. /\ UNCHANGED <<file, began, battery_total, t_resistance, i, tried>>
          /\ t_now' = now /\ pc = "rest" /\ pc' = "top"
        BY <1>9 DEF NextTurn, history
    <2>2. Finished' <=> Finished
        BY <2>1 DEF Finished, Complete
    <2>3. battery_total \in Bats
        BY <1>2, <2>1
    <2> QED BY <1>1, <2>1, <2>2, <2>3 DEF ResistanceSpaced, DayAfterLastCell
<1>10. CASE Kill
    BY <1>10, Headers DEF Kill, ResistanceSpaced
<1>11. CASE ~(Start \/ BeginInspection \/ WriteHeader \/ MeasureResistance \/ KeepResistance
              \/ WriteResistance \/ NextTurn \/ Kill)
    <2>1. /\ UNCHANGED <<file, began, battery_total, t_now, t_resistance, i, tried>>
          /\ pc' = pc \/ (pc # "start" /\ pc' \in {"control", "rest"})
        BY <1>11 DEF Next, Turn, vars, timers, history, NotDue, Publish, Control, Tick,
              Reconfigure
    <2>2. Finished' <=> Finished
        BY <2>1 DEF Finished, Complete
    <2> QED BY <2>1, <2>2 DEF ResistanceSpaced, DayAfterLastCell
<1> QED BY <1>3, <1>4, <1>5, <1>6, <1>7, <1>8, <1>9, <1>10, <1>11

\* However often the process is killed and restarted, an inspection that got
\* through is not repeated before VolPeriod is over, unless the resistance of
\* a cell (the last one) is a day old, but for the length of an inspection
\* (bs01thread.c:118-121, 134-142, 166).
THEOREM RestartRepeatsNothingEarly == Spec => NotRepeatedEarly
<1>1. ASSUME IInv, Spaced, [Next]_vars
      PROVE  pc = "top" /\ pc' = "header" /\ Complete(file)
                /\ file.header.total = battery_total
             => \/ t_now >= began + VolPeriod
                \/ \E b \in 1..battery_total : t_now >= tried[b] + ResPeriod - MaxStay
    <2> SUFFICES ASSUME pc = "top", pc' = "header", Finished
                 PROVE  \/ t_now >= began + VolPeriod
                        \/ \E b \in 1..battery_total :
                              t_now >= tried[b] + ResPeriod - MaxStay
        BY DEF Finished
    <2>1. BeginInspection
        <3>1. ~(NotDue \/ Start \/ WriteHeader \/ MeasureResistance \/ KeepResistance
                \/ WriteResistance \/ Publish \/ Control \/ NextTurn)
            BY DEF NotDue, Start, WriteHeader, MeasureResistance, KeepResistance,
               WriteResistance, Publish, Control, NextTurn
        <3>2. ~(Tick \/ Reconfigure \/ Kill \/ UNCHANGED vars)
            BY DEF Tick, Reconfigure, Kill, vars
        <3> QED BY <1>1, <3>1, <3>2 DEF Next, Turn
    <2>2. /\ t_now \in Nat /\ t_voltage \in Nat /\ t_resistance \in Nat /\ began \in Int
          /\ VolPeriod \in Nat /\ ResPeriod \in Nat /\ MaxStay \in Nat
          /\ tried[battery_total] \in Int
          /\ battery_total \in 1..battery_total
        BY <1>1, Numbers, Moments, LastCell DEF IInv
    <2>3. CASE t_now >= t_voltage
        BY <1>1, <2>2, <2>3 DEF Spaced, VoltageSpaced
    <2>4. CASE t_now >= t_resistance
        <3>1. DayAfterLastCell(t_resistance) \/ DayAfterLastCell(t_now)
            BY <1>1 DEF Spaced, ResistanceSpaced
        <3>2. t_now >= tried[battery_total] + ResPeriod - MaxStay
            BY <2>2, <2>4, <3>1 DEF DayAfterLastCell
        <3> QED BY <2>2, <3>2
    <2> QED BY <2>1, <2>3, <2>4 DEF BeginInspection, Due
<1>2. IInv /\ Spaced /\ [Next]_vars => Spaced'
    BY ClocksKept, VoltageSpacedKept, ResistanceSpacedKept DEF Spaced
<1> QED BY <1>1, <1>2, InvariantStarts, SpacedStarts, InvariantKept, PTL
        DEF Spec, NotRepeatedEarly

=============================================================================
