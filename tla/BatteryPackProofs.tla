------------------------- MODULE BatteryPackProofs --------------------------
(***************************************************************************)
(* Proofs about BatteryPack, for any cells, any number of clients and any   *)
(* number of measurements: the types, and the safety of what is published,  *)
(* sent and recorded.  BatteryPackRefinement builds on the invariant.       *)
(*                                                                         *)
(* The inductive invariant says who holds the mutex, what the copy of every *)
(* thread has still to move, and which fields of the record carry which     *)
(* stamp at every point of bs01; a client that sends then finds the record  *)
(* at rest, and so does writeToMysql, because only bs01 itself changes what *)
(* it writes.                                                              *)
(***************************************************************************)
EXTENDS PackRequests, SequenceTheorems, FiniteSetTheorems, TLAPS

Inspected == {GroupHead} \cup Rests
Measured  == Fields \ {Current}

MutexHeld == \A t \in Threads : InCriticalSection(t) <=> mutex = t

\* What the copies have still to move.
TodoBs01 ==
    /\ pc["bs01"] \notin {"copy_pack", "record_cells", "lock_voltages", "copy_voltages"}
          => todo["bs01"] = {}
    /\ pc["bs01"] = "lock_voltages" => todo["bs01"] = Voltages
    /\ pc["bs01"] = "copy_voltages" => todo["bs01"] \subseteq Voltages
    /\ pc["bs01"] = "record_cells" => todo["bs01"] \subseteq Voltages \cup Rests

TodoClients ==
    \A c \in Clients :
        /\ todo[c] \subseteq asked[c]
        /\ pc[c] = "recv" => todo[c] = {}
        /\ pc[c] = "lock_reply" => todo[c] = asked[c]
        /\ pc[c] # "recv" => asked[c] # {}

CurrentInv ==
    /\ CurrentNotLost
    /\ pc["bs01"] = "copy_pack" => mine[Current] = pack[Current]

\* Which field carries which stamp.
StampInv ==
    /\ \A f \in Measured : pack[f] <= pass
    /\ pc["bs01"] \in {"lock_pack", "load", "copy_pack"} => \A f \in Measured : mine[f] = pass
    /\ pc["bs01"] \in {"lock_pack", "load", "lock_voltages"}
          => \A f \in Measured : pack[f] < pass
    /\ pc["bs01"] = "copy_pack" => \A f \in Measured \ todo["bs01"] : pack[f] = pass
    /\ pc["bs01"] = "copy_voltages" => \A f \in Voltages \ todo["bs01"] : pack[f] = pass
    /\ pc["bs01"] \in {"record_group", "record_cells"} => \A f \in Measured : pack[f] = pass
    /\ pc["bs01"] # "copy_pack" => \A f, g \in Inspected : pack[f] = pack[g]
    /\ pc["bs01"] \notin {"copy_pack", "copy_voltages"} =>
          /\ \A f, g \in Voltages : pack[f] = pack[g]
          /\ \A f \in Inspected, g \in Voltages : pack[f] <= pack[g]

\* The parts of an answer g to the request q fit together.
Fits(q, g) ==
    /\ \A f, h \in q \cap Inspected : g[f] = g[h]
    /\ \A f, h \in q \cap Voltages : g[f] = g[h]
    /\ \A f \in q \cap Inspected, h \in q \cap Voltages : g[f] <= g[h]

ReplyInv ==
    \A c \in Clients :
        /\ pc[c] = "lock_reply" => got[c] = Blank
        /\ pc[c] = "send" =>
              \A f \in Fields :
                  got[c][f] = IF f \in asked[c] \ todo[c] THEN pack[f] ELSE Unsent
        /\ pc[c] = "recv" /\ asked[c] # {} => Fits(asked[c], got[c])

RowInv ==
    /\ RowIsOneInspection
    /\ pc["bs01"] = "record_cells" => \A f \in Measured \ todo["bs01"] : part[f] = pack[f]

IInv ==
    /\ TypeOK
    /\ MutexHeld
    /\ TodoBs01
    /\ TodoClients
    /\ CurrentInv
    /\ StampInv
    /\ ReplyInv
    /\ RowInv

-----------------------------------------------------------------------------
(* The fields and the threads are what they seem.                           *)

LEMMA FieldKinds ==
    /\ GroupHead \in Fields /\ Current \in Fields /\ Voltages \subseteq Fields /\ Rests \subseteq Fields
    /\ GroupHead # Current
    /\ GroupHead \notin Voltages /\ Current \notin Voltages /\ Current \notin Rests
    /\ Measured = Inspected \cup Voltages
    /\ Inspected \cap Voltages = {}
<1>1. GroupHead # Current
    BY DEF GroupHead, Current
<1>2. GroupHead \notin Voltages /\ Current \notin Voltages /\ GroupHead \notin Rests /\ Current \notin Rests
    BY DEF GroupHead, Current, Voltages, Rests
<1>3. Voltages \cap Rests = {}
    BY DEF Voltages, Rests
<1> HIDE DEF GroupHead, Current, Voltages, Rests
<1> QED BY <1>1, <1>2, <1>3 DEF Fields, Measured, Inspected

LEMMA RequestsAreFields ==
    /\ \A q \in Requests : q \subseteq Fields /\ q # {}
    /\ \A c \in Cells : CellFields(c) \subseteq Voltages \cup Rests
<1>1. \A c \in Cells : CellFields(c) \subseteq Voltages \cup Rests /\ CellFields(c) # {}
    BY DEF CellFields, Voltages, Rests
<1>2. Voltages \cup Rests \subseteq Fields /\ {Current} \subseteq Fields
    BY FieldKinds
<1> QED BY <1>1, <1>2, FieldKinds DEF Requests

LEMMA ThreadKinds ==
    /\ "bs01" \in Threads /\ "dis01" \in Threads /\ Clients \subseteq Threads
    /\ "bs01" \notin Clients /\ "dis01" \notin Clients /\ "nobody" \notin Threads
    BY ThreadNames DEF Threads

-----------------------------------------------------------------------------
(* Who does what, and what he leaves alone.                                 *)

Bs01Step      == Lock("bs01") \/ Bs01
Dis01Step     == Lock("dis01") \/ Dis01
ClientStep(c) == \/ Lock(c)
                 \/ \E q \in Requests : Recv(c, q)
                 \/ Serve(c)
                 \/ Stall(c) \/ ReadOn(c)

LEMMA StepKinds ==
    ASSUME [Next]_vars
    PROVE  Bs01Step \/ Dis01Step \/ (\E c \in Clients : ClientStep(c)) \/ UNCHANGED vars
    BY DEF Next, Threads, Bs01Step, Dis01Step, ClientStep

LEMMA Bs01Leaves ==
    ASSUME TypeOK, Bs01Step
    PROVE  /\ \A t \in Threads : t # "bs01" => pc'[t] = pc[t] /\ todo'[t] = todo[t]
           /\ UNCHANGED <<asked, got, stalled, sensed>>
<1>1. pc \in [Threads -> Bs01Labels \cup Dis01Labels \cup ClientLabels] /\ todo \in [Threads -> SUBSET Fields]
    BY DEF TypeOK
<1> QED
    BY <1>1 DEF Bs01Step, Lock, Bs01, Inspect, LoadCurrent, CopyField, UnlockPack, RecordGroup,
       RecordCell, RecordDone, RecordFails, ControlPass, CopyVoltage, UnlockVoltages, Unlock

LEMMA Dis01Leaves ==
    ASSUME TypeOK, Dis01Step
    PROVE  /\ \A t \in Threads : t # "dis01" => pc'[t] = pc[t]
           /\ \A f \in Fields : f # Current => pack'[f] = pack[f]
           /\ UNCHANGED <<todo, asked, got, stalled, mine, pass, row, part>>
<1>1. /\ pc \in [Threads -> Bs01Labels \cup Dis01Labels \cup ClientLabels]
      /\ pack \in [Fields -> Nat]
    BY DEF TypeOK
<1> QED BY <1>1 DEF Dis01Step, Lock, Dis01, Sense, StoreCurrent, Unlock

LEMMA ClientLeaves ==
    ASSUME TypeOK, NEW c \in Clients, ClientStep(c)
    PROVE  /\ \A t \in Threads : t # c => pc'[t] = pc[t] /\ todo'[t] = todo[t]
           /\ \A d \in Clients : d # c => asked'[d] = asked[d] /\ got'[d] = got[d]
           /\ UNCHANGED <<pack, mine, pass, sensed, row, part>>
<1>1. /\ pc \in [Threads -> Bs01Labels \cup Dis01Labels \cup ClientLabels]
      /\ todo \in [Threads -> SUBSET Fields]
      /\ asked \in [Clients -> Requests \cup {{}}]
      /\ got \in [Clients -> [Fields -> Nat \cup {Unsent}]]
    BY DEF TypeOK
<1> QED BY <1>1 DEF ClientStep, Lock, Recv, Serve, SendField, SendDone, Stall, ReadOn, Unlock

-----------------------------------------------------------------------------
(* Types.                                                                  *)

LEMMA TypesStart == Init => TypeOK
<1> SUFFICES ASSUME Init PROVE TypeOK
    OBVIOUS
<1>1. /\ pack \in [Fields -> Nat] /\ mine \in [Fields -> Nat \cup {Unsent}]
      /\ row \in [Fields -> Nat \cup {Unsent}] /\ part \in [Fields -> Nat \cup {Unsent}]
      /\ got \in [Clients -> [Fields -> Nat \cup {Unsent}]]
    BY DEF Init, Blank
<1>2. /\ pc \in [Threads -> Bs01Labels \cup Dis01Labels \cup ClientLabels]
      /\ pc["bs01"] \in Bs01Labels /\ pc["dis01"] \in Dis01Labels
      /\ \A c \in Clients : pc[c] \in ClientLabels
    BY ThreadKinds DEF Init, Bs01Labels, Dis01Labels, ClientLabels
<1>3. /\ todo \in [Threads -> SUBSET Fields] /\ asked \in [Clients -> Requests \cup {{}}]
      /\ pass \in 0..MaxPass /\ sensed \in 0..MaxSensed /\ stalled \subseteq Clients
      /\ mutex \in Threads \cup {"nobody"}
    BY PackBounds DEF Init
<1> QED BY <1>1, <1>2, <1>3 DEF TypeOK

LEMMA TypesKeptByBs01 ==
    ASSUME IInv, Bs01Step
    PROVE  TypeOK'
<1>0. TypeOK
    BY DEF IInv
<1>1. CASE Inspect
    BY <1>0, <1>1, FieldKinds, ThreadKinds, RequestsAreFields, PackBounds
    DEF Inspect, Unlock, TypeOK, Bs01Labels
<1>2. CASE LoadCurrent
    <2>1. pack[Current] \in Nat
        BY <1>0, FieldKinds DEF TypeOK
    <2>2. mine' \in [Fields -> Nat \cup {Unsent}]
        BY <1>0, <1>2, <2>1 DEF LoadCurrent, CurrentToKeep, TypeOK
    <2> QED BY <1>0, <1>2, <2>2, ThreadKinds DEF LoadCurrent, TypeOK, Bs01Labels
<1>3. CASE \E f \in Fields : CopyField(f)
    <2>1. PICK f \in Fields : CopyField(f)
        BY <1>3
    <2>2. mine[f] \in Nat
        <3>1. pc["bs01"] = "copy_pack"
            BY <2>1 DEF CopyField
        <3>2. CASE f = Current
            BY <1>0, <3>1, <3>2, FieldKinds DEF IInv, CurrentInv, TypeOK
        <3>3. CASE f # Current
            BY <1>0, <3>1, <3>3 DEF IInv, StampInv, TypeOK, Measured
        <3> QED BY <3>2, <3>3
    <2>3. pack' \in [Fields -> Nat]
        BY <1>0, <2>1, <2>2 DEF CopyField, TypeOK
    <2> QED BY <1>0, <2>1, <2>3, ThreadKinds DEF CopyField, TypeOK
<1>4. CASE UnlockPack
    BY <1>0, <1>4, FieldKinds, ThreadKinds, RequestsAreFields, PackBounds
    DEF UnlockPack, Unlock, TypeOK, Bs01Labels
<1>5. CASE RecordGroup
    BY <1>0, <1>5, FieldKinds, ThreadKinds, RequestsAreFields, PackBounds
    DEF RecordGroup, Unlock, TypeOK, Bs01Labels
<1>6. CASE \E c \in Cells : RecordCell(c)
    BY <1>0, <1>6, FieldKinds, ThreadKinds, RequestsAreFields, PackBounds
    DEF RecordCell, Unlock, TypeOK, Bs01Labels
<1>7. CASE RecordDone
    BY <1>0, <1>7, FieldKinds, ThreadKinds, RequestsAreFields, PackBounds
    DEF RecordDone, Unlock, TypeOK, Bs01Labels
<1>8. CASE RecordFails
    BY <1>0, <1>8, FieldKinds, ThreadKinds, RequestsAreFields, PackBounds
    DEF RecordFails, Unlock, TypeOK, Bs01Labels
<1>9. CASE ControlPass
    BY <1>0, <1>9, FieldKinds, ThreadKinds, RequestsAreFields, PackBounds
    DEF ControlPass, Unlock, TypeOK, Bs01Labels
<1>10. CASE \E f \in Voltages : CopyVoltage(f)
    BY <1>0, <1>10, FieldKinds, ThreadKinds, RequestsAreFields, PackBounds
    DEF CopyVoltage, Unlock, TypeOK, Bs01Labels
<1>11. CASE UnlockVoltages
    BY <1>0, <1>11, FieldKinds, ThreadKinds, RequestsAreFields, PackBounds
    DEF UnlockVoltages, Unlock, TypeOK, Bs01Labels
<1>12. CASE Lock("bs01")
    BY <1>0, <1>12, ThreadKinds
    DEF Lock, LockLabels, AfterLock, TypeOK, Bs01Labels
<1> QED
    BY <1>1, <1>2, <1>3, <1>4, <1>5, <1>6, <1>7, <1>8, <1>9, <1>10, <1>11, <1>12
    DEF Bs01Step, Bs01

LEMMA TypesKept ==
    ASSUME IInv, [Next]_vars
    PROVE  TypeOK'
<1>0. TypeOK
    BY DEF IInv
<1>1. CASE Bs01Step
    BY <1>1, TypesKeptByBs01
<1>2. CASE Lock("dis01")
    BY <1>0, <1>2, ThreadKinds DEF Lock, LockLabels, AfterLock, TypeOK, Dis01Labels
<1>3. CASE Sense
    BY <1>0, <1>3, ThreadKinds, PackBounds DEF Sense, TypeOK, Dis01Labels
<1>4. CASE StoreCurrent
    BY <1>0, <1>4, ThreadKinds, FieldKinds, PackBounds
    DEF StoreCurrent, Unlock, TypeOK, Dis01Labels
<1>5. ASSUME NEW c \in Clients, ClientStep(c)
      PROVE  TypeOK'
    <2>1. CASE Lock(c)
        BY <1>0, <2>1, ThreadKinds DEF Lock, LockLabels, AfterLock, TypeOK, ClientLabels
    <2>2. CASE \E q \in Requests : Recv(c, q)
        <3>1. PICK q \in Requests : Recv(c, q)
            BY <2>2
        <3>2. q \in SUBSET Fields /\ Blank \in [Fields -> Nat \cup {Unsent}]
            BY RequestsAreFields DEF Blank
        <3> QED BY <1>0, <3>1, <3>2, ThreadKinds DEF Recv, TypeOK, ClientLabels
    <2>3. CASE \E f \in Fields : SendField(c, f)
        <3>1. PICK f \in Fields : SendField(c, f)
            BY <2>3
        <3>2. [got[c] EXCEPT ![f] = pack[f]] \in [Fields -> Nat \cup {Unsent}]
            BY <1>0 DEF TypeOK
        <3>3. got' \in [Clients -> [Fields -> Nat \cup {Unsent}]]
            BY <1>0, <3>1, <3>2 DEF SendField, TypeOK
        <3> QED BY <1>0, <3>1, <3>3, ThreadKinds DEF SendField, TypeOK
    <2>4. CASE SendDone(c)
        BY <1>0, <2>4, ThreadKinds DEF SendDone, Unlock, TypeOK, ClientLabels
    <2>5. CASE Stall(c) \/ ReadOn(c)
        BY <1>0, <2>5 DEF Stall, ReadOn, TypeOK
    <2> QED BY <1>5, <2>1, <2>2, <2>3, <2>4, <2>5 DEF ClientStep, Serve
<1>6. CASE UNCHANGED vars
    BY <1>0, <1>6 DEF vars, TypeOK
<1> QED BY <1>1, <1>2, <1>3, <1>4, <1>5, <1>6, StepKinds DEF Dis01Step, Dis01

-----------------------------------------------------------------------------
(* The mutex.                                                              *)

LEMMA MutexKept ==
    ASSUME IInv, [Next]_vars
    PROVE  MutexHeld'
<1>0. /\ pc \in [Threads -> Bs01Labels \cup Dis01Labels \cup ClientLabels]
      /\ pc["bs01"] \in Bs01Labels
      /\ MutexHeld
    BY DEF IInv, TypeOK
<1> USE DEF MutexHeld, InCriticalSection
<1>1. ASSUME NEW t \in Threads, Lock(t)
      PROVE  MutexHeld'
    <2>1. pc'[t] \in {"load", "copy_voltages", "store", "send"}
        BY <1>0, <1>1 DEF Lock, LockLabels, AfterLock
    <2> QED BY <1>0, <1>1, <2>1, ThreadKinds DEF Lock, LockFree
<1>2. ASSUME NEW t \in Threads, NEW l \in {"record_group", "measure", "recv"},
             Unlock(t, l), InCriticalSection(t)
      PROVE  MutexHeld'
    BY <1>0, <1>2, ThreadKinds DEF Unlock
<1>3. CASE Bs01
    <2>1. CASE UnlockPack \/ UnlockVoltages
        BY <1>2, <2>1, ThreadKinds DEF UnlockPack, UnlockVoltages
    <2>2. CASE LoadCurrent
        BY <1>0, <2>2, ThreadKinds DEF LoadCurrent
    <2>3. CASE ~(UnlockPack \/ UnlockVoltages \/ LoadCurrent)
        <3>1. /\ mutex' = mutex
              /\ \/ UNCHANGED pc
                 \/ \E l \in {"lock_pack", "record_cells", "measure", "lock_voltages"} :
                       pc' = [pc EXCEPT !["bs01"] = l] /\ ~InCriticalSection("bs01")
            BY <1>3, <2>3 DEF Bs01, Inspect, CopyField, RecordGroup, RecordCell, RecordDone,
               RecordFails, ControlPass, CopyVoltage
        <3> QED BY <1>0, <3>1, ThreadKinds
    <2> QED BY <2>1, <2>2, <2>3
<1>4. CASE Dis01
    <2>1. CASE StoreCurrent
        BY <1>2, <2>1, ThreadKinds DEF StoreCurrent
    <2>2. CASE Sense
        BY <1>0, <2>2, ThreadKinds DEF Sense
    <2> QED BY <1>4, <2>1, <2>2 DEF Dis01
<1>5. ASSUME NEW c \in Clients, ClientStep(c), ~Lock(c)
      PROVE  MutexHeld'
    <2>1. CASE SendDone(c)
        BY <1>2, <2>1, ThreadKinds DEF SendDone
    <2>2. CASE ~SendDone(c)
        <3>1. /\ mutex' = mutex
              /\ \/ UNCHANGED pc
                 \/ pc' = [pc EXCEPT ![c] = "lock_reply"] /\ pc[c] = "recv"
            BY <1>5, <2>2 DEF ClientStep, Serve, Recv, SendField, Stall, ReadOn
        <3> QED BY <1>0, <3>1, ThreadKinds
    <2> QED BY <2>1, <2>2
<1>6. CASE UNCHANGED vars
    BY <1>0, <1>6 DEF vars
<1> QED
    BY <1>1, <1>3, <1>4, <1>5, <1>6, StepKinds, ThreadKinds
    DEF Bs01Step, Dis01Step

\* While a client sends, or dis01 stores, bs01 is not copying.
LEMMA BusyElsewhere ==
    ASSUME IInv, NEW t \in Threads, t # "bs01", InCriticalSection(t)
    PROVE  pc["bs01"] \notin {"load", "copy_pack", "copy_voltages"}
    BY ThreadKinds DEF IInv, MutexHeld, InCriticalSection

-----------------------------------------------------------------------------
(* What the copies have still to move.                                      *)

LEMMA TodoBs01Kept ==
    ASSUME IInv, [Next]_vars
    PROVE  TodoBs01'
<1>0. /\ pc \in [Threads -> Bs01Labels \cup Dis01Labels \cup ClientLabels]
      /\ pc["bs01"] \in Bs01Labels
      /\ todo \in [Threads -> SUBSET Fields]
      /\ TypeOK /\ TodoBs01
    BY DEF IInv, TypeOK
<1> USE DEF TodoBs01
<1>1. CASE Lock("bs01")
    BY <1>0, <1>1, ThreadKinds DEF Lock, LockLabels, AfterLock
<1>2. CASE Inspect \/ LoadCurrent \/ UnlockPack
    BY <1>0, <1>2, ThreadKinds DEF Inspect, LoadCurrent, UnlockPack, Unlock
<1>3. CASE RecordGroup \/ RecordDone \/ RecordFails
    BY <1>0, <1>3, ThreadKinds, FieldKinds DEF RecordGroup, RecordDone, RecordFails
<1>4. CASE ControlPass \/ UnlockVoltages
    BY <1>0, <1>4, ThreadKinds, FieldKinds DEF ControlPass, UnlockVoltages, Unlock
<1>5. CASE \/ \E f \in Fields : CopyField(f)
           \/ \E f \in Voltages : CopyVoltage(f)
           \/ \E c \in Cells : RecordCell(c)
    BY <1>0, <1>5, ThreadKinds DEF CopyField, CopyVoltage, RecordCell
<1>6. CASE ~Bs01Step
    <2>1. pc'["bs01"] = pc["bs01"] /\ todo'["bs01"] = todo["bs01"]
        BY <1>0, <1>6, StepKinds, Dis01Leaves, ClientLeaves, ThreadKinds DEF vars
    <2> QED BY <1>0, <2>1
<1> QED BY <1>1, <1>2, <1>3, <1>4, <1>5, <1>6 DEF Bs01Step, Bs01

LEMMA TodoClientsKept ==
    ASSUME IInv, [Next]_vars
    PROVE  TodoClients'
<1>0. /\ pc \in [Threads -> Bs01Labels \cup Dis01Labels \cup ClientLabels]
      /\ \A c \in Clients : pc[c] \in ClientLabels
      /\ todo \in [Threads -> SUBSET Fields]
      /\ asked \in [Clients -> Requests \cup {{}}]
      /\ TypeOK /\ TodoClients
    BY DEF IInv, TypeOK
<1> USE DEF TodoClients
<1>1. CASE Bs01Step \/ Dis01Step \/ UNCHANGED vars
    <2>1. \A c \in Clients : pc'[c] = pc[c] /\ todo'[c] = todo[c] /\ asked'[c] = asked[c]
        BY <1>0, <1>1, Bs01Leaves, Dis01Leaves, ThreadKinds DEF vars
    <2> QED BY <1>0, <2>1
<1>2. ASSUME NEW c \in Clients, ClientStep(c)
      PROVE  TodoClients'
    <2>1. \A d \in Clients : d # c =>
             pc'[d] = pc[d] /\ todo'[d] = todo[d] /\ asked'[d] = asked[d]
        BY <1>0, <1>2, ClientLeaves, ThreadKinds
    <2>2. /\ todo'[c] \subseteq asked'[c]
          /\ pc'[c] = "recv" => todo'[c] = {}
          /\ pc'[c] = "lock_reply" => todo'[c] = asked'[c]
          /\ pc'[c] # "recv" => asked'[c] # {}
        <3>1. CASE Lock(c)
            BY <1>0, <3>1, ThreadKinds DEF Lock, LockLabels, AfterLock, ClientLabels
        <3>2. CASE \E q \in Requests : Recv(c, q)
            BY <1>0, <3>2, ThreadKinds, RequestsAreFields DEF Recv
        <3>3. CASE \E f \in Fields : SendField(c, f)
            BY <1>0, <3>3, ThreadKinds DEF SendField
        <3>4. CASE SendDone(c) \/ Stall(c) \/ ReadOn(c)
            BY <1>0, <3>4, ThreadKinds DEF SendDone, Unlock, Stall, ReadOn
        <3> QED BY <1>2, <3>1, <3>2, <3>3, <3>4 DEF ClientStep, Serve
    <2> QED BY <1>0, <2>1, <2>2
<1> QED BY <1>1, <1>2, StepKinds

-----------------------------------------------------------------------------
(* The current.                                                            *)

LEMMA CurrentKept ==
    ASSUME IInv, [Next]_vars
    PROVE  CurrentInv'
<1>0. /\ TypeOK /\ CurrentInv
      /\ pc \in [Threads -> Bs01Labels \cup Dis01Labels \cup ClientLabels]
      /\ pc["bs01"] \in Bs01Labels
      /\ pc["dis01"] \in Dis01Labels
      /\ pack \in [Fields -> Nat] /\ mine \in [Fields -> Nat \cup {Unsent}]
      /\ sensed \in Nat
    BY PackBounds DEF IInv, TypeOK
<1> USE DEF CurrentInv, CurrentNotLost
<1>1. CASE Bs01Step
    <2>1. pc'["dis01"] = pc["dis01"] /\ sensed' = sensed
        BY <1>0, <1>1, Bs01Leaves, ThreadKinds
    <2>2. CASE \E f \in Fields : CopyField(f)
        <3>1. pack'[Current] = pack[Current] /\ mine' = mine
            BY <1>0, <2>2, FieldKinds DEF CopyField
        <3> QED BY <1>0, <2>1, <2>2, <3>1 DEF CopyField
    <2>3. CASE \E f \in Voltages : CopyVoltage(f)
        BY <1>0, <2>1, <2>3, FieldKinds DEF CopyVoltage
    <2>4. CASE LoadCurrent
        <3>1. mine'[Current] = pack[Current] /\ pack' = pack
            BY <1>0, <2>4, FieldKinds DEF LoadCurrent, CurrentToKeep
        <3> QED BY <1>0, <2>1, <3>1
    <2>5. CASE ~(LoadCurrent \/ (\E f \in Fields : CopyField(f)) \/ \E f \in Voltages : CopyVoltage(f))
        <3>1. pack' = pack /\ pc'["bs01"] # "copy_pack"
            BY <1>0, <1>1, <2>5, ThreadKinds
            DEF Bs01Step, Bs01, Lock, LockLabels, AfterLock, Inspect, UnlockPack, RecordGroup,
               RecordCell, RecordDone, RecordFails, ControlPass, UnlockVoltages, Unlock
        <3> QED BY <1>0, <2>1, <3>1
    <2> QED BY <2>2, <2>3, <2>4, <2>5
<1>2. CASE Dis01Step
    <2>1. pc'["bs01"] = pc["bs01"] /\ mine' = mine
        BY <1>0, <1>2, Dis01Leaves, ThreadKinds
    <2>2. CASE Lock("dis01")
        BY <1>0, <2>1, <2>2, ThreadKinds DEF Lock, LockLabels, AfterLock, Dis01Labels
    <2>3. CASE Sense
        BY <1>0, <2>1, <2>3, ThreadKinds DEF Sense
    <2>4. CASE StoreCurrent
        <3>1. pc["bs01"] # "copy_pack"
            BY <2>4, BusyElsewhere, ThreadKinds DEF StoreCurrent, InCriticalSection
        <3> QED BY <1>0, <2>1, <2>4, <3>1, ThreadKinds, FieldKinds DEF StoreCurrent, Unlock
    <2> QED BY <1>2, <2>2, <2>3, <2>4 DEF Dis01Step, Dis01
<1>3. CASE (\E c \in Clients : ClientStep(c)) \/ UNCHANGED vars
    <2>1. /\ UNCHANGED <<pack, mine, sensed>>
          /\ pc'["bs01"] = pc["bs01"] /\ pc'["dis01"] = pc["dis01"]
        BY <1>0, <1>3, ClientLeaves, ThreadKinds DEF vars
    <2> QED BY <1>0, <2>1
<1> QED BY <1>1, <1>2, <1>3, StepKinds

-----------------------------------------------------------------------------
(* The stamps.                                                             *)

LEMMA StampKept ==
    ASSUME IInv, [Next]_vars
    PROVE  StampInv'
<1>0. /\ TypeOK /\ StampInv /\ TodoBs01
      /\ pc \in [Threads -> Bs01Labels \cup Dis01Labels \cup ClientLabels]
      /\ pc["bs01"] \in Bs01Labels
      /\ pack \in [Fields -> Nat] /\ mine \in [Fields -> Nat \cup {Unsent}]
      /\ todo \in [Threads -> SUBSET Fields]
      /\ pass \in Nat
      /\ Measured \subseteq Fields /\ Inspected \subseteq Measured /\ Voltages \subseteq Measured
    <2>1. TypeOK /\ StampInv /\ TodoBs01
        BY DEF IInv
    <2>2. Measured \subseteq Fields /\ Inspected \subseteq Measured /\ Voltages \subseteq Measured
        BY FieldKinds DEF Measured
    <2>3. pass \in Nat
        BY <2>1, PackBounds DEF TypeOK
    <2> QED BY <2>1, <2>2, <2>3 DEF TypeOK
<1> USE DEF StampInv
<1>1. CASE Lock("bs01")
    BY <1>0, <1>1, ThreadKinds DEF Lock, LockLabels, AfterLock, Bs01Labels, TodoBs01
<1>2. CASE Inspect
    <2>1. /\ pc["bs01"] = "measure" /\ pc'["bs01"] = "lock_pack"
          /\ pass' = pass + 1 /\ pack' = pack
        BY <1>0, <1>2, ThreadKinds DEF Inspect
    <2>2. \A f \in Measured : mine'[f] = pass'
        BY <1>2, <2>1 DEF Inspect, Measured
    <2>3. \A f \in Measured : pack[f] <= pass /\ pack[f] \in Nat
        BY <1>0
    <2> QED BY <1>0, <2>1, <2>2, <2>3
<1>3. CASE LoadCurrent
    <2>1. /\ pc["bs01"] = "load" /\ pc'["bs01"] = "copy_pack"
          /\ pass' = pass /\ pack' = pack
          /\ todo'["bs01"] = Fields
          /\ \A f \in Measured : mine'[f] = mine[f]
        BY <1>0, <1>3, ThreadKinds DEF LoadCurrent, Measured
    <2> QED BY <1>0, <2>1
<1>4. CASE \E f \in Fields : CopyField(f)
    <2>1. PICK f \in Fields : CopyField(f)
        BY <1>4
    <2>2. /\ pc["bs01"] = "copy_pack" /\ pc' = pc /\ pass' = pass /\ mine' = mine
          /\ todo'["bs01"] = todo["bs01"] \ {f}
          /\ pack'[f] = mine[f] /\ \A h \in Fields : h # f => pack'[h] = pack[h]
        BY <1>0, <2>1, ThreadKinds DEF CopyField
    <2>3. \A h \in Measured : pack'[h] <= pass
        BY <1>0, <2>2
    <2> QED BY <1>0, <2>2, <2>3
<1>5. CASE UnlockPack
    <2>1. /\ pc["bs01"] = "copy_pack" /\ todo["bs01"] = {} /\ pc'["bs01"] = "record_group"
          /\ UNCHANGED <<pack, pass, mine, todo>>
        BY <1>0, <1>5, ThreadKinds DEF UnlockPack, Unlock
    <2>2. \A f \in Measured : pack[f] = pass
        BY <1>0, <2>1
    <2> QED BY <1>0, <2>1, <2>2
<1>6. CASE RecordGroup \/ (\E c \in Cells : RecordCell(c)) \/ RecordDone \/ RecordFails
    <2>1. /\ pc["bs01"] \in {"record_group", "record_cells"}
          /\ pc'["bs01"] \in {"record_cells", "measure"}
          /\ UNCHANGED <<pack, pass, mine>>
        BY <1>0, <1>6, ThreadKinds DEF RecordGroup, RecordCell, RecordDone, RecordFails
    <2>2. \A f \in Measured : pack[f] = pass
        BY <1>0, <2>1
    <2> QED BY <1>0, <2>1, <2>2
<1>7. CASE ControlPass
    <2>1. /\ pc["bs01"] = "measure" /\ pc'["bs01"] = "lock_voltages"
          /\ pass' = pass + 1 /\ pack' = pack
        BY <1>0, <1>7, ThreadKinds DEF ControlPass
    <2>2. \A f \in Measured : pack[f] <= pass /\ pack[f] \in Nat
        BY <1>0
    <2> QED BY <1>0, <2>1, <2>2
<1>8. CASE \E f \in Voltages : CopyVoltage(f)
    <2>1. PICK f \in Voltages : CopyVoltage(f)
        BY <1>8
    <2>2. /\ pc["bs01"] = "copy_voltages" /\ pc' = pc /\ pass' = pass
          /\ todo'["bs01"] = todo["bs01"] \ {f}
          /\ pack'[f] = pass /\ \A h \in Fields : h # f => pack'[h] = pack[h]
        BY <1>0, <2>1, ThreadKinds DEF CopyVoltage
    <2>3. \A h \in Inspected : h # f /\ pack'[h] = pack[h]
        BY <1>0, <2>2, FieldKinds
    <2> QED BY <1>0, <2>2, <2>3
<1>9. CASE UnlockVoltages
    <2>1. /\ pc["bs01"] = "copy_voltages" /\ todo["bs01"] = {} /\ pc'["bs01"] = "measure"
          /\ UNCHANGED <<pack, pass>>
        BY <1>0, <1>9, ThreadKinds DEF UnlockVoltages, Unlock
    <2>2. /\ \A f \in Voltages : pack[f] = pass
          /\ \A f \in Inspected : pack[f] <= pass
        BY <1>0, <2>1
    <2> QED BY <1>0, <2>1, <2>2
<1>10. CASE ~Bs01Step
    <2>1. /\ pc'["bs01"] = pc["bs01"] /\ todo'["bs01"] = todo["bs01"]
          /\ pass' = pass /\ mine' = mine
          /\ \A f \in Measured : pack'[f] = pack[f]
        BY <1>0, <1>10, StepKinds, Dis01Leaves, ClientLeaves, ThreadKinds DEF vars, Measured
    <2> QED BY <1>0, <2>1
<1> QED
    BY <1>1, <1>2, <1>3, <1>4, <1>5, <1>6, <1>7, <1>8, <1>9, <1>10 DEF Bs01Step, Bs01

-----------------------------------------------------------------------------
(* The replies.                                                            *)

LEMMA ReplyKept ==
    ASSUME IInv, [Next]_vars
    PROVE  ReplyInv'
<1>0. /\ TypeOK /\ ReplyInv
      /\ pc \in [Threads -> Bs01Labels \cup Dis01Labels \cup ClientLabels]
      /\ todo \in [Threads -> SUBSET Fields]
      /\ asked \in [Clients -> Requests \cup {{}}]
      /\ got \in [Clients -> [Fields -> Nat \cup {Unsent}]]
    BY DEF IInv, TypeOK
<1> USE DEF ReplyInv
<1>1. ASSUME NEW c \in Clients, pc[c] = "send", Bs01Step \/ Dis01Step
      PROVE  pack' = pack
    <2>1. pc["bs01"] \notin {"load", "copy_pack", "copy_voltages"}
        BY <1>1, BusyElsewhere, ThreadKinds DEF InCriticalSection
    <2>2. pc["dis01"] # "store"
        BY <1>1, ThreadKinds DEF IInv, MutexHeld, InCriticalSection
    <2> QED
        BY <1>1, <2>1, <2>2
        DEF Bs01Step, Bs01, Dis01Step, Dis01, Lock, Inspect, LoadCurrent, CopyField, UnlockPack,
           RecordGroup, RecordCell, RecordDone, RecordFails, ControlPass, CopyVoltage,
           UnlockVoltages, Sense, StoreCurrent
<1>2. CASE Bs01Step \/ Dis01Step \/ UNCHANGED vars
    <2>1. \A c \in Clients : /\ pc'[c] = pc[c] /\ todo'[c] = todo[c]
                            /\ asked'[c] = asked[c] /\ got'[c] = got[c]
        BY <1>0, <1>2, Bs01Leaves, Dis01Leaves, ThreadKinds DEF vars
    <2>2. \A c \in Clients : pc[c] = "send" => pack' = pack
        BY <1>1, <1>2 DEF vars
    <2> QED BY <1>0, <2>1, <2>2
<1>3. ASSUME NEW c \in Clients, ClientStep(c)
      PROVE  ReplyInv'
    <2>1. /\ \A d \in Clients : d # c =>
                pc'[d] = pc[d] /\ todo'[d] = todo[d] /\ asked'[d] = asked[d] /\ got'[d] = got[d]
          /\ pack' = pack
        BY <1>0, <1>3, ClientLeaves, ThreadKinds
    <2>2. /\ pc'[c] = "lock_reply" => got'[c] = Blank
          /\ pc'[c] = "send" =>
                \A f \in Fields :
                    got'[c][f] = IF f \in asked'[c] \ todo'[c] THEN pack[f] ELSE Unsent
          /\ pc'[c] = "recv" /\ asked'[c] # {} => Fits(asked'[c], got'[c])
        <3>1. CASE Lock(c)
            <4>1. /\ pc[c] = "lock_reply" /\ pc'[c] = "send"
                  /\ UNCHANGED <<todo, asked, got>>
                BY <1>0, <3>1, ThreadKinds DEF Lock, LockLabels, AfterLock, IInv, TypeOK, ClientLabels
            <4>2. todo[c] = asked[c] /\ got[c] = Blank
                BY <1>0, <4>1 DEF IInv, TodoClients
            <4> QED BY <4>1, <4>2 DEF Blank
        <3>2. CASE \E q \in Requests : Recv(c, q)
            BY <1>0, <3>2, ThreadKinds DEF Recv
        <3>3. CASE \E f \in Fields : SendField(c, f)
            <4>1. PICK f \in Fields : SendField(c, f)
                BY <3>3
            <4>2. /\ pc[c] = "send" /\ pc' = pc /\ asked' = asked
                  /\ f \in todo[c] /\ todo'[c] = todo[c] \ {f}
                  /\ got'[c] = [got[c] EXCEPT ![f] = pack[f]]
                BY <1>0, <4>1, ThreadKinds DEF SendField
            <4>3. f \in asked[c] /\ got[c] \in [Fields -> Nat \cup {Unsent}]
                BY <1>0, <4>2 DEF IInv, TodoClients
            <4> QED BY <1>0, <4>2, <4>3
        <3>4. CASE SendDone(c)
            <4>1. /\ pc[c] = "send" /\ pc'[c] = "recv" /\ todo[c] = {}
                  /\ UNCHANGED <<asked, got>>
                BY <1>0, <3>4, ThreadKinds DEF SendDone, Unlock
            <4>2. \A f \in Fields \cap asked[c] : got[c][f] = pack[f]
                BY <1>0, <4>1
            <4>3. pc["bs01"] \notin {"load", "copy_pack", "copy_voltages"}
                BY <4>1, BusyElsewhere, ThreadKinds DEF InCriticalSection
            <4>4. Fits(asked[c], pack)
                BY <4>3 DEF IInv, StampInv, Fits
            <4>5. Inspected \cup Voltages \subseteq Fields
                BY FieldKinds DEF Inspected
            <4> QED BY <4>1, <4>2, <4>4, <4>5 DEF Fits
        <3>5. CASE Stall(c) \/ ReadOn(c)
            BY <1>0, <3>5 DEF Stall, ReadOn
        <3> QED BY <1>3, <3>1, <3>2, <3>3, <3>4, <3>5 DEF ClientStep, Serve
    <2> QED BY <1>0, <2>1, <2>2
<1> QED BY <1>2, <1>3, StepKinds

-----------------------------------------------------------------------------
(* The database rows.                                                      *)

LEMMA RowKept ==
    ASSUME IInv, [Next]_vars
    PROVE  RowInv'
<1>0. /\ TypeOK /\ RowInv /\ TodoBs01 /\ StampInv
      /\ pc \in [Threads -> Bs01Labels \cup Dis01Labels \cup ClientLabels]
      /\ pc["bs01"] \in Bs01Labels
      /\ todo \in [Threads -> SUBSET Fields]
      /\ Measured \subseteq Fields
    <2>1. TypeOK /\ RowInv /\ TodoBs01 /\ StampInv
        BY DEF IInv
    <2> QED BY <2>1 DEF TypeOK, Measured
<1> USE DEF RowInv, RowIsOneInspection
<1>1. CASE RecordGroup
    <2>1. /\ pc'["bs01"] = "record_cells" /\ row' = row /\ pack' = pack
          /\ todo'["bs01"] = Voltages \cup Rests
          /\ \A f \in Fields \cap {GroupHead, Current} : part'[f] = pack[f]
        BY <1>0, <1>1, ThreadKinds DEF RecordGroup
    <2>2. \A f \in Measured \ todo'["bs01"] : f = GroupHead
        BY <2>1, FieldKinds DEF Inspected
    <2> QED BY <1>0, <2>1, <2>2
<1>2. CASE \E c \in Cells : RecordCell(c)
    <2>1. PICK c \in Cells : RecordCell(c)
        BY <1>2
    <2>2. /\ pc["bs01"] = "record_cells" /\ pc' = pc /\ row' = row /\ pack' = pack
          /\ todo'["bs01"] = todo["bs01"] \ CellFields(c)
          /\ \A f \in Fields : part'[f] = IF f \in CellFields(c) THEN pack[f] ELSE part[f]
        BY <1>0, <2>1, ThreadKinds DEF RecordCell
    <2> QED BY <1>0, <2>2
<1>3. CASE RecordDone
    <2>1. /\ pc["bs01"] = "record_cells" /\ todo["bs01"] = {} /\ row' = part
          /\ pc'["bs01"] = "measure"
        BY <1>0, <1>3, ThreadKinds DEF RecordDone
    <2>2. \A f \in Measured : part[f] = pack[f]
        BY <1>0, <2>1
    <2>3. \A f \in Measured : pack[f] = pass
        BY <1>0, <2>1 DEF StampInv
    <2> QED BY <2>1, <2>2, <2>3 DEF Measured
<1>4. CASE Bs01Step /\ ~(RecordGroup \/ (\E c \in Cells : RecordCell(c)) \/ RecordDone)
    <2>1. row' = row /\ pc'["bs01"] # "record_cells"
        BY <1>0, <1>4, ThreadKinds
        DEF Bs01Step, Bs01, Lock, LockLabels, AfterLock, Inspect, LoadCurrent, CopyField,
           UnlockPack, RecordFails, ControlPass, CopyVoltage, UnlockVoltages, Unlock
    <2> QED BY <1>0, <2>1
<1>5. CASE ~Bs01Step
    <2>1. /\ pc'["bs01"] = pc["bs01"] /\ todo'["bs01"] = todo["bs01"]
          /\ UNCHANGED <<row, part>>
          /\ \A f \in Measured : pack'[f] = pack[f]
        BY <1>0, <1>5, StepKinds, Dis01Leaves, ClientLeaves, ThreadKinds DEF vars, Measured
    <2> QED BY <1>0, <2>1
<1> QED BY <1>1, <1>2, <1>3, <1>4, <1>5

-----------------------------------------------------------------------------
(* The invariant, and what follows from it.                                 *)

LEMMA InvariantStarts == Init => IInv
<1> SUFFICES ASSUME Init PROVE IInv
    OBVIOUS
<1>1. TypeOK
    BY TypesStart
<1>2. pc["bs01"] = "measure" /\ pc["dis01"] = "measure" /\ \A c \in Clients : pc[c] = "recv"
    BY ThreadKinds DEF Init
<1>3. \A t \in Threads : todo[t] = {}
    BY DEF Init
<1>4. MutexHeld
    BY <1>2, ThreadKinds DEF Init, MutexHeld, InCriticalSection, Threads
<1>5. TodoBs01 /\ TodoClients
    BY <1>2, <1>3, ThreadKinds DEF Init, TodoBs01, TodoClients
<1>6. \A f \in Fields : pack[f] = 0 /\ row[f] = Unsent
    BY DEF Init, Blank
<1>7. CurrentInv
    BY <1>2, <1>6, FieldKinds DEF Init, CurrentInv, CurrentNotLost
<1>8. StampInv
    <2>1. pass = 0 /\ Measured \subseteq Fields /\ Inspected \subseteq Fields /\ Voltages \subseteq Fields
        BY FieldKinds DEF Init, Inspected, Measured
    <2> QED BY <1>2, <1>6, <2>1 DEF StampInv
<1>9. ReplyInv
    BY <1>2 DEF Init, ReplyInv
<1>10. RowInv
    BY <1>2, <1>6 DEF RowInv, RowIsOneInspection
<1> QED BY <1>1, <1>4, <1>5, <1>7, <1>8, <1>9, <1>10 DEF IInv

LEMMA InvariantKept ==
    ASSUME IInv, [Next]_vars
    PROVE  IInv'
    BY TypesKept, MutexKept, TodoBs01Kept, TodoClientsKept, CurrentKept, StampKept, ReplyKept,
       RowKept
    DEF IInv

\* The invariant holds in every reachable state.
THEOREM Invariance == Spec => []IInv
    BY InvariantStarts, InvariantKept, PTL DEF Spec

\* The types of the shared record, of its copies and of the threads
\* (battery.h:80-91).
THEOREM TypeCorrect == Spec => []TypeOK
<1>1. IInv => TypeOK
    BY DEF IInv
<1> QED BY <1>1, Invariance, PTL

\* At most one thread is in a critical section of s800bm_mutex, and it is the
\* one that holds it (bs01thread.c:49-53, 194-198; dis01thread.c:33-36;
\* networkCommunication.c:45-71).
THEOREM MutualExclusion ==
    Spec => [](\A t, u \in Threads : InCriticalSection(t) /\ InCriticalSection(u) => t = u)
<1>1. IInv => \A t, u \in Threads : InCriticalSection(t) /\ InCriticalSection(u) => t = u
    BY DEF IInv, MutexHeld
<1> QED BY <1>1, Invariance, PTL

\* The record always holds the current that dis01 stored last
\* (bs01thread.c:195-196, dis01thread.c:33-36).
THEOREM CurrentIsNotLost == Spec => []CurrentNotLost
<1>1. IInv => CurrentNotLost
    BY DEF IInv, CurrentInv
<1> QED BY <1>1, Invariance, PTL

\* No database row set mixes two measurements, for any number of cells,
\* although it is read without the mutex (bs01thread.c:207).
THEOREM RowsAreOneInspection == Spec => []RowIsOneInspection
<1>1. IInv => RowIsOneInspection
    BY DEF IInv, RowInv
<1> QED BY <1>1, Invariance, PTL

\* No client ever gets a torn record, for any number of clients and cells
\* (networkCommunication.c:43-72).
THEOREM RepliesAreUntorn == Spec => []ReplyUntorn
<1>1. ASSUME IInv, NEW c \in Clients, Answered(c)
      PROVE  Fits(asked[c], got[c])
    <2>1. CASE pc[c] = "recv"
        BY <1>1, <2>1 DEF IInv, ReplyInv, Answered
    <2>2. CASE pc[c] = "send"
        <3>1. todo[c] = {}
            BY <1>1 DEF Answered
        <3>2. \A f \in Fields \cap asked[c] : got[c][f] = pack[f]
            BY <1>1, <2>2, <3>1 DEF IInv, ReplyInv
        <3>3. pc["bs01"] \notin {"load", "copy_pack", "copy_voltages"}
            BY <1>1, <2>2, BusyElsewhere, ThreadKinds DEF InCriticalSection
        <3>4. Fits(asked[c], pack)
            BY <1>1, <3>3 DEF IInv, StampInv, Fits
        <3>5. Inspected \cup Voltages \subseteq Fields
            BY FieldKinds DEF Inspected
        <3> QED BY <3>2, <3>4, <3>5 DEF Fits
    <2> QED BY <1>1, <2>1, <2>2 DEF Answered
<1>2. IInv => ReplyUntorn
    BY <1>1 DEF ReplyUntorn, Fits, Inspected
<1> QED BY <1>2, Invariance, PTL

-----------------------------------------------------------------------------
(* The bytes of the requests, in any stream of them and any chunk of it.    *)

\* A stream of requests: byte p lies at place (p - 1) % 8 of its request.
Place(p) == (p - 1) % RequestLen

Stream(s) ==
    \A p \in Nat \ {0} :
        /\ s[p] \in Bytes
        /\ Place(p) <= 5 => s[p] = Prefix[Place(p) + 1]

\* The n bytes from byte a on.
Chunk(s, a, n) == [k \in 1..n |-> s[a + k - 1]]

LEMMA ChunkBytes ==
    ASSUME NEW s, NEW a \in Nat \ {0}, NEW n \in Nat
    PROVE  /\ Len(Chunk(s, a, n)) = n
           /\ \A k \in Nat : readbuffer(Chunk(s, a, n), k) = IF k < n THEN s[a + k] ELSE 0
<1>1. Len(Chunk(s, a, n)) = n
  BY DEF Chunk
<1>2. ASSUME NEW k \in Nat, k < n PROVE Chunk(s, a, n)[k + 1] = s[a + k]
  <2>1. k + 1 \in 1..n /\ a + (k + 1) - 1 = a + k
    BY <1>2
  <2> QED BY <2>1 DEF Chunk
<1> QED BY <1>1, <1>2 DEF readbuffer

\* Only a chunk that begins with a request has the prefix.
LEMMA PrefixAtStart ==
    ASSUME NEW s, Stream(s), NEW a \in Nat \ {0}, NEW n \in Nat \ {0},
           HasPrefix(Chunk(s, a, n))
    PROVE  Place(a) = 0 /\ n >= 6
<1> DEFINE B(k) == IF k < n THEN s[a + k] ELSE 0
<1>1. B(0) = 115 /\ B(1) = 56 /\ B(2) = 48 /\ B(3) = 48 /\ B(4) = 98 /\ B(5) = 109
  <2>1. \A k \in Nat : readbuffer(Chunk(s, a, n), k) = IF k < n THEN s[a + k] ELSE 0
    BY ChunkBytes
  <2>2. \A k \in 0..5 : B(k) = Prefix[k + 1]
    BY <2>1 DEF HasPrefix
  <2> HIDE DEF B
  <2> QED BY <2>2 DEF Prefix
<1>2. n >= 6
  BY <1>1
<1>3. s[a] = 115 /\ s[a + 1] = 56 /\ s[a + 2] = 48
  BY <1>1, <1>2
<1>4. Place(a) \in 0..7
  BY DEF Place, RequestLen
<1>5. CASE Place(a) \in 1..5
  BY <1>3, <1>5 DEF Stream, Prefix
<1>6. CASE Place(a) = 6
  <2>1. Place(a + 2) = 0
    BY <1>6 DEF Place, RequestLen
  <2> QED BY <1>3, <2>1 DEF Stream, Prefix
<1>7. CASE Place(a) = 7
  <2>1. Place(a + 1) = 0
    BY <1>7 DEF Place, RequestLen
  <2> QED BY <1>3, <2>1 DEF Stream, Prefix
<1> QED BY <1>2, <1>4, <1>5, <1>6, <1>7

\* A chunk that begins with a request and holds all of it is answered as that
\* request, however many others came with it (networkCommunication.c:40-77).
THEOREM FirstRequestIsAnswered ==
    ASSUME NEW s, Stream(s), NEW a \in Nat \ {0}, Place(a) = 0,
           NEW n \in Nat, n >= RequestLen, NEW total \in Int
    PROVE  Reply(Chunk(s, a, n), total) = Meant(s[a + 6], s[a + 7], total)
<1>1. \A k \in 0..7 : readbuffer(Chunk(s, a, n), k) = s[a + k]
  <2>1. \A k \in Nat : readbuffer(Chunk(s, a, n), k) = IF k < n THEN s[a + k] ELSE 0
    BY ChunkBytes
  <2> QED BY <2>1 DEF RequestLen
<1>2. \A k \in 0..5 : s[a + k] = Prefix[k + 1]
  <2>1. ASSUME NEW k \in 0..5 PROVE Place(a + k) = k
    BY DEF Place, RequestLen
  <2> QED BY <2>1 DEF Stream
<1>3. Recognised(Chunk(s, a, n))
  BY <1>1, <1>2 DEF Recognised, HasPrefix
<1> QED BY <1>1, <1>3 DEF Reply

\* Data is sent only for a chunk that begins with a request for them, a number
\* that is missing counting as 0, or for the eight bytes from the second byte of
\* a request on (networkCommunication.c:37-43).
THEOREM DataAreAskedFor ==
    ASSUME NEW s, Stream(s), NEW a \in Nat \ {0}, NEW n \in Nat \ {0},
           NEW total \in Int, Data(Reply(Chunk(s, a, n), total))
    PROVE  \/ /\ Place(a) = 0 /\ n >= 7
              /\ Reply(Chunk(s, a, n), total)
                    = Meant(s[a + 6], IF n >= 8 THEN s[a + 7] ELSE 0, total)
           \/ Place(a) = 1 /\ n = RequestLen
<1> DEFINE cmd == readbuffer(Chunk(s, a, n), 6)
           number == readbuffer(Chunk(s, a, n), 7)
<1>1. /\ cmd = IF 6 < n THEN s[a + 6] ELSE 0
      /\ number = IF 7 < n THEN s[a + 7] ELSE 0
      /\ Len(Chunk(s, a, n)) = n
  <2>1. \A k \in Nat : readbuffer(Chunk(s, a, n), k) = IF k < n THEN s[a + k] ELSE 0
    BY ChunkBytes
  <2>2. Len(Chunk(s, a, n)) = n
    BY ChunkBytes
  <2> QED BY <2>1, <2>2
<1>2. Recognised(Chunk(s, a, n)) /\ Reply(Chunk(s, a, n), total) = Meant(cmd, number, total)
  BY DEF Reply, Data
<1>3. cmd \in {1, 2, 3, 4}
  <2>1. CASE cmd \notin {1, 2, 3, 4}
    <3> HIDE DEF cmd, number
    <3>1. Meant(cmd, number, total) = Error("command")
      BY <2>1, Zenon DEF Meant
    <3> QED BY <1>2, <3>1 DEF Data
  <2> QED BY <2>1
<1>4. n >= 7
  BY <1>1, <1>3
<1>5. CASE HasPrefix(Chunk(s, a, n))
  BY <1>1, <1>2, <1>4, <1>5, PrefixAtStart
<1>6. CASE n = RequestLen /\ Place(a) \notin {0, 1}
  <2>1. Place(a) \in 2..7
    BY <1>6 DEF Place, RequestLen
  <2>2. Place(a + 6) = Place(a) - 2
    BY <2>1 DEF Place, RequestLen
  <2>3. s[a + 6] = Prefix[Place(a) - 1]
    BY <2>1, <2>2 DEF Stream
  <2>4. Prefix[Place(a) - 1] \notin {1, 2, 3, 4}
    BY <2>1 DEF Prefix
  <2> QED BY <1>1, <1>3, <1>4, <2>3, <2>4
<1>7. CASE n = RequestLen /\ Place(a) = 0
  BY <1>1, <1>2, <1>4, <1>7
<1> QED BY <1>1, <1>2, <1>5, <1>6, <1>7 DEF Recognised

-----------------------------------------------------------------------------
(* What the connections serve.                                              *)

\* Two requests are the beginning of a stream.
StreamOf(first, second) ==
    [p \in Nat \ {0} |->
        IF Place(p) <= 5 THEN Prefix[Place(p) + 1]
        ELSE IF p <= RequestLen THEN first[Place(p) - 5] ELSE second[Place(p) - 5]]

LEMMA RequestBytes ==
    ASSUME NEW cmd \in Bytes, NEW number \in Bytes
    PROVE  /\ Request(cmd, number) \in Seq(Bytes) /\ Len(Request(cmd, number)) = 8
           /\ \A k \in 1..6 : Request(cmd, number)[k] = Prefix[k]
           /\ Request(cmd, number)[7] = cmd /\ Request(cmd, number)[8] = number
<1> DEFINE t == <<cmd, number>>
<1>1. t \in Seq(Bytes) /\ Len(t) = 2 /\ t[1] = cmd /\ t[2] = number
  OBVIOUS
<1>2. Prefix \in Seq(Bytes) /\ Len(Prefix) = 6
  BY DEF Prefix, Bytes
<1> HIDE DEF t
<1>3. /\ Prefix \o t \in Seq(Bytes) /\ Len(Prefix \o t) = 8
      /\ \A k \in 1..8 : (Prefix \o t)[k] = IF k <= 6 THEN Prefix[k] ELSE t[k - 6]
  <2>1. /\ Prefix \o t \in Seq(Bytes)
        /\ Len(Prefix \o t) = Len(Prefix) + Len(t)
        /\ \A k \in 1..Len(Prefix) + Len(t) :
              (Prefix \o t)[k] = IF k <= Len(Prefix) THEN Prefix[k] ELSE t[k - Len(Prefix)]
    BY <1>1, <1>2, ConcatProperties
  <2>2. Len(Prefix) + Len(t) = 8
    BY <1>1, <1>2
  <2> QED BY <1>2, <2>1, <2>2
<1>4. Request(cmd, number) = Prefix \o t
  BY DEF Request, t
<1> QED BY <1>1, <1>3, <1>4

LEMMA TwoRequestsAreAStream ==
    ASSUME NEW first \in Bytes \X Bytes, NEW second \in Bytes \X Bytes
    PROVE  /\ Stream(StreamOf(first, second))
           /\ StreamOf(first, second)[7] = first[1]
           /\ StreamOf(first, second)[8] = first[2]
           /\ \A a \in 1..16, b \in 1..16 : a <= b =>
                 Received(first, second, a, b) = Chunk(StreamOf(first, second), a, b - a + 1)
<1> DEFINE s == StreamOf(first, second)
           w == Request(first[1], first[2])
           v == Request(second[1], second[2])
<1>1. /\ first[1] \in Bytes /\ first[2] \in Bytes
      /\ second[1] \in Bytes /\ second[2] \in Bytes
  OBVIOUS
<1>2. \A p \in Nat \ {0} :
         /\ Place(p) \in 0..7
         /\ s[p] = IF Place(p) <= 5 THEN Prefix[Place(p) + 1]
                   ELSE IF p <= RequestLen THEN first[Place(p) - 5] ELSE second[Place(p) - 5]
  BY DEF StreamOf, Place, RequestLen
<1> HIDE DEF s
<1>3. Stream(s)
  <2> SUFFICES ASSUME NEW p \in Nat \ {0}
               PROVE  s[p] \in Bytes /\ (Place(p) <= 5 => s[p] = Prefix[Place(p) + 1])
    BY DEF Stream
  <2>1. \A k \in 1..6 : Prefix[k] \in Bytes
    BY DEF Prefix, Bytes
  <2>2. CASE Place(p) <= 5
    BY <1>2, <2>1, <2>2
  <2>3. CASE Place(p) \in {6, 7}
    <3>1. Place(p) - 5 \in {1, 2} /\ ~(Place(p) <= 5)
      BY <2>3
    <3> QED BY <1>1, <1>2, <3>1
  <2> QED BY <1>2, <2>2, <2>3
<1>4. s[7] = first[1] /\ s[8] = first[2]
  <2>1. Place(7) = 6 /\ Place(8) = 7
    BY DEF Place, RequestLen
  <2> QED BY <1>2, <2>1 DEF RequestLen
<1>5. /\ w \in Seq(Bytes) /\ Len(w) = 8 /\ v \in Seq(Bytes) /\ Len(v) = 8
      /\ \A k \in 1..6 : w[k] = Prefix[k] /\ v[k] = Prefix[k]
      /\ w[7] = first[1] /\ w[8] = first[2] /\ v[7] = second[1] /\ v[8] = second[2]
  BY <1>1, RequestBytes
<1> DEFINE u == w \o v
<1> HIDE DEF w, v
<1>6. u \in Seq(Bytes) /\ \A p \in 1..16 : u[p] = IF p <= 8 THEN w[p] ELSE v[p - 8]
  <2>1. /\ u \in Seq(Bytes)
        /\ \A p \in 1..Len(w) + Len(v) :
              u[p] = IF p <= Len(w) THEN w[p] ELSE v[p - Len(w)]
    BY <1>5, ConcatProperties
  <2>2. Len(w) + Len(v) = 16 /\ Len(w) = 8
    BY <1>5
  <2> HIDE DEF u
  <2> QED BY <2>1, <2>2
<1>7. ASSUME NEW p \in 1..16 PROVE u[p] = s[p]
  <2>1. Place(p) = IF p <= 8 THEN p - 1 ELSE p - 9
    BY DEF Place, RequestLen
  <2>2. CASE p \in 1..6
    <3>1. u[p] = Prefix[p]
      <4>1. w[p] = Prefix[p] /\ p <= 8
        BY <1>5, <2>2
      <4> QED BY <1>6, <4>1
    <3>2. Place(p) <= 5 /\ Place(p) + 1 = p
      BY <2>1, <2>2
    <3> QED BY <1>2, <3>1, <3>2
  <2>3. CASE p \in {7, 8}
    <3>1. u[p] = first[p - 6]
      BY <1>5, <1>6, <2>3
    <3>2. ~(Place(p) <= 5) /\ Place(p) - 5 = p - 6 /\ p <= RequestLen
      BY <2>1, <2>3 DEF RequestLen
    <3> QED BY <1>2, <3>1, <3>2
  <2>4. CASE p \in 9..14
    <3>1. p - 8 \in 1..6 /\ ~(p <= 8)
      BY <2>4
    <3>2. u[p] = Prefix[p - 8]
      BY <1>5, <1>6, <3>1
    <3>3. Place(p) <= 5 /\ Place(p) + 1 = p - 8
      BY <2>1, <2>4
    <3> QED BY <1>2, <3>2, <3>3
  <2>5. CASE p \in {15, 16}
    <3>1. u[p] = second[p - 14]
      <4>1. v[p - 8] = second[p - 14] /\ ~(p <= 8)
        BY <1>5, <2>5
      <4> QED BY <1>6, <4>1
    <3>2. ~(Place(p) <= 5) /\ Place(p) - 5 = p - 14 /\ ~(p <= RequestLen)
      BY <2>1, <2>5 DEF RequestLen
    <3> QED BY <1>2, <3>1, <3>2
  <2>6. p \in 1..6 \/ p \in {7, 8} \/ p \in 9..14 \/ p \in {15, 16}
    BY <1>7
  <2> QED BY <2>2, <2>3, <2>4, <2>5, <2>6
<1> HIDE DEF u
<1>8. ASSUME NEW a \in 1..16, NEW b \in 1..16, a <= b
      PROVE  SubSeq(u, a, b) = Chunk(s, a, b - a + 1)
  <2>1. SubSeq(u, a, b) = [k \in 1..b - a + 1 |-> u[a + k - 1]]
    BY <1>8
  <2>2. \A k \in 1..b - a + 1 : u[a + k - 1] = s[a + k - 1]
    BY <1>7, <1>8
  <2> QED BY <2>1, <2>2 DEF Chunk
<1> QED BY <1>3, <1>4, <1>8 DEF s, u, w, v, Received

\* An error consists of no field.
LEMMA ErrorsAreEmpty ==
    ASSUME NEW r \in {Error("number"), Error("command"), Error("format")}
    PROVE  Parts(r) = {}
<1>1. r # Record /\ r # CurrentOnly /\ \A n : r # Cell(n)
  BY DEF Error, Record, CurrentOnly, Cell
<1>2. Parts(r) = UNION {CellFields(c) : c \in {b \in Cells : r = Cell(Number[b])}}
  BY <1>1 DEF Parts
<1> QED BY <1>1, <1>2

LEMMA AnswersToRequests ==
    ASSUME NEW q \in Requests
    PROVE  SentIfAsked[q] /\ SentOnlyIfAsked[q]
<1>1. Total \in Nat
  BY CellsAreFinite, FS_CardinalityType DEF Total
<1>2. ASSUME NEW x \in Chunks
      PROVE  /\ x.first \in Bytes \X Bytes /\ x.second \in Bytes \X Bytes
             /\ x.a \in 1..8 /\ x.b \in 1..16 /\ x.a <= x.b
  BY AsksAreBytes DEF Chunks, RequestLen
<1>3. ASSUME NEW x \in Chunks, x.a = 1, x.b >= RequestLen, MeantBy(x) = q
      PROVE  SentFor(x) = q
  <2> DEFINE s == StreamOf(x.first, x.second)
             n == x.b - x.a + 1
  <2>1. /\ Stream(s) /\ s[7] = x.first[1] /\ s[8] = x.first[2]
        /\ Received(x.first, x.second, x.a, x.b) = Chunk(s, x.a, n)
    BY <1>2, TwoRequestsAreAStream
  <2>2. x.a = 1 /\ Place(1) = 0 /\ n \in Nat /\ n >= RequestLen
    BY <1>2, <1>3 DEF Place, RequestLen
  <2> HIDE DEF s, n
  <2>3. Reply(Chunk(s, 1, n), Total) = Meant(s[1 + 6], s[1 + 7], Total)
    BY <1>1, <2>1, <2>2, FirstRequestIsAnswered
  <2> QED BY <1>3, <2>1, <2>2, <2>3 DEF SentFor, MeantBy
<1>4. ASSUME NEW x \in Chunks, SentFor(x) = q
      PROVE  (x.a = 1 /\ MeantBy(x) = q) \/ (x.a = 2 /\ x.b = RequestLen + 1)
  <2> DEFINE s == StreamOf(x.first, x.second)
             n == x.b - x.a + 1
             r == Reply(Chunk(s, x.a, n), Total)
  <2>1. /\ Stream(s) /\ s[7] = x.first[1] /\ s[8] = x.first[2]
        /\ Received(x.first, x.second, x.a, x.b) = Chunk(s, x.a, n)
    BY <1>2, TwoRequestsAreAStream
  <2>2. x.a \in Nat \ {0} /\ n \in Nat \ {0}
    <3> DEFINE a == x.a
               b == x.b
    <3>1. a \in 1..8 /\ b \in 1..16 /\ a <= b
      BY <1>2
    <3> HIDE DEF a, b
    <3>2. a \in Nat \ {0} /\ b - a + 1 \in Nat \ {0}
      BY <3>1
    <3> QED BY <3>2 DEF a, b
  <2>3. Parts(r) = q
    BY <1>4, <2>1 DEF SentFor
  <2>4. Data(r)
    BY <2>3, ErrorsAreEmpty, RequestsAreFields DEF Data
  <2> HIDE DEF s, n
  <2>5. \/ /\ Place(x.a) = 0 /\ n >= 7
           /\ r = Meant(s[x.a + 6], IF n >= 8 THEN s[x.a + 7] ELSE 0, Total)
        \/ Place(x.a) = 1 /\ n = RequestLen
    BY <1>1, <2>1, <2>2, <2>4, DataAreAskedFor
  <2>6. CASE Place(x.a) = 1 /\ n = RequestLen
    <3>1. x.a = 2
      BY <1>2, <2>6 DEF Place, RequestLen
    <3> QED BY <1>2, <2>6, <3>1 DEF n, RequestLen
  <2>7. CASE Place(x.a) = 0 /\ r = Meant(s[x.a + 6], IF n >= 8 THEN s[x.a + 7] ELSE 0, Total)
    <3>1. x.a = 1
      BY <1>2, <2>7 DEF Place, RequestLen
    <3> DEFINE cmd == x.first[1]
               num == x.first[2]
    <3>2. r = Meant(cmd, IF n >= 8 THEN num ELSE 0, Total)
      BY <2>1, <2>7, <3>1
    <3> HIDE DEF r, cmd, num
    <3>3. r = Meant(cmd, num, Total)
      <4>1. CASE n >= 8
        BY <3>2, <4>1
      <4>2. CASE ~(n >= 8) /\ cmd = 2
        <5>1. r = Error("number")
          BY <1>1, <3>2, <4>2 DEF Meant
        <5> QED BY <2>4, <5>1 DEF Data
      <4>3. CASE ~(n >= 8) /\ cmd # 2
        <5>1. \A i, j : Meant(cmd, i, Total) = Meant(cmd, j, Total)
          BY <4>3 DEF Meant
        <5> QED BY <3>2, <5>1
      <4> QED BY <4>1, <4>2, <4>3
    <3>4. MeantBy(x) = q
      BY <2>3, <3>3 DEF MeantBy, cmd, num
    <3> QED BY <3>1, <3>4
  <2> QED BY <2>5, <2>6, <2>7
<1> QED BY <1>3, <1>4 DEF SentIfAsked, SentOnlyIfAsked

\* A connection serves what it was asked for.
LEMMA ServesARequest ==
    ASSUME IInv, NEW c \in Clients, Serving(c)
    PROVE  asked[c] \in Requests
<1>1. asked[c] \in Requests \cup {{}} /\ asked[c] # {}
  BY DEF IInv, TypeOK, TodoClients, Serving
<1> QED BY <1>1

\* Whatever a connection serves is served for every chunk that begins with a
\* request for it, whatever came together with it, for any commands, numbers and
\* cells (networkCommunication.c:40-77).
THEOREM FirstOnesAreAnswered == Spec => []FirstIsAnswered
<1>1. IInv => FirstIsAnswered
  BY ServesARequest, AnswersToRequests DEF FirstIsAnswered
<1> QED BY <1>1, Invariance, PTL

\* Whatever a connection serves was asked for by the first bytes it received, but
\* for eight bytes from the second byte of a request on
\* (networkCommunication.c:40-43).
THEOREM ServedDataWereAsked == Spec => []DataWereAsked
<1>1. IInv => DataWereAsked
  BY ServesARequest, AnswersToRequests DEF DataWereAsked
<1> QED BY <1>1, Invariance, PTL

=============================================================================
