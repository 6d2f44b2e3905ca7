----------------------- MODULE BatteryPackRefinement ------------------------
(***************************************************************************)
(* BatteryPack implements SharedPack: the mutex, the copies field by field  *)
(* and the unlocked database read together behave like one atomic record,   *)
(* for any cells, clients and bounds.  A publication takes effect when its  *)
(* copy begins, a reply when its last field is sent, the rows when the      *)
(* group row is built; every other step is a stutter.                       *)
(***************************************************************************)
EXTENDS BatteryPackProofs

LEMMA SameFields ==
    /\ Shared!GroupHead = GroupHead /\ Shared!Current = Current
    /\ Shared!Voltages = Voltages /\ Shared!Rests = Rests
    /\ Shared!Fields = Fields
    /\ Shared!Requests = Requests
    /\ Shared!Unsent = Unsent
    /\ Shared!Blank = Blank
<1>1. /\ Shared!GroupHead = GroupHead /\ Shared!Current = Current
      /\ Shared!Voltages = Voltages /\ Shared!Rests = Rests
    BY DEF Shared!GroupHead, GroupHead, Shared!Current, Current, Shared!Voltages, Voltages,
       Shared!Rests, Rests
<1>2. Shared!Fields = Fields
    BY <1>1 DEF Shared!Fields, Fields
<1>3. Shared!Requests = Requests
    BY <1>1, <1>2 DEF Shared!Requests, Requests, CellFields
<1>4. Shared!Unsent = Unsent
    BY DEF Shared!Unsent, Unsent
<1> QED BY <1>1, <1>2, <1>3, <1>4 DEF Shared!Blank, Blank

\* Between two copies the record is what it seems.
LEMMA AtRest ==
    ASSUME TypeOK, pc["bs01"] \notin {"copy_pack", "copy_voltages"}
    PROVE  packSeen = pack
    BY DEF packSeen, TypeOK

\* bs01 and dis01 change no reply.
LEMMA RepliesStay ==
    ASSUME TypeOK, Bs01Step \/ Dis01Step
    PROVE  asked' = asked /\ replySeen' = replySeen
<1>1. /\ asked' = asked /\ got' = got
      /\ \A c \in Clients : pc'[c] = pc[c] /\ todo'[c] = todo[c]
    BY Bs01Leaves, Dis01Leaves, ThreadKinds
<1>2. \A c \in Clients : Answered(c)' <=> Answered(c)
    BY <1>1 DEF Answered
<1> QED BY <1>1, <1>2 DEF replySeen

\* dis01 and the clients change no row.
LEMMA RowsStay ==
    ASSUME IInv, Dis01Step \/ (\E c \in Clients : ClientStep(c))
    PROVE  rowSeen' = rowSeen
<1>1. TypeOK
    BY DEF IInv
<1>2. /\ pc'["bs01"] = pc["bs01"] /\ todo'["bs01"] = todo["bs01"]
      /\ UNCHANGED <<row, part>>
      /\ \A f \in Fields : f # Current => pack'[f] = pack[f]
    BY <1>1, Dis01Leaves, ClientLeaves, ThreadKinds
<1>3. pc["bs01"] = "record_cells" => Current \notin todo["bs01"]
    BY FieldKinds DEF IInv, TodoBs01
<1> QED BY <1>2, <1>3 DEF rowSeen

LEMMA InitRefines == Init => Shared!Init
<1> SUFFICES ASSUME Init PROVE Shared!Init
    OBVIOUS
<1>1. pc["bs01"] = "measure" /\ pack = [f \in Fields |-> 0]
    BY ThreadKinds DEF Init
<1>2. packSeen = [f \in Fields |-> 0]
    BY <1>1 DEF packSeen
<1>3. replySeen = [c \in Clients |-> Blank]
    BY DEF Init, replySeen, Answered
<1>4. rowSeen = Blank
    BY <1>1 DEF Init, rowSeen
<1> QED BY <1>2, <1>3, <1>4, SameFields DEF Init, Shared!Init

-----------------------------------------------------------------------------
(* bs01.                                                                   *)

\* The copy of an inspection begins.
LEMMA LoadRefines ==
    ASSUME IInv, LoadCurrent
    PROVE  Shared!PublishInspection
<1>0. TypeOK /\ StampInv /\ TodoBs01 /\ Bs01Step
    BY DEF IInv, Bs01Step, Bs01
<1>1. /\ pc["bs01"] = "load" /\ pc'["bs01"] = "copy_pack" /\ todo'["bs01"] = Fields
      /\ \A f \in Fields : mine'[f] = IF f = Current THEN pack[f] ELSE mine[f]
    BY <1>0, ThreadKinds DEF LoadCurrent, CurrentToKeep, TypeOK
<1>2. packSeen = pack
    BY <1>0, <1>1, AtRest
<1>3. \A f \in Fields : f # Current => mine[f] = pass /\ pack[f] < pass
    BY <1>0, <1>1 DEF StampInv, Measured
<1>4. packSeen' = [f \in Fields |-> IF f = Current THEN pack[f] ELSE pass]
    BY <1>1, <1>3 DEF packSeen
<1>5. pass \in 1..(MaxPass + MaxSensed)
    <2>1. pack[GroupHead] \in Nat /\ pack[GroupHead] < pass /\ pass \in 0..MaxPass
        BY <1>0, <1>3, FieldKinds DEF TypeOK
    <2> QED BY <2>1, PackBounds
<1>6. rowSeen' = rowSeen
    BY <1>1 DEF rowSeen, LoadCurrent
<1>7. asked' = asked /\ replySeen' = replySeen
    BY <1>0, RepliesStay
<1> QED BY <1>2, <1>3, <1>4, <1>5, <1>6, <1>7, SameFields DEF Shared!PublishInspection

\* The copy of a control pass begins.
LEMMA LockVoltagesRefines ==
    ASSUME IInv, Lock("bs01"), pc["bs01"] = "lock_voltages"
    PROVE  Shared!PublishVoltages
<1>0. TypeOK /\ StampInv /\ TodoBs01 /\ Bs01Step
    BY DEF IInv, Bs01Step
<1>1. /\ pc'["bs01"] = "copy_voltages" /\ todo' = todo /\ todo["bs01"] = Voltages
      /\ UNCHANGED <<pack, pass, row, part>>
    BY <1>0, ThreadKinds DEF Lock, AfterLock, TypeOK, TodoBs01
<1>2. packSeen = pack
    BY <1>0, AtRest
<1>3. \A f \in Fields : f # Current => pack[f] < pass
    BY <1>0 DEF StampInv, Measured
<1>4. packSeen' = [f \in Fields |-> IF f \in Voltages THEN pass ELSE pack[f]]
    BY <1>1 DEF packSeen
<1>5. pass \in 1..(MaxPass + MaxSensed)
    <2>1. pack[GroupHead] \in Nat /\ pack[GroupHead] < pass /\ pass \in 0..MaxPass
        BY <1>0, <1>3, FieldKinds DEF TypeOK
    <2> QED BY <2>1, PackBounds
<1>6. rowSeen' = rowSeen
    BY <1>1 DEF rowSeen
<1>7. asked' = asked /\ replySeen' = replySeen
    BY <1>0, RepliesStay
<1> QED BY <1>2, <1>3, <1>4, <1>5, <1>6, <1>7, SameFields DEF Shared!PublishVoltages

\* The group row is built.
LEMMA RecordRefines ==
    ASSUME IInv, RecordGroup
    PROVE  Shared!Record
<1>0. TypeOK /\ TodoBs01 /\ Bs01Step
    BY DEF IInv, Bs01Step, Bs01
<1>1. /\ pc["bs01"] = "record_group" /\ pc'["bs01"] = "record_cells"
      /\ todo["bs01"] = {} /\ todo'["bs01"] = Voltages \cup Rests
      /\ pack' = pack
      /\ part' = [f \in Fields |-> IF f \in {GroupHead, Current} THEN pack[f] ELSE Unsent]
    BY <1>0, ThreadKinds DEF RecordGroup, TypeOK, TodoBs01
<1>2. packSeen = pack /\ packSeen' = pack
    BY <1>0, <1>1 DEF packSeen, TypeOK
<1>3. \A f \in Fields : f \in Voltages \cup Rests \/ f \in {GroupHead, Current}
    BY DEF Fields
<1>4. rowSeen' = [f \in Fields |-> pack[f]]
    BY <1>1, <1>3 DEF rowSeen
<1>5. rowSeen' = packSeen
    BY <1>0, <1>2, <1>4 DEF TypeOK
<1>6. asked' = asked /\ replySeen' = replySeen
    BY <1>0, RepliesStay
<1> QED BY <1>2, <1>5, <1>6 DEF Shared!Record

\* Everything else bs01 does is invisible.
LEMMA Bs01Stutters ==
    ASSUME IInv, Bs01Step, ~LoadCurrent, ~RecordGroup,
           ~(Lock("bs01") /\ pc["bs01"] = "lock_voltages")
    PROVE  UNCHANGED Shared!vars
<1>0. /\ TypeOK /\ TodoBs01
      /\ pc \in [Threads -> Bs01Labels \cup Dis01Labels \cup ClientLabels]
      /\ pc["bs01"] \in Bs01Labels
      /\ todo \in [Threads -> SUBSET Fields]
      /\ pack \in [Fields -> Nat] /\ row \in [Fields -> Nat \cup {Unsent}]
      /\ part \in [Fields -> Nat \cup {Unsent}]
    <2>1. TypeOK /\ TodoBs01
        BY DEF IInv
    <2> QED BY <2>1 DEF TypeOK
<1>1. asked' = asked /\ replySeen' = replySeen
    BY <1>0, RepliesStay
<1>2. packSeen' = packSeen /\ rowSeen' = rowSeen
    <2>1. CASE Lock("bs01")
        <3>1. /\ pc["bs01"] = "lock_pack" /\ pc'["bs01"] = "load"
              /\ UNCHANGED <<todo, pack, mine, pass, row, part>>
            BY <1>0, <2>1, ThreadKinds DEF Lock, LockLabels, AfterLock, Bs01Labels
        <3> QED BY <3>1 DEF packSeen, rowSeen
    <2>2. CASE Inspect \/ ControlPass
        <3>1. /\ pc["bs01"] = "measure" /\ pc'["bs01"] \in {"lock_pack", "lock_voltages"}
              /\ UNCHANGED <<pack, row, part>>
            BY <1>0, <2>2, ThreadKinds DEF Inspect, ControlPass
        <3> QED BY <3>1 DEF packSeen, rowSeen
    <2>3. CASE \E f \in Fields : CopyField(f)
        <3>1. PICK f \in Fields : CopyField(f)
            BY <2>3
        <3>2. /\ pc["bs01"] = "copy_pack" /\ pc' = pc /\ UNCHANGED <<mine, row>>
              /\ f \in todo["bs01"] /\ todo'["bs01"] = todo["bs01"] \ {f}
              /\ \A h \in Fields : pack'[h] = IF h = f THEN mine[h] ELSE pack[h]
            BY <1>0, <3>1, ThreadKinds DEF CopyField
        <3> QED BY <3>2 DEF packSeen, rowSeen
    <2>4. CASE UnlockPack \/ UnlockVoltages
        <3>1. /\ pc["bs01"] \in {"copy_pack", "copy_voltages"}
              /\ pc'["bs01"] \in {"record_group", "measure"}
              /\ todo["bs01"] = {} /\ UNCHANGED <<todo, pack, row>>
            BY <1>0, <2>4, ThreadKinds DEF UnlockPack, UnlockVoltages, Unlock
        <3> QED BY <3>1 DEF packSeen, rowSeen
    <2>5. CASE \E c \in Cells : RecordCell(c)
        <3>1. PICK c \in Cells : RecordCell(c)
            BY <2>5
        <3>2. /\ pc["bs01"] = "record_cells" /\ pc' = pc /\ UNCHANGED <<pack, row>>
              /\ CellFields(c) \subseteq todo["bs01"]
              /\ todo'["bs01"] = todo["bs01"] \ CellFields(c)
              /\ \A f \in Fields : part'[f] = IF f \in CellFields(c) THEN pack[f] ELSE part[f]
            BY <1>0, <3>1, ThreadKinds DEF RecordCell
        <3> QED BY <3>2 DEF packSeen, rowSeen
    <2>6. CASE RecordDone
        <3>1. /\ pc["bs01"] = "record_cells" /\ pc'["bs01"] = "measure"
              /\ todo["bs01"] = {} /\ row' = part /\ UNCHANGED <<todo, pack>>
            BY <1>0, <2>6, ThreadKinds DEF RecordDone
        <3>2. rowSeen = [f \in Fields |-> part[f]] /\ rowSeen' = part
            BY <3>1 DEF rowSeen
        <3>3. rowSeen' = rowSeen
            BY <1>0, <3>2
        <3> QED BY <3>1, <3>3 DEF packSeen
    <2>7. CASE RecordFails
        <3>1. /\ pc["bs01"] = "record_group" /\ pc'["bs01"] = "measure"
              /\ UNCHANGED <<todo, pack, row>>
            BY <1>0, <2>7, ThreadKinds DEF RecordFails
        <3> QED BY <3>1 DEF packSeen, rowSeen
    <2>8. CASE \E f \in Voltages : CopyVoltage(f)
        <3>1. PICK f \in Voltages : CopyVoltage(f)
            BY <2>8
        <3>2. /\ pc["bs01"] = "copy_voltages" /\ pc' = pc /\ UNCHANGED <<pass, row>>
              /\ f \in todo["bs01"] /\ todo'["bs01"] = todo["bs01"] \ {f}
              /\ \A h \in Fields : pack'[h] = IF h = f THEN pass ELSE pack[h]
            BY <1>0, <3>1, ThreadKinds DEF CopyVoltage
        <3> QED BY <3>2 DEF packSeen, rowSeen
    <2> QED
        BY <2>1, <2>2, <2>3, <2>4, <2>5, <2>6, <2>7, <2>8 DEF Bs01Step, Bs01
<1> QED BY <1>1, <1>2 DEF Shared!vars

-----------------------------------------------------------------------------
(* dis01.                                                                  *)

\* A current reading is stored.
LEMMA StoreRefines ==
    ASSUME IInv, StoreCurrent
    PROVE  Shared!PublishCurrent
<1>0. TypeOK /\ CurrentInv /\ Dis01Step
    BY DEF IInv, Dis01Step, Dis01
<1>1. /\ pc["dis01"] = "store" /\ pc'["bs01"] = pc["bs01"]
      /\ UNCHANGED <<todo, mine, pass, sensed>>
      /\ pack' = [pack EXCEPT ![Current] = sensed]
    BY <1>0, Dis01Leaves, ThreadKinds DEF StoreCurrent
<1>2. pc["bs01"] \notin {"copy_pack", "copy_voltages"}
    BY <1>1, BusyElsewhere, ThreadKinds DEF InCriticalSection
<1>3. packSeen = pack
    BY <1>0, <1>2, AtRest
<1>4. pack \in [Fields -> Nat] /\ sensed \in 0..MaxSensed
    BY <1>0 DEF TypeOK
<1>5. packSeen' = pack'
    BY <1>1, <1>2, <1>4 DEF packSeen
<1>6. pack[Current] = sensed - 1
    BY <1>0, <1>1 DEF CurrentInv, CurrentNotLost
<1>7. sensed \in 1..(MaxPass + MaxSensed) /\ sensed > pack[Current]
    BY <1>4, <1>6, FieldKinds, PackBounds
<1>8. rowSeen' = rowSeen /\ asked' = asked /\ replySeen' = replySeen
    BY <1>0, RowsStay, RepliesStay
<1> QED BY <1>1, <1>3, <1>5, <1>7, <1>8, SameFields DEF Shared!PublishCurrent

\* Waiting, locking and sensing are invisible.
LEMMA Dis01Stutters ==
    ASSUME IInv, Lock("dis01") \/ Sense
    PROVE  UNCHANGED Shared!vars
<1>0. TypeOK /\ Dis01Step
    BY DEF IInv, Dis01Step, Dis01
<1>1. /\ pc'["bs01"] = pc["bs01"] /\ UNCHANGED <<pack, todo, mine, pass>>
    BY <1>0, Dis01Leaves, ThreadKinds DEF Lock, Sense
<1>2. packSeen' = packSeen
    BY <1>1 DEF packSeen
<1>3. rowSeen' = rowSeen /\ asked' = asked /\ replySeen' = replySeen
    BY <1>0, RowsStay, RepliesStay
<1> QED BY <1>2, <1>3 DEF Shared!vars

-----------------------------------------------------------------------------
(* The clients.                                                            *)

\* What no step of a client changes.
LEMMA ClientStays ==
    ASSUME IInv, NEW c \in Clients, ClientStep(c)
    PROVE  /\ packSeen' = packSeen /\ rowSeen' = rowSeen
           /\ \A d \in Clients : d # c => replySeen'[d] = replySeen[d]
<1>1. TypeOK
    BY DEF IInv
<1>2. /\ \A t \in Threads : t # c => pc'[t] = pc[t] /\ todo'[t] = todo[t]
      /\ \A d \in Clients : d # c => asked'[d] = asked[d] /\ got'[d] = got[d]
      /\ UNCHANGED <<pack, mine, pass>>
    BY <1>1, ClientLeaves
<1>3. packSeen' = packSeen
    BY <1>2, ThreadKinds DEF packSeen
<1>4. \A d \in Clients : d # c => replySeen'[d] = replySeen[d]
    BY <1>2, ThreadKinds DEF replySeen, Answered
<1> QED BY <1>3, <1>4, RowsStay

\* A client's step whose answer, request and answered state stay is invisible.
LEMMA SameAnswer ==
    ASSUME IInv, NEW c \in Clients, ClientStep(c), asked' = asked,
           replySeen'[c] = replySeen[c]
    PROVE  UNCHANGED Shared!vars
<1>1. \A d \in Clients : replySeen'[d] = replySeen[d]
    BY ClientStays
<1>2. replySeen' = replySeen
    BY <1>1 DEF replySeen
<1> QED BY <1>2, ClientStays DEF Shared!vars

LEMMA AskRefines ==
    ASSUME IInv, NEW c \in Clients, NEW q \in Requests, Recv(c, q)
    PROVE  Shared!Ask(c, q)
<1>0. TypeOK /\ ClientStep(c)
    BY DEF IInv, ClientStep
<1>1. pc'[c] = "lock_reply" /\ asked' = [asked EXCEPT ![c] = q]
    BY <1>0, ThreadKinds DEF Recv, TypeOK
<1>2. replySeen'[c] = Blank
    BY <1>1 DEF replySeen, Answered
<1>3. replySeen' = [replySeen EXCEPT ![c] = Blank]
    BY <1>2, ClientStays, <1>0 DEF replySeen
<1> QED BY <1>0, <1>1, <1>3, ClientStays, SameFields DEF Shared!Ask

\* The last field of a reply is sent.
LEMMA AnswerRefines ==
    ASSUME IInv, NEW c \in Clients, NEW f \in Fields, SendField(c, f), todo[c] = {f}
    PROVE  Shared!Answer(c)
<1>0. TypeOK /\ TodoClients /\ ReplyInv /\ ClientStep(c)
    BY DEF IInv, ClientStep, Serve
<1>1. /\ pc[c] = "send" /\ pc' = pc /\ asked' = asked
      /\ got'[c] = [got[c] EXCEPT ![f] = pack[f]]
      /\ todo'[c] = {}
      /\ got[c] \in [Fields -> Nat \cup {Unsent}]
    BY <1>0, ThreadKinds DEF SendField, TypeOK
<1>2. f \in asked[c] /\ asked[c] # {} /\ asked[c] \in Requests
    <2>1. todo[c] \subseteq asked[c] /\ asked[c] # {}
        BY <1>0, <1>1 DEF TodoClients
    <2>2. asked[c] \in Requests \cup {{}}
        BY <1>0 DEF TypeOK
    <2> QED BY <2>1, <2>2
<1>3. pc["bs01"] \notin {"copy_pack", "copy_voltages"}
    BY <1>1, BusyElsewhere, ThreadKinds DEF InCriticalSection
<1>4. packSeen = pack
    BY <1>0, <1>3, AtRest
<1>5. \A h \in Fields : got[c][h] = IF h \in asked[c] \ {f} THEN pack[h] ELSE Unsent
    BY <1>0, <1>1 DEF ReplyInv
<1>6. got'[c] = [h \in Fields |-> IF h \in asked[c] THEN pack[h] ELSE Unsent]
    BY <1>1, <1>2, <1>5
<1>7. replySeen[c] = Blank /\ replySeen'[c] = got'[c]
    BY <1>1, <1>2 DEF replySeen, Answered
<1>8. replySeen' = [replySeen EXCEPT ![c] = got'[c]]
    BY <1>0, <1>7, ClientStays DEF replySeen
<1> QED
    BY <1>0, <1>1, <1>2, <1>4, <1>6, <1>7, <1>8, ClientStays, SameFields DEF Shared!Answer

\* Everything else a client does is invisible.
LEMMA ClientStutters ==
    ASSUME IInv, NEW c \in Clients, ClientStep(c),
           ~(\E q \in Requests : Recv(c, q)),
           ~(\E f \in Fields : SendField(c, f) /\ todo[c] = {f})
    PROVE  UNCHANGED Shared!vars
<1>0. /\ TypeOK /\ TodoClients
      /\ pc \in [Threads -> Bs01Labels \cup Dis01Labels \cup ClientLabels]
      /\ pc[c] \in ClientLabels
      /\ todo \in [Threads -> SUBSET Fields]
    <2>1. TypeOK /\ TodoClients
        BY DEF IInv
    <2> QED BY <2>1 DEF TypeOK
<1>1. asked' = asked /\ replySeen'[c] = replySeen[c]
    <2>1. CASE Lock(c)
        <3>1. /\ pc[c] = "lock_reply" /\ pc'[c] = "send" /\ todo' = todo /\ asked' = asked
            BY <1>0, <2>1, ThreadKinds DEF Lock, LockLabels, AfterLock, ClientLabels
        <3>2. todo[c] # {}
            BY <1>0, <3>1 DEF TodoClients
        <3> QED BY <3>1, <3>2 DEF replySeen, Answered
    <2>2. CASE \E f \in Fields : SendField(c, f)
        <3>1. PICK f \in Fields : SendField(c, f)
            BY <2>2
        <3>2. f \in todo[c] /\ todo'[c] = todo[c] \ {f} /\ todo[c] # {f} /\ asked' = asked
            BY <1>0, <3>1, ThreadKinds DEF SendField
        <3> QED BY <3>2 DEF replySeen, Answered
    <2>3. CASE SendDone(c)
        <3>1. /\ pc[c] = "send" /\ pc'[c] = "recv" /\ UNCHANGED <<todo, asked, got>>
            BY <1>0, <2>3, ThreadKinds DEF SendDone, Unlock
        <3> QED BY <3>1 DEF replySeen, Answered
    <2>4. CASE Stall(c) \/ ReadOn(c)
        BY <2>4 DEF Stall, ReadOn, replySeen, Answered
    <2> QED BY <2>1, <2>2, <2>3, <2>4 DEF ClientStep, Serve
<1> QED BY <1>1, SameAnswer

-----------------------------------------------------------------------------

LEMMA StepRefines ==
    ASSUME IInv, [Next]_vars
    PROVE  [Shared!Next]_(Shared!vars)
<1>1. CASE Bs01Step
    BY <1>1, LoadRefines, LockVoltagesRefines, RecordRefines, Bs01Stutters DEF Shared!Next
<1>2. CASE Dis01Step
    BY <1>2, StoreRefines, Dis01Stutters DEF Shared!Next, Dis01Step, Dis01
<1>3. ASSUME NEW c \in Clients, ClientStep(c)
      PROVE  [Shared!Next]_(Shared!vars)
    <2>1. CASE \E q \in Requests : Recv(c, q)
        BY <2>1, AskRefines, SameFields DEF Shared!Next
    <2>2. CASE \E f \in Fields : SendField(c, f) /\ todo[c] = {f}
        BY <2>2, AnswerRefines DEF Shared!Next
    <2> QED BY <1>3, <2>1, <2>2, ClientStutters
<1>4. CASE UNCHANGED vars
    BY <1>4 DEF vars, Shared!vars, packSeen, replySeen, rowSeen, Answered
<1> QED BY <1>1, <1>2, <1>3, <1>4, StepKinds

\* group_battery, with its mutex, its copies and its unlocked reader, is one
\* atomic record (battery.h:80-91; bs01thread.c:49-53, 194-207;
\* dis01thread.c:33-36; networkCommunication.c:43-72).
THEOREM ImplementsAtomicRecord == Spec => BehavesAtomically
    BY InitRefines, StepRefines, Invariance, PTL DEF Spec, BehavesAtomically, Shared!Spec

=============================================================================
