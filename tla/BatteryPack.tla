---------------------------- MODULE BatteryPack ----------------------------
(***************************************************************************)
(* The shared record group_battery, its mutex s800bm_mutex, and the threads *)
(* that use them (battery.h, bs01thread.c, dis01thread.c,                   *)
(* networkCommunication.c):                                                 *)
(*                                                                         *)
(*   bs01    inspects the cells and publishes a whole record, writes the    *)
(*           record it published to the database WITHOUT the mutex, and     *)
(*           publishes the voltages of a control pass;                      *)
(*   dis01   publishes the current every second;                            *)
(*   client  one cmd_network thread per connection: it sends the record, a  *)
(*           cell or the current, straight out of the shared memory, while  *)
(*           it holds the mutex.                                            *)
(*                                                                         *)
(* Copies go field by field, in any order (memcpy fixes none), so a copy    *)
(* that is not protected is torn.  A field holds the stamp of the           *)
(* measurement that produced it: inspections and control passes draw their  *)
(* stamps from one counter, the current sensor from its own.                *)
(***************************************************************************)
EXTENDS Integers

CONSTANTS Cells,        \* the batteries, 1..battery_total
          Clients,      \* the connections served
          MaxPass,      \* bound on inspections and control passes
          MaxSensed     \* bound on current readings

ASSUME PackBounds == MaxPass \in Nat /\ MaxSensed \in Nat

ASSUME ThreadNames == {"bs01", "dis01", "nobody"} \cap Clients = {}

VARIABLES pack,         \* group_battery
          mutex,        \* s800bm_mutex: who holds it
          pc,           \* where every thread is
          todo,         \* per thread: the fields its copy has still to move
          mine,         \* bs01's local mybattery_pack
          pass,         \* the stamp of bs01's last measurements; bat_zu's too
          sensed,       \* the stamp of dis01's last reading
          asked,        \* per client: the fields of its last request
          got,          \* per client: what it has received of the reply
          row,          \* the last complete set of database rows
          part,         \* the rows writeToMysql is inserting
          stalled       \* clients that have stopped reading their sockets

vars == <<pack, mutex, pc, todo, mine, pass, sensed, asked, got, row, part, stalled>>

Threads == {"bs01", "dis01"} \cup Clients

\* battery_pack: see SharedPack for the grouping of the fields.
GroupHead == <<"head", "group">>
Current   == <<"current", "group">>
Voltages  == {<<"voltage", c>> : c \in Cells}
Rests     == {<<"rest", c>> : c \in Cells}
Fields    == {GroupHead, Current} \cup Voltages \cup Rests
CellFields(c) == {<<"voltage", c>>, <<"rest", c>>}
Requests == {Fields, {Current}} \cup {CellFields(c) : c \in Cells}

Unsent  == -1           \* not received, or an uninitialised local
Blank   == [f \in Fields |-> Unsent]

Bs01Labels   == {"measure", "lock_pack", "load", "copy_pack", "record_group",
                 "record_cells", "lock_voltages", "copy_voltages"}
Dis01Labels  == {"measure", "lock_current", "store"}
ClientLabels == {"recv", "lock_reply", "send"}

\* The labels at which a thread waits for the mutex, and where it goes then.
LockLabels == {"lock_pack", "lock_voltages", "lock_current", "lock_reply"}
AfterLock(l) == CASE l = "lock_pack"     -> "load"
                  [] l = "lock_voltages" -> "copy_voltages"
                  [] l = "lock_current"  -> "store"
                  [] l = "lock_reply"    -> "send"

Init ==
    /\ pack = [f \in Fields |-> 0]
    /\ mutex = "nobody"
    /\ pc = [t \in Threads |-> IF t \in Clients THEN "recv" ELSE "measure"]
    /\ todo = [t \in Threads |-> {}]
    /\ mine = Blank
    /\ pass = 0
    /\ sensed = 0
    /\ asked = [c \in Clients |-> {}]
    /\ got = [c \in Clients |-> Blank]
    /\ row = Blank
    /\ part = Blank
    /\ stalled = {}

-----------------------------------------------------------------------------
(* The mutex.                                                              *)

LockFreeIgnored == TRUE

LockFree == mutex = "nobody"

Lock(t) ==
    /\ pc[t] \in LockLabels
    /\ LockFree
    /\ mutex' = t
    /\ pc' = [pc EXCEPT ![t] = AfterLock(pc[t])]
    /\ UNCHANGED <<pack, todo, mine, pass, sensed, asked, got, row, part, stalled>>

\* Leave the critical section for label l.
Unlock(t, l) ==
    /\ mutex' = "nobody"
    /\ pc' = [pc EXCEPT ![t] = l]

-----------------------------------------------------------------------------
(* bs01: an inspection.                                                    *)

\* The measurements go into the local record, which the critical section
\* will copy: nothing shared is touched here.
Inspect ==
    /\ pc["bs01"] = "measure"
    /\ pass < MaxPass
    /\ pass' = pass + 1
    /\ mine' = [f \in Fields |-> IF f = Current THEN mine[f] ELSE pass + 1]
    /\ pc' = [pc EXCEPT !["bs01"] = "lock_pack"]
    /\ UNCHANGED <<pack, mutex, todo, sensed, asked, got, row, part, stalled>>

CurrentNotTaken == mine[Current]

\* The current is dis01's: the local record takes it over before the memcpy.
CurrentToKeep == pack[Current]

LoadCurrent ==
    /\ pc["bs01"] = "load"
    /\ mine' = [mine EXCEPT ![Current] = CurrentToKeep]
    /\ todo' = [todo EXCEPT !["bs01"] = Fields]
    /\ pc' = [pc EXCEPT !["bs01"] = "copy_pack"]
    /\ UNCHANGED <<pack, mutex, pass, sensed, asked, got, row, part, stalled>>

CopyField(f) ==
    /\ pc["bs01"] = "copy_pack"
    /\ f \in todo["bs01"]
    /\ pack' = [pack EXCEPT ![f] = mine[f]]
    /\ todo' = [todo EXCEPT !["bs01"] = @ \ {f}]
    /\ UNCHANGED <<mutex, pc, mine, pass, sensed, asked, got, row, part, stalled>>

UnlockPack ==
    /\ pc["bs01"] = "copy_pack"
    /\ todo["bs01"] = {}
    /\ Unlock("bs01", "record_group")
    /\ UNCHANGED <<pack, todo, mine, pass, sensed, asked, got, row, part, stalled>>

-----------------------------------------------------------------------------
(* bs01: writeToMysql(conn, &group_battery), which takes no mutex.         *)

\* The group row: one statement built from the total voltage and the current.
RecordGroup ==
    /\ pc["bs01"] = "record_group"
    /\ part' = [f \in Fields |-> IF f \in {GroupHead, Current} THEN pack[f] ELSE Unsent]
    /\ todo' = [todo EXCEPT !["bs01"] = Voltages \cup Rests]
    /\ pc' = [pc EXCEPT !["bs01"] = "record_cells"]
    /\ UNCHANGED <<pack, mutex, mine, pass, sensed, asked, got, row, stalled>>

\* The row of one cell; the order of the cells tells nothing apart.
RecordCell(c) ==
    /\ pc["bs01"] = "record_cells"
    /\ CellFields(c) \subseteq todo["bs01"]
    /\ part' = [f \in Fields |-> IF f \in CellFields(c) THEN pack[f] ELSE part[f]]
    /\ todo' = [todo EXCEPT !["bs01"] = @ \ CellFields(c)]
    /\ UNCHANGED <<pack, mutex, pc, mine, pass, sensed, asked, got, row, stalled>>

RecordDone ==
    /\ pc["bs01"] = "record_cells"
    /\ todo["bs01"] = {}
    /\ row' = part
    /\ pc' = [pc EXCEPT !["bs01"] = "measure"]
    /\ UNCHANGED <<pack, mutex, todo, mine, pass, sensed, asked, got, part, stalled>>

\* The database cannot be selected or created: an error line, no rows.
RecordFails ==
    /\ pc["bs01"] = "record_group"
    /\ pc' = [pc EXCEPT !["bs01"] = "measure"]
    /\ UNCHANGED <<pack, mutex, todo, mine, pass, sensed, asked, got, row, part, stalled>>

-----------------------------------------------------------------------------
(* bs01: a control pass (control_voltage) measures, drives the cells, and   *)
(* publishes the voltages alone.                                            *)

ControlPass ==
    /\ pc["bs01"] = "measure"
    /\ pass < MaxPass
    /\ pass' = pass + 1
    /\ todo' = [todo EXCEPT !["bs01"] = Voltages]
    /\ pc' = [pc EXCEPT !["bs01"] = "lock_voltages"]
    /\ UNCHANGED <<pack, mutex, mine, sensed, asked, got, row, part, stalled>>

CopyVoltage(f) ==
    /\ pc["bs01"] = "copy_voltages"
    /\ f \in todo["bs01"]
    /\ pack' = [pack EXCEPT ![f] = pass]
    /\ todo' = [todo EXCEPT !["bs01"] = @ \ {f}]
    /\ UNCHANGED <<mutex, pc, mine, pass, sensed, asked, got, row, part, stalled>>

UnlockVoltagesThenRecord ==
    /\ pc["bs01"] = "copy_voltages"
    /\ todo["bs01"] = {}
    /\ Unlock("bs01", "record_group")
    /\ UNCHANGED <<pack, todo, mine, pass, sensed, asked, got, row, part, stalled>>

UnlockVoltages ==
    /\ pc["bs01"] = "copy_voltages"
    /\ todo["bs01"] = {}
    /\ Unlock("bs01", "measure")
    /\ UNCHANGED <<pack, todo, mine, pass, sensed, asked, got, row, part, stalled>>

-----------------------------------------------------------------------------
(* dis01: read the sensor, publish the current.                            *)

Sense ==
    /\ pc["dis01"] = "measure"
    /\ sensed < MaxSensed
    /\ sensed' = sensed + 1
    /\ pc' = [pc EXCEPT !["dis01"] = "lock_current"]
    /\ UNCHANGED <<pack, mutex, todo, mine, pass, asked, got, row, part, stalled>>

StoreCurrent ==
    /\ pc["dis01"] = "store"
    /\ pack' = [pack EXCEPT ![Current] = sensed]
    /\ Unlock("dis01", "measure")
    /\ UNCHANGED <<todo, mine, pass, sensed, asked, got, row, part, stalled>>

-----------------------------------------------------------------------------
(* A client connection: the commands of cmd_network that read the record.   *)

Recv(c, q) ==
    /\ pc[c] = "recv"
    /\ asked' = [asked EXCEPT ![c] = q]
    /\ got' = [got EXCEPT ![c] = Blank]
    /\ todo' = [todo EXCEPT ![c] = q]
    /\ pc' = [pc EXCEPT ![c] = "lock_reply"]
    /\ UNCHANGED <<pack, mutex, mine, pass, sensed, row, part, stalled>>

\* send() reads the shared memory; it blocks while the client does not read.
SendField(c, f) ==
    /\ pc[c] = "send"
    /\ c \notin stalled
    /\ f \in todo[c]
    /\ got' = [got EXCEPT ![c] = [@ EXCEPT ![f] = pack[f]]]
    /\ todo' = [todo EXCEPT ![c] = @ \ {f}]
    /\ UNCHANGED <<pack, mutex, pc, mine, pass, sensed, asked, row, part, stalled>>

SendDoneHolding(c) ==
    /\ pc[c] = "send"
    /\ todo[c] = {}
    /\ pc' = [pc EXCEPT ![c] = "recv"]
    /\ UNCHANGED <<pack, mutex, todo, mine, pass, sensed, asked, got, row, part, stalled>>

SendDone(c) ==
    /\ pc[c] = "send"
    /\ todo[c] = {}
    /\ Unlock(c, "recv")
    /\ UNCHANGED <<pack, todo, mine, pass, sensed, asked, got, row, part, stalled>>

\* The client's own doing: it stops reading, or reads on.
Stall(c) ==
    /\ c \notin stalled
    /\ stalled' = stalled \cup {c}
    /\ UNCHANGED <<pack, mutex, pc, todo, mine, pass, sensed, asked, got, row, part>>

ReadOn(c) ==
    /\ c \in stalled
    /\ stalled' = stalled \ {c}
    /\ UNCHANGED <<pack, mutex, pc, todo, mine, pass, sensed, asked, got, row, part>>

-----------------------------------------------------------------------------

Bs01 ==
    \/ Inspect
    \/ LoadCurrent
    \/ \E f \in Fields : CopyField(f)
    \/ UnlockPack
    \/ RecordGroup
    \/ \E c \in Cells : RecordCell(c)
    \/ RecordDone
    \/ RecordFails
    \/ ControlPass
    \/ \E f \in Voltages : CopyVoltage(f)
    \/ UnlockVoltages

Dis01 == Sense \/ StoreCurrent

\* What a connection's thread does once it has a request.
Serve(c) == SendDone(c) \/ \E f \in Fields : SendField(c, f)

Next ==
    \/ \E t \in Threads : Lock(t)
    \/ Bs01
    \/ Dis01
    \/ \E c \in Clients : \/ \E q \in Requests : Recv(c, q)
                          \/ Serve(c)
                          \/ Stall(c)
                          \/ ReadOn(c)

Spec == Init /\ [][Next]_vars

\* The threads run.  No thread waits for the mutex for ever while others take
\* it again and again: between two critical sections dis01 sleeps for a
\* second, bs01 talks to the serial line and a connection waits for its next
\* request, so the mutex is free for long stretches.
ThreadFairness ==
    /\ WF_vars(Bs01)
    /\ WF_vars(Dis01)
    /\ \A c \in Clients : WF_vars(Serve(c))
    /\ \A t \in Threads : SF_vars(Lock(t))

\* The peers of the connections read what they are sent, sooner or later, and
\* for long enough to empty the socket.
ClientFairness ==
    \A c \in Clients : WF_vars(ReadOn(c)) /\ SF_vars(Serve(c))

FairSpec == Spec /\ ThreadFairness
ReadingSpec == Spec /\ ThreadFairness /\ ClientFairness

-----------------------------------------------------------------------------

TypeOK ==
    /\ pack \in [Fields -> Nat]
    /\ mutex \in Threads \cup {"nobody"}
    /\ pc \in [Threads -> Bs01Labels \cup Dis01Labels \cup ClientLabels]
    /\ pc["bs01"] \in Bs01Labels
    /\ pc["dis01"] \in Dis01Labels
    /\ \A c \in Clients : pc[c] \in ClientLabels
    /\ todo \in [Threads -> SUBSET Fields]
    /\ mine \in [Fields -> Nat \cup {Unsent}]
    /\ pass \in 0..MaxPass
    /\ sensed \in 0..MaxSensed
    /\ asked \in [Clients -> Requests \cup {{}}]
    /\ got \in [Clients -> [Fields -> Nat \cup {Unsent}]]
    /\ row \in [Fields -> Nat \cup {Unsent}]
    /\ part \in [Fields -> Nat \cup {Unsent}]
    /\ stalled \subseteq Clients

-----------------------------------------------------------------------------
(* Safety.                                                                 *)

InCriticalSection(t) ==
    pc[t] \in {"load", "copy_pack", "copy_voltages", "store", "send"}

\* The client has its whole answer.
Answered(c) == pc[c] \in {"send", "recv"} /\ todo[c] = {} /\ asked[c] # {}

\* What a client is sent is never torn: the parts of a record that one
\* inspection measured carry one stamp, the voltages carry one stamp, and the
\* voltages are never older than the rest (a control pass may refresh them,
\* it never brings back older ones).  networkCommunication.c:43-72 reads the
\* shared memory against bs01thread.c:194-198 and bs01thread.c:49-53.
ReplyUntorn ==
    \A c \in Clients : Answered(c) =>
        LET inspected == asked[c] \cap ({GroupHead} \cup Rests)
            measured  == asked[c] \cap Voltages
        IN  /\ \A f, g \in inspected : got[c][f] = got[c][g]
            /\ \A f, g \in measured : got[c][f] = got[c][g]
            /\ \A f \in inspected, g \in measured : got[c][f] <= got[c][g]

\* No current reading is lost: the record holds the last one dis01 stored,
\* although every inspection overwrites the field with the whole record
\* (bs01thread.c:195-196).
CurrentNotLost ==
    pack[Current] = IF pc["dis01"] = "measure" THEN sensed ELSE sensed - 1

\* The rows of one inspection hold that inspection and nothing of a control
\* pass, although writeToMysql reads the shared record without the mutex
\* (bs01thread.c:207).
RowIsOneInspection ==
    \A f, g \in Fields \ {Current} : row[f] = row[g]

-----------------------------------------------------------------------------
(* group_battery behaves as the atomic record of SharedPack.  A publication *)
(* takes effect when its copy begins; a reply when its last field is sent;  *)
(* the database rows when the group row is built.                           *)

packSeen ==
    [f \in Fields |->
        IF f \notin todo["bs01"] THEN pack[f]
        ELSE IF pc["bs01"] = "copy_pack" THEN mine[f]
        ELSE IF pc["bs01"] = "copy_voltages" THEN pass
        ELSE pack[f]]

replySeen == [c \in Clients |-> IF Answered(c) THEN got[c] ELSE Blank]

rowSeen ==
    IF pc["bs01"] = "record_cells"
    THEN [f \in Fields |-> IF f \in todo["bs01"] THEN pack[f] ELSE part[f]]
    ELSE row

Shared == INSTANCE SharedPack WITH
              Stamps <- 1..(MaxPass + MaxSensed),
              pack <- packSeen, reply <- replySeen, row <- rowSeen

\* The field-by-field copies, the mutex and the unlocked database read
\* together implement one atomic record.
BehavesAtomically == Shared!Spec

-----------------------------------------------------------------------------
(* Liveness.                                                               *)

\* Every request for data that a connection has received is answered.
RequestAnswered == \A c \in Clients : pc[c] = "lock_reply" ~> Answered(c)

\* Every inspection that has been measured is published, and bs01 goes back
\* to measuring: "10 minutes, measure the voltage once" (bs01thread.c:135)
\* and "a day, measure the resistance once" (bs01thread.c:166) need it to.
InspectionPublished == pc["bs01"] = "lock_pack" ~> pc["bs01"] = "measure"

=============================================================================
