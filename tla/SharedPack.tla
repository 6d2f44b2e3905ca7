----------------------------- MODULE SharedPack -----------------------------
(***************************************************************************)
(* What the global record group_battery (battery.h) promises to the threads *)
(* that share it: it behaves as one atomic variable.                        *)
(*                                                                         *)
(*   - an inspection replaces every field but the current in one step;      *)
(*   - a control pass replaces every cell voltage in one step;              *)
(*   - the current sensor replaces the current, and nobody else does;       *)
(*   - a client's reply, and the row written to the database, are copies    *)
(*     of the record as it was at one instant.                              *)
(*                                                                         *)
(* A field holds a stamp: the number of the measurement that produced its   *)
(* value.  BatteryPack is the implementation with the mutex, the            *)
(* field-by-field copies and the interleavings.                             *)
(***************************************************************************)
EXTENDS Integers

CONSTANTS Cells,    \* the batteries of the group
          Clients,  \* the connections served
          Stamps    \* the numbers a measurement can carry

VARIABLES pack,     \* group_battery: the stamp of every field
          asked,    \* per client: the fields of its last request
          reply,    \* per client: what it was sent in answer
          row       \* the last complete set of database rows

vars == <<pack, asked, reply, row>>

\* The fields of battery_pack.  date_time and total_voltage are one field
\* ("head"): the code writes them together.  temperature, resistance and
\* capacity of a cell are one field ("rest") for the same reason.
GroupHead == <<"head", "group">>
Current   == <<"current", "group">>
Voltages  == {<<"voltage", c>> : c \in Cells}
Rests     == {<<"rest", c>> : c \in Cells}
Fields    == {GroupHead, Current} \cup Voltages \cup Rests

\* What a request can ask for: the whole record (0x01), one cell (0x02), the
\* current (0x03, 0x04).
Requests == {Fields, {Current}} \cup {{<<"voltage", c>>, <<"rest", c>>} : c \in Cells}

Unsent == -1        \* a field that a reply does not carry
Blank  == [f \in Fields |-> Unsent]

-----------------------------------------------------------------------------

Init ==
    /\ pack = [f \in Fields |-> 0]
    /\ asked = [c \in Clients |-> {}]
    /\ reply = [c \in Clients |-> Blank]
    /\ row = Blank

PublishInspection ==
    /\ \E k \in Stamps :
          /\ \A f \in Fields \ {Current} : k > pack[f]
          /\ pack' = [f \in Fields |-> IF f = Current THEN pack[f] ELSE k]
    /\ UNCHANGED <<asked, reply, row>>

PublishVoltages ==
    /\ \E k \in Stamps :
          /\ \A f \in Fields \ {Current} : k > pack[f]
          /\ pack' = [f \in Fields |-> IF f \in Voltages THEN k ELSE pack[f]]
    /\ UNCHANGED <<asked, reply, row>>

PublishCurrent ==
    /\ \E k \in Stamps :
          /\ k > pack[Current]
          /\ pack' = [pack EXCEPT ![Current] = k]
    /\ UNCHANGED <<asked, reply, row>>

Ask(c, q) ==
    /\ asked' = [asked EXCEPT ![c] = q]
    /\ reply' = [reply EXCEPT ![c] = Blank]
    /\ UNCHANGED <<pack, row>>

Answer(c) ==
    /\ reply[c] = Blank
    /\ asked[c] \in Requests
    /\ reply' = [reply EXCEPT ![c] =
                    [f \in Fields |-> IF f \in asked[c] THEN pack[f] ELSE Unsent]]
    /\ UNCHANGED <<pack, asked, row>>

Record ==
    /\ row' = pack
    /\ UNCHANGED <<pack, asked, reply>>

Next ==
    \/ PublishInspection
    \/ PublishVoltages
    \/ PublishCurrent
    \/ \E c \in Clients, q \in Requests : Ask(c, q)
    \/ \E c \in Clients : Answer(c)
    \/ Record

Spec == Init /\ [][Next]_vars

=============================================================================
