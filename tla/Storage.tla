------------------------------ MODULE Storage ------------------------------
(***************************************************************************)
(* The database of the process (manageData.c) and the threads that use it:  *)
(*                                                                         *)
(*   main    creates the configuration tables (monitor.c), then starts      *)
(*   bs01    reads battery_total, and after every inspection inserts one    *)
(*           group row and a row per cell, each a statement of its own;     *)
(*   dis01   opens a connection every second to insert one current row.     *)
(*                                                                         *)
(* A connection that cannot be made is a null pointer that every caller     *)
(* passes on, so the process dies; so it does on the rows of a select that  *)
(* failed.  A schema that can be neither selected nor created is an early   *)
(* return, which in most functions leaves the connection open.  Other       *)
(* statements may fail unnoticed.  Whoever runs the program starts it       *)
(* again, and may set the number of cells at any time.                      *)
(*                                                                         *)
(* What the rows say is BatteryPack's subject; here a row is its key.  The  *)
(* statements of deleteOldData are refused by the server (a full-width      *)
(* comma) and delete nothing.                                               *)
(***************************************************************************)
EXTENDS Integers

CONSTANTS Default,      \* DEFAULT_BATTERY_TOTAL
          Settings,     \* the totals an operator may configure
          MaxConns,     \* the connections the server grants the process
          MaxTime,      \* bound: the clock stops there
          MaxFaults     \* bound on outages, failing statements and kills

ASSUME TotalsPositive == Default \in Nat \ {0} /\ Settings \subseteq Nat \ {0}
ASSUME StorageBounds == {MaxConns, MaxTime, MaxFaults} \subseteq Nat

VARIABLES now,          \* time(NULL), in seconds
          pc,           \* where every thread is, "off" without a process
          config,       \* batteryconfig: battery_total of row 1, 0 without the row
          group,        \* batterygroup: the battery_total of each row, by time
          single,       \* singlebattery: the <<time, cell>> of each row
          currents,     \* currentdata: the time of each row
          battery_total,
          timestring,   \* the key of the rows writeToMysql inserts, at first the start
          i,            \* its loop counter
          slept,        \* when dis01 last went to sleep
          conns,        \* connections of the process
          up,           \* does the server take new connections?
          started,      \* history: when the process was started
          refused,      \* history: the connections an early return left open
          setting,      \* history: what the operator configured last, 0 for nothing
          cut,          \* history: the sets of rows during which the process ended
          failed,       \* history: the sets of rows of which a statement failed
          faults        \* history: the faults so far

tables == <<config, group, single, currents>>
local  == <<battery_total, timestring, i, slept>>
vars   == <<now, pc, tables, local, conns, up, started, refused, setting, cut, failed, faults>>

Times   == 0..MaxTime
Threads == {"main", "bs01", "dis01"}
NoRow   == 0

Init ==
    /\ now = 0
    /\ pc = [t \in Threads |-> "off"]
    /\ config = NoRow
    /\ group = [t \in Times |-> NoRow]
    /\ single = {}
    /\ currents = {}
    /\ battery_total = 0 /\ timestring = 0 /\ i = 0 /\ slept = 0
    /\ conns = 0
    /\ up = TRUE
    /\ started = 0 /\ refused = 0 /\ setting = 0
    /\ cut = {} /\ failed = {} /\ faults = 0

-----------------------------------------------------------------------------
(* The process and its connections.                                        *)

Fault == faults < MaxFaults /\ faults' = faults + 1

CanConnect == up /\ conns < MaxConns

Goto(t, l) == pc' = [pc EXCEPT ![t] = l]

\* bs01 is between the first and the last row of a set.
Writing == pc["bs01"] \in {"group", "single"}

\* The process ends: the memory and the connections go, the tables stay.
Ends ==
    /\ pc' = [t \in Threads |-> "off"]
    /\ battery_total' = 0 /\ timestring' = 0 /\ i' = 0 /\ slept' = 0
    /\ conns' = 0
    /\ refused' = 0
    /\ cut' = IF Writing THEN cut \cup {timestring} ELSE cut
    /\ UNCHANGED <<now, tables, up, started, setting, failed>>

StartProcess ==
    /\ pc["main"] = "off"
    /\ Goto("main", "network")
    /\ started' = now
    /\ UNCHANGED <<now, tables, local, conns, up, refused, setting, cut, failed, faults>>

\* mysql_select_db on the null pointer of a connection that was refused.
NoConnection(t) ==
    /\ \/ t = "main" /\ pc[t] \in {"network", "config"}
       \/ t = "bs01" /\ pc[t] \in {"total", "connect"}
       \/ t = "dis01" /\ pc[t] = "connect"
    /\ ~CanConnect
    /\ Ends
    /\ UNCHANGED faults

-----------------------------------------------------------------------------
(* main.                                                                   *)

\* CreateNetworkConfig: its table is not used by the program.
NetworkConfig ==
    /\ pc["main"] = "network"
    /\ CanConnect
    /\ Goto("main", "config")
    /\ \/ UNCHANGED <<conns, refused, faults>>
       \/ Fault /\ conns' = conns + 1 /\ refused' = refused + 1
    /\ UNCHANGED <<now, tables, local, up, started, setting, cut, failed>>

\* main creates the threads.
StartThreads ==
    /\ pc' = [pc EXCEPT !["main"] = "run", !["bs01"] = "total", !["dis01"] = "connect"]
    /\ slept' = now
    /\ timestring' = now

\* CreateBatteryConfig, up to the row count of its select.
BatteryConfig ==
    /\ pc["main"] = "config"
    /\ CanConnect
    /\ \/ /\ config # NoRow
          /\ StartThreads
          /\ UNCHANGED <<conns, refused, faults>>
       \/ /\ config = NoRow
          /\ Goto("main", "default")
          /\ conns' = conns + 1
          /\ UNCHANGED <<timestring, slept, refused, faults>>
       \/ /\ Fault
          /\ StartThreads
          /\ conns' = conns + 1
          /\ refused' = refused + 1
    /\ UNCHANGED <<now, tables, battery_total, i, up, started, setting, cut, failed>>

\* mysql_num_rows on the null result of a select that failed.
SelectFails(t) ==
    /\ \/ t = "main" /\ pc[t] = "config"
       \/ t = "bs01" /\ pc[t] = "total"
    /\ CanConnect
    /\ Fault
    /\ Ends

DefaultRowReplaced == config' = Default

\* insert into batteryconfig value(1, ...): the key keeps a row that has come
\* since the select.
DefaultRow == config' = IF config = NoRow THEN Default ELSE config

MainInsertsDefault ==
    /\ pc["main"] = "default"
    /\ StartThreads
    /\ conns' = conns - 1
    /\ \/ DefaultRow /\ UNCHANGED faults
       \/ Fault /\ UNCHANGED config
    /\ UNCHANGED <<now, group, single, currents, battery_total, i, up, started, refused,
                   setting, cut, failed>>

-----------------------------------------------------------------------------
(* bs01: getBatterytotal, whose connection nobody closes.                  *)

Unknown == -1

ReadTotal ==
    /\ pc["bs01"] = "total"
    /\ CanConnect
    /\ conns' = conns + 1
    /\ \/ /\ config # NoRow
          /\ battery_total' = config
          /\ Goto("bs01", "inspect")
          /\ UNCHANGED faults
       \/ /\ config = NoRow
          /\ Goto("bs01", "default")
          /\ UNCHANGED <<battery_total, faults>>
       \/ /\ Fault
          /\ battery_total' = Unknown
          /\ Goto("bs01", "inspect")
    /\ UNCHANGED <<now, tables, timestring, i, slept, up, started, refused, setting, cut, failed>>

Bs01InsertsDefault ==
    /\ pc["bs01"] = "default"
    /\ battery_total' = Default
    /\ Goto("bs01", "inspect")
    /\ \/ DefaultRow /\ UNCHANGED faults
       \/ Fault /\ UNCHANGED config
    /\ UNCHANGED <<now, group, single, currents, timestring, i, slept, conns, up, started,
                   refused, setting, cut, failed>>

-----------------------------------------------------------------------------
(* bs01: writeToMysql and deleteOldData.                                   *)

\* Between two sets of rows lie ten minutes, or a start and an inspection that
\* waits six seconds for a resistance; without a cell there is nothing to wait for.
Inspect ==
    /\ pc["bs01"] = "inspect"
    /\ battery_total > 0 => now > timestring
    /\ Goto("bs01", "connect")
    /\ UNCHANGED <<now, tables, local, conns, up, started, refused, setting, cut, failed, faults>>

\* The time is taken once, for all the rows.
Connect ==
    /\ pc["bs01"] = "connect"
    /\ CanConnect
    /\ conns' = conns + 1
    /\ timestring' = now
    /\ \/ Goto("bs01", "group") /\ UNCHANGED faults
       \/ Fault /\ Goto("bs01", "delete")
    /\ UNCHANGED <<now, tables, battery_total, i, slept, up, started, refused, setting, cut, failed>>

InsertGroup ==
    /\ pc["bs01"] = "group"
    /\ Goto("bs01", "single")
    /\ i' = 1
    /\ \/ /\ group' = [group EXCEPT ![timestring] = IF @ = NoRow THEN battery_total ELSE @]
          /\ UNCHANGED <<failed, faults>>
       \/ Fault /\ failed' = failed \cup {timestring} /\ UNCHANGED group
    /\ UNCHANGED <<now, config, single, currents, battery_total, timestring, slept, conns, up,
                   started, refused, setting, cut>>

TimeOfEachRow == now

\* The key of a cell's row.
TimeOfRow == timestring

InsertCell ==
    /\ pc["bs01"] = "single"
    /\ i <= battery_total
    /\ i' = i + 1
    /\ \/ single' = single \cup {<<TimeOfRow, i>>} /\ UNCHANGED <<failed, faults>>
       \/ Fault /\ failed' = failed \cup {timestring} /\ UNCHANGED single
    /\ UNCHANGED <<now, pc, config, group, currents, battery_total, timestring, slept, conns,
                   up, started, refused, setting, cut>>

InsertedAll ==
    /\ pc["bs01"] = "single"
    /\ i > battery_total
    /\ Goto("bs01", "delete")
    /\ UNCHANGED <<now, tables, local, conns, up, started, refused, setting, cut, failed, faults>>

\* deleteOldData, then mysql_close.
DeleteAndClose ==
    /\ pc["bs01"] = "delete"
    /\ Goto("bs01", "inspect")
    /\ conns' = conns - 1
    /\ UNCHANGED <<now, tables, local, up, started, refused, setting, cut, failed, faults>>

-----------------------------------------------------------------------------
(* dis01: AddCurrentData, and the second of sleep.                         *)

OpenForCurrent ==
    /\ pc["dis01"] = "connect"
    /\ CanConnect
    /\ conns' = conns + 1
    /\ \/ Goto("dis01", "insert") /\ UNCHANGED <<slept, refused, faults>>
       \/ Fault /\ Goto("dis01", "sleep") /\ slept' = now /\ refused' = refused + 1
    /\ UNCHANGED <<now, tables, battery_total, timestring, i, up, started, setting, cut, failed>>

ConnsAfterNoClose == conns
ConnsAfterTwoCloses == conns - 2

\* mysql_close.
ConnsAfterClose == conns - 1

InsertCurrent ==
    /\ pc["dis01"] = "insert"
    /\ Goto("dis01", "sleep")
    /\ slept' = now
    /\ conns' = ConnsAfterClose
    /\ \/ currents' = currents \cup {now} /\ UNCHANGED faults
       \/ Fault /\ UNCHANGED currents
    /\ UNCHANGED <<now, config, group, single, battery_total, timestring, i, up, started,
                   refused, setting, cut, failed>>

NoSleep ==
    /\ pc["dis01"] = "sleep"
    /\ Goto("dis01", "connect")
    /\ UNCHANGED <<now, tables, local, conns, up, started, refused, setting, cut, failed, faults>>

Sleep ==
    /\ pc["dis01"] = "sleep"
    /\ now > slept
    /\ Goto("dis01", "connect")
    /\ UNCHANGED <<now, tables, local, conns, up, started, refused, setting, cut, failed, faults>>

-----------------------------------------------------------------------------
(* The environment.                                                        *)

Tick ==
    /\ now < MaxTime
    /\ now' = now + 1
    /\ UNCHANGED <<pc, tables, local, conns, up, started, refused, setting, cut, failed, faults>>

\* The server refuses new connections for a while.
Refuse ==
    /\ up
    /\ Fault
    /\ up' = FALSE
    /\ UNCHANGED <<now, pc, tables, local, conns, started, refused, setting, cut, failed>>

TakeAgain ==
    /\ ~up
    /\ up' = TRUE
    /\ UNCHANGED <<now, pc, tables, local, conns, started, refused, setting, cut, failed, faults>>

Configure ==
    /\ \E s \in Settings : s # config /\ config' = s /\ setting' = s
    /\ UNCHANGED <<now, pc, group, single, currents, local, conns, up, started, refused, cut, failed,
                   faults>>

Kill ==
    /\ pc["main"] # "off"
    /\ Fault
    /\ Ends

-----------------------------------------------------------------------------

Main  == NetworkConfig \/ BatteryConfig \/ MainInsertsDefault
Bs01  == \/ ReadTotal \/ Bs01InsertsDefault
         \/ Inspect \/ Connect \/ InsertGroup \/ InsertCell \/ InsertedAll \/ DeleteAndClose
Dis01 == OpenForCurrent \/ InsertCurrent \/ Sleep

Next ==
    \/ StartProcess
    \/ Main \/ Bs01 \/ Dis01
    \/ \E t \in Threads : NoConnection(t) \/ SelectFails(t)
    \/ Tick \/ Refuse \/ TakeAgain \/ Configure \/ Kill

Spec == Init /\ [][Next]_vars

-----------------------------------------------------------------------------

Labels == {"off", "network", "config", "default", "run", "total", "inspect", "connect",
           "group", "single", "delete", "insert", "sleep"}

TypeOK ==
    /\ now \in Times
    /\ pc \in [Threads -> Labels]
    /\ {config, i, setting, refused} \subseteq Nat
    /\ group \in [Times -> Nat \cup {Unknown}]
    /\ single \subseteq Times \X (Nat \ {0})
    /\ battery_total \in Nat \cup {Unknown}
    /\ {timestring, slept, started} \cup currents \cup cut \cup failed \subseteq Times
    /\ conns \in 0..MaxConns
    /\ up \in BOOLEAN
    /\ faults \in 0..MaxFaults

\* A row of a cell comes after the rows of its group and of the cells before it.
Prefix(t) ==
    \A r \in single :
        r[1] = t => r[2] <= group[t] /\ \A b \in 1..r[2] : <<t, b>> \in single

Whole(t) == \A b \in 1..group[t] : <<t, b>> \in single

\* What a reader of the tables can rely on, although every row is a statement of
\* its own whose result nobody looks at (manageData.c:146-153): a set of rows is a
\* prefix of a whole one unless one of its own statements failed, and it is whole
\* unless the process ended in the middle of it, whatever the clock, the operator
\* and the lives of the process before and after did.
SetsAreWhole ==
    \A t \in Times \ failed :
        /\ Prefix(t)
        /\ t \in cut \/ (Writing /\ t = timestring) \/ Whole(t)

\* Connections do not pile up, with one opened every second (manageData.c:336-371)
\* and one that getBatterytotal keeps for ever (:325): a process has three at most,
\* but for one more each time an early return forgot it.
ConnectionsBounded == conns <= 3 + refused

\* What the operator configured stays: the insert of a default that was decided
\* upon before it (manageData.c:232-236, :309-313) does not replace it, nor does a
\* restart.
SettingKept == setting # 0 => config = setting

\* A reading of the current is not lost for a row with its second as the key
\* (manageData.c:355-367) unless a process before took the second in which this
\* one was started: sleep(1) always reaches the next second (dis01thread.c:48).
EverySecondOnce == pc["dis01"] = "insert" => now \notin currents \/ now = started

=============================================================================
