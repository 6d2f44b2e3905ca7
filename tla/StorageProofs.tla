--------------------------- MODULE StorageProofs ---------------------------
(***************************************************************************)
(* Theorems about Storage: type correctness and the four safety properties, *)
(* for any totals, number of connections, and bound on time and faults.     *)
(***************************************************************************)
EXTENDS Storage, TLAPS

(***************************************************************************)
(* The inductive invariant.                                                *)
(***************************************************************************)

\* Every open connection belongs to a place in the code, or was forgotten by an
\* early return.
One(p) == IF p THEN 1 ELSE 0

ConnsInv ==
    conns = refused + One(pc["main"] = "default") + One(pc["dis01"] = "insert")
                    + One(pc["bs01"] \notin {"off", "total"})
                    + One(pc["bs01"] \in {"group", "single", "delete"})

\* The threads run when main has started them.
LivesInv ==
    /\ pc["main"] \in {"off", "network", "config", "default", "run"}
    /\ pc["bs01"] \in {"off", "total", "default", "inspect", "connect", "group", "single",
                       "delete"}
    /\ pc["dis01"] \in {"off", "connect", "insert", "sleep"}
    /\ (pc["main"] = "run") = (pc["bs01"] # "off")
    /\ (pc["main"] = "run") = (pc["dis01"] # "off")
    /\ pc["main"] = "off" => refused = 0

\* No time is in the future.
ClockInv == timestring <= now /\ slept <= now /\ started <= now

\* How far the seconds of the stored currents reach.
CurrentsInv ==
    \A s \in currents :
        /\ s <= now
        /\ pc["main"] \in {"network", "config", "default"} => s <= started
        /\ pc["dis01"] \in {"connect", "insert"} => s < now \/ s <= started
        /\ pc["dis01"] = "sleep" => s <= slept

Used(t) == group[t] # NoRow \/ \E r \in single : r[1] = t

\* How far the keys of the sets of rows reach: the next set has a new one, if
\* it has cells at all.
KeysInv ==
    \A t \in Times : Used(t) =>
        /\ t <= now
        /\ pc["bs01"] # "off" => t <= timestring
        /\ pc["bs01"] = "connect" /\ battery_total > 0 => t < now
        /\ pc["bs01"] = "group" /\ battery_total > 0 => t < timestring

\* The set being written: the cells before i, and no others.
WritingInv ==
    pc["bs01"] = "single" =>
        /\ i >= 1
        /\ battery_total > 0 /\ timestring \notin failed =>
              /\ group[timestring] = battery_total
              /\ \A r \in single : r[1] = timestring => r[2] < i
              /\ \A b \in 1..i - 1 : <<timestring, b>> \in single

PrefixInv == \A t \in Times \ failed : Prefix(t)

WholeInv ==
    \A t \in Times \ (failed \cup cut) :
        ~(Writing /\ t = timestring /\ battery_total > 0) => Whole(t)

IInv == /\ TypeOK /\ ConnsInv /\ LivesInv /\ ClockInv /\ CurrentsInv
        /\ KeysInv /\ WritingInv /\ PrefixInv /\ WholeInv /\ SettingKept

\* The steps: of a thread, of the environment, or the end of the process.
LEMMA NextCases ==
    ASSUME Next
    PROVE  \/ StartProcess \/ NetworkConfig \/ BatteryConfig \/ MainInsertsDefault
           \/ ReadTotal \/ Bs01InsertsDefault \/ Inspect \/ Connect \/ InsertGroup
           \/ InsertCell \/ InsertedAll \/ DeleteAndClose
           \/ OpenForCurrent \/ InsertCurrent \/ Sleep
           \/ Tick \/ Refuse \/ TakeAgain \/ Configure
           \/ Ends /\ (Fault \/ UNCHANGED faults)
BY DEF Next, Main, Bs01, Dis01, NoConnection, SelectFails, Kill

\* Every thread goes from place to place.
LEMMA PcTyped ==
    ASSUME TypeOK, Next
    PROVE  pc' \in [Threads -> Labels]
<1> USE DEF TypeOK, Threads, Labels, Goto, tables, local
<1>1. CASE StartProcess
  BY <1>1 DEF StartProcess
<1>2. CASE NetworkConfig
  BY <1>2 DEF NetworkConfig
<1>3. CASE BatteryConfig
  BY <1>3 DEF BatteryConfig, StartThreads
<1>4. CASE MainInsertsDefault
  BY <1>4 DEF MainInsertsDefault, StartThreads, DefaultRow
<1>5. CASE ReadTotal
  BY <1>5 DEF ReadTotal
<1>6. CASE Bs01InsertsDefault
  BY <1>6 DEF Bs01InsertsDefault, DefaultRow
<1>7. CASE Inspect
  BY <1>7 DEF Inspect
<1>8. CASE Connect
  BY <1>8 DEF Connect
<1>9. CASE InsertGroup
  BY <1>9 DEF InsertGroup
<1>10. CASE InsertCell
  BY <1>10 DEF InsertCell, TimeOfRow
<1>11. CASE InsertedAll
  BY <1>11 DEF InsertedAll
<1>12. CASE DeleteAndClose
  BY <1>12 DEF DeleteAndClose
<1>13. CASE OpenForCurrent
  BY <1>13 DEF OpenForCurrent
<1>14. CASE InsertCurrent
  BY <1>14 DEF InsertCurrent, ConnsAfterClose
<1>15. CASE Sleep
  BY <1>15 DEF Sleep
<1>16. CASE Tick
  BY <1>16 DEF Tick
<1>17. CASE Refuse
  BY <1>17 DEF Refuse
<1>18. CASE TakeAgain
  BY <1>18 DEF TakeAgain
<1>19. CASE Configure
  BY <1>19 DEF Configure
<1>20. CASE Ends /\ (Fault \/ UNCHANGED faults)
  BY <1>20 DEF Ends
<1> QED BY <1>1, <1>2, <1>3, <1>4, <1>5, <1>6, <1>7, <1>8, <1>9, <1>10, <1>11, <1>12, <1>13, <1>14, <1>15, <1>16, <1>17, <1>18, <1>19, <1>20, NextCases

\* The numbers of the process are numbers.
LEMMA CountersTyped ==
    ASSUME TypeOK, Next
    PROVE  {config, i, setting, refused}' \subseteq Nat /\ battery_total' \in Nat \cup {Unknown}
<1> USE TotalsPositive DEF TypeOK, NoRow, Unknown, tables, local
<1>1. CASE StartProcess
  BY <1>1 DEF StartProcess
<1>2. CASE NetworkConfig
  BY <1>2 DEF NetworkConfig
<1>3. CASE BatteryConfig
  BY <1>3 DEF BatteryConfig, StartThreads
<1>4. CASE MainInsertsDefault
  BY <1>4 DEF MainInsertsDefault, StartThreads, DefaultRow
<1>5. CASE ReadTotal
  BY <1>5 DEF ReadTotal
<1>6. CASE Bs01InsertsDefault
  BY <1>6 DEF Bs01InsertsDefault, DefaultRow
<1>7. CASE Inspect
  BY <1>7 DEF Inspect
<1>8. CASE Connect
  BY <1>8 DEF Connect
<1>9. CASE InsertGroup
  BY <1>9 DEF InsertGroup
<1>10. CASE InsertCell
  BY <1>10 DEF InsertCell, TimeOfRow
<1>11. CASE InsertedAll
  BY <1>11 DEF InsertedAll
<1>12. CASE DeleteAndClose
  BY <1>12 DEF DeleteAndClose
<1>13. CASE OpenForCurrent
  BY <1>13 DEF OpenForCurrent
<1>14. CASE InsertCurrent
  BY <1>14 DEF InsertCurrent, ConnsAfterClose
<1>15. CASE Sleep
  BY <1>15 DEF Sleep
<1>16. CASE Tick
  BY <1>16 DEF Tick
<1>17. CASE Refuse
  BY <1>17 DEF Refuse
<1>18. CASE TakeAgain
  BY <1>18 DEF TakeAgain
<1>19. CASE Configure
  BY <1>19 DEF Configure
<1>20. CASE Ends /\ (Fault \/ UNCHANGED faults)
  BY <1>20 DEF Ends
<1> QED BY <1>1, <1>2, <1>3, <1>4, <1>5, <1>6, <1>7, <1>8, <1>9, <1>10, <1>11, <1>12, <1>13, <1>14, <1>15, <1>16, <1>17, <1>18, <1>19, <1>20, NextCases

\* Times are times.
LEMMA TimesTyped ==
    ASSUME TypeOK, Next
    PROVE  /\ now' \in Times
           /\ {timestring, slept, started}' \subseteq Times
           /\ (currents \cup cut \cup failed)' \subseteq Times
<1> USE StorageBounds DEF TypeOK, Times, tables, local
<1>1. CASE StartProcess
  BY <1>1 DEF StartProcess
<1>2. CASE NetworkConfig
  BY <1>2 DEF NetworkConfig
<1>3. CASE BatteryConfig
  BY <1>3 DEF BatteryConfig, StartThreads
<1>4. CASE MainInsertsDefault
  BY <1>4 DEF MainInsertsDefault, StartThreads, DefaultRow
<1>5. CASE ReadTotal
  BY <1>5 DEF ReadTotal
<1>6. CASE Bs01InsertsDefault
  BY <1>6 DEF Bs01InsertsDefault, DefaultRow
<1>7. CASE Inspect
  BY <1>7 DEF Inspect
<1>8. CASE Connect
  BY <1>8 DEF Connect
<1>9. CASE InsertGroup
  BY <1>9 DEF InsertGroup
<1>10. CASE InsertCell
  BY <1>10 DEF InsertCell, TimeOfRow
<1>11. CASE InsertedAll
  BY <1>11 DEF InsertedAll
<1>12. CASE DeleteAndClose
  BY <1>12 DEF DeleteAndClose
<1>13. CASE OpenForCurrent
  BY <1>13 DEF OpenForCurrent
<1>14. CASE InsertCurrent
  BY <1>14 DEF InsertCurrent, ConnsAfterClose
<1>15. CASE Sleep
  BY <1>15 DEF Sleep
<1>16. CASE Tick
  BY <1>16 DEF Tick
<1>17. CASE Refuse
  BY <1>17 DEF Refuse
<1>18. CASE TakeAgain
  BY <1>18 DEF TakeAgain
<1>19. CASE Configure
  BY <1>19 DEF Configure
<1>20. CASE Ends /\ (Fault \/ UNCHANGED faults)
  BY <1>20 DEF Ends
<1> QED BY <1>1, <1>2, <1>3, <1>4, <1>5, <1>6, <1>7, <1>8, <1>9, <1>10, <1>11, <1>12, <1>13, <1>14, <1>15, <1>16, <1>17, <1>18, <1>19, <1>20, NextCases

\* The faults are bounded.
LEMMA FaultsTyped ==
    ASSUME TypeOK, Next
    PROVE  faults' \in 0..MaxFaults
<1> USE StorageBounds DEF TypeOK, Fault, tables, local
<1>1. CASE StartProcess
  BY <1>1 DEF StartProcess
<1>2. CASE NetworkConfig
  BY <1>2 DEF NetworkConfig
<1>3. CASE BatteryConfig
  BY <1>3 DEF BatteryConfig, StartThreads
<1>4. CASE MainInsertsDefault
  BY <1>4 DEF MainInsertsDefault, StartThreads, DefaultRow
<1>5. CASE ReadTotal
  BY <1>5 DEF ReadTotal
<1>6. CASE Bs01InsertsDefault
  BY <1>6 DEF Bs01InsertsDefault, DefaultRow
<1>7. CASE Inspect
  BY <1>7 DEF Inspect
<1>8. CASE Connect
  BY <1>8 DEF Connect
<1>9. CASE InsertGroup
  BY <1>9 DEF InsertGroup
<1>10. CASE InsertCell
  BY <1>10 DEF InsertCell, TimeOfRow
<1>11. CASE InsertedAll
  BY <1>11 DEF InsertedAll
<1>12. CASE DeleteAndClose
  BY <1>12 DEF DeleteAndClose
<1>13. CASE OpenForCurrent
  BY <1>13 DEF OpenForCurrent
<1>14. CASE InsertCurrent
  BY <1>14 DEF InsertCurrent, ConnsAfterClose
<1>15. CASE Sleep
  BY <1>15 DEF Sleep
<1>16. CASE Tick
  BY <1>16 DEF Tick
<1>17. CASE Refuse
  BY <1>17 DEF Refuse
<1>18. CASE TakeAgain
  BY <1>18 DEF TakeAgain
<1>19. CASE Configure
  BY <1>19 DEF Configure
<1>20. CASE Ends /\ (Fault \/ UNCHANGED faults)
  BY <1>20 DEF Ends
<1> QED BY <1>1, <1>2, <1>3, <1>4, <1>5, <1>6, <1>7, <1>8, <1>9, <1>10, <1>11, <1>12, <1>13, <1>14, <1>15, <1>16, <1>17, <1>18, <1>19, <1>20, NextCases

\* The server is up or not.
LEMMA UpTyped ==
    ASSUME TypeOK, Next
    PROVE  up' \in BOOLEAN
<1> USE DEF TypeOK, tables, local
<1>1. CASE StartProcess
  BY <1>1 DEF StartProcess
<1>2. CASE NetworkConfig
  BY <1>2 DEF NetworkConfig
<1>3. CASE BatteryConfig
  BY <1>3 DEF BatteryConfig, StartThreads
<1>4. CASE MainInsertsDefault
  BY <1>4 DEF MainInsertsDefault, StartThreads, DefaultRow
<1>5. CASE ReadTotal
  BY <1>5 DEF ReadTotal
<1>6. CASE Bs01InsertsDefault
  BY <1>6 DEF Bs01InsertsDefault, DefaultRow
<1>7. CASE Inspect
  BY <1>7 DEF Inspect
<1>8. CASE Connect
  BY <1>8 DEF Connect
<1>9. CASE InsertGroup
  BY <1>9 DEF InsertGroup
<1>10. CASE InsertCell
  BY <1>10 DEF InsertCell, TimeOfRow
<1>11. CASE InsertedAll
  BY <1>11 DEF InsertedAll
<1>12. CASE DeleteAndClose
  BY <1>12 DEF DeleteAndClose
<1>13. CASE OpenForCurrent
  BY <1>13 DEF OpenForCurrent
<1>14. CASE InsertCurrent
  BY <1>14 DEF InsertCurrent, ConnsAfterClose
<1>15. CASE Sleep
  BY <1>15 DEF Sleep
<1>16. CASE Tick
  BY <1>16 DEF Tick
<1>17. CASE Refuse
  BY <1>17 DEF Refuse
<1>18. CASE TakeAgain
  BY <1>18 DEF TakeAgain
<1>19. CASE Configure
  BY <1>19 DEF Configure
<1>20. CASE Ends /\ (Fault \/ UNCHANGED faults)
  BY <1>20 DEF Ends
<1> QED BY <1>1, <1>2, <1>3, <1>4, <1>5, <1>6, <1>7, <1>8, <1>9, <1>10, <1>11, <1>12, <1>13, <1>14, <1>15, <1>16, <1>17, <1>18, <1>19, <1>20, NextCases

\* The server grants no more connections than it has.
LEMMA ConnsTyped ==
    ASSUME TypeOK, Next
    PROVE  conns' <= MaxConns
<1> USE StorageBounds DEF TypeOK, CanConnect, tables, local
<1>1. CASE StartProcess
  BY <1>1 DEF StartProcess
<1>2. CASE NetworkConfig
  BY <1>2 DEF NetworkConfig
<1>3. CASE BatteryConfig
  BY <1>3 DEF BatteryConfig, StartThreads
<1>4. CASE MainInsertsDefault
  BY <1>4 DEF MainInsertsDefault, StartThreads, DefaultRow
<1>5. CASE ReadTotal
  BY <1>5 DEF ReadTotal
<1>6. CASE Bs01InsertsDefault
  BY <1>6 DEF Bs01InsertsDefault, DefaultRow
<1>7. CASE Inspect
  BY <1>7 DEF Inspect
<1>8. CASE Connect
  BY <1>8 DEF Connect
<1>9. CASE InsertGroup
  BY <1>9 DEF InsertGroup
<1>10. CASE InsertCell
  BY <1>10 DEF InsertCell, TimeOfRow
<1>11. CASE InsertedAll
  BY <1>11 DEF InsertedAll
<1>12. CASE DeleteAndClose
  BY <1>12 DEF DeleteAndClose
<1>13. CASE OpenForCurrent
  BY <1>13 DEF OpenForCurrent
<1>14. CASE InsertCurrent
  BY <1>14 DEF InsertCurrent, ConnsAfterClose
<1>15. CASE Sleep
  BY <1>15 DEF Sleep
<1>16. CASE Tick
  BY <1>16 DEF Tick
<1>17. CASE Refuse
  BY <1>17 DEF Refuse
<1>18. CASE TakeAgain
  BY <1>18 DEF TakeAgain
<1>19. CASE Configure
  BY <1>19 DEF Configure
<1>20. CASE Ends /\ (Fault \/ UNCHANGED faults)
  BY <1>20 DEF Ends
<1> QED BY <1>1, <1>2, <1>3, <1>4, <1>5, <1>6, <1>7, <1>8, <1>9, <1>10, <1>11, <1>12, <1>13, <1>14, <1>15, <1>16, <1>17, <1>18, <1>19, <1>20, NextCases

\* The rows of the groups.
LEMMA GroupTyped ==
    ASSUME TypeOK, Next
    PROVE  group' \in [Times -> Nat \cup {Unknown}]
<1> USE DEF TypeOK, tables, local
<1>1. CASE StartProcess
  BY <1>1 DEF StartProcess
<1>2. CASE NetworkConfig
  BY <1>2 DEF NetworkConfig
<1>3. CASE BatteryConfig
  BY <1>3 DEF BatteryConfig, StartThreads
<1>4. CASE MainInsertsDefault
  BY <1>4 DEF MainInsertsDefault, StartThreads, DefaultRow
<1>5. CASE ReadTotal
  BY <1>5 DEF ReadTotal
<1>6. CASE Bs01InsertsDefault
  BY <1>6 DEF Bs01InsertsDefault, DefaultRow
<1>7. CASE Inspect
  BY <1>7 DEF Inspect
<1>8. CASE Connect
  BY <1>8 DEF Connect
<1>9. CASE InsertGroup
  BY <1>9 DEF InsertGroup
<1>10. CASE InsertCell
  BY <1>10 DEF InsertCell, TimeOfRow
<1>11. CASE InsertedAll
  BY <1>11 DEF InsertedAll
<1>12. CASE DeleteAndClose
  BY <1>12 DEF DeleteAndClose
<1>13. CASE OpenForCurrent
  BY <1>13 DEF OpenForCurrent
<1>14. CASE InsertCurrent
  BY <1>14 DEF InsertCurrent, ConnsAfterClose
<1>15. CASE Sleep
  BY <1>15 DEF Sleep
<1>16. CASE Tick
  BY <1>16 DEF Tick
<1>17. CASE Refuse
  BY <1>17 DEF Refuse
<1>18. CASE TakeAgain
  BY <1>18 DEF TakeAgain
<1>19. CASE Configure
  BY <1>19 DEF Configure
<1>20. CASE Ends /\ (Fault \/ UNCHANGED faults)
  BY <1>20 DEF Ends
<1> QED BY <1>1, <1>2, <1>3, <1>4, <1>5, <1>6, <1>7, <1>8, <1>9, <1>10, <1>11, <1>12, <1>13, <1>14, <1>15, <1>16, <1>17, <1>18, <1>19, <1>20, NextCases

\* The rows of the cells.
LEMMA SingleTyped ==
    ASSUME TypeOK, WritingInv, Next
    PROVE  single' \subseteq Times \X (Nat \ {0})
<1> USE DEF TypeOK, tables, local
<1>1. CASE StartProcess
  BY <1>1 DEF StartProcess
<1>2. CASE NetworkConfig
  BY <1>2 DEF NetworkConfig
<1>3. CASE BatteryConfig
  BY <1>3 DEF BatteryConfig, StartThreads
<1>4. CASE MainInsertsDefault
  BY <1>4 DEF MainInsertsDefault, StartThreads, DefaultRow
<1>5. CASE ReadTotal
  BY <1>5 DEF ReadTotal
<1>6. CASE Bs01InsertsDefault
  BY <1>6 DEF Bs01InsertsDefault, DefaultRow
<1>7. CASE Inspect
  BY <1>7 DEF Inspect
<1>8. CASE Connect
  BY <1>8 DEF Connect
<1>9. CASE InsertGroup
  BY <1>9 DEF InsertGroup
<1>10. CASE InsertCell
  <2>1. i \in Nat \ {0} /\ timestring \in Times
    BY <1>10 DEF InsertCell, WritingInv
  <2>2. <<timestring, i>> \in Times \X (Nat \ {0})
    BY <2>1
  <2> QED BY <1>10, <2>2 DEF InsertCell, TimeOfRow
<1>11. CASE InsertedAll
  BY <1>11 DEF InsertedAll
<1>12. CASE DeleteAndClose
  BY <1>12 DEF DeleteAndClose
<1>13. CASE OpenForCurrent
  BY <1>13 DEF OpenForCurrent
<1>14. CASE InsertCurrent
  BY <1>14 DEF InsertCurrent, ConnsAfterClose
<1>15. CASE Sleep
  BY <1>15 DEF Sleep
<1>16. CASE Tick
  BY <1>16 DEF Tick
<1>17. CASE Refuse
  BY <1>17 DEF Refuse
<1>18. CASE TakeAgain
  BY <1>18 DEF TakeAgain
<1>19. CASE Configure
  BY <1>19 DEF Configure
<1>20. CASE Ends /\ (Fault \/ UNCHANGED faults)
  BY <1>20 DEF Ends
<1> QED BY <1>1, <1>2, <1>3, <1>4, <1>5, <1>6, <1>7, <1>8, <1>9, <1>10, <1>11, <1>12, <1>13, <1>14, <1>15, <1>16, <1>17, <1>18, <1>19, <1>20, NextCases

\* Threads start when main starts them, and end with the process.
LEMMA LivesStep ==
    ASSUME TypeOK, LivesInv, Next
    PROVE  LivesInv'
<1> USE DEF TypeOK, Threads, LivesInv, Goto, tables, local
<1>1. CASE StartProcess
  BY <1>1 DEF StartProcess
<1>2. CASE NetworkConfig
  BY <1>2 DEF NetworkConfig
<1>3. CASE BatteryConfig
  BY <1>3 DEF BatteryConfig, StartThreads
<1>4. CASE MainInsertsDefault
  BY <1>4 DEF MainInsertsDefault, StartThreads, DefaultRow
<1>5. CASE ReadTotal
  BY <1>5 DEF ReadTotal
<1>6. CASE Bs01InsertsDefault
  BY <1>6 DEF Bs01InsertsDefault, DefaultRow
<1>7. CASE Inspect
  BY <1>7 DEF Inspect
<1>8. CASE Connect
  BY <1>8 DEF Connect
<1>9. CASE InsertGroup
  BY <1>9 DEF InsertGroup
<1>10. CASE InsertCell
  BY <1>10 DEF InsertCell, TimeOfRow
<1>11. CASE InsertedAll
  BY <1>11 DEF InsertedAll
<1>12. CASE DeleteAndClose
  BY <1>12 DEF DeleteAndClose
<1>13. CASE OpenForCurrent
  BY <1>13 DEF OpenForCurrent
<1>14. CASE InsertCurrent
  BY <1>14 DEF InsertCurrent, ConnsAfterClose
<1>15. CASE Sleep
  BY <1>15 DEF Sleep
<1>16. CASE Tick
  BY <1>16 DEF Tick
<1>17. CASE Refuse
  BY <1>17 DEF Refuse
<1>18. CASE TakeAgain
  BY <1>18 DEF TakeAgain
<1>19. CASE Configure
  BY <1>19 DEF Configure
<1>20. CASE Ends /\ (Fault \/ UNCHANGED faults)
  BY <1>20 DEF Ends
<1> QED BY <1>1, <1>2, <1>3, <1>4, <1>5, <1>6, <1>7, <1>8, <1>9, <1>10, <1>11, <1>12, <1>13, <1>14, <1>15, <1>16, <1>17, <1>18, <1>19, <1>20, NextCases

\* Every statement that opens or closes a connection does it where it should.
LEMMA ConnsStep ==
    ASSUME TypeOK, ConnsInv, LivesInv, Next
    PROVE  ConnsInv'
<1> USE DEF TypeOK, Threads, LivesInv, ConnsInv, One, Goto, tables, local
<1>1. CASE StartProcess
  BY <1>1 DEF StartProcess
<1>2. CASE NetworkConfig
  BY <1>2 DEF NetworkConfig
<1>3. CASE BatteryConfig
  BY <1>3 DEF BatteryConfig, StartThreads
<1>4. CASE MainInsertsDefault
  BY <1>4 DEF MainInsertsDefault, StartThreads, DefaultRow
<1>5. CASE ReadTotal
  BY <1>5 DEF ReadTotal
<1>6. CASE Bs01InsertsDefault
  BY <1>6 DEF Bs01InsertsDefault, DefaultRow
<1>7. CASE Inspect
  BY <1>7 DEF Inspect
<1>8. CASE Connect
  BY <1>8 DEF Connect
<1>9. CASE InsertGroup
  BY <1>9 DEF InsertGroup
<1>10. CASE InsertCell
  BY <1>10 DEF InsertCell, TimeOfRow
<1>11. CASE InsertedAll
  BY <1>11 DEF InsertedAll
<1>12. CASE DeleteAndClose
  BY <1>12 DEF DeleteAndClose
<1>13. CASE OpenForCurrent
  BY <1>13 DEF OpenForCurrent
<1>14. CASE InsertCurrent
  BY <1>14 DEF InsertCurrent, ConnsAfterClose
<1>15. CASE Sleep
  BY <1>15 DEF Sleep
<1>16. CASE Tick
  BY <1>16 DEF Tick
<1>17. CASE Refuse
  BY <1>17 DEF Refuse
<1>18. CASE TakeAgain
  BY <1>18 DEF TakeAgain
<1>19. CASE Configure
  BY <1>19 DEF Configure
<1>20. CASE Ends /\ (Fault \/ UNCHANGED faults)
  BY <1>20 DEF Ends
<1> QED BY <1>1, <1>2, <1>3, <1>4, <1>5, <1>6, <1>7, <1>8, <1>9, <1>10, <1>11, <1>12, <1>13, <1>14, <1>15, <1>16, <1>17, <1>18, <1>19, <1>20, NextCases

\* No time comes to lie in the future.
LEMMA ClockStep ==
    ASSUME TypeOK, ClockInv, Next
    PROVE  ClockInv'
<1> USE StorageBounds DEF TypeOK, Times, ClockInv, tables, local
<1>a. {now, timestring, slept, started} \subseteq Int
  OBVIOUS
<1>1. CASE StartProcess
  BY <1>a, <1>1 DEF StartProcess
<1>2. CASE NetworkConfig
  BY <1>a, <1>2 DEF NetworkConfig
<1>3. CASE BatteryConfig
  BY <1>a, <1>3 DEF BatteryConfig, StartThreads
<1>4. CASE MainInsertsDefault
  BY <1>a, <1>4 DEF MainInsertsDefault, StartThreads, DefaultRow
<1>5. CASE ReadTotal
  BY <1>a, <1>5 DEF ReadTotal
<1>6. CASE Bs01InsertsDefault
  BY <1>a, <1>6 DEF Bs01InsertsDefault, DefaultRow
<1>7. CASE Inspect
  BY <1>a, <1>7 DEF Inspect
<1>8. CASE Connect
  BY <1>a, <1>8 DEF Connect
<1>9. CASE InsertGroup
  BY <1>a, <1>9 DEF InsertGroup
<1>10. CASE InsertCell
  BY <1>a, <1>10 DEF InsertCell, TimeOfRow
<1>11. CASE InsertedAll
  BY <1>a, <1>11 DEF InsertedAll
<1>12. CASE DeleteAndClose
  BY <1>a, <1>12 DEF DeleteAndClose
<1>13. CASE OpenForCurrent
  BY <1>a, <1>13 DEF OpenForCurrent
<1>14. CASE InsertCurrent
  BY <1>a, <1>14 DEF InsertCurrent, ConnsAfterClose
<1>15. CASE Sleep
  BY <1>a, <1>15 DEF Sleep
<1>16. CASE Tick
  BY <1>a, <1>16 DEF Tick
<1>17. CASE Refuse
  BY <1>a, <1>17 DEF Refuse
<1>18. CASE TakeAgain
  BY <1>a, <1>18 DEF TakeAgain
<1>19. CASE Configure
  BY <1>a, <1>19 DEF Configure
<1>20. CASE Ends /\ (Fault \/ UNCHANGED faults)
  BY <1>a, <1>20 DEF Ends
<1> QED BY <1>1, <1>2, <1>3, <1>4, <1>5, <1>6, <1>7, <1>8, <1>9, <1>10, <1>11, <1>12, <1>13, <1>14, <1>15, <1>16, <1>17, <1>18, <1>19, <1>20, NextCases

\* A default does not replace a setting.
LEMMA SettingStep ==
    ASSUME TypeOK, SettingKept, Next
    PROVE  SettingKept'
<1> USE TotalsPositive DEF TypeOK, SettingKept, NoRow, tables
<1>1. CASE StartProcess
  BY <1>1 DEF StartProcess
<1>2. CASE NetworkConfig
  BY <1>2 DEF NetworkConfig
<1>3. CASE BatteryConfig
  BY <1>3 DEF BatteryConfig, StartThreads
<1>4. CASE MainInsertsDefault
  BY <1>4 DEF MainInsertsDefault, StartThreads, DefaultRow
<1>5. CASE ReadTotal
  BY <1>5 DEF ReadTotal
<1>6. CASE Bs01InsertsDefault
  BY <1>6 DEF Bs01InsertsDefault, DefaultRow
<1>7. CASE Inspect
  BY <1>7 DEF Inspect
<1>8. CASE Connect
  BY <1>8 DEF Connect
<1>9. CASE InsertGroup
  BY <1>9 DEF InsertGroup
<1>10. CASE InsertCell
  BY <1>10 DEF InsertCell, TimeOfRow
<1>11. CASE InsertedAll
  BY <1>11 DEF InsertedAll
<1>12. CASE DeleteAndClose
  BY <1>12 DEF DeleteAndClose
<1>13. CASE OpenForCurrent
  BY <1>13 DEF OpenForCurrent
<1>14. CASE InsertCurrent
  BY <1>14 DEF InsertCurrent, ConnsAfterClose
<1>15. CASE Sleep
  BY <1>15 DEF Sleep
<1>16. CASE Tick
  BY <1>16 DEF Tick
<1>17. CASE Refuse
  BY <1>17 DEF Refuse
<1>18. CASE TakeAgain
  BY <1>18 DEF TakeAgain
<1>19. CASE Configure
  BY <1>19 DEF Configure
<1>20. CASE Ends /\ (Fault \/ UNCHANGED faults)
  BY <1>20 DEF Ends
<1> QED BY <1>1, <1>2, <1>3, <1>4, <1>5, <1>6, <1>7, <1>8, <1>9, <1>10, <1>11, <1>12, <1>13, <1>14, <1>15, <1>16, <1>17, <1>18, <1>19, <1>20, NextCases

\* The seconds of the currents stay behind.
LEMMA CurrentsStep ==
    ASSUME TypeOK, LivesInv, ClockInv, CurrentsInv, Next
    PROVE  CurrentsInv'
<1> USE DEF TypeOK, Times, Threads, LivesInv, ClockInv, CurrentsInv, Goto, tables, local
<1>1. CASE StartProcess
  BY <1>1 DEF StartProcess
<1>2. CASE NetworkConfig
  BY <1>2 DEF NetworkConfig
<1>3. CASE BatteryConfig
  BY <1>3 DEF BatteryConfig, StartThreads
<1>4. CASE MainInsertsDefault
  BY <1>4 DEF MainInsertsDefault, StartThreads, DefaultRow
<1>5. CASE ReadTotal
  BY <1>5 DEF ReadTotal
<1>6. CASE Bs01InsertsDefault
  BY <1>6 DEF Bs01InsertsDefault, DefaultRow
<1>7. CASE Inspect
  BY <1>7 DEF Inspect
<1>8. CASE Connect
  BY <1>8 DEF Connect
<1>9. CASE InsertGroup
  BY <1>9 DEF InsertGroup
<1>10. CASE InsertCell
  BY <1>10 DEF InsertCell, TimeOfRow
<1>11. CASE InsertedAll
  BY <1>11 DEF InsertedAll
<1>12. CASE DeleteAndClose
  BY <1>12 DEF DeleteAndClose
<1>13. CASE OpenForCurrent
  BY <1>13 DEF OpenForCurrent
<1>14. CASE InsertCurrent
  BY <1>14 DEF InsertCurrent, ConnsAfterClose
<1>15. CASE Sleep
  BY <1>15 DEF Sleep
<1>16. CASE Tick
  BY <1>16 DEF Tick
<1>17. CASE Refuse
  BY <1>17 DEF Refuse
<1>18. CASE TakeAgain
  BY <1>18 DEF TakeAgain
<1>19. CASE Configure
  BY <1>19 DEF Configure
<1>20. CASE Ends /\ (Fault \/ UNCHANGED faults)
  BY <1>20 DEF Ends
<1> QED BY <1>1, <1>2, <1>3, <1>4, <1>5, <1>6, <1>7, <1>8, <1>9, <1>10, <1>11, <1>12, <1>13, <1>14, <1>15, <1>16, <1>17, <1>18, <1>19, <1>20, NextCases

\* The next set of rows with cells has a new key.
LEMMA KeysStep ==
    ASSUME TypeOK, LivesInv, ClockInv, KeysInv, Next
    PROVE  KeysInv'
<1> USE DEF TypeOK, Times, Threads, LivesInv, ClockInv, KeysInv, Used, Goto, tables, local
<1>1. CASE StartProcess
  BY <1>1 DEF StartProcess
<1>2. CASE NetworkConfig
  BY <1>2 DEF NetworkConfig
<1>3. CASE BatteryConfig
  BY <1>3 DEF BatteryConfig, StartThreads
<1>4. CASE MainInsertsDefault
  BY <1>4 DEF MainInsertsDefault, StartThreads, DefaultRow
<1>5. CASE ReadTotal
  BY <1>5 DEF ReadTotal
<1>6. CASE Bs01InsertsDefault
  BY <1>6 DEF Bs01InsertsDefault, DefaultRow
<1>7. CASE Inspect
  BY <1>7 DEF Inspect
<1>8. CASE Connect
  BY <1>8 DEF Connect
<1>9. CASE InsertGroup
  <2>1. /\ pc["bs01"] = "group" /\ pc'["bs01"] = "single"
        /\ timestring \in Times /\ timestring <= now
        /\ now' = now /\ timestring' = timestring
    BY <1>9 DEF InsertGroup
  <2>2. \A t \in Times : Used(t)' => Used(t) \/ t = timestring
    BY <1>9 DEF InsertGroup
  <2> HIDE DEF Used
  <2> QED BY <2>1, <2>2
<1>10. CASE InsertCell
  <2>1. /\ pc' = pc /\ pc["bs01"] = "single"
        /\ timestring \in Times /\ timestring <= now
        /\ now' = now /\ timestring' = timestring
    BY <1>10 DEF InsertCell
  <2>2. \A t \in Times : Used(t)' => Used(t) \/ t = timestring
    BY <1>10 DEF InsertCell, TimeOfRow
  <2> HIDE DEF Used
  <2> QED BY <2>1, <2>2
<1>11. CASE InsertedAll
  BY <1>11 DEF InsertedAll
<1>12. CASE DeleteAndClose
  BY <1>12 DEF DeleteAndClose
<1>13. CASE OpenForCurrent
  BY <1>13 DEF OpenForCurrent
<1>14. CASE InsertCurrent
  BY <1>14 DEF InsertCurrent, ConnsAfterClose
<1>15. CASE Sleep
  BY <1>15 DEF Sleep
<1>16. CASE Tick
  BY <1>16 DEF Tick
<1>17. CASE Refuse
  BY <1>17 DEF Refuse
<1>18. CASE TakeAgain
  BY <1>18 DEF TakeAgain
<1>19. CASE Configure
  BY <1>19 DEF Configure
<1>20. CASE Ends /\ (Fault \/ UNCHANGED faults)
  BY <1>20 DEF Ends
<1> QED BY <1>1, <1>2, <1>3, <1>4, <1>5, <1>6, <1>7, <1>8, <1>9, <1>10, <1>11, <1>12, <1>13, <1>14, <1>15, <1>16, <1>17, <1>18, <1>19, <1>20, NextCases

\* The set being written has the cells before i.
LEMMA WritingStep ==
    ASSUME TypeOK, LivesInv, ClockInv, KeysInv, WritingInv, Next
    PROVE  WritingInv'
<1> USE DEF TypeOK, Times, Threads, WritingInv, Goto, tables, local
<1>1. CASE StartProcess
  BY <1>1 DEF StartProcess
<1>2. CASE NetworkConfig
  BY <1>2 DEF NetworkConfig
<1>3. CASE BatteryConfig
  BY <1>3 DEF BatteryConfig, StartThreads
<1>4. CASE MainInsertsDefault
  BY <1>4 DEF MainInsertsDefault, StartThreads, DefaultRow
<1>5. CASE ReadTotal
  BY <1>5 DEF ReadTotal
<1>6. CASE Bs01InsertsDefault
  BY <1>6 DEF Bs01InsertsDefault, DefaultRow
<1>7. CASE Inspect
  BY <1>7 DEF Inspect
<1>8. CASE Connect
  BY <1>8 DEF Connect
<1>9. CASE InsertGroup
  <2>1. /\ pc["bs01"] = "group" /\ i' = 1 /\ timestring \in Times
        /\ timestring' = timestring /\ battery_total' = battery_total
        /\ single' = single
    BY <1>9 DEF InsertGroup
  <2>2. ASSUME battery_total > 0, timestring \notin failed'
        PROVE  /\ group'[timestring] = battery_total
               /\ \A r \in single : r[1] # timestring
    <3>1. ~Used(timestring)
      BY <2>1, <2>2 DEF KeysInv
    <3>2. group' = [group EXCEPT ![timestring] = IF group[timestring] = NoRow
                                             THEN battery_total ELSE group[timestring]]
      BY <1>9, <2>2 DEF InsertGroup
    <3> QED BY <2>1, <3>1, <3>2 DEF Used
  <2> QED BY <2>1, <2>2
<1>10. CASE InsertCell
  BY <1>10 DEF InsertCell, TimeOfRow
<1>11. CASE InsertedAll
  BY <1>11 DEF InsertedAll
<1>12. CASE DeleteAndClose
  BY <1>12 DEF DeleteAndClose
<1>13. CASE OpenForCurrent
  BY <1>13 DEF OpenForCurrent
<1>14. CASE InsertCurrent
  BY <1>14 DEF InsertCurrent, ConnsAfterClose
<1>15. CASE Sleep
  BY <1>15 DEF Sleep
<1>16. CASE Tick
  BY <1>16 DEF Tick
<1>17. CASE Refuse
  BY <1>17 DEF Refuse
<1>18. CASE TakeAgain
  BY <1>18 DEF TakeAgain
<1>19. CASE Configure
  BY <1>19 DEF Configure
<1>20. CASE Ends /\ (Fault \/ UNCHANGED faults)
  BY <1>20 DEF Ends
<1> QED BY <1>1, <1>2, <1>3, <1>4, <1>5, <1>6, <1>7, <1>8, <1>9, <1>10, <1>11, <1>12, <1>13, <1>14, <1>15, <1>16, <1>17, <1>18, <1>19, <1>20, NextCases

\* A set of rows stays a prefix.
LEMMA PrefixStep ==
    ASSUME TypeOK, KeysInv, WritingInv, PrefixInv, Next
    PROVE  PrefixInv'
<1> USE DEF TypeOK, PrefixInv, Prefix, Goto, tables, local
<1>1. CASE StartProcess
  BY <1>1 DEF StartProcess
<1>2. CASE NetworkConfig
  BY <1>2 DEF NetworkConfig
<1>3. CASE BatteryConfig
  BY <1>3 DEF BatteryConfig, StartThreads
<1>4. CASE MainInsertsDefault
  BY <1>4 DEF MainInsertsDefault, StartThreads, DefaultRow
<1>5. CASE ReadTotal
  BY <1>5 DEF ReadTotal
<1>6. CASE Bs01InsertsDefault
  BY <1>6 DEF Bs01InsertsDefault, DefaultRow
<1>7. CASE Inspect
  BY <1>7 DEF Inspect
<1>8. CASE Connect
  BY <1>8 DEF Connect
<1>9. CASE InsertGroup
  <2>1. /\ pc["bs01"] = "group" /\ timestring \in Times
        /\ single' = single /\ failed \subseteq failed'
    BY <1>9 DEF InsertGroup
  <2>2. SUFFICES ASSUME NEW t \in Times, t \notin failed' PROVE Prefix(t)'
    BY DEF PrefixInv
  <2>3. Prefix(t)
    BY <2>1, <2>2
  <2>4. CASE t # timestring \/ group[t] # NoRow
    <3>1. group'[t] = group[t]
      BY <1>9, <2>4 DEF InsertGroup
    <3> QED BY <2>1, <2>3, <3>1
  <2>5. CASE t = timestring /\ group[t] = NoRow
    <3>1. ASSUME NEW r \in single PROVE r[1] # t
      <4>1. r[1] = t => r[2] <= 0
        BY <2>3, <2>5 DEF NoRow
      <4>2. r[2] \in Nat \ {0}
        OBVIOUS
      <4> QED BY <4>1, <4>2
    <3> QED BY <2>1, <3>1
  <2> QED BY <2>4, <2>5
<1>10. CASE InsertCell
  <2>1. /\ pc["bs01"] = "single" /\ timestring \in Times /\ group' = group
        /\ i \in Nat \ {0} /\ i <= battery_total
        /\ failed \subseteq failed'
        /\ single \subseteq single' /\ single' \subseteq single \cup {<<timestring, i>>}
        /\ timestring \notin failed' => <<timestring, i>> \in single'
    BY <1>10 DEF InsertCell, TimeOfRow, WritingInv
  <2>2. SUFFICES ASSUME NEW t \in Times, t \notin failed', NEW r \in single', r[1] = t
                 PROVE  r[2] <= group[t] /\ \A b \in 1..r[2] : <<t, b>> \in single'
    BY <2>1 DEF PrefixInv
  <2>3. CASE r \in single
    BY <2>1, <2>2, <2>3
  <2>4. CASE r = <<timestring, i>>
    <3>1. t = timestring /\ r[2] = i
      BY <2>2, <2>4
    <3>2. battery_total > 0 /\ group[t] = battery_total
          /\ \A b \in 1..i - 1 : <<t, b>> \in single
      BY <2>1, <2>2, <3>1 DEF WritingInv, Unknown
    <3> QED BY <2>1, <2>2, <3>1, <3>2
  <2> QED BY <2>1, <2>3, <2>4
<1>11. CASE InsertedAll
  BY <1>11 DEF InsertedAll
<1>12. CASE DeleteAndClose
  BY <1>12 DEF DeleteAndClose
<1>13. CASE OpenForCurrent
  BY <1>13 DEF OpenForCurrent
<1>14. CASE InsertCurrent
  BY <1>14 DEF InsertCurrent, ConnsAfterClose
<1>15. CASE Sleep
  BY <1>15 DEF Sleep
<1>16. CASE Tick
  BY <1>16 DEF Tick
<1>17. CASE Refuse
  BY <1>17 DEF Refuse
<1>18. CASE TakeAgain
  BY <1>18 DEF TakeAgain
<1>19. CASE Configure
  BY <1>19 DEF Configure
<1>20. CASE Ends /\ (Fault \/ UNCHANGED faults)
  BY <1>20 DEF Ends
<1> QED BY <1>1, <1>2, <1>3, <1>4, <1>5, <1>6, <1>7, <1>8, <1>9, <1>10, <1>11, <1>12, <1>13, <1>14, <1>15, <1>16, <1>17, <1>18, <1>19, <1>20, NextCases

\* A set of rows that is left is whole.
LEMMA WholeStep ==
    ASSUME TypeOK, LivesInv, KeysInv, WritingInv, WholeInv, Next
    PROVE  WholeInv'
<1> USE DEF TypeOK, Threads, LivesInv, WholeInv, Whole, Writing, Goto, tables, local
<1>1. CASE StartProcess
  BY <1>1 DEF StartProcess
<1>2. CASE NetworkConfig
  BY <1>2 DEF NetworkConfig
<1>3. CASE BatteryConfig
  BY <1>3 DEF BatteryConfig, StartThreads
<1>4. CASE MainInsertsDefault
  BY <1>4 DEF MainInsertsDefault, StartThreads, DefaultRow
<1>5. CASE ReadTotal
  BY <1>5 DEF ReadTotal
<1>6. CASE Bs01InsertsDefault
  BY <1>6 DEF Bs01InsertsDefault, DefaultRow
<1>7. CASE Inspect
  BY <1>7 DEF Inspect
<1>8. CASE Connect
  BY <1>8 DEF Connect
<1>9. CASE InsertGroup
  BY <1>9 DEF InsertGroup
<1>10. CASE InsertCell
  BY <1>10 DEF InsertCell, TimeOfRow
<1>11. CASE InsertedAll
  <2>1. /\ pc["bs01"] = "single" /\ i > battery_total /\ i \in Nat
        /\ UNCHANGED <<group, single, failed, cut, timestring>>
    BY <1>11 DEF InsertedAll
  <2>2. SUFFICES ASSUME NEW t \in Times \ (failed \cup cut) PROVE Whole(t)
    BY <2>1
  <2>3. CASE t = timestring /\ battery_total > 0
    <3>1. group[t] = battery_total /\ \A b \in 1..i - 1 : <<t, b>> \in single
      BY <2>1, <2>2, <2>3 DEF WritingInv
    <3> QED BY <2>1, <2>3, <3>1
  <2>4. CASE ~(t = timestring /\ battery_total > 0)
    BY <2>2, <2>4
  <2> QED BY <2>3, <2>4
<1>12. CASE DeleteAndClose
  BY <1>12 DEF DeleteAndClose
<1>13. CASE OpenForCurrent
  BY <1>13 DEF OpenForCurrent
<1>14. CASE InsertCurrent
  BY <1>14 DEF InsertCurrent, ConnsAfterClose
<1>15. CASE Sleep
  BY <1>15 DEF Sleep
<1>16. CASE Tick
  BY <1>16 DEF Tick
<1>17. CASE Refuse
  BY <1>17 DEF Refuse
<1>18. CASE TakeAgain
  BY <1>18 DEF TakeAgain
<1>19. CASE Configure
  BY <1>19 DEF Configure
<1>20. CASE Ends /\ (Fault \/ UNCHANGED faults)
  BY <1>20 DEF Ends
<1> QED BY <1>1, <1>2, <1>3, <1>4, <1>5, <1>6, <1>7, <1>8, <1>9, <1>10, <1>11, <1>12, <1>13, <1>14, <1>15, <1>16, <1>17, <1>18, <1>19, <1>20, NextCases


(***************************************************************************)
(* The theorems.                                                           *)
(***************************************************************************)

LEMMA InitialIInv == Init => IInv
<1> SUFFICES ASSUME Init PROVE IInv
  OBVIOUS
<1>1. TypeOK
  BY TotalsPositive, StorageBounds
  DEF Init, TypeOK, Times, Threads, Labels, NoRow, Unknown
<1>2. ConnsInv /\ LivesInv /\ ClockInv /\ CurrentsInv /\ SettingKept
  BY DEF Init, Threads, ConnsInv, LivesInv, ClockInv, CurrentsInv, SettingKept, One
<1>3. KeysInv /\ WritingInv
  BY DEF Init, Threads, KeysInv, Used, WritingInv
<1>4. PrefixInv /\ WholeInv
  BY DEF Init, NoRow, Times, PrefixInv, Prefix, WholeInv, Whole
<1> QED BY <1>1, <1>2, <1>3, <1>4 DEF IInv

LEMMA StepTyped == ASSUME IInv, Next PROVE TypeOK'
<1>1. ConnsInv'
  BY ConnsStep DEF IInv
<1>2. /\ now' \in Times
      /\ pc' \in [Threads -> Labels]
      /\ {config, i, setting, refused}' \subseteq Nat
      /\ group' \in [Times -> Nat \cup {Unknown}]
      /\ single' \subseteq Times \X (Nat \ {0})
      /\ battery_total' \in Nat \cup {Unknown}
      /\ {timestring, slept, started}' \subseteq Times
      /\ (currents \cup cut \cup failed)' \subseteq Times
      /\ up' \in BOOLEAN
      /\ faults' \in 0..MaxFaults
  BY PcTyped, CountersTyped, TimesTyped, FaultsTyped, UpTyped, GroupTyped, SingleTyped
  DEF IInv
<1>3. conns' \in Nat
  BY <1>1, <1>2 DEF ConnsInv, One
<1>4. conns' \in 0..MaxConns
  BY <1>3, ConnsTyped, StorageBounds DEF IInv
<1> QED BY <1>2, <1>4 DEF TypeOK

LEMMA StepIInv == ASSUME IInv, Next PROVE IInv'
BY StepTyped, ConnsStep, LivesStep, ClockStep, CurrentsStep, KeysStep, WritingStep,
   PrefixStep, WholeStep, SettingStep
DEF IInv

LEMMA StutterIInv == ASSUME IInv, UNCHANGED vars PROVE IInv'
<1> USE DEF vars, tables, local
<1>1. TypeOK' /\ SettingKept'
  BY DEF IInv, TypeOK, SettingKept
<1>2. ConnsInv' /\ LivesInv' /\ ClockInv' /\ CurrentsInv'
  BY DEF IInv, ConnsInv, LivesInv, ClockInv, CurrentsInv
<1>3. KeysInv' /\ WritingInv'
  BY DEF IInv, KeysInv, Used, WritingInv
<1>4. PrefixInv' /\ WholeInv'
  BY DEF IInv, PrefixInv, Prefix, WholeInv, Whole, Writing
<1> QED BY <1>1, <1>2, <1>3, <1>4 DEF IInv

LEMMA Invariance == Spec => []IInv
<1>1. IInv /\ [Next]_vars => IInv'
  BY StepIInv, StutterIInv
<1> QED BY InitialIInv, <1>1, PTL DEF Spec

\* The types: in particular no connection is closed that is not open, and the
\* server is asked for no more of them than it grants.
THEOREM TypeCorrect == Spec => []TypeOK
<1>1. IInv => TypeOK
  BY DEF IInv
<1> QED BY Invariance, <1>1, PTL

\* The rows of an inspection (manageData.c:146-153) are a prefix of a whole set
\* unless one of their own statements failed, and a whole set unless the process
\* ended among them: the key of a set with cells is always new.
THEOREM SetsStayWhole == Spec => []SetsAreWhole
<1>1. IInv => SetsAreWhole
  BY DEF IInv, SetsAreWhole, PrefixInv, WholeInv
<1> QED BY Invariance, <1>1, PTL

\* A process has three connections at most, but for those an early return forgot
\* (manageData.c:125-158, 303-326, 329-371).
THEOREM ConnectionsAreBounded == Spec => []ConnectionsBounded
<1>1. IInv => ConnectionsBounded
  BY DEF IInv, TypeOK, ConnsInv, LivesInv, One, ConnectionsBounded
<1> QED BY Invariance, <1>1, PTL

\* No default replaces what the operator configured (manageData.c:232-236, 309-313).
THEOREM SettingIsKept == Spec => []SettingKept
<1>1. IInv => SettingKept
  BY DEF IInv
<1> QED BY Invariance, <1>1, PTL

\* A process stores at most one current in a second, and finds the second taken only
\* in the one it was started in (dis01thread.c:48, manageData.c:355-367).
THEOREM EverySecondIsOnce == Spec => []EverySecondOnce
<1>1. ASSUME IInv PROVE EverySecondOnce
  <2>1. now \in Int /\ started \in Int /\ started <= now
    BY <1>1, StorageBounds DEF IInv, TypeOK, Times, ClockInv
  <2> QED BY <1>1, <2>1 DEF IInv, CurrentsInv, EverySecondOnce
<1> QED BY Invariance, <1>1, PTL

=============================================================================
