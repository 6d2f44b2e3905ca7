# batterysystem in TLA+

`batterySystem/` is a C program for an embedded board that supervises a group of
batteries: it measures every cell over a serial line, keeps the readings in one
shared record, serves them over TCP, stores them in MySQL, and drives the
dischargers that balance the group. This directory models it in TLA+, checks the
models with TLC on small instances and proves the properties that matter most
with TLAPS for every value of the constants.

All sources named below are under `src/batterySystem/`.

## 1. Inventory

### 1.1 Components

| Component | Source | State it keeps | Operations |
|---|---|---|---|
| Shared record | `battery.h:73-91`, used everywhere | `group_battery`, `s800bm_mutex`, `battery_total` | locked copies in and out; an unlocked read by `writeToMysql` |
| Inspection loop | `bs01thread.c:57-226` | `t_voltage`, `t_resistance`, `t_control`, `old_count`, local `mybattery_pack`, the file `RES_FILE` | start from the file, inspection, publication, control pass, rest |
| Voltage control | `bs01thread.c:10-56` | `MinValue`, `bat_zu`; outside the process the relay of every cell | measure all, find the minimum, command all, publish voltages |
| Serial line of bs01 | `s800serialDAO.c:65-233` | receive buffer of the port, `readstr`, loop counters | drain, transmit, poll, retry, follow-up of a resistance, control command |
| Current sensor | `dis01thread.c`, `s800serialDAO.c:11-63` | receive buffer of the port, `readstr`, the current in the record | drain, ask, ask again, convert, publish, store a row |
| Network server | `networkCommunication.c` | listening socket, two ports to a PC, one thread per connection, the descriptors | start, select, accept, answer, close |
| Database | `manageData.c` | tables of groups, cells, currents and configuration; connections | create tables, read the configuration and insert a default, insert rows, delete old ones |
| Startup | `monitor.c` | - | create the tables, start three threads |
| Frame codec | `s800serialDAO.c` (`decodeData`, `genChecksum`) | - | pure functions |
| Opening ports, logging | `s800serialDAO.c`, `monitor.c` | - | pure I/O |
| Unbuilt sources, hand tests | `serialToPC.c`, `s800bmSemaphore.c`, `mainoftest.c`, `maintest.c`, `temptest.c` | - | not part of the program |
| MySQL client | `mysql/` | - | vendored |

### 1.2 How they interact

`main` starts three threads. **bs01** owns the serial line of the cells: it runs
the inspection loop and, once a minute, voltage control, and both publish into
`group_battery` under `s800bm_mutex`; after an inspection it hands the *address*
of the shared record to `writeToMysql`, which reads it without the mutex.
**dis01** owns the line of the current sensor, publishes one field a second and
opens a database connection of its own for each row. **network** accepts
connections and starts a `cmd_network` thread for each; these call `send()` on
the shared memory *while they hold the mutex*. The inspection loop leaves a file
behind for its own restart; the dischargers also outlive the process.

### 1.3 What is hard, and what makes each part correct

* **Shared record.** Whole-record copies, partial copies and single fields run
  against each other and against a reader without a lock. Correct: no reply is
  torn, no current reading is overwritten by the copy that carries an old one,
  a set of database rows is one inspection, every request is answered and every
  inspection published.
* **Inspection.** The process can be killed anywhere between truncating the file
  and writing the last resistance, the configured group can change size between
  two lives, and most inspections reuse resistances measured days before.
  Correct: nothing uninitialised is published, the file never holds anything but
  the latest readings, the schedule is neither lost nor postponed nor run twice.
* **Voltage control.** Error codes travel in the same float as voltages, the
  results of commands are ignored, relays outlive a kill. Correct: commands
  follow the minimum, and the dischargers recover once the faults end.
* **Serial line.** Replies are lost, damaged, cut short, preceded by a stray byte
  or late, and nothing in the accepted frame is compared with the request.
  Correct: the answer is ours, one lost, damaged or short reply is made up for, -1
  means two failures, the call returns.
* **Network server.** Descriptor numbers are given out again as soon as they are
  free, and each connection thread closes a number. Correct: a thread works on
  its own connection, descriptors come back, hosts are served.
* **Requests.** A request is whatever one `recv` returns. Correct: a chunk that begins with a request is
  answered as that request; data is sent to nobody who did not ask for it (with one exception, section 7).
* **Current sensor.** A frame without a checksum, a second attempt that also repeats a true zero, error
  values that are converted like readings. Correct: what is published within the sensor's range was
  measured, and one lost or short reply is no absurd current.
* **Database.** Every statement commits by itself and nobody looks at its result; the process dies with a
  connection that is refused; keys are seconds. Correct: a reader of the tables can tell which sets of rows are
  whole, connections do not pile up, what the operator configured stays, no second is stored twice.
* **Frame codec.** A piecewise formula with rounding, an exclusive or. Correct: higher codes are higher
  voltages, one byte in error is noticed.

Every hazard is listed, at the line where it bites, under `hazards` in
`PROJECT.json`, with the properties that watch it.

## 2. Modules

| Module | What it is |
|---|---|
| `SharedPack` | abstract specification: the record as one atomic variable |
| `BatteryPack` | the record with its mutex, its field-by-field copies and its threads |
| `PackRequests` | the requests the connections of `BatteryPack` serve, and the bytes they come from |
| `BatteryPackProofs` | inductive invariant and safety theorems; theorems about `RequestFormat` and `PackRequests` |
| `BatteryPackRefinement` | proof that `BatteryPack` implements `SharedPack` |
| `VoltageControl`, `VoltageControlProofs` | `control_voltage`, and its theorems with those about `FrameCodec` |
| `Inspection`, `InspectionProofs` | the inspection loop and its file, and its theorems |
| `SerialCall` | abstract specification: what a call over the serial line promises to the thread that makes it |
| `SerialLink`, `SerialLinkProofs` | one call over the serial line, after any calls before it; its theorems, and the proof that it implements `SerialCall` |
| `NetworkServer`, `NetworkServerProofs` | socket, ports, select, connection threads, descriptors, and its theorems |
| `RequestFormat` | what `cmd_network` makes of the bytes of a `recv` |
| `Storage`, `StorageProofs` | the database, its connections, and the lives of the process; its theorems |
| `CurrentSensor`, `CurrentSensorProofs` | `thread_dis01` and its protocol, and its theorems |
| `FrameCodec` | `decodeData` and `genChecksum` as operators |
| `MC*` | the definitions the configurations need |

Operators named like another definition with a suffix (`LockFreeIgnored`,
`NoDrain`, `WatchedAll`, ...) are the faulty variants of it that show that the
properties can fail; no specification uses them.

### 2.1 BatteryPack and SharedPack

A *field* of `battery_pack` is a pair of a kind and a cell: `head` (time and total
voltage, always written together), `current`, and per cell `voltage` and `rest`
(temperature, resistance, capacity). A field holds the **stamp** of the measurement
that produced it, which is what the properties tell apart: bs01 draws one stamp
per inspection or control pass, dis01 one per reading.

| Action | Code |
|---|---|
| `Lock`, `Unlock` | the four `pthread_mutex_lock` sites and their unlocks |
| `Inspect` | `bs01thread.c:145-193`, into the local record |
| `LoadCurrent`, `CopyField`, `UnlockPack` | `bs01thread.c:195-198`; `memcpy` in any order |
| `RecordGroup`, `RecordCell`, `RecordDone`, `RecordFails` | `writeToMysql(conn, &group_battery)`, without the mutex |
| `ControlPass`, `CopyVoltage`, `UnlockVoltages` | `control_voltage` and `bs01thread.c:49-53` |
| `Sense`, `StoreCurrent` | `dis01thread.c:30-36` |
| `Recv`, `SendField`, `SendDone` | commands 1 to 4 of `cmd_network` |
| `Stall`, `ReadOn` | the peer stops reading its socket, or reads on |

Commands 3 and 4 both send the current (`networkCommunication.c:61-72`), so the model
has one request for them. `SharedPack` states what the sharing should amount to: an inspection
replaces everything but the current in one step, a control pass the voltages, dis01
the current, and a reply or a set of rows is a copy of one instant. The refinement mapping
lets a publication take effect when its copy begins, a reply when its last field
is sent and the rows when the group row is built.

### 2.2 VoltageControl

One pass is `Measure` (cell by cell), `Command` (cell by cell), `Publish`. Voltages are
millivolts, the resolution `decodeData` gives them; -1 and -2 come through the
same value, and a reading can round to 0. Equality of the two sides of
`MinValue < bat_zu[i].voltage - 0.03` is a nondeterministic choice, because the
comparison is made in floating point on rounded decimals. `relay` belongs to the
cells: `Restart` (the process killed and started again) clears everything but it.
While `faults` holds, readings and commands are lost and the process is killed at will;
`Heal` ends that. The module extends `FrameCodec`: `CodesOf` are the codes that decode to a voltage.

### 2.3 Inspection

`pc` walks through the loop; `file` is `RES_FILE` as a header record and a sequence.
`BeginInspection` truncates it, `WriteHeader` and `WriteResistance` extend it, `Start` reads it
with the conditions of `bs01thread.c:118-126`, which treat the two stored times differently.
A resistance is represented by the time it was taken (`Failed` if the cell gave no
number, `Garbage` for an uninitialised float). `Kill` is possible anywhere outside the
start and may lose any suffix of what was written, since nothing is synced. `Reconfigure`
changes the configured total at any time; only `Start` looks at it. `MeasureResistance`,
`KeepResistance` and a control pass are calls over the serial line (`Calling`), and no fairness says
that it ends: a resistance may be asked for without end (`s800serialDAO.c:120-124`), and clearing a port
that was not opened has none (`:77`).

Assumptions: the clock does not go back; what survives a kill or a power failure is a beginning of the
new file, so the truncation itself is not undone; a lost suffix ends between two numbers, not inside
one; the file can be opened for writing; the clock stops `MaxStay` after an inspection began until it ends.

### 2.4 SerialLink and SerialCall

Runs calls one after another on one port that may not have been opened at all (`openSerial`'s
result is not looked at). A byte is modelled by the frame and place it comes from; the XOR
checksum by what it accepts, the bytes of one frame in order. `rx` is the kernel's receive buffer,
`air` what the cells have sent and has not arrived; order is kept. `Begin` to `GiveUp` are the
steps of `sendSerialTextCommand` and `sendSerialControlCommand` over `SendToSerialAndRecv`, which both
models share because they differ only in the test of the frame (`Valid`) and the follow-up 0x22
(`FollowUp`). `late`, `losses`, `surplus`, `fails` and `sends` are history: whether bytes of an earlier call were on their way when
this one began, how many replies were lost, damaged or short, whether a byte too many came (a stray one, or one after its window),
the failed windows and the transmissions. `SerialCall` is what remains for the caller: a call under way that the line may disturb, and a `Return` with an answer of the kind
its command has (a resistance is never the -2 of `decodeData`, because of the follow-up), from its own cell unless it began late, or -1,
for which two replies were lost or damaged, or a byte too many came, or it is a resistance. `VoltageControl` and `Inspection` take readings and failures from such calls, each in one
step. A failing `read` on an open port (-1, added to the count at `s800serialDAO.c:214-219`) is not modelled.

### 2.5 NetworkServer

`table` is the descriptor table of the process from the first number that is free
when the thread starts; the system gives out the lowest free one. `OpenOther`/`CloseOther` are the two other users
of numbers that come and go, with one each: dis01's connection per row, and bs01, with `RES_FILE`
(`bs01thread.c:85-91`, `140-189`) or its own connection (`203-210`). `MakeSocket`, `Bind`,
`OpenPort` and their failures, `exit(1)` without a socket among them, are the start of `thread_network_tcp`; `Select` to `NextTurn` its loop; a thread of
`cmd_network` is a record with its descriptor and where it stands. `select(sockfd + 1, ...)` watches only
what lies below: `Watched`. `recv` on a serial port or the file fails at once (it is no socket), so a thread
started for a port closes it. `Talking` are the hosts and ports that send anything. `SendFails` is SIGPIPE, `AcceptFails` the `exit` when no thread can be
created, `SelectFails` the `exit` on EBADF; `down` records which. Besides ranges `TypeOK` says that the server waits for
connections only with its socket and both ports open.
Waiting for the mutex inside `Send` is `BatteryPack`'s subject, the bytes of a request `RequestFormat`'s.

### 2.6 RequestFormat

Pure operators: `Reply(chunk, total)` is the body of the loop of `cmd_network` for the bytes one `recv` returned and
the value of `battery_total`. `readbuffer(chunk, k)` is 0 beyond what was received, as `memset` leaves it. The
test of line 40 refuses a chunk only if its prefix *and* its size are wrong (`Recognised`). `PackRequests` joins it
to `BatteryPack`: it says what every chunk of two requests leads to (`Received`), and compares what a connection serves with the chunks that lead to it. Whether a `char` is signed makes no difference: there are 60 cells at most.

### 2.7 Storage

A row is its key: the second, and for a cell its number. `main`, `bs01` and `dis01` are three threads with a place in
the code each; the process starts, dies and is started again by whoever runs it.

| Action | Code |
|---|---|
| `StartProcess`, `NetworkConfig`, `BatteryConfig`, `MainInsertsDefault` | `main` up to `pthread_create`, with `CreateNetworkConfig` and `CreateBatteryConfig` |
| `NoConnection` | the null pointer of `connectToMysql` passed on: the process dies |
| `SelectFails` | `mysql_num_rows` of the null result of a failed select: the process dies |
| `ReadTotal`, `Bs01InsertsDefault` | `getBatterytotal`, which closes no connection and returns -1 when no schema can be selected |
| `Inspect`, `Connect`, `InsertGroup`, `InsertCell`, `InsertedAll`, `DeleteAndClose` | bs01 around `writeToMysql` and `deleteOldData` |
| `OpenForCurrent`, `InsertCurrent`, `Sleep` | `AddCurrentData` and the second of sleep |
| `Tick`, `Refuse`, `TakeAgain`, `Configure`, `Kill` | the clock, the server, the operator, the end of the process |

An insert keeps a row that is there with the same key. A statement may fail (`Fault`), each failure, outage or kill
counting against `MaxFaults`. `cut` and `failed` remember which sets of rows the process died in, and which had a
statement fail: they say what a set may lack. `refused` counts the connections an early return left open.
Assumptions: the clock does not go back; between the start and the first set of rows at least a second
passes if there is a cell at all, since a resistance alone takes six; the statements of `deleteOldData` are refused by the
server because of a full-width comma, so that nothing is deleted; an outage takes no connection that is open.

### 2.8 CurrentSensor

The bytes are bytes here, because nothing but their values keeps frames apart. `rx` and `air` are as in `SerialLink`. The
line loses a reply, cuts it short, or puts a stray byte before it; it does not alter the two data bytes, which without a
checksum nobody could notice. The 25 polls are a window that may close
whenever there is nothing left to read. A reading is its code times 13/10240 V (0.00126953125 V), so `value` and
`current` are exact integers in 1/10240 V and 1/256 A. A sensor's port that could not be opened keeps the thread in
`DrainRead` for ever (`portOpen`).

### 2.9 FrameCodec

A code is the 16 bits of a reading. `decodeData` is stated in millivolts as the exact quotient that the floating-point expression
approximates, with `Rounded` for `(int)(x * 1000 + 0.5)`: the operands are small enough for doubles to be exact except for the multiplication
by 1000, whose ties are powers of two and therefore exact too. For the checksum a byte is the set of its bits. `MCVoltageControl` takes its voltages from
`decodeData`, and `DischargesHigherCode` compares the codes behind them.

## 3. Runs

| Run | Instance | What it shows |
|---|---|---|
| `pack` | 2 cells, 1 connection, 2 passes, 1 reading | no torn reply, no lost current, rows of one inspection; refinement of `SharedPack`; requests answered, inspections published while the client reads; what is served against every chunk of two requests |
| `pack_unread` (fails) | 1 cell, 1 connection that may stop reading | bs01 can wait for the mutex for ever |
| `control` | 3 cells around the margin | commands follow the minimum if cell 1 answers; recovery after faults; a discharged cell sent a higher code than another |
| `control_silent` (fails) | the same | without cell 1 the lowest cell is discharged |
| `inspection` | groups of 1 or 2, periods 2 and 3, clock to 5, 2 kills | the seven properties of the loop and its file |
| `inspection_reuse` (fails) | 2 cells, 1 kill | a process started from a cut file never measures the first cells again |
| `inspection_daily` (fails) | 2 cells, no kill | without a file every inspection measures every resistance |
| `serial` | 2 cells, all commands, frames of 3 bytes, 2 polls | the answer is ours; one lost or short reply is made up for; refinement of `SerialCall`; two transmissions at most; the call returns |
| `network` | 2 hosts, one of them with requests, a PC on one port, 2 other numbers, 5 descriptors, 2 threads | threads keep to their connections, descriptors return, hosts are served |
| `storage` | groups of 1 or 2, 4 connections, clock to 3, 2 faults | sets of rows are whole unless cut into, connections bounded, settings kept, no second twice |
| `sensor` | three readings, three stray bytes, 2 late bytes | a value in range was measured; one lost or short reply is made up for; currents keep coming |
| `network_serial_port` (fails) | 1 host | what comes in over a serial port starts no thread |

The runs marked *fails* each check one statement of a comment of the code and find it
violated; `findings` in `PROJECT.json` quotes the comment. `CHECK_DEADLOCK FALSE` is used
for the network runs only, because there the process may exit.

### 3.1 What the properties say

* `ReplyUntorn`, `CurrentNotLost`, `RowIsOneInspection`: the three things that go wrong if a
  lock is missing or in the wrong place. The third holds *although* `writeToMysql` takes no lock,
  because only bs01 writes anything but the current; a control pass that ran before the rows
  are complete would break it. `BehavesAtomically` is the statement behind all three.
* `FollowsMinimum`: a commanded cell lies the margin above another one that was heard, and a cell told
  to stop at most the margin above every other. `Recovers`: from any state of relays and locals,
  after the last fault, every pass ends with the dischargers as the voltages ask.
* `NothingUninitialised`, `RemembersLatest`: `mybattery_pack` is an uninitialised local and `old_count`
  is read once; that the combination never publishes garbage needs the argument of section 5.
* `ScheduleBounded`, `InterruptedIsRedone`, `NotRepeatedEarly`: the restart neither postpones,
  nor loses, nor repeats an inspection. `InspectionComes`: it comes, and is published, unless the process is killed
  or the thread stays in a call over the serial line for ever, which the code allows (section 7).
* `AnswerIsOurs`: draining is all that keeps calls apart, and suffices for each call that begins
  with nothing on its way, whatever happened before. `OneLossTolerated`: a single reply that is lost, damaged or short is made
  up for by the other transmission. It promises nothing once the line has brought a byte too many, a stray one or one after its window:
  nothing clears the buffer between the transmissions, so one such byte can cost the whole call (section 7).
* `BehavesAsCall` says it of the steps: nothing is returned but at the end of a call, whose arguments have stayed what they were, and what
  is returned is of the kind the command has.
* `AtMostOneRetransmission` leaves the resistance out: its follow-up resets the counter of attempts.
* `FirstIsAnswered`, `DataWereAsked`: requests that arrive together are one request to the server, the first;
  and data is sent for a chunk that does not begin with a request in one case only, eight bytes from the second
  byte of one on.
* `SetsAreWhole`: the key of a set is taken once, rows come in order, and the next set of the same or of another
  process has another key; so a set of rows is a prefix of a whole one unless one of its own statements failed,
  and whole unless the process ended in the middle of it. `SettingKept`: three places decide upon a default by a
  select and insert it later. `ConnectionsBounded`, `EverySecondOnce`: of the connection and the row per second.
* `InRangeMeansMeasured`: two frames cannot be spliced into one that looks right and lies within the sensor's
  range, even with readings that contain the marks. `OneLossTolerated` (of `CurrentSensor`): where the line brings no byte
  too many, the absurd currents of section 7 need two lost or short replies, or one and a true 0 V. With one stray byte
  a single window may be enough.
* `DischargesHigherCode`: the control compares decoded, rounded voltages; the order it finds is that of the codes the
  cells sent. The theorem says it of all codes (section 5).
* `ThreadsKeepToTheirOwn`, `SelectStaysGood`: under the hypothesis that the ports lie
  above the socket, which is where the order of opening puts them. The run also reaches the states where it
  fails (another thread had a lower number while the socket was made and gave it back before the port was opened):
  there the port is watched, its threads close it, and the number goes to somebody else or select exits.

### 3.2 Bounds, and why they are enough

* *Two cells, one client*: a torn copy needs two fields of one kind, a mixed reply one reader and one
  writer; no action counts cells or clients. The proofs remove this bound.
* *Two passes*: one value to be overwritten and one that overwrites it.
* *Three cells, {2000, 2030, 2035} mV*: below, exactly at, and beyond the margin, with the minimum at either end.
* *Periods 2 and 3, clock to 5, two kills*: the voltage is due while the resistance is not and the other way
  round, a full period passes after the second kill, and a second kill can hit the inspection that repairs the first.
* *Frames of 3 bytes, 2 polls, at most one late byte*: a first, an inner and a last byte, a poll that sees part of a frame and one that
  sees the rest. The late byte is what makes the hypothesis of `AnswerIsOurs` fail.
* *Groups of one and two cells, two faults, clock to 3* (`storage`): a set can be cut, continued by nobody, and followed by
  one of another size; two faults are a kill and a failing statement, or two connections forgotten. *Four
  connections*: three and one forgotten, so the limit is also met. The proofs remove these bounds.
* *Readings 0, and two that contain a mark; two late bytes* (`sensor`): the reading that is repeated though it is right, frames
  that look shifted inside, and the rest of a frame that the next call drains or does not.
* *Commands 0 to 4 and 255, numbers 0 to 3 and 255* (`pack`): commands with and without an answer, numbers that are commands, a number beyond the
  group, and a byte as `memset` leaves it; two requests, cut anywhere. The theorems remove this bound.
* *Five descriptors*: socket, two ports and two of {host, host, dis01's, bs01's}, so the table also fills up. *Two
  threads*: both hosts have one, and a third connection meets the limit. *One host that sends, one port with a PC*: a request
  concerns its own connection only; the other host contends for numbers, threads and `accept`. The proofs remove these bounds.

### 3.3 Fairness, and why the code justifies it

* Threads run (`WF`): they are pthreads under a fair scheduler, and every blocking call in
  them other than the mutex, `send` and the calls over the serial line returns by itself: windows are counted polls, sleeps end.
* The mutex is strongly fair per thread: pthreads promise no such thing, but between two critical sections
  dis01 sleeps for a second, bs01 talks to the line and a connection waits for its next request, so the mutex is
  free for long stretches.
* `ClientFairness` (clients read on) is an assumption about the peers, made by `pack` only; `pack_unread`
  shows that the liveness properties need it.
* In `VoltageControl` only the steps of the pass are fair; losing and healing are not, and `Recovers` speaks of the time after healing.
* In `Inspection` the clock, and the thread outside its calls over the serial line (`~Calling`), some of which may never return; `MaxStay` bounds how far the clock gets during an inspection.
* In `SerialLink` and `CurrentSensor` the thread and the arrival of bytes already sent. `Storage` has no liveness property: nothing makes the server come back. In `NetworkServer` the server
  and each connection thread; the hosts and the other threads do as they like.

## 4. What is proved

All theorems hold for any values of the constants that satisfy the named assumptions.

| Theorem | Statement | Assumes |
|---|---|---|
| `BatteryPackProofs!TypeCorrect`, `MutualExclusion`, `CurrentIsNotLost`, `RowsAreOneInspection`, `RepliesAreUntorn` | `Spec => []...` | `PackBounds`, `ThreadNames` |
| `BatteryPackProofs!FirstOnesAreAnswered`, `ServedDataWereAsked` | `Spec => []...` | these and `AsksAreBytes`, `CellsAreFinite` |
| `BatteryPackProofs!FirstRequestIsAnswered`, `DataAreAskedFor` | of any stream of requests and any chunk of it | - |
| `BatteryPackRefinement!ImplementsAtomicRecord` | `Spec => BehavesAtomically` | `PackBounds`, `ThreadNames` |
| `VoltageControlProofs!TypeCorrect`, `PassFollowsMinimum`, `PassDischargesHigherCode` | `Spec => []...` | `GroupSize`, `VoltsAreMV` |
| `InspectionProofs!TypeCorrect`, `PublishesNothingUninitialised`, `FileRemembersLatest`, `ScheduleIsBounded` | `Spec => []...` | `TotalsFit`, `PeriodsPositive`, `Bounds` |
| `InspectionProofs!InterruptedInspectionIsRedone`, `RestartRepeatsNothingEarly` | action properties | the same |
| `SerialLinkProofs!ImplementsCall` | `Spec => BehavesAsCall` | `FrameShape`, `PollsKnown`, `CommandSet` |
| `SerialLinkProofs!TypeCorrect`, `AnswersAreOurs`, `SilenceIsTwoFailures`, `TransmittedTwiceAtMost`, `RetransmissionSuffices` | `Spec => []...` | the same |
| `StorageProofs!TypeCorrect`, `SetsStayWhole`, `ConnectionsAreBounded`, `SettingIsKept`, `EverySecondIsOnce` | `Spec => []...` | `TotalsPositive`, `StorageBounds` |
| `NetworkServerProofs!TypeCorrect`, `OwnConnections`, `SelectNeverMeetsAClosedOne` | `Spec => []...` | `Limits`, `Lines`, `Hosts` |
| `CurrentSensorProofs!TypeCorrect`, `MarksAreEnough`, `SecondAttemptSuffices` | `Spec => []...` | `SensorRange`, `LineBounds` |
| `VoltageControlProofs!DecodeIsMonotone`, `DecodeKeepsOrder`, `DecodeRange` | of all 30720 codes that are numbers | - |
| `VoltageControlProofs!DamageIsNoticed`, `ZerosAcknowledgeOff` | of all bytes, of a frame of zeros | - |

`ThreadNames` and `Hosts` say that a client has no name the models use for something else (a thread, a kind of descriptor).
`CellsAreFinite` is there because `PackRequests` numbers the cells. Every other assumption is a range that the code or the
protocol gives. Every invariant that a passing run checks has a theorem, and so have the action properties and the two refinements.

## 5. Along which argument

**BatteryPack.** None of the safety properties is inductive: a half-made copy says nothing of what the reader will
see. `IInv` adds: who is inside a critical section holds the mutex (`MutexHeld`); what each copy has still to move,
by the location of its thread (`TodoBs01`, `TodoClients`); the local record's current equals the shared one while it is
copied (`CurrentInv`); outside bs01's copies all of one inspection's fields carry one stamp, voltages are no
older, and during a copy the moved part carries the new stamp and the rest the old (`StampInv`); what a client
has received so far equals the shared memory, which cannot change while it holds the mutex (`ReplyInv`); and the rows so far
equal the shared memory apart from the current, since bs01, the only other writer, is busy writing rows (`RowInv`).
One lemma per conjunct, one step per action; the theorems follow from `Invariance`.

**Refinement.** With `IInv`, every step maps to one step of `SharedPack` or to none: `LoadCurrent` to
`PublishInspection`, `StoreCurrent` to `PublishCurrent`, the lock that opens `copy_voltages` to `PublishVoltages`, `Recv`
to `Ask`, the last `SendField` to `Answer`, `RecordGroup` to `Record`; the copies of single
fields to stutters, because the mapping already shows the record as it will be.

**VoltageControl.** The invariant says what the running minimum is after the cells measured so far: below or equal
to every kept reading, and one of them if cell 1 was heard, and that the readings stay while the commands go out. A cell that is
told to discharge then lies the margin above another one that was heard;
`DecodeKeepsOrder` turns that order of voltages into one of codes, for whichever codes decode to them (`DischargesHigherCode`).

**Inspection.** `Shape` ties location, counters and file together (how long the file is at each location, that it never holds
more resistances than its header says); `Known` says that the first `old_count` resistances of the local
record are initialised, and during an inspection those of the cells already passed, whatever group size the file was written for. `RemembersLatest` and `ScheduleBounded` are
inductive with these. `NotRepeatedEarly` needs `Spaced`: no cell was tried later than `MaxStay` after the beginning of the last inspection
(`Clocks`); the voltage time, in the header and in memory, is that beginning and a period, or had come when the thread was started
(`VoltageSpaced`); and the resistance time lies a day after the last cell of the group was tried, but for `MaxStay`, or has come, and then
the file is not that of a complete inspection and the one under way still measures that cell (`ResistanceSpaced`). The
last cell is the witness of the theorem, since its measurement alone moves the resistance time (`bs01thread.c:166`).

**SerialLink.** `LineInv` is the argument behind `AnswerIsOurs`: a call that drains its buffer and finds nothing on the way has only
answers to itself, and stray bytes, in `readstr`, in the buffer and on the line from then on; every read, delivery and
transmission keeps the line within such a set of bytes (`SendKeeps`, `DeliverKeeps`, `PollKeeps`, for any set), and a frame that
is accepted begins with a byte of it that is not stray. `AttemptsInv` counts: every attempt but the current one has failed. `LossInv`
counts what the line did instead: without a byte too many and with less than two losses, a window begins with nothing left of the one
before and holds its own reply, whole or, after a loss of this very window, damaged; so each failed attempt has cost a reply.
The refinement follows from these: `Accept` and `GiveUp` are the `Return` of `SerialCall`, every other step of a call is a `Disturb`, which may change nothing,
and a byte that arrives between two calls is a stutter. What `AcceptsItsOwn` needs besides is that the answers on the line are of the kind their
command has, and that no -2 of a resistance is accepted.

**NetworkServer.** Under `PortsAbove`, every thread that has not ended has a number under which its own connection stands and that no
other such thread has, or none at all (`ThreadInv`); `select` watches the socket alone, which nobody closes (`SocketInv`). Who closes a
number is its only holder, so the number that `accept` takes next, the lowest free one (`LeastFree`, by the well-founded
subset order), is nobody's. Threads start only when both ports have been opened, once each (`StartInv`), so the hypothesis does not
change while there are any.

**CurrentSensor.** What a window has received and may still receive is the rest of an earlier reply of this call and its own reply
(`LineInv`). Four bytes of such a concatenation of whole, cut and shifted replies that have both marks and a value within the
range are a reading: the second byte of a reading is at most 15, and no mark is that small (`MarksSuffice`).
`LossInv` is the sharper statement for a call without a byte too many and with less than two losses: nothing is left behind.

**Storage.** `ConnsInv` gives every open connection its place in the code, or an early return that forgot it. `KeysInv`
says that the next set of rows that has cells gets a key no row has: the keys so far lie behind the clock, and behind the
time of the set when it begins. `WritingInv` then describes the set half written (the cells before `i` and no others),
`PrefixInv` and `WholeInv` the others; a total of -1 writes a group row and no cells, on a key that may be
taken, and keeps both. `CurrentsInv` is the same argument for the second of a current.

**FrameCodec** (in `VoltageControlProofs`). `decodeData` is a rounded quotient whose divisor halves from one exponent to the next;
`RoundedMonotone` reduces the comparison of two rounded quotients to one of cross products, which the significand's
range decides at every boundary between exponents. The exclusive or is the symmetric difference of sets of
bits, and cancellation shows that two frames differing in one byte are not both accepted. `SerialLink`'s abstraction of the
checksum follows from it except for a stray byte that equals the checksum of the three bytes it shifts.

**RequestFormat and PackRequests** (in `BatteryPackProofs`). Places are counted modulo 8. The prefix occurs at no other place of a stream, whatever the commands and
numbers are; and of the chunks of eight bytes that are let through by their size alone, only the one that begins at the
second byte has a command where one is looked for. Two requests are the beginning of such a stream (`TwoRequestsAreAStream`), and `IInv` keeps
what a connection serves one of the requests; the theorems follow with the two about streams.

## 6. Only model-checked

Liveness (`RequestAnswered`, `InspectionPublished`, `Recovers`, `InspectionComes`, `CallReturns`, `KeepsPublishing`,
`DescriptorsReturned`, `HostIsServed`), which is outside what TLAPS proves here. The theorems are about `Spec` without fairness, which
`FairSpec` implies. That the checksum as `SerialLink` abstracts it agrees with `genChecksum` is an argument (section 5), not a theorem.

## 7. What the code does that its comments do not say

With a run (section 3): a client that stops reading stops the measurements
(`networkCommunication.c:46`); an unanswered cell 1 sets the minimum to -1 (`bs01thread.c:36`); a start from a
cut file postpones the resistances of the first cells for ever (`bs01thread.c:165`); without a file
everything is measured every ten minutes (`bs01thread.c:156`); the serial ports to the PC are not
watched (`networkCommunication.c:168`).

Seen while modelling, without a run of their own:

* the margin is 0.03 V, the comment says 0.05 (`bs01thread.c:41`);
* the header of the file promises resistances of a day from now in every inspection, measured or not (`:142`), and part of the
  header of a short file is believed (`:79`, `:122`);
* a resistance that is answered with an invalid number is asked for without bound (`s800serialDAO.c:124`): `AtMostOneRetransmission` and `CallReturns` leave it out;
* a reply that comes after its call is accepted by a later one (`s800serialDAO.c:77`, `:111`): `AnswerIsOurs` assumes it away by `~late`;
* one stray byte, or one after its window, costs a call both transmissions, because nothing clears the buffer in between
  (`:107`): `OneLossTolerated` assumes it away by `~surplus`;
* one stray 0xaa before a reading that ends in 0xcc is a frame with both marks, and an absurd current is published after a
  single window (`:43-55`); other stray bytes spoil both windows;
* after the follow-up 0x22 a single failed window returns -1 (`:129`);
* draining a port that was not opened never ends (`:77`): `CallReturns` and `KeepsPublishing` assume `portOpen`,
  and `InspectionComes` grants both this and the resistance without bound by `[]Calling`;
* the 200 ms of silence the protocol asks for are not kept (`:192`);
* a frame of zeros has a right checksum and acknowledges `charge_discharge_off` (`:176`, `VoltageControlProofs!ZerosAcknowledgeOff`);
* a sensor that does not answer is published and stored as -140 A (`dis01thread.c:31`), a shifted frame as a current
  beyond the range, and a true 0 V is asked for twice (`s800serialDAO.c:54`);
* requests that arrive together are answered once, a request that arrives in two parts twice, and eight bytes from the
  second byte of a request on are obeyed (`networkCommunication.c:40`, where one of the two tests is enough);
* the statements that delete old rows are not accepted by the server (`manageData.c:159`, `:191`), so no row is ever deleted;
* the process dies whenever the database takes no connection (`manageData.c:28`), and `getBatterytotal` keeps its
  connection (`:325`).

## 8. Not modelled

* *Terminal attributes and logging* (`openSerial`, `RedirectStdIO`, `printftime`): pure I/O; what the program depends on, that opening
  fails, is in the models.
* *Sources that are not built* (`serialToPC.c`, `s800bmSemaphore.c`, `mainoftest.c`, `maintest.c`, `temptest.c`): not part of the program.
* *The vendored MySQL headers*, by far the most of the repository's lines: declarations of a library that is external to the models. The
  program's own sources are some 1800 lines.
* *A clock that is set back* (`bs01thread.c:134`): `Inspection` and `Storage` assume it is not; no inspection would come until it has caught up.
* *More cells than `MAX_BATTERY_TOTAL`* (`bs01thread.c:68`): undefined behaviour from the first copy on.
* *Retention*: the deleting statements have no effect to be modelled.
* *A power failure that undoes the truncation* of `RES_FILE` and brings an older file back (`bs01thread.c:140`).
* *Damage to the data bytes of the current frame*, which nothing in the code could notice; *a failing `read` on an open port*.

What a continuation would take up: `VoltageControl` and `Inspection` composed with `SerialCall` instead of readings of their own; a clock
that goes back.
