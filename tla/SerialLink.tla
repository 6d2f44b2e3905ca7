----------------------------- MODULE SerialLink -----------------------------
(***************************************************************************)
(* One call over the serial line of bs01: sendSerialTextCommand and         *)
(* sendSerialControlCommand with SendToSerialAndRecv (s800serialDAO.c).     *)
(*                                                                         *)
(* A call clears the receive buffer, sends its command, polls Polls times   *)
(* for a frame of FrameLen bytes, and sends once more if it got none that   *)
(* is valid.  The frames carry the number of the cell, which nobody looks   *)
(* at.  On the line a reply may be lost, damaged, cut short or preceded by  *)
(* a stray byte, and it may be slow; bytes never overtake each other.       *)
(*                                                                         *)
(* A byte is modelled by the frame and the place it belongs to; the XOR     *)
(* checksum by what it is for: it accepts the bytes of one frame in order.  *)
(***************************************************************************)
EXTENDS Integers, Sequences

CONSTANTS Cells,        \* the batteries on the line
          Commands,     \* the commands issued: some of "voltage", "res", "open"
          FrameLen,     \* 4
          Polls,        \* 25, one every 40 ms
          MaxLate       \* bound: bytes still on their way when a call transmits

ASSUME FrameShape == FrameLen \in Nat /\ FrameLen > 1
ASSUME PollsKnown == Polls \in Nat \ {0} /\ MaxLate \in Nat
ASSUME CommandSet == Commands \subseteq {"voltage", "res", "open"}

VARIABLES portOpen,     \* did openSerial succeed? nobody looks
          pc,
          call,         \* the arguments: cell and command
          code,         \* the command byte now sent; "res2" stands for 0x22
          i,            \* the loop counter of the two attempts
          buf,          \* readstr
          polls,        \* the loop counter of SendToSerialAndRecv
          rx,           \* received bytes nobody has read
          air,          \* bytes on their way
          result,       \* the frame accepted, or Silent
          sends,        \* history: transmissions of this call, 3 for any more
          fails,        \* history: windows of this call without a valid frame
          losses,       \* history: replies of this call lost or damaged, 2 for more
          surplus,      \* history: a stray byte, or one after its window, in this call
          late          \* history: old bytes were on their way when the call began

history == <<sends, fails, losses, surplus, late>>
vars == <<portOpen, pc, call, code, i, buf, polls, rx, air, result, history>>

\* What a cell answers: a number, something decodeData refuses (-2), or the
\* echo of a control command.
Answers(c) == IF c = "open" THEN {"ack"} ELSE {"value", "nan"}

Codes   == Commands \cup (IF "res" \in Commands THEN {"res2"} ELSE {})
Byte(b, c, a, k) == [cell |-> b, cmd |-> c, ans |-> a, at |-> k]
Frame(b, c, a)   == [k \in 1..FrameLen |-> Byte(b, c, a, k)]
Frames  == {Frame(b, c, a) : b \in Cells, c \in Codes, a \in {"value", "nan", "ack"}}
Stray   == Byte("nobody", "none", "noise", 0)
Silent  == Byte("nobody", "none", "-1", 0)      \* returned for no answer

\* What the line may make of the answers of cell b to code c.
Intact(b, c)  == {Frame(b, c, a) : a \in Answers(c)}
Damaged(b, c) ==
    {<<>>} \cup UNION {{ [f EXCEPT ![FrameLen] = Stray], SubSeq(f, 1, FrameLen - 1) }
                         : f \in Intact(b, c)}
Shifted(b, c) == {<<Stray>> \o f : f \in Intact(b, c)}

OneMoreLoss == IF losses < 2 THEN losses + 1 ELSE 2

\* What the line makes of the answer to the command.
Reply ==
    \/ /\ \E r \in Intact(call.cell, code) : air' = air \o r
       /\ UNCHANGED <<losses, surplus>>
    \/ /\ \E r \in Damaged(call.cell, code) : air' = air \o r
       /\ losses' = OneMoreLoss
       /\ UNCHANGED surplus
    \/ /\ \E r \in Shifted(call.cell, code) : air' = air \o r
       /\ surplus' = TRUE
       /\ UNCHANGED losses

\* The polls of a transmission are over.
WindowOver == pc = "poll" /\ polls = Polls

Init ==
    /\ portOpen \in BOOLEAN
    /\ pc = "idle"
    /\ call \in [cell : Cells, cmd : Commands]
    /\ code = call.cmd
    /\ i = 0
    /\ buf = <<>>
    /\ polls = 0
    /\ rx = <<>>
    /\ air = <<>>
    /\ result = Silent
    /\ sends = 0 /\ fails = 2 /\ losses = 2 /\ surplus = FALSE /\ late = FALSE

-----------------------------------------------------------------------------

Begin ==
    /\ pc = "idle"
    /\ call' \in [cell : Cells, cmd : Commands]
    /\ code' = call'.cmd
    /\ i' = 0
    /\ sends' = 0 /\ fails' = 0 /\ losses' = 0 /\ surplus' = FALSE /\ late' = FALSE
    /\ result' = Silent
    /\ pc' = "drain"
    /\ UNCHANGED <<portOpen, buf, polls, rx, air>>

\* while (read(...)) tcflush(...): any data empties the buffer, and so would
\* the -1 of a file that is not open.
DrainRead ==
    /\ pc = "drain"
    /\ rx # <<>> \/ ~portOpen
    /\ rx' = <<>>
    /\ UNCHANGED <<portOpen, pc, call, code, i, buf, polls, air, result, history>>

NoDrain ==
    /\ pc = "drain"
    /\ portOpen
    /\ Len(air) <= MaxLate
    /\ late' = (air # <<>>)
    /\ pc' = "send"
    /\ UNCHANGED <<portOpen, call, code, i, buf, polls, rx, air, result, sends, fails, losses, surplus>>

DrainDone ==
    /\ pc = "drain"
    /\ portOpen
    /\ rx = <<>>
    /\ Len(air) <= MaxLate
    /\ late' = (air # <<>>)
    /\ pc' = "send"
    /\ UNCHANGED <<portOpen, call, code, i, buf, polls, rx, air, result, sends, fails, losses, surplus>>

SendKeepsBuffer ==
    /\ pc = "send"
    /\ Reply
    /\ polls' = 0
    /\ sends' = IF sends < 3 THEN sends + 1 ELSE 3
    /\ pc' = "poll"
    /\ UNCHANGED <<portOpen, call, code, i, buf, rx, result, fails, late>>

\* Transmit, with a new readstr; the cell answers into the line.
Send ==
    /\ pc = "send"
    /\ Reply
    /\ buf' = <<>>
    /\ polls' = 0
    /\ sends' = IF sends < 3 THEN sends + 1 ELSE 3
    /\ pc' = "poll"
    /\ UNCHANGED <<portOpen, call, code, i, rx, result, fails, late>>

\* The next byte comes in.
Deliver ==
    /\ air # <<>>
    /\ rx' = Append(rx, Head(air))
    /\ air' = Tail(air)
    /\ surplus' = (surplus \/ WindowOver)
    /\ UNCHANGED <<portOpen, pc, call, code, i, buf, polls, result, sends, fails, losses, late>>

AskedAlways == FrameLen

\* How many bytes a poll asks for: 4 - readlen.
AskedFor == FrameLen - Len(buf)

PollsUntilData(n) ==
    IF n = 0 THEN polls ELSE IF Len(buf) + n >= FrameLen THEN Polls ELSE polls + 1

\* The loop counter after a poll that read n bytes: a full frame ends it.
PollsAfter(n) ==
    IF n > 0 /\ Len(buf) + n >= FrameLen THEN Polls ELSE polls + 1

Poll ==
    /\ pc = "poll"
    /\ polls < Polls
    /\ LET n == IF Len(rx) < AskedFor THEN Len(rx) ELSE AskedFor
       IN  /\ buf' = buf \o SubSeq(rx, 1, n)
           /\ rx' = SubSeq(rx, n + 1, Len(rx))
           /\ polls' = PollsAfter(n)
    /\ UNCHANGED <<portOpen, pc, call, code, i, air, result, history>>

\* Four bytes with the right checksum; an acknowledgement repeats the command.
Valid ==
    /\ buf \in Frames
    /\ call.cmd = "open" => buf[1].cmd = "open" /\ buf[1].ans = "ack"

FollowedOnce == call.cmd = "res" /\ code = "res" /\ buf[1].ans = "nan"

\* Measuring a resistance out of range is followed up with 0x22.
Followed == call.cmd = "res" /\ buf[1].ans = "nan"

\* The call returns r; its locals are gone.
Return(r) ==
    /\ result' = r
    /\ pc' = "idle"
    /\ code' = call.cmd
    /\ i' = 0
    /\ buf' = <<>>
    /\ polls' = 0

Accept ==
    /\ WindowOver
    /\ Valid
    /\ ~Followed
    /\ Return(buf[1])
    /\ UNCHANGED <<portOpen, call, rx, air, history>>

\* i = 0, and then the loop's i++.
FollowUp ==
    /\ WindowOver
    /\ Valid
    /\ Followed
    /\ code' = "res2"
    /\ i' = 1
    /\ pc' = "send"
    /\ UNCHANGED <<portOpen, call, buf, polls, rx, air, result, history>>

LastAttemptThird == i = 2
LastAttempt == i = 1

Retry ==
    /\ WindowOver
    /\ ~Valid
    /\ ~LastAttempt
    /\ i' = i + 1
    /\ fails' = fails + 1
    /\ surplus' = (surplus \/ air # <<>>)
    /\ pc' = "send"
    /\ UNCHANGED <<portOpen, call, code, buf, polls, rx, air, result, sends, losses, late>>

GiveUp ==
    /\ WindowOver
    /\ ~Valid
    /\ LastAttempt
    /\ fails' = fails + 1
    /\ surplus' = (surplus \/ air # <<>>)
    /\ Return(Silent)
    /\ UNCHANGED <<portOpen, call, rx, air, sends, losses, late>>

-----------------------------------------------------------------------------

\* What the thread does once it has called.
Call ==
    \/ DrainRead \/ DrainDone
    \/ Send \/ Poll
    \/ Accept \/ FollowUp \/ Retry \/ GiveUp

Next == Begin \/ Call \/ Deliver

Spec == Init /\ [][Next]_vars

\* The thread runs and what is on the line arrives.
FairSpec == Spec /\ WF_vars(Call) /\ WF_vars(Deliver)

-----------------------------------------------------------------------------

Bytes == {Byte(b, c, a, k) : b \in Cells, c \in Codes, a \in {"value", "nan", "ack"},
                             k \in 1..FrameLen}

TypeOK ==
    /\ portOpen \in BOOLEAN
    /\ pc \in {"idle", "drain", "send", "poll"}
    /\ call \in [cell : Cells, cmd : Commands]
    /\ code \in Codes
    /\ i \in 0..1
    /\ buf \in Seq(Bytes \cup {Stray}) /\ Len(buf) <= FrameLen
    /\ polls \in 0..Polls
    /\ rx \in Seq(Bytes \cup {Stray})
    /\ air \in Seq(Bytes \cup {Stray})
    /\ result \in Bytes \cup {Silent}
    /\ sends \in 0..3
    /\ fails \in 0..2
    /\ losses \in 0..2
    /\ surplus \in BOOLEAN
    /\ late \in BOOLEAN

\* What a call returns is an answer of the cell it asked, to the command it
\* asked, although no reply is checked for either: clearing the buffer at the
\* start is all that keeps the answers to earlier calls apart, and it is
\* enough for every call that begins with nothing on its way, whatever
\* happened in the calls before (s800serialDAO.c:77-79, 111-114).
AnswerIsOurs ==
    pc = "idle" /\ result # Silent /\ ~late =>
        /\ result.cell = call.cell
        /\ \/ result.cmd = call.cmd
           \/ call.cmd = "res" /\ result.cmd = "res2"

\* The comment of s800serialDAO.c:129, for all commands but the resistance:
\* -1 is returned when both of the two transmissions failed.
SilenceMeansTwoFailures ==
    pc = "idle" /\ result = Silent /\ call.cmd # "res" => fails = 2

\* The comment of s800serialDAO.c:104: without an answer, or with a wrong one,
\* the command is transmitted once more.  It is not so for a resistance, whose
\* follow-up resets the counter (:120-124) and may be sent without end.
AtMostOneRetransmission == call.cmd # "res" => sends <= 2

\* One lost, damaged or short reply costs nothing: the call then gets its
\* answer from the other transmission, whose window the bytes of the first must
\* not reach into (s800serialDAO.c:104-110).  It is promised only for a call
\* with no byte too many: nothing clears the buffer between the transmissions, so
\* one stray byte, or one after its window, spoils them both.
OneLossTolerated ==
    pc = "idle" /\ result = Silent /\ call.cmd # "res" /\ ~late /\ ~surplus =>
        losses = 2

\* What the caller gets: the frame's bytes but for their place in it.
Answer == [cell |-> result.cell, cmd |-> result.cmd, ans |-> result.ans]

Caller == INSTANCE SerialCall WITH busy <- pc # "idle", answer <- Answer

\* Draining, windows, retransmission and follow-up together keep what a call
\* promises: arguments that stay, its own answer of the kind the command has, or
\* a -1 that two losses or a byte too many account for (s800serialDAO.c:74-131,
\* 142-187).
BehavesAsCall == Caller!Spec

\* Every call on an open port returns, with an answer or with -1 when there is
\* none (s800serialDAO.c:69); a resistance may be asked for without end.
CallReturns == pc = "drain" /\ portOpen /\ call.cmd # "res" ~> pc = "idle"

=============================================================================
