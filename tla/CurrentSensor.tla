--------------------------- MODULE CurrentSensor ---------------------------
(***************************************************************************)
(* The thread of the current sensor, dis01thread.c, with its protocol,      *)
(* sendSerialTextCurrent over SendToSerialAndRecv (s800serialDAO.c).        *)
(*                                                                         *)
(* Once a second it clears the receive buffer, asks the sensor for the      *)
(* voltage it puts out, asks once more if that failed or was zero, and      *)
(* publishes the current that the voltage stands for.  A frame is a first   *)
(* byte, a reading of two, and a last byte: there is no checksum.  On the   *)
(* line a reply may be lost, cut short or preceded by a stray byte, and it  *)
(* may be slow; bytes never overtake each other.                            *)
(*                                                                         *)
(* The polls of one transmission are abstracted to a window that may close  *)
(* whenever there is nothing left to read.                                  *)
(***************************************************************************)
EXTENDS Integers, Sequences

CONSTANTS Readings,     \* what the sensor may measure, in steps of its converter
          Strays,       \* the values of a stray byte
          MaxLate       \* bound: bytes still on their way when a call transmits

FrameLen == 4
Sync     == 170         \* 0xaa
End      == 204         \* 0xcc

\* The sensor puts out 0 to 5 V, which its converter divides into steps of
\* 0.00126953125 V.
LastCode == 3938

ASSUME SensorRange == Readings \subseteq 0..LastCode
ASSUME LineBounds == Strays \subseteq 0..255 /\ MaxLate \in Nat

VARIABLES portOpen,     \* did openSerial succeed? nobody looks
          pc,
          i,            \* the loop counter of the two attempts
          buf,          \* readstr
          rx,           \* received bytes nobody has read
          air,          \* bytes on their way
          value,        \* resValue, in units of 1/10240 V
          current,      \* group_battery.group_current, in units of 1/256 A
          sent,         \* history: the readings of this call's replies
          losses,       \* history: replies of this call lost or cut short
          surplus,      \* history: a stray byte, or one after its window, in this call
          late          \* history: old bytes were on their way when the call began

vars == <<portOpen, pc, i, buf, rx, air, value, current, sent, losses, surplus, late>>

Frame(c)     == <<Sync, c \div 256, c % 256, End>>
Damaged(c)   == {SubSeq(Frame(c), 1, n) : n \in 0..FrameLen - 1}
Shifted(c)   == {<<s>> \o Frame(c) : s \in Strays}

OneMoreLoss == IF losses < 2 THEN losses + 1 ELSE 2

Init ==
    /\ portOpen \in BOOLEAN
    /\ pc = "drain"
    /\ i = 0
    /\ buf = <<>>
    /\ rx = <<>>
    /\ air = <<>>
    /\ value = 0
    /\ current = 0
    /\ sent = {} /\ losses = 0 /\ surplus = FALSE /\ late = FALSE

-----------------------------------------------------------------------------

\* while (read(...)) tcflush(...): any data empties the buffer, and so would
\* the -1 of a file that is not open.
DrainRead ==
    /\ pc = "drain"
    /\ rx # <<>> \/ ~portOpen
    /\ rx' = <<>>
    /\ UNCHANGED <<portOpen, pc, i, buf, air, value, current, sent, losses, surplus, late>>

NoDrain ==
    /\ pc = "drain"
    /\ portOpen
    /\ Len(air) <= MaxLate
    /\ late' = (air # <<>>)
    /\ pc' = "send"
    /\ UNCHANGED <<portOpen, i, buf, rx, air, value, current, sent, losses, surplus>>

DrainDone ==
    /\ pc = "drain"
    /\ portOpen
    /\ rx = <<>>
    /\ Len(air) <= MaxLate
    /\ late' = (air # <<>>)
    /\ pc' = "send"
    /\ UNCHANGED <<portOpen, i, buf, rx, air, value, current, sent, losses, surplus>>

\* Transmit, with a new readstr; the sensor answers into the line.
Send ==
    /\ pc = "send"
    /\ \E c \in Readings :
          /\ sent' = sent \cup {c}
          /\ \/ /\ air' = air \o Frame(c)
                /\ UNCHANGED <<losses, surplus>>
             \/ /\ \E r \in Damaged(c) : air' = air \o r
                /\ losses' = OneMoreLoss
                /\ UNCHANGED surplus
             \/ /\ \E r \in Shifted(c) : air' = air \o r
                /\ surplus' = TRUE
                /\ UNCHANGED losses
    /\ buf' = <<>>
    /\ pc' = "window"
    /\ UNCHANGED <<portOpen, i, rx, value, current, late>>

\* The next byte comes in.
Deliver ==
    /\ air # <<>>
    /\ rx' = Append(rx, Head(air))
    /\ air' = Tail(air)
    /\ UNCHANGED <<portOpen, pc, i, buf, value, current, sent, losses, surplus, late>>

AskedAlways == FrameLen

\* How many bytes a poll asks for: 4 - readlen.
AskedFor == FrameLen - Len(buf)

Poll ==
    /\ pc = "window"
    /\ rx # <<>>
    /\ Len(buf) < FrameLen
    /\ LET n == IF Len(rx) < AskedFor THEN Len(rx) ELSE AskedFor
       IN  /\ buf' = buf \o SubSeq(rx, 1, n)
           /\ rx' = SubSeq(rx, n + 1, Len(rx))
    /\ UNCHANGED <<portOpen, pc, i, air, value, current, sent, losses, surplus, late>>

WindowOverWhenFull == pc = "window" /\ Len(buf) >= FrameLen

\* The window is over with four bytes, or without them when nothing comes.
WindowOver == pc = "window" /\ (Len(buf) >= FrameLen \/ rx = <<>>)

\* Four bytes between the two marks.
Valid == Len(buf) = FrameLen /\ buf[1] = Sync /\ buf[FrameLen] = End

Code == 256 * buf[2] + buf[3]

Silent == -10240        \* -1

\* resValue of the attempt: the reading as a voltage, or -1.
Attempt == IF Valid THEN 13 * Code ELSE Silent

LeavesAtOnce == TRUE

\* if (resValue > 0) i = 2, and the end of the loop.
Leaves == Attempt > 0 \/ i = 1

Retry ==
    /\ WindowOver
    /\ ~Leaves
    /\ i' = i + 1
    /\ surplus' = (surplus \/ air # <<>>)
    /\ pc' = "send"
    /\ UNCHANGED <<portOpen, buf, rx, air, value, current, sent, losses, late>>

Return ==
    /\ WindowOver
    /\ Leaves
    /\ value' = Attempt
    /\ surplus' = (surplus \/ air # <<>>)
    /\ buf' = <<>>
    /\ pc' = "publish"
    /\ UNCHANGED <<portOpen, i, rx, air, current, sent, losses, late>>

\* (value - 2.5) * factor, with factor 40.
Amperes(v) == v - 25600

\* Under the mutex, whose part BatteryPack models; Storage models the row.
Publish ==
    /\ pc = "publish"
    /\ current' = Amperes(value)
    /\ pc' = "sleep"
    /\ UNCHANGED <<portOpen, i, buf, rx, air, value, sent, losses, surplus, late>>

\* sleep(1) is over, and the next call begins.
NextTurn ==
    /\ pc = "sleep"
    /\ i' = 0
    /\ sent' = {} /\ losses' = 0 /\ surplus' = FALSE /\ late' = FALSE
    /\ pc' = "drain"
    /\ UNCHANGED <<portOpen, buf, rx, air, value, current>>

-----------------------------------------------------------------------------

Turn == DrainRead \/ DrainDone \/ Send \/ Poll \/ Retry \/ Return \/ Publish \/ NextTurn

Next == Turn \/ Deliver

Spec == Init /\ [][Next]_vars

\* The thread runs and what is on the line arrives.
FairSpec == Spec /\ WF_vars(Turn) /\ WF_vars(Deliver)

-----------------------------------------------------------------------------

Bytes == 0..255

\* What the greatest two bytes would stand for.
LastValue == 13 * 65535

TypeOK ==
    /\ portOpen \in BOOLEAN
    /\ pc \in {"drain", "send", "window", "publish", "sleep"}
    /\ i \in 0..1
    /\ buf \in Seq(Bytes) /\ Len(buf) <= FrameLen
    /\ rx \in Seq(Bytes)
    /\ air \in Seq(Bytes)
    /\ value = Silent \/ value \in 0..LastValue
    /\ current \in Amperes(Silent)..Amperes(LastValue)
    /\ sent \subseteq Readings
    /\ losses \in 0..2
    /\ surplus \in BOOLEAN
    /\ late \in BOOLEAN

\* The two marks are enough of a frame, although there is no checksum: in a call
\* that begins with nothing on its way, a value within the sensor's 5 V is one it
\* measured for this call, never put together from two replies
\* (s800serialDAO.c:23-25, 43-48).  A stray byte can look like a mark, but then
\* the value is far beyond the range.
InRangeMeansMeasured ==
    pc = "publish" /\ ~late /\ value \in 0..13 * LastCode =>
        value \in {13 * c : c \in sent}

\* An absurd current, beyond the sensor's 100 A (dis01thread.c:15), is published
\* only after two lost or short replies, since the second attempt makes up for
\* one (s800serialDAO.c:33) - or after one when the sensor answered 0 V, which
\* is asked for again (:54).  It is promised only for a call with no byte too
\* many: one stray byte may be enough.  A stray 0xaa before a reading that ends
\* in 0xcc is taken for a frame at once (:43-55); any other leaves the last byte
\* of the reply unread, and with it the second window is spoilt as well, as
\* nothing clears the buffer between the attempts.
OneLossTolerated ==
    pc = "sleep" /\ ~late /\ ~surplus /\ current \notin -25600..25600 =>
        losses = 2 \/ (losses = 1 /\ 0 \in sent)

\* With an open port the current is published again and again, whatever the
\* line does (s800serialDAO.c:24, 210-221).
KeepsPublishing == portOpen => []<>(pc = "sleep")

=============================================================================
