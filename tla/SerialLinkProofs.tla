-------------------------- MODULE SerialLinkProofs --------------------------
(***************************************************************************)
(* Theorems about SerialLink, for any cells and commands, any length of a   *)
(* frame, any number of polls and any delay: its types, whose answer a call *)
(* returns, and how often it transmits.                                    *)
(***************************************************************************)
EXTENDS SerialLink, SequenceTheorems, TLAPS

(***************************************************************************)
(* The inductive invariant.                                                *)
(***************************************************************************)

\* The codes a call sends, and the bytes a cell answers to them.
CodesOf(cmd) == {cmd} \cup IF cmd = "res" THEN {"res2"} ELSE {}

BytesOf(b, C) == UNION {{Byte(b, c, a, k) : a \in Answers(c), k \in 1..FrameLen} : c \in C}

Ours == BytesOf(call.cell, CodesOf(call.cmd))

LineBytes == Bytes \cup {Stray}

\* Outside a call its locals are reset.
LocalsInv ==
    /\ code \in CodesOf(call.cmd)
    /\ pc \in {"idle", "drain"} => i = 0 /\ buf = <<>> /\ polls = 0

\* Every attempt but the current one has failed.
AttemptsInv ==
    /\ pc # "idle" => fails <= i
    /\ call.cmd # "res" /\ pc # "idle" =>
          fails = i /\ sends = i + IF pc = "poll" THEN 1 ELSE 0
    /\ call.cmd # "res" => sends <= 2

\* In a call that began with nothing on its way, whatever is on the line since
\* is an answer to it.
LineInv ==
    pc \in {"send", "poll"} /\ ~late =>
        /\ buf \in Seq(Ours \cup {Stray})
        /\ rx \in Seq(Ours \cup {Stray})
        /\ air \in Seq(Ours \cup {Stray})

ResultInv == pc = "idle" /\ result # Silent /\ ~late => result \in Ours

\* What the first transmission of a call, or the second after the first was lost,
\* leaves on the line as long as no byte too many came and one reply at most was
\* lost: nothing before it is sent; then the parts of one reply, in order, which is
\* damaged only if it is the one that is lost; and nothing that comes after the window.
Arriving == buf \o (rx \o air)

LossInv ==
    pc \in {"send", "poll"} /\ ~late /\ ~surplus /\ call.cmd # "res" /\ losses < 2 =>
        /\ losses >= i
        /\ pc = "send" => rx = <<>> /\ air = <<>>
        /\ pc = "poll" => \/ Arriving \in Intact(call.cell, code)
                          \/ Arriving \in Damaged(call.cell, code) /\ losses >= i + 1
        /\ WindowOver => rx = <<>>

IInv == /\ TypeOK /\ LocalsInv /\ AttemptsInv /\ LineInv /\ ResultInv /\ LossInv
        /\ SilenceMeansTwoFailures /\ OneLossTolerated

(***************************************************************************)
(* Bytes and frames.                                                       *)
(***************************************************************************)

LEMMA OursAreBytes ==
    ASSUME call \in [cell : Cells, cmd : Commands]
    PROVE  Ours \subseteq Bytes
<1>1. CodesOf(call.cmd) \subseteq Codes
  BY DEF CodesOf, Codes
<1>2. call.cell \in Cells
  OBVIOUS
<1>3. SUFFICES ASSUME NEW x \in Ours PROVE x \in Bytes
  OBVIOUS
<1>4. PICK c \in CodesOf(call.cmd), a \in {"value", "nan", "ack"}, k \in 1..FrameLen :
         x = Byte(call.cell, c, a, k)
  BY DEF Ours, BytesOf, Answers
<1> QED BY <1>1, <1>2, <1>4 DEF Bytes

LEMMA OursAreOurs ==
    ASSUME NEW x \in Ours
    PROVE  x.cell = call.cell /\ x.cmd \in CodesOf(call.cmd) /\ x.ans \in Answers(x.cmd)
<1>1. PICK c \in CodesOf(call.cmd) : \E a \in Answers(c), k \in 1..FrameLen :
         x = Byte(call.cell, c, a, k)
  BY DEF Ours, BytesOf
<1> QED BY <1>1 DEF Byte

\* No byte of a frame is the stray one.
LEMMA StrayIsNone == Stray \notin Bytes
<1>1. ASSUME NEW x \in Bytes PROVE x.cmd \in Codes
  <2>1. PICK b \in Cells, c \in Codes, a \in {"value", "nan", "ack"}, k \in 1..FrameLen :
           x = Byte(b, c, a, k)
    BY DEF Bytes
  <2> QED BY <2>1 DEF Byte
<1>2. Stray.cmd = "none" /\ "none" \notin Codes
  BY CommandSet DEF Stray, Byte, Codes
<1> QED BY <1>1, <1>2

\* Neither is the -1 that stands for no answer.
LEMMA SilentIsNone == Silent \notin Bytes
<1>1. ASSUME NEW x \in Bytes PROVE x.cmd \in Codes
  <2>1. PICK b \in Cells, c \in Codes, a \in {"value", "nan", "ack"}, k \in 1..FrameLen :
           x = Byte(b, c, a, k)
    BY DEF Bytes
  <2> QED BY <2>1 DEF Byte
<1>2. Silent.cmd = "none" /\ "none" \notin Codes
  BY CommandSet DEF Silent, Byte, Codes
<1> QED BY <1>1, <1>2

LEMMA IntactIsOurs ==
    ASSUME code \in CodesOf(call.cmd), NEW f \in Intact(call.cell, code)
    PROVE  f \in Seq(Ours) /\ Len(f) = FrameLen
<1>1. PICK a \in Answers(code) : f = Frame(call.cell, code, a)
  BY DEF Intact
<1>2. ASSUME NEW k \in 1..FrameLen PROVE Byte(call.cell, code, a, k) \in Ours
  BY DEF Ours, BytesOf
<1>3. f \in [1..FrameLen -> Ours]
  BY <1>1, <1>2 DEF Frame
<1> QED BY <1>3, FrameShape

(***************************************************************************)
(* Reading and writing keep the line within any set of bytes.              *)
(***************************************************************************)

LEMMA SendKeeps ==
    ASSUME NEW S, Stray \in S, air \in Seq(S),
           \A f \in Intact(call.cell, code) : f \in Seq(S) /\ Len(f) = FrameLen,
           Send
    PROVE  air' \in Seq(S)
<1>1. ASSUME NEW f \in Intact(call.cell, code)
      PROVE  /\ [f EXCEPT ![FrameLen] = Stray] \in Seq(S)
             /\ SubSeq(f, 1, FrameLen - 1) \in Seq(S)
             /\ <<Stray>> \o f \in Seq(S)
  <2>1. f \in Seq(S) /\ Len(f) = FrameLen /\ FrameLen \in 1..Len(f)
    BY FrameShape
  <2>2. [f EXCEPT ![FrameLen] = Stray] \in Seq(S)
    BY <2>1, ExceptSeq
  <2>3. \A k \in 1..FrameLen - 1 : f[k] \in S
    BY <2>1, FrameShape, ElementOfSeq
  <2>4. SubSeq(f, 1, FrameLen - 1) \in Seq(S)
    BY <2>3, FrameShape, SubSeqProperties
  <2>5. <<Stray>> \in Seq(S)
    OBVIOUS
  <2> QED BY <2>1, <2>2, <2>4, <2>5, ConcatProperties
<1>2. PICK r \in Intact(call.cell, code) \cup Damaged(call.cell, code)
                   \cup Shifted(call.cell, code) : air' = air \o r
  BY DEF Send, Reply
<1>3. CASE r \in Intact(call.cell, code)
  BY <1>2, <1>3, ConcatProperties
<1>4. CASE r \in Damaged(call.cell, code)
  <2>1. r = <<>> \/ \E f \in Intact(call.cell, code) :
                         r \in {[f EXCEPT ![FrameLen] = Stray], SubSeq(f, 1, FrameLen - 1)}
    BY <1>4 DEF Damaged
  <2>2. <<>> \in Seq(S)
    OBVIOUS
  <2>3. r \in Seq(S)
    BY <2>1, <2>2, <1>1
  <2> QED BY <1>2, <2>3, ConcatProperties
<1>5. CASE r \in Shifted(call.cell, code)
  <2>1. \E f \in Intact(call.cell, code) : r = <<Stray>> \o f
    BY <1>5 DEF Shifted
  <2>2. r \in Seq(S)
    BY <2>1, <1>1
  <2> QED BY <1>2, <2>2, ConcatProperties
<1> QED BY <1>2, <1>3, <1>4, <1>5

LEMMA DeliverKeeps ==
    ASSUME NEW S, rx \in Seq(S), air \in Seq(S), Deliver
    PROVE  rx' \in Seq(S) /\ air' \in Seq(S)
<1>1. Head(air) \in S /\ Tail(air) \in Seq(S)
  BY HeadTailProperties DEF Deliver
<1> QED BY <1>1 DEF Deliver

LEMMA PollKeeps ==
    ASSUME NEW S, buf \in Seq(S), rx \in Seq(S), Len(buf) <= FrameLen, Poll
    PROVE  /\ buf' \in Seq(S) /\ Len(buf') <= FrameLen
           /\ rx' \in Seq(S)
<1> DEFINE n == IF Len(rx) < AskedFor THEN Len(rx) ELSE AskedFor
<1>1. Len(buf) \in Nat /\ Len(rx) \in Nat
  BY LenProperties
<1>2. n \in Nat /\ n <= Len(rx) /\ Len(buf) + n <= FrameLen
  BY <1>1, FrameShape DEF AskedFor
<1>3. buf' = buf \o SubSeq(rx, 1, n) /\ rx' = SubSeq(rx, n + 1, Len(rx))
  BY DEF Poll
<1> HIDE DEF n
<1>4. \A k \in 1..Len(rx) : rx[k] \in S
  BY ElementOfSeq
<1>5. SubSeq(rx, 1, n) \in Seq(S) /\ Len(SubSeq(rx, 1, n)) = n
  BY <1>2, <1>4, SubSeqProperties
<1>6. SubSeq(rx, n + 1, Len(rx)) \in Seq(S)
  BY <1>1, <1>2, <1>4, SubSeqProperties
<1>7. buf' \in Seq(S) /\ Len(buf') = Len(buf) + n
  BY <1>3, <1>5, ConcatProperties
<1> QED BY <1>2, <1>3, <1>6, <1>7

\* An accepted frame is made of bytes.
LEMMA ValidFirst ==
    ASSUME Valid
    PROVE  buf[1] \in Bytes
<1>1. PICK b \in Cells, c \in Codes, a \in {"value", "nan", "ack"} : buf = Frame(b, c, a)
  BY DEF Valid, Frames
<1>2. 1 \in 1..FrameLen
  BY FrameShape
<1>3. buf[1] = Byte(b, c, a, 1)
  BY <1>1, <1>2 DEF Frame
<1> QED BY <1>2, <1>3 DEF Bytes

\* Reading moves bytes and leaves their order alone.
LEMMA DeliverInOrder ==
    ASSUME NEW S, rx \in Seq(S), air \in Seq(S), Deliver
    PROVE  rx' \o air' = rx \o air
<1> DEFINE h == Head(air)
           z == Tail(air)
<1>1. air # <<>>
  BY DEF Deliver
<1>2. h \in S /\ z \in Seq(S) /\ <<h>> \in Seq(S)
  BY <1>1, HeadTailProperties
<1>3. <<h>> \o z = air
  <2>1. 1 \in 1..Len(air) /\ Len(air) \in 1..Len(air)
    BY <1>1, EmptySeq
  <2>2. SubSeq(air, 1, Len(air)) = <<air[1]>> \o SubSeq(air, 1 + 1, Len(air))
    BY <2>1, SubSeqRecursiveFirst
  <2>3. SubSeq(air, 1, Len(air)) = air
    BY SubSeqFull
  <2>4. z = SubSeq(air, 2, Len(air))
    BY <1>1, TailIsSubSeq
  <2>5. h = air[1]
    BY <1>1
  <2> QED BY <2>2, <2>3, <2>4, <2>5
<1>4. rx' = rx \o <<h>> /\ air' = z
  BY <1>1, <1>2, AppendIsConcat DEF Deliver
<1> HIDE DEF h, z
<1>5. (rx \o <<h>>) \o z = rx \o (<<h>> \o z)
  BY <1>2, ConcatAssociative
<1> QED BY <1>3, <1>4, <1>5

LEMMA PollInOrder ==
    ASSUME NEW S, buf \in Seq(S), rx \in Seq(S), air \in Seq(S), Len(buf) <= FrameLen, Poll
    PROVE  /\ Arriving' = Arriving
           /\ Len(rx) <= AskedFor => rx' = <<>>
<1> DEFINE k == Len(rx)
           n == IF k < AskedFor THEN k ELSE AskedFor
           a == SubSeq(rx, 1, n)
           z == SubSeq(rx, n + 1, k)
<1>1. Len(buf) \in Nat /\ k \in Nat
  BY LenProperties
<1>2. n \in 0..k /\ AskedFor \in Nat /\ (k <= AskedFor => n = k)
  <2>1. AskedFor \in Nat
    BY <1>1, FrameShape DEF AskedFor
  <2> HIDE DEF k
  <2> QED BY <1>1, <2>1
<1>3. buf' = buf \o a /\ rx' = z /\ air' = air
  BY DEF Poll
<1>4. a \o z = rx
  <2>1. 1 \in 1..k + 1 /\ n \in 0..k /\ n \in 1 - 1..k /\ k \in n..k
    <3> HIDE DEF k, n
    <3> QED BY <1>1, <1>2
  <2>2. a \o z = SubSeq(rx, 1, k)
    <3> HIDE DEF n
    <3> QED BY <2>1, ConcatAdjacentSubSeq
  <2>3. SubSeq(rx, 1, k) = rx
    BY SubSeqFull
  <2> QED BY <2>2, <2>3
<1>5. ASSUME k <= AskedFor PROVE rx' = <<>>
  <2>1. n + 1 > k
    <3> HIDE DEF k, n
    <3> QED BY <1>1, <1>2, <1>5
  <2>2. n + 1 \in Int /\ k \in Int
    <3> HIDE DEF k, n
    <3> QED BY <1>1, <1>2
  <2> HIDE DEF k, n
  <2> QED BY <1>3, <2>1, <2>2, SubSeqEmpty DEF k
<1>6. a \in Seq(S) /\ z \in Seq(S)
  <2>1. \A j \in 1..k : rx[j] \in S
    BY ElementOfSeq
  <2>2. n \in Int /\ k \in Int /\ n + 1 \in Int
        /\ (\A j \in 1..n : rx[j] \in S) /\ (\A j \in n + 1..k : rx[j] \in S)
    <3> HIDE DEF k, n
    <3> QED BY <1>1, <1>2, <2>1
  <2> HIDE DEF k, n
  <2> QED BY <2>2, SubSeqProperties
<1> HIDE DEF a, z, n, k
<1>7. z \o air \in Seq(S)
  BY <1>6, ConcatProperties
<1>8. (buf \o a) \o (z \o air) = buf \o (a \o (z \o air))
  <2> DEFINE v == z \o air
  <2>1. v \in Seq(S)
    BY <1>7
  <2> HIDE DEF v
  <2>2. (buf \o a) \o v = buf \o (a \o v)
    BY <1>6, <2>1, ConcatAssociative
  <2> QED BY <2>2 DEF v
<1>9. a \o (z \o air) = (a \o z) \o air
  BY <1>6, ConcatAssociative
<1>10. Arriving' = Arriving
  BY <1>3, <1>4, <1>8, <1>9 DEF Arriving
<1> QED BY <1>5, <1>10 DEF k

\* A reply that is not shifted is no longer than a frame.
LEMMA RepliesFit ==
    ASSUME TypeOK, LocalsInv, NEW r \in Intact(call.cell, code) \cup Damaged(call.cell, code)
    PROVE  r \in Seq(LineBytes) /\ Len(r) <= FrameLen
<1>1. ASSUME NEW f \in Intact(call.cell, code) PROVE f \in Seq(LineBytes) /\ Len(f) = FrameLen
  <2>1. f \in Seq(Ours) /\ Len(f) = FrameLen
    BY IntactIsOurs DEF LocalsInv
  <2> QED BY <2>1, OursAreBytes DEF LineBytes, TypeOK
<1>2. CASE r \in Intact(call.cell, code)
  BY <1>1, <1>2
<1>3. CASE r = <<>>
  BY <1>3, FrameShape
<1>4. ASSUME NEW f \in Intact(call.cell, code), r = [f EXCEPT ![FrameLen] = Stray]
      PROVE  r \in Seq(LineBytes) /\ Len(r) <= FrameLen
  <2>1. f \in Seq(LineBytes) /\ FrameLen \in 1..Len(f) /\ Len(f) = FrameLen
    BY <1>1, FrameShape
  <2>2. Stray \in LineBytes
    BY DEF LineBytes
  <2> HIDE DEF LineBytes
  <2> QED BY <1>4, <2>1, <2>2, ExceptSeq
<1>5. ASSUME NEW f \in Intact(call.cell, code), r = SubSeq(f, 1, FrameLen - 1)
      PROVE  r \in Seq(LineBytes) /\ Len(r) <= FrameLen
  <2>1. \A k \in 1..FrameLen - 1 : f[k] \in LineBytes
    BY <1>1, FrameShape, ElementOfSeq
  <2>2. FrameLen - 1 \in Int /\ 1 <= FrameLen - 1
    BY FrameShape
  <2>3. r \in Seq(LineBytes) /\ Len(r) = FrameLen - 1 - 1 + 1
    BY <1>5, <2>1, <2>2, SubSeqProperties
  <2> QED BY <2>3, FrameShape
<1>6. r \in Damaged(call.cell, code) =>
        r = <<>> \/ \E f \in Intact(call.cell, code) :
                        r \in {[f EXCEPT ![FrameLen] = Stray], SubSeq(f, 1, FrameLen - 1)}
  BY DEF Damaged
<1> QED BY <1>2, <1>3, <1>4, <1>5, <1>6

\* Outside the resistance a whole reply is always an acceptable frame.
LEMMA WholeIsValid ==
    ASSUME TypeOK, LocalsInv, call.cmd # "res", buf \in Intact(call.cell, code)
    PROVE  Valid
<1>1. code = call.cmd /\ code \in Codes /\ call.cell \in Cells
  BY DEF LocalsInv, CodesOf, TypeOK
<1>2. PICK a \in Answers(code) : buf = Frame(call.cell, code, a)
  BY DEF Intact
<1>3. a \in {"value", "nan", "ack"} /\ (code = "open" => a = "ack")
  BY DEF Answers
<1>4. buf \in Frames
  BY <1>1, <1>2, <1>3 DEF Frames
<1>5. buf[1] = Byte(call.cell, code, a, 1)
  <2>1. 1 \in 1..FrameLen
    BY FrameShape
  <2> QED BY <1>2, <2>1 DEF Frame
<1> QED BY <1>1, <1>3, <1>4, <1>5 DEF Valid, Byte

(***************************************************************************)
(* Every step keeps the invariant, conjunct by conjunct.                   *)
(***************************************************************************)

LEMMA Starts == Init => IInv
<1> SUFFICES ASSUME Init PROVE IInv
  OBVIOUS
<1>1. TypeOK
  <2>0. late \in BOOLEAN /\ surplus \in BOOLEAN
    BY DEF Init
  <2>1. result \in Bytes \cup {Silent} /\ sends \in 0..3 /\ fails \in 0..2
        /\ losses \in 0..2 /\ i \in 0..1 /\ polls \in 0..Polls
    BY PollsKnown DEF Init
  <2>2. portOpen \in BOOLEAN /\ pc \in {"idle", "drain", "send", "poll"}
        /\ call \in [cell : Cells, cmd : Commands] /\ code \in Codes
    BY DEF Init, Codes
  <2>3. buf \in Seq(Bytes \cup {Stray}) /\ Len(buf) <= FrameLen
        /\ rx \in Seq(Bytes \cup {Stray}) /\ air \in Seq(Bytes \cup {Stray})
    BY FrameShape DEF Init
  <2> QED BY <2>0, <2>1, <2>2, <2>3 DEF TypeOK
<1>2. /\ LocalsInv /\ AttemptsInv /\ LineInv /\ ResultInv /\ LossInv
      /\ SilenceMeansTwoFailures /\ OneLossTolerated
  BY DEF Init, LocalsInv, CodesOf, AttemptsInv, LineInv, ResultInv, LossInv,
         WindowOver, SilenceMeansTwoFailures, OneLossTolerated
<1> QED BY <1>1, <1>2 DEF IInv

\* The line within all bytes.
LEMMA BytesStep ==
    ASSUME TypeOK, LocalsInv, Next
    PROVE  /\ buf' \in Seq(LineBytes) /\ Len(buf') <= FrameLen
           /\ rx' \in Seq(LineBytes)
           /\ air' \in Seq(LineBytes)
<1> USE DEF TypeOK
<1>1. /\ buf \in Seq(LineBytes) /\ Len(buf) <= FrameLen
      /\ rx \in Seq(LineBytes) /\ air \in Seq(LineBytes)
  BY DEF LineBytes
<1>2. <<>> \in Seq(LineBytes) /\ Len(<<>>) <= FrameLen
  BY FrameShape
<1>3. CASE Send
  <2>1. \A f \in Intact(call.cell, code) : f \in Seq(Ours) /\ Len(f) = FrameLen
    BY IntactIsOurs DEF LocalsInv
  <2>2. \A f \in Intact(call.cell, code) : f \in Seq(LineBytes) /\ Len(f) = FrameLen
    BY <2>1, OursAreBytes DEF LineBytes
  <2>3. air' \in Seq(LineBytes)
    BY <1>1, <1>3, <2>2, SendKeeps DEF LineBytes
  <2> QED BY <1>1, <1>2, <1>3, <2>3 DEF Send
<1>4. CASE Deliver
  <2>1. rx' \in Seq(LineBytes) /\ air' \in Seq(LineBytes)
    BY <1>1, <1>4, DeliverKeeps
  <2> QED BY <1>1, <1>4, <2>1 DEF Deliver
<1>5. CASE Poll
  <2>1. buf' \in Seq(LineBytes) /\ Len(buf') <= FrameLen /\ rx' \in Seq(LineBytes)
    BY <1>1, <1>5, PollKeeps
  <2> QED BY <1>1, <1>5, <2>1 DEF Poll
<1>6. CASE Begin
  BY <1>1, <1>6 DEF Begin
<1>7. CASE DrainRead
  BY <1>1, <1>2, <1>7 DEF DrainRead
<1>8. CASE DrainDone
  BY <1>1, <1>8 DEF DrainDone
<1>9. CASE Accept \/ GiveUp
  BY <1>1, <1>2, <1>9 DEF Accept, GiveUp, Return
<1>10. CASE FollowUp \/ Retry
  BY <1>1, <1>10 DEF FollowUp, Retry
<1> QED BY <1>3, <1>4, <1>5, <1>6, <1>7, <1>8, <1>9, <1>10 DEF Next, Call

LEMMA LocalsStep ==
    ASSUME TypeOK, LocalsInv, Next
    PROVE  LocalsInv' /\ i' \in 0..1 /\ code' \in Codes
<1> USE DEF LocalsInv, CodesOf, TypeOK
<1>1. i' \in 0..1 /\ code' \in Codes
  BY CommandSet
  DEF Next, Call, Begin, DrainRead, DrainDone, Send, Poll, Accept, FollowUp, Retry, GiveUp,
      Deliver, Return, LastAttempt, Followed, Codes
<1>2. CASE Begin
  BY <1>1, <1>2 DEF Begin
<1>3. CASE DrainRead \/ DrainDone \/ Send \/ Poll \/ Deliver
  BY <1>1, <1>3 DEF DrainRead, DrainDone, Send, Poll, Deliver
<1>4. CASE Accept \/ GiveUp
  BY <1>1, <1>4 DEF Accept, GiveUp, Return
<1>5. CASE FollowUp \/ Retry
  BY <1>1, <1>5 DEF FollowUp, Followed, Retry
<1> QED BY <1>1, <1>2, <1>3, <1>4, <1>5 DEF Next, Call

LEMMA PollsStep ==
    ASSUME TypeOK, Next
    PROVE  polls' \in 0..Polls
<1> USE PollsKnown DEF TypeOK
<1>1. CASE Poll
  <2> DEFINE n == IF Len(rx) < AskedFor THEN Len(rx) ELSE AskedFor
  <2>1. polls' = PollsAfter(n) /\ polls < Polls
    BY <1>1 DEF Poll
  <2> HIDE DEF n
  <2> QED BY <2>1 DEF PollsAfter
<1>2. CASE Begin \/ DrainRead \/ DrainDone \/ Send \/ Deliver \/ FollowUp \/ Retry
  BY <1>2 DEF Begin, DrainRead, DrainDone, Send, Deliver, FollowUp, Retry
<1>3. CASE Accept \/ GiveUp
  BY <1>3 DEF Accept, GiveUp, Return
<1> QED BY <1>1, <1>2, <1>3 DEF Next, Call

LEMMA AttemptsStep ==
    ASSUME TypeOK, LocalsInv, AttemptsInv, SilenceMeansTwoFailures, Next
    PROVE  /\ AttemptsInv' /\ SilenceMeansTwoFailures'
           /\ fails' \in 0..2 /\ sends' \in 0..3
<1> USE DEF TypeOK, AttemptsInv, LocalsInv, SilenceMeansTwoFailures, history
<1>1. CASE Begin
  BY <1>1 DEF Begin
<1>2. CASE DrainRead \/ DrainDone \/ Poll \/ Deliver
  BY <1>2 DEF DrainRead, DrainDone, Poll, Deliver
<1>3. CASE Send
  BY <1>3 DEF Send
<1>4. CASE Accept
  <2>1. result' # Silent
    BY <1>4, ValidFirst, SilentIsNone DEF Accept, Return
  <2> QED BY <1>4, <2>1 DEF Accept, Return, WindowOver
<1>5. CASE FollowUp
  BY <1>5 DEF FollowUp, Followed, WindowOver
<1>6. CASE Retry
  BY <1>6 DEF Retry, LastAttempt, WindowOver
<1>7. CASE GiveUp
  BY <1>7 DEF GiveUp, LastAttempt, Return, WindowOver
<1> QED BY <1>1, <1>2, <1>3, <1>4, <1>5, <1>6, <1>7 DEF Next, Call

\* The line of a call that began with nothing on its way.
LEMMA LineStep ==
    ASSUME TypeOK, LocalsInv, LineInv, Next
    PROVE  LineInv'
<1> SUFFICES ASSUME pc' \in {"send", "poll"}, ~late'
             PROVE  /\ buf' \in Seq(Ours' \cup {Stray})
                    /\ rx' \in Seq(Ours' \cup {Stray})
                    /\ air' \in Seq(Ours' \cup {Stray})
  BY DEF LineInv
<1> USE DEF TypeOK
<1> DEFINE S == Ours \cup {Stray}
<1>1. CASE Begin \/ DrainRead \/ Accept \/ GiveUp
  BY <1>1 DEF Begin, DrainRead, Accept, GiveUp, Return
<1>2. SUFFICES ASSUME DrainDone \/ Send \/ Poll \/ FollowUp \/ Retry \/ Deliver
               PROVE  buf' \in Seq(S) /\ rx' \in Seq(S) /\ air' \in Seq(S)
  <2>1. CASE DrainDone \/ Send \/ Poll \/ FollowUp \/ Retry \/ Deliver
    <3>1. call' = call
      BY <2>1 DEF DrainDone, Send, Poll, FollowUp, Retry, Deliver
    <3>2. Ours' = Ours
      BY <3>1 DEF Ours
    <3> QED BY <1>2, <2>1, <3>2
  <2> QED BY <1>1, <2>1 DEF Next, Call
<1>3. CASE DrainDone
  <2>1. rx' = <<>> /\ air' = <<>> /\ buf' = <<>>
    BY <1>3 DEF DrainDone, LocalsInv
  <2> QED BY <2>1
<1>4. SUFFICES ASSUME Send \/ Poll \/ FollowUp \/ Retry \/ Deliver,
                      buf \in Seq(S), rx \in Seq(S), air \in Seq(S)
               PROVE  buf' \in Seq(S) /\ rx' \in Seq(S) /\ air' \in Seq(S)
  <2>1. CASE DrainDone
    BY <1>3, <2>1
  <2>2. CASE Send \/ Poll \/ FollowUp \/ Retry \/ Deliver
    <3>1. pc \in {"send", "poll"} /\ ~late
      BY <2>2 DEF Send, Poll, FollowUp, Retry, Deliver, WindowOver, history
    <3> QED BY <1>4, <2>2, <3>1 DEF LineInv
  <2> QED BY <1>2, <2>1, <2>2
<1>5. Stray \in S
  OBVIOUS
<1>6. \A f \in Intact(call.cell, code) : f \in Seq(S) /\ Len(f) = FrameLen
  <2>1. \A f \in Intact(call.cell, code) : f \in Seq(Ours) /\ Len(f) = FrameLen
    BY IntactIsOurs DEF LocalsInv
  <2> QED BY <2>1
<1> HIDE DEF S
<1>7. CASE Send
  <2>1. air' \in Seq(S)
    BY <1>4, <1>5, <1>6, <1>7, SendKeeps
  <2>2. <<>> \in Seq(S)
    OBVIOUS
  <2> QED BY <1>4, <1>7, <2>1, <2>2 DEF Send
<1>8. CASE Poll
  <2>1. buf' \in Seq(S) /\ rx' \in Seq(S)
    BY <1>4, <1>8, PollKeeps
  <2> QED BY <1>4, <1>8, <2>1 DEF Poll
<1>9. CASE Deliver
  <2>1. rx' \in Seq(S) /\ air' \in Seq(S)
    BY <1>4, <1>9, DeliverKeeps
  <2> QED BY <1>4, <1>9, <2>1 DEF Deliver
<1>10. CASE FollowUp \/ Retry
  BY <1>4, <1>10 DEF FollowUp, Retry
<1> QED BY <1>4, <1>7, <1>8, <1>9, <1>10

LEMMA ResultStep ==
    ASSUME TypeOK, LocalsInv, LineInv, ResultInv, Next
    PROVE  ResultInv' /\ result' \in Bytes \cup {Silent}
<1> USE DEF TypeOK
<1>1. CASE Accept
  <2>1. result' \in Bytes /\ result' = buf[1]
    BY <1>1, ValidFirst DEF Accept, Return
  <2>2. late' = late /\ call' = call /\ pc = "poll"
    BY <1>1 DEF Accept, WindowOver, history
  <2>3. ASSUME ~late PROVE result' \in Ours
    <3>1. buf \in Seq(Ours \cup {Stray})
      BY <2>2, <2>3 DEF LineInv
    <3>2. Len(buf) = FrameLen
      <4>1. PICK b \in Cells, c \in Codes, a \in {"value", "nan", "ack"} :
               buf = Frame(b, c, a)
        BY <1>1 DEF Accept, Valid, Frames
      <4> QED BY <4>1, FrameShape DEF Frame
    <3>3. 1 \in 1..Len(buf)
      BY <3>2, FrameShape
    <3>4. buf[1] \in Ours \cup {Stray}
      BY <3>1, <3>3, ElementOfSeq
    <3> QED BY <2>1, <3>4, StrayIsNone
  <2>4. Ours' = Ours
    BY <2>2 DEF Ours
  <2> QED BY <2>1, <2>2, <2>3, <2>4 DEF ResultInv
<1>2. CASE GiveUp
  BY <1>2 DEF GiveUp, Return, ResultInv
<1>3. CASE Begin \/ DrainRead \/ DrainDone \/ Send \/ Poll \/ FollowUp \/ Retry
  BY <1>3 DEF Begin, DrainRead, DrainDone, Send, Poll, FollowUp, Retry, WindowOver, ResultInv
<1>4. CASE Deliver
  <2>1. UNCHANGED <<call, result, pc, late>>
    BY <1>4 DEF Deliver
  <2> QED BY <2>1 DEF ResultInv, Ours
<1> QED BY <1>1, <1>2, <1>3, <1>4 DEF Next, Call

\* A byte too many is not forgotten within the call.
LEMMA SurplusStays ==
    ASSUME TypeOK, Call \/ Deliver
    PROVE  surplus' \in {surplus, TRUE}
<1>0. surplus \in BOOLEAN
  BY DEF TypeOK
<1>1. CASE DrainRead \/ DrainDone \/ Poll \/ Accept \/ FollowUp
  BY <1>1 DEF DrainRead, DrainDone, Poll, Accept, FollowUp, history
<1>2. CASE Send
  BY <1>2 DEF Send, Reply
<1>3. CASE Deliver
  <2>1. surplus' = (surplus \/ WindowOver)
    BY <1>3 DEF Deliver
  <2> QED BY <1>0, <2>1
<1>4. CASE Retry \/ GiveUp
  <2>1. surplus' = (surplus \/ air # <<>>)
    BY <1>4 DEF Retry, GiveUp
  <2> QED BY <1>0, <2>1
<1> QED BY <1>1, <1>2, <1>3, <1>4 DEF Call

LEMMA HistoryStep ==
    ASSUME TypeOK, Next
    PROVE  losses' \in 0..2 /\ surplus' \in BOOLEAN
<1>1. losses' \in {losses, 0, OneMoreLoss}
  BY DEF Next, Call, Begin, DrainRead, DrainDone, Send, Reply, Poll, Accept, FollowUp, Retry,
         GiveUp, Deliver, history
<1>2. OneMoreLoss \in 0..2
  BY DEF OneMoreLoss, TypeOK
<1>3. losses' \in 0..2
  BY <1>1, <1>2 DEF TypeOK
<1>4. surplus' \in BOOLEAN
  <2>1. CASE Begin
    BY <2>1 DEF Begin
  <2>2. CASE Call \/ Deliver
    BY <2>2, SurplusStays DEF TypeOK
  <2> QED BY <2>1, <2>2 DEF Next
<1> QED BY <1>3, <1>4

LEMMA FlagsStep ==
    ASSUME TypeOK, Next
    PROVE  /\ portOpen' \in BOOLEAN /\ late' \in BOOLEAN
           /\ pc' \in {"idle", "drain", "send", "poll"}
           /\ call' \in [cell : Cells, cmd : Commands]
<1>1. portOpen' = portOpen /\ (call' = call \/ call' \in [cell : Cells, cmd : Commands])
  BY DEF Next, Call, Begin, DrainRead, DrainDone, Send, Poll, Accept, FollowUp, Retry, GiveUp,
         Deliver
<1>2. late' \in {late, FALSE, air # <<>>}
  BY DEF Next, Call, Begin, DrainRead, DrainDone, Send, Poll, Accept, FollowUp, Retry, GiveUp,
         Deliver, history
<1>3. pc' \in {"idle", "drain", "send", "poll"}
  BY DEF Next, Call, Begin, DrainRead, DrainDone, Send, Poll, Accept, FollowUp, Retry, GiveUp,
         Deliver, Return, TypeOK
<1> QED BY <1>1, <1>2, <1>3 DEF TypeOK

LEMMA LossesGrow ==
    ASSUME TypeOK
    PROVE  /\ OneMoreLoss \in losses..2
           /\ OneMoreLoss < 2 => losses = 0 /\ OneMoreLoss = 1
<1>1. losses \in {0, 1, 2}
  BY DEF TypeOK
<1> QED BY <1>1 DEF OneMoreLoss

\* A window that closes on a clean line has the whole reply or a damaged one.
LEMMA CleanWindow ==
    ASSUME TypeOK, LocalsInv, LossInv,
           ~late, ~surplus, call.cmd # "res", losses < 2, WindowOver, air = <<>>, ~Valid
    PROVE  rx = <<>> /\ losses >= i + 1
<1>1. rx = <<>> /\ \/ Arriving \in Intact(call.cell, code)
                   \/ Arriving \in Damaged(call.cell, code) /\ losses >= i + 1
  BY DEF LossInv, WindowOver
<1>2. Arriving = buf
  <2>1. rx \o air = <<>> /\ buf \in Seq(LineBytes)
    BY <1>1 DEF TypeOK, LineBytes
  <2> QED BY <2>1, ConcatEmptySeq DEF Arriving
<1> QED BY <1>1, <1>2, WholeIsValid

LEMMA LossStep ==
    ASSUME TypeOK, LocalsInv, LossInv, Next
    PROVE  LossInv'
<1> SUFFICES ASSUME pc' \in {"send", "poll"}, ~late', ~surplus', call'.cmd # "res", losses' < 2
             PROVE  /\ losses' >= i'
                    /\ pc' = "send" => rx' = <<>> /\ air' = <<>>
                    /\ pc' = "poll" =>
                         \/ Arriving' \in Intact(call'.cell, code')
                         \/ Arriving' \in Damaged(call'.cell, code') /\ losses' >= i' + 1
                    /\ WindowOver' => rx' = <<>>
  BY DEF LossInv, Intact, Damaged
<1> DEFINE Goal == /\ losses' >= i'
                   /\ pc' = "send" => rx' = <<>> /\ air' = <<>>
                   /\ pc' = "poll" =>
                        \/ Arriving' \in Intact(call'.cell, code')
                        \/ Arriving' \in Damaged(call'.cell, code') /\ losses' >= i' + 1
                   /\ WindowOver' => rx' = <<>>
<1>0. /\ buf \in Seq(LineBytes) /\ Len(buf) <= FrameLen
      /\ rx \in Seq(LineBytes) /\ air \in Seq(LineBytes)
      /\ i \in 0..1 /\ losses \in 0..2 /\ polls \in 0..Polls
  BY DEF TypeOK, LineBytes
<1>1. CASE DrainDone
  <2>1. rx' = <<>> /\ air' = <<>> /\ i' = 0 /\ pc' = "send" /\ losses' = losses
    BY <1>1 DEF DrainDone, LocalsInv
  <2> QED BY <1>0, <2>1 DEF WindowOver
<1>2. CASE Send
  <2>1. UNCHANGED <<call, code, i, rx, late>> /\ pc' = "poll" /\ buf' = <<>> /\ polls' = 0
    BY <1>2 DEF Send
  <2>2. PICK r : /\ air' = air \o r
                 /\ UNCHANGED surplus
                 /\ \/ r \in Intact(call.cell, code) /\ losses' = losses
                    \/ r \in Damaged(call.cell, code) /\ losses' = OneMoreLoss
    <3>1. PICK r : /\ air' = air \o r
                   /\ \/ r \in Intact(call.cell, code) /\ UNCHANGED <<losses, surplus>>
                      \/ /\ r \in Damaged(call.cell, code)
                         /\ losses' = OneMoreLoss
                         /\ UNCHANGED surplus
      BY <1>2 DEF Send, Reply
    <3> QED BY <3>1
  <2>3. \/ r \in Intact(call.cell, code) /\ losses' = losses
        \/ r \in Damaged(call.cell, code) /\ losses' = 1 /\ losses = 0
    BY <2>2, LossesGrow
  <2>4. rx = <<>> /\ air = <<>> /\ losses >= i
    BY <1>2, <2>1, <2>2, <2>3 DEF LossInv, Send
  <2>5. Arriving' = r
    <3>1. r \in Seq(LineBytes)
      BY <2>3, RepliesFit
    <3> QED BY <2>1, <2>2, <2>4, <3>1, ConcatEmptySeq DEF Arriving
  <2>6. ~WindowOver'
    BY <2>1, PollsKnown DEF WindowOver
  <2>7. i = 0 \/ losses >= 1
    BY <1>0, <2>4
  <2>8. losses' >= i' /\ (losses = 0 /\ losses' = 1 => losses' >= i' + 1)
    BY <1>0, <2>1, <2>3, <2>4
  <2> QED BY <2>1, <2>3, <2>5, <2>6, <2>8
<1>3. CASE Deliver
  <2>1. UNCHANGED <<pc, call, code, i, buf, polls, late>> /\ air # <<>>
        /\ surplus' = (surplus \/ WindowOver) /\ losses' = losses
    BY <1>3 DEF Deliver
  <2>2. ~WindowOver /\ ~surplus
    BY <2>1
  <2>3. pc = "poll" /\ losses >= i
        /\ \/ Arriving \in Intact(call.cell, code)
           \/ Arriving \in Damaged(call.cell, code) /\ losses >= i + 1
    BY <2>1, <2>2 DEF LossInv
  <2>4. Arriving' = Arriving
    BY <1>0, <1>3, <2>1, DeliverInOrder DEF Arriving
  <2>5. ~WindowOver'
    BY <2>1, <2>2 DEF WindowOver
  <2> QED BY <2>1, <2>2, <2>3, <2>4, <2>5
<1>4. CASE Poll
  <2>1. UNCHANGED <<pc, call, code, i, air, losses, surplus, late>> /\ pc = "poll"
    BY <1>4 DEF Poll, history
  <2>2. losses >= i
        /\ \/ Arriving \in Intact(call.cell, code)
           \/ Arriving \in Damaged(call.cell, code) /\ losses >= i + 1
    BY <2>1 DEF LossInv
  <2>3. Arriving' = Arriving
    BY <1>0, <1>4, PollInOrder
  <2>4. Len(rx) <= AskedFor
    <3>1. Len(Arriving) <= FrameLen
      BY <2>2, RepliesFit
    <3>2. rx \o air \in Seq(LineBytes) /\ Len(rx \o air) = Len(rx) + Len(air)
      BY <1>0, ConcatProperties
    <3>3. Len(Arriving) = Len(buf) + Len(rx \o air)
      BY <1>0, <3>2, ConcatProperties DEF Arriving
    <3>4. Len(buf) \in Nat /\ Len(rx) \in Nat /\ Len(air) \in Nat
      BY <1>0, LenProperties
    <3> QED BY <3>1, <3>2, <3>3, <3>4, FrameShape DEF AskedFor
  <2>5. rx' = <<>>
    BY <1>0, <1>4, <2>4, PollInOrder
  <2> QED BY <2>1, <2>2, <2>3, <2>5
<1>5. CASE Retry
  <2>1. /\ UNCHANGED <<call, rx, air, late>> /\ pc' = "send" /\ i' = i + 1
        /\ WindowOver /\ ~Valid /\ pc = "poll"
        /\ surplus' = (surplus \/ air # <<>>) /\ losses' = losses
    BY <1>5 DEF Retry, WindowOver
  <2>2. air = <<>> /\ ~surplus
    BY <2>1
  <2>3. rx = <<>> /\ losses >= i + 1
    BY <2>1, <2>2, CleanWindow
  <2> QED BY <2>1, <2>2, <2>3 DEF WindowOver
<1>6. CASE Begin \/ DrainRead \/ Accept \/ GiveUp
  BY <1>6 DEF Begin, DrainRead, Accept, GiveUp, Return
<1>7. CASE FollowUp
  BY <1>7 DEF FollowUp, Followed
<1> QED BY <1>1, <1>2, <1>3, <1>4, <1>5, <1>6, <1>7 DEF Next, Call

LEMMA ToleratedStep ==
    ASSUME TypeOK, LocalsInv, LossInv, OneLossTolerated, Next
    PROVE  OneLossTolerated'
<1> USE DEF TypeOK, OneLossTolerated
<1>1. CASE GiveUp
  <2> SUFFICES ASSUME ~late', ~surplus', call'.cmd # "res", losses' < 2
               PROVE  FALSE
    BY <1>1, HistoryStep DEF Next, Call
  <2>1. /\ UNCHANGED <<call, late>> /\ WindowOver /\ ~Valid /\ i = 1
        /\ surplus' = (surplus \/ air # <<>>) /\ losses' = losses
    BY <1>1 DEF GiveUp, LastAttempt
  <2>2. air = <<>> /\ ~surplus
    BY <2>1
  <2>3. losses >= i + 1
    BY <2>1, <2>2, CleanWindow
  <2> QED BY <2>1, <2>2, <2>3
<1>2. CASE Accept
  <2>1. result' # Silent
    BY <1>2, ValidFirst, SilentIsNone DEF Accept, Return
  <2> QED BY <2>1
<1>3. CASE Deliver
  <2>1. UNCHANGED <<pc, call, result, late, losses>> /\ (surplus => surplus')
    BY <1>3 DEF Deliver
  <2> QED BY <2>1
<1>4. CASE Begin \/ DrainRead \/ DrainDone \/ Send \/ Poll \/ FollowUp \/ Retry
  BY <1>4 DEF Begin, DrainRead, DrainDone, Send, Poll, FollowUp, Retry, WindowOver
<1> QED BY <1>1, <1>2, <1>3, <1>4 DEF Next, Call

LEMMA StepIInv == ASSUME IInv, Next PROVE IInv'
<1>1. /\ LocalsInv' /\ AttemptsInv' /\ LineInv' /\ ResultInv' /\ LossInv'
      /\ SilenceMeansTwoFailures' /\ OneLossTolerated'
  BY LocalsStep, AttemptsStep, LineStep, ResultStep, LossStep, ToleratedStep DEF IInv
<1>2. /\ buf' \in Seq(LineBytes) /\ Len(buf') <= FrameLen
      /\ rx' \in Seq(LineBytes) /\ air' \in Seq(LineBytes)
  BY BytesStep DEF IInv
<1>3. TypeOK'
  BY <1>2, LocalsStep, PollsStep, AttemptsStep, ResultStep, HistoryStep, FlagsStep
  DEF IInv, TypeOK, LineBytes
<1> QED BY <1>1, <1>3 DEF IInv

LEMMA StutterIInv == ASSUME IInv, UNCHANGED vars PROVE IInv'
<1> USE DEF vars, history
<1>1. TypeOK' /\ LocalsInv' /\ AttemptsInv' /\ SilenceMeansTwoFailures' /\ OneLossTolerated'
  BY DEF IInv, TypeOK, LocalsInv, AttemptsInv, SilenceMeansTwoFailures, OneLossTolerated
<1>2. LineInv' /\ ResultInv' /\ LossInv'
  BY DEF IInv, LineInv, ResultInv, Ours, LossInv, Arriving, WindowOver
<1> QED BY <1>1, <1>2 DEF IInv

LEMMA Invariance == Spec => []IInv
<1>1. IInv /\ [Next]_vars => IInv'
  BY StepIInv, StutterIInv
<1> QED BY Starts, <1>1, PTL DEF Spec

(***************************************************************************)
(* The theorems.                                                           *)
(***************************************************************************)

\* The types: in particular no reply is read past the four bytes of readstr.
THEOREM TypeCorrect == Spec => []TypeOK
<1>1. IInv => TypeOK
  BY DEF IInv
<1> QED BY Invariance, <1>1, PTL

\* A call that begins with nothing on its way returns an answer of the cell and to
\* the command it was made for, whatever the line did before and during it
\* (s800serialDAO.c:77-79, 111-114).
THEOREM AnswersAreOurs == Spec => []AnswerIsOurs
<1>1. ASSUME IInv PROVE AnswerIsOurs
  <2>1. SUFFICES ASSUME pc = "idle", result # Silent, ~late
                 PROVE  /\ result.cell = call.cell
                        /\ \/ result.cmd = call.cmd
                           \/ call.cmd = "res" /\ result.cmd = "res2"
    BY DEF AnswerIsOurs
  <2>2. result \in Ours
    BY <1>1, <2>1 DEF IInv, ResultInv
  <2>3. result.cell = call.cell /\ result.cmd \in CodesOf(call.cmd)
    BY <2>2, OursAreOurs
  <2> QED BY <2>3 DEF CodesOf
<1> QED BY Invariance, <1>1, PTL

\* But for a resistance, -1 means that two transmissions failed (the comment of
\* s800serialDAO.c:129).
THEOREM SilenceIsTwoFailures == Spec => []SilenceMeansTwoFailures
<1>1. IInv => SilenceMeansTwoFailures
  BY DEF IInv
<1> QED BY Invariance, <1>1, PTL

\* But for a resistance, a command is transmitted twice at most (the comment of
\* s800serialDAO.c:104).
THEOREM TransmittedTwiceAtMost == Spec => []AtMostOneRetransmission
<1>1. IInv => AtMostOneRetransmission
  BY DEF IInv, AttemptsInv, AtMostOneRetransmission
<1> QED BY Invariance, <1>1, PTL

\* But for a resistance, a call that begins with nothing on its way and in which no
\* stray byte and none after its window comes returns an answer when only one reply
\* is lost, damaged or cut: the one transmission the code adds is enough
\* (s800serialDAO.c:104-110).
THEOREM RetransmissionSuffices == Spec => []OneLossTolerated
<1>1. IInv => OneLossTolerated
  BY DEF IInv
<1> QED BY Invariance, <1>1, PTL

(***************************************************************************)
(* The refinement.                                                         *)
(***************************************************************************)

LEMMA InitRefines == Init => Caller!Init
<1> SUFFICES ASSUME Init PROVE Caller!Init
  OBVIOUS
<1>1. Answer = Caller!Silence
  BY DEF Init, Answer, Silent, Byte, Caller!Silence
<1> QED BY <1>1 DEF Init, Caller!Init

\* Whatever call a frame answers, the caller gets some answer.
LEMMA AcceptsAnAnswer ==
    ASSUME Valid, result' = buf[1]
    PROVE  Answer' \in Caller!Anybodys
<1>1. PICK b \in Cells, c \in Codes, a \in {"value", "nan", "ack"} : buf = Frame(b, c, a)
  BY DEF Valid, Frames
<1>2. Answer' = [cell |-> b, cmd |-> c, ans |-> a]
  BY <1>1, FrameShape DEF Frame, Byte, Answer
<1>3. c \in UNION {Caller!CommandsOf(k) : k \in Commands}
  BY DEF Codes, Caller!CommandsOf
<1> QED BY <1>2, <1>3 DEF Caller!Anybodys

\* In a call that began with nothing on its way it is one the command can have.
LEMMA AcceptsItsOwn ==
    ASSUME IInv, IInv', Accept, ~late
    PROVE  Answer' \in Caller!Own(call)
<1>1. result' \in Ours /\ result' = buf[1]
  <2>1. result' = buf[1] /\ pc' = "idle" /\ UNCHANGED <<call, late>>
    BY DEF Accept, Return, history
  <2>2. result' # Silent
    BY <2>1, ValidFirst, SilentIsNone DEF Accept
  <2>3. result' \in Ours'
    BY <2>1, <2>2 DEF IInv, ResultInv
  <2> QED BY <2>1, <2>3 DEF Ours
<1>2. /\ result'.cell = call.cell /\ result'.cmd \in CodesOf(call.cmd)
      /\ result'.ans \in Answers(result'.cmd)
  BY <1>1, OursAreOurs
<1>3. result'.ans \in Caller!Answers(call.cmd)
  <2>1. call.cmd = "open" => result'.cmd = "open"
    BY <1>2 DEF CodesOf
  <2>2. call.cmd = "res" => result'.ans # "nan" /\ result'.cmd # "open"
    BY <1>1, <1>2 DEF Accept, Followed, CodesOf
  <2>3. call.cmd \notin {"open", "res"} => result'.cmd # "open"
    BY <1>2 DEF CodesOf
  <2> QED BY <1>2, <2>1, <2>2, <2>3 DEF Answers, Caller!Answers
<1>4. result'.cmd \in Caller!CommandsOf(call.cmd)
  BY <1>2 DEF CodesOf, Caller!CommandsOf
<1> QED BY <1>2, <1>3, <1>4 DEF Answer, Caller!Own

LEMMA StepRefines ==
    ASSUME IInv, IInv', Next
    PROVE  [Caller!Next]_Caller!vars
<1>1. losses \in losses..2 /\ OneMoreLoss \in losses..2
  BY LossesGrow DEF IInv, TypeOK
<1>2. CASE Begin
  <2>1. Answer' = Caller!Silence
    BY <1>2 DEF Begin, Answer, Silent, Byte, Caller!Silence
  <2> QED BY <1>2, <2>1 DEF Begin, Caller!Begin, Caller!Next
<1>3. CASE DrainRead \/ DrainDone \/ Send \/ Poll \/ FollowUp \/ Retry
  <2>1. /\ UNCHANGED <<call, result>> /\ pc # "idle" /\ pc' # "idle"
        /\ late' \in BOOLEAN /\ losses' \in {losses, OneMoreLoss} /\ surplus' \in {surplus, TRUE}
    <3>1. late' \in BOOLEAN
      BY DEF IInv, TypeOK
    <3>2. surplus' \in {surplus, TRUE}
      BY <1>3, SurplusStays DEF IInv, Call
    <3>3. losses' \in {losses, OneMoreLoss}
      BY <1>3 DEF DrainRead, DrainDone, Send, Reply, Poll, FollowUp, Retry, history
    <3>4. UNCHANGED <<call, result>> /\ pc # "idle" /\ pc' # "idle"
      BY <1>3 DEF DrainRead, DrainDone, Send, Reply, Poll, FollowUp, Retry, WindowOver
    <3> QED BY <3>1, <3>2, <3>3, <3>4
  <2>2. Answer' = Answer
    BY <2>1 DEF Answer
  <2> QED BY <1>1, <2>1, <2>2 DEF Caller!Disturb, Caller!Next
<1>4. CASE Deliver
  <2>1. /\ UNCHANGED <<pc, call, result, late>> /\ Answer' = Answer
        /\ losses' = losses /\ surplus' = (surplus \/ WindowOver)
    BY <1>4 DEF Deliver, Answer
  <2>2. CASE pc = "idle"
    <3>1. ~WindowOver /\ surplus \in BOOLEAN
      BY <2>2 DEF WindowOver, IInv, TypeOK
    <3>2. surplus' = surplus
      BY <2>1, <3>1
    <3> QED BY <2>1, <3>2 DEF Caller!vars
  <2>3. CASE pc # "idle"
    <3>1. late' \in BOOLEAN /\ surplus' \in {surplus, TRUE}
      BY <1>4, SurplusStays DEF IInv, TypeOK
    <3> QED BY <1>1, <2>1, <2>3, <3>1 DEF Caller!Disturb, Caller!Next
  <2> QED BY <2>2, <2>3
<1>5. CASE Accept
  <2>1. /\ UNCHANGED <<call, late, losses, surplus>> /\ pc # "idle" /\ pc' = "idle"
        /\ Valid /\ result' = buf[1]
    BY <1>5 DEF Accept, Return, WindowOver, history
  <2>2. Answer' \in IF late THEN Caller!Anybodys ELSE Caller!Own(call)
    BY <1>5, <2>1, AcceptsAnAnswer, AcceptsItsOwn
  <2> QED BY <1>1, <2>1, <2>2 DEF Caller!Return, Caller!Next
<1>6. CASE GiveUp
  <2>1. /\ UNCHANGED <<call, late>> /\ pc # "idle" /\ pc' = "idle" /\ result' = Silent
        /\ losses' = losses /\ (surplus => surplus')
    BY <1>6 DEF GiveUp, Return, WindowOver
  <2>2. Answer' = Caller!Silence
    BY <2>1 DEF Answer, Silent, Byte, Caller!Silence
  <2>3. late \/ surplus' \/ losses = 2 \/ call.cmd = "res"
    BY <2>1 DEF IInv, OneLossTolerated
  <2>4. surplus' \in {surplus, TRUE}
    BY <1>6, SurplusStays DEF IInv, Call
  <2> QED BY <1>1, <2>1, <2>2, <2>3, <2>4 DEF Caller!Return, Caller!Next
<1> QED BY <1>2, <1>3, <1>4, <1>5, <1>6 DEF Next, Call

\* A call, with its bytes, windows and attempts, is one step of the line and one
\* return to the thread that makes it, whatever the frames' length, the number of
\* polls and the delay: the promise of SerialCall (s800serialDAO.c:74-187).
THEOREM ImplementsCall == Spec => BehavesAsCall
<1>1. UNCHANGED vars => UNCHANGED Caller!vars
  BY DEF vars, history, Caller!vars, Answer
<1>2. IInv /\ IInv' /\ [Next]_vars => [Caller!Next]_Caller!vars
  BY <1>1, StepRefines
<1> QED BY InitRefines, <1>2, Invariance, PTL DEF Spec, BehavesAsCall, Caller!Spec

=============================================================================
