------------------------ MODULE CurrentSensorProofs ------------------------
(***************************************************************************)
(* Theorems about CurrentSensor, for any readings within the sensor's range *)
(* and any stray bytes: its types, that a value within the range is one the *)
(* sensor measured for this call, and that one lost reply is made up for.   *)
(***************************************************************************)
EXTENDS CurrentSensor, SequenceTheorems, TLAPS

(***************************************************************************)
(* The inductive invariant.                                                *)
(***************************************************************************)

\* What the line may make of the reply.
Replies(c) == {Frame(c)} \cup Damaged(c) \cup Shifted(c)

\* What a first window may leave behind: the end of a reply of this call.
Rests ==
    LET replies == UNION {Replies(c) : c \in sent}
    IN  {<<>>} \cup UNION {{SubSeq(r, n + 1, Len(r)) : n \in 0..Len(r)} : r \in replies}

\* What this window has received and may still receive.
Line == buf \o (rx \o air)

\* A call begins with its first attempt and no reply lost.
StartInv == pc = "drain" => i = 0 /\ losses = 0

\* In a call that began with nothing on its way, a window receives what the one
\* before it left, and its own reply.
LineInv ==
    ~late =>
        /\ pc = "send" => rx \o air \in Rests /\ (i = 0 => rx \o air = <<>>)
        /\ pc = "window" =>
              \E l \in Rests : \E c \in sent : \E r \in Replies(c) :
                  /\ Line = l \o r
                  /\ i = 0 => l = <<>>

\* With no byte too many and less than two losses, nothing is left behind.
LossInv ==
    ~late /\ ~surplus /\ losses < 2 =>
        /\ pc = "send" => /\ rx \o air = <<>>
                          /\ IF i = 0 THEN losses = 0 ELSE losses = 1 \/ 0 \in sent
        /\ pc = "window" =>
              \E c \in sent :
                  \/ Line = Frame(c)
                  \/ /\ Line \in Damaged(c)
                     /\ losses = 1
                     /\ i = 1 => 0 \in sent
        /\ pc = "publish" => value \in 0..13 * LastCode \/ (losses = 1 /\ 0 \in sent)

IInv == TypeOK /\ StartInv /\ LineInv /\ LossInv /\ InRangeMeansMeasured /\ OneLossTolerated

(***************************************************************************)
(* Replies.                                                                *)
(***************************************************************************)

\* The frame of a reading is four bytes, the second of them at most 15.
LEMMA FrameShape ==
    ASSUME NEW c \in 0..LastCode
    PROVE  /\ Frame(c) \in Seq(Bytes) /\ Len(Frame(c)) = FrameLen
           /\ Frame(c)[1] = Sync /\ Frame(c)[4] = End
           /\ Frame(c)[2] \in 0..15 /\ Frame(c)[3] \in 0..255
           /\ 256 * Frame(c)[2] + Frame(c)[3] = c
<1>1. c \div 256 \in 0..15 /\ c % 256 \in 0..255 /\ 256 * (c \div 256) + (c % 256) = c
  <2>1. c \in Nat /\ c <= 3938
    BY DEF LastCode
  <2>2. c = 256 * (c \div 256) + (c % 256) /\ c % 256 \in 0..255
    BY <2>1
  <2>3. c \div 256 \in Int
    BY <2>1
  <2> QED BY <2>1, <2>2, <2>3
<1> DEFINE h == c \div 256
           g == c % 256
<1>2. Frame(c) = <<170, h, g, 204>>
  BY DEF Frame, Sync, End
<1> HIDE DEF h, g
<1>3. h \in 0..15 /\ g \in 0..255 /\ 256 * h + g = c
  BY <1>1 DEF h, g
<1> QED BY <1>2, <1>3 DEF Bytes, Sync, End, FrameLen

\* A damaged reply is the beginning of a frame.
LEMMA DamagedShape ==
    ASSUME NEW c \in 0..LastCode, NEW r \in Damaged(c)
    PROVE  /\ r \in Seq(Bytes) /\ Len(r) < FrameLen
           /\ \A j \in 1..Len(r) : r[j] = Frame(c)[j]
<1>1. PICK n \in 0..FrameLen - 1 : r = SubSeq(Frame(c), 1, n)
  BY DEF Damaged
<1>2. \A j \in 1..n : Frame(c)[j] \in Bytes
  BY FrameShape, ElementOfSeq DEF FrameLen
<1>3. /\ SubSeq(Frame(c), 1, n) \in Seq(Bytes)
      /\ Len(SubSeq(Frame(c), 1, n)) = n
      /\ \A j \in 1..n : SubSeq(Frame(c), 1, n)[j] = Frame(c)[j]
  BY <1>2, SubSeqProperties DEF FrameLen
<1> QED BY <1>1, <1>3 DEF FrameLen

\* Before a shifted reply there is a byte too many.
LEMMA ShiftedShape ==
    ASSUME NEW c \in 0..LastCode, NEW r \in Shifted(c)
    PROVE  /\ r \in Seq(Bytes) /\ Len(r) = FrameLen + 1
           /\ \A j \in 1..FrameLen : r[j + 1] = Frame(c)[j]
<1>1. PICK s \in Strays : r = <<s>> \o Frame(c)
  BY DEF Shifted
<1>2. <<s>> \in Seq(Bytes) /\ Len(<<s>>) = 1
  BY LineBounds DEF Bytes
<1> DEFINE f == Frame(c)
           o == <<s>>
<1>3. f \in Seq(Bytes) /\ Len(f) = FrameLen /\ o \in Seq(Bytes) /\ Len(o) = 1
  BY <1>2, FrameShape
<1> HIDE DEF f, o
<1>4. /\ o \o f \in Seq(Bytes) /\ Len(o \o f) = FrameLen + 1
      /\ \A j \in 1..FrameLen + 1 : (o \o f)[j] = IF j <= 1 THEN o[j] ELSE f[j - 1]
  <2>1. /\ o \o f \in Seq(Bytes) /\ Len(o \o f) = Len(o) + Len(f)
        /\ \A j \in 1..Len(o) + Len(f) :
              (o \o f)[j] = IF j <= Len(o) THEN o[j] ELSE f[j - Len(o)]
    BY <1>3, ConcatProperties
  <2> QED BY <1>3, <2>1 DEF FrameLen
<1>5. \A j \in 1..FrameLen : (o \o f)[j + 1] = f[j]
  BY <1>4 DEF FrameLen
<1> QED BY <1>1, <1>4, <1>5 DEF f, o

\* Of a reply, whatever the line made of it, either nothing is added in front,
\* or one byte and nothing lost.
LEMMA ReplyShape ==
    ASSUME NEW c \in 0..LastCode, NEW r \in Replies(c)
    PROVE  /\ r \in Seq(Bytes) /\ Len(r) \in 0..FrameLen + 1
           /\ \/ Len(r) <= FrameLen /\ \A j \in 1..Len(r) : r[j] = Frame(c)[j]
              \/ Len(r) = FrameLen + 1 /\ \A j \in 1..FrameLen : r[j + 1] = Frame(c)[j]
<1>1. CASE r = Frame(c)
  <2>1. Len(Frame(c)) = 4 /\ Frame(c) \in Seq(Bytes)
    BY FrameShape DEF FrameLen
  <2> QED BY <1>1, <2>1 DEF FrameLen
<1>2. CASE r \in Damaged(c)
  <2>1. r \in Seq(Bytes) /\ Len(r) < 4 /\ \A j \in 1..Len(r) : r[j] = Frame(c)[j]
    BY <1>2, DamagedShape DEF FrameLen
  <2>2. Len(r) \in Nat
    BY <2>1, LenProperties
  <2> DEFINE p == Len(r)
  <2>3. p < 4 /\ p \in Nat
    BY <2>1, <2>2
  <2> HIDE DEF p
  <2>4. p \in 0..5 /\ p <= 4
    BY <2>3
  <2> QED BY <2>1, <2>4 DEF p, FrameLen
<1>3. CASE r \in Shifted(c)
  BY <1>3, ShiftedShape DEF FrameLen
<1> QED BY <1>1, <1>2, <1>3 DEF Replies

\* What a window leaves behind is the end of one reply.
LEMMA RestShape ==
    ASSUME sent \subseteq 0..LastCode, NEW l \in Rests
    PROVE  \/ l = <<>>
           \/ \E c \in sent : \E r \in Replies(c) : \E n \in 0..Len(r) :
                 /\ l \in Seq(Bytes) /\ Len(l) = Len(r) - n
                 /\ \A j \in 1..Len(l) : l[j] = r[n + j]
<1> SUFFICES ASSUME l # <<>>
             PROVE  \E c \in sent : \E r \in Replies(c) : \E n \in 0..Len(r) :
                       /\ l \in Seq(Bytes) /\ Len(l) = Len(r) - n
                       /\ \A j \in 1..Len(l) : l[j] = r[n + j]
  OBVIOUS
<1>1. PICK c \in sent : \E r \in Replies(c) : \E n \in 0..Len(r) : l = SubSeq(r, n + 1, Len(r))
  BY DEF Rests
<1>2. PICK r \in Replies(c) : \E n \in 0..Len(r) : l = SubSeq(r, n + 1, Len(r))
  BY <1>1
<1>3. PICK n \in 0..Len(r) : l = SubSeq(r, n + 1, Len(r))
  BY <1>2
<1>4. r \in Seq(Bytes) /\ Len(r) \in Nat /\ n \in Nat
  BY ReplyShape, LenProperties
<1>5. \A j \in n + 1..Len(r) : r[j] \in Bytes
  BY <1>4, ElementOfSeq
<1>6. /\ l \in Seq(Bytes) /\ Len(l) = Len(r) - n
      /\ \A j \in 1..Len(r) - n : l[j] = r[n + j]
  BY <1>3, <1>4, <1>5, SubSeqProperties
<1> QED BY <1>6

(***************************************************************************)
(* The marks.                                                              *)
(***************************************************************************)

\* r has the shape of a reply of length p, whose frame is x and whose reading is c.
IsReply(r, p, x, c) ==
    /\ p \in 0..5
    /\ \/ p <= 4 /\ \A j \in 1..p : r[j] = x[j]
       \/ p = 5 /\ \A j \in 1..4 : r[j + 1] = x[j]
    /\ x[1] = 170 /\ x[4] = 204
    /\ x[2] \in 0..15 /\ x[3] \in 0..255
    /\ 256 * x[2] + x[3] = c

\* b is the first four bytes of what is left of r after n bytes, and of t.
Joined(r, p, n, t, b) == \A j \in 1..4 : b[j] = IF j <= p - n THEN r[n + j] ELSE t[j - (p - n)]

\* Four bytes between the marks, the second at most 15, out of the end of one
\* reply and another reply, are a whole frame of one of the two.
LEMMA MarksInShapes ==
    ASSUME NEW r, NEW p, NEW x, NEW c, IsReply(r, p, x, c),
           NEW t, NEW q, NEW y, NEW d, IsReply(t, q, y, d),
           NEW n \in 0..p, p - n + q >= 4,
           NEW b, Joined(r, p, n, t, b),
           b[1] = 170, b[4] = 204, b[2] \in 0..15
    PROVE  256 * b[2] + b[3] \in {c, d}
<1> DEFINE m == p - n
<1>1. /\ p \in 0..5
      /\ \/ p <= 4 /\ \A j \in 1..p : r[j] = x[j]
         \/ p = 5 /\ \A j \in 1..4 : r[j + 1] = x[j]
  BY DEF IsReply
<1>2. /\ q \in 0..5
      /\ \/ q <= 4 /\ \A j \in 1..q : t[j] = y[j]
         \/ q = 5 /\ \A j \in 1..4 : t[j + 1] = y[j]
  BY DEF IsReply
<1>3. x[1] = 170 /\ x[4] = 204 /\ x[2] \in 0..15 /\ x[3] \in 0..255 /\ 256 * x[2] + x[3] = c
  BY DEF IsReply
<1>4. y[1] = 170 /\ y[4] = 204 /\ y[2] \in 0..15 /\ y[3] \in 0..255 /\ 256 * y[2] + y[3] = d
  BY DEF IsReply
<1>5. n \in 0..5 /\ m \in 0..5 /\ m + q >= 4 /\ p = n + m
  BY <1>1
<1>6. /\ b[1] = IF 1 <= m THEN r[n + 1] ELSE t[1 - m]
      /\ b[2] = IF 2 <= m THEN r[n + 2] ELSE t[2 - m]
      /\ b[3] = IF 3 <= m THEN r[n + 3] ELSE t[3 - m]
      /\ b[4] = IF 4 <= m THEN r[n + 4] ELSE t[4 - m]
  BY DEF Joined
<1>7. b[1] = 170 /\ b[4] = 204 /\ b[2] \in 0..15
  OBVIOUS
<1> HIDE DEF m
\* The bytes of the second reply, by its length.
<1>8. /\ q >= 1 => t[1] = y[1] \/ q = 5
      /\ q >= 2 => t[2] = IF q = 5 THEN y[1] ELSE y[2]
      /\ q >= 3 => t[3] = IF q = 5 THEN y[2] ELSE y[3]
      /\ q >= 4 => t[4] = IF q = 5 THEN y[3] ELSE y[4]
  <2>1. CASE q = 5 /\ \A j \in 1..4 : t[j + 1] = y[j]
    <3>1. t[1 + 1] = y[1] /\ t[2 + 1] = y[2] /\ t[3 + 1] = y[3]
      BY <2>1
    <3> QED BY <2>1, <3>1
  <2>2. CASE q <= 4 /\ \A j \in 1..q : t[j] = y[j]
    BY <1>2, <2>2
  <2> QED BY <1>2, <2>1, <2>2
<1>9. CASE m = 0
  <2>1. b[1] = t[1] /\ b[2] = t[2] /\ b[3] = t[3] /\ b[4] = t[4] /\ q >= 4
    BY <1>2, <1>5, <1>6, <1>9
  <2>2. q # 5
    BY <1>4, <1>7, <1>8, <2>1
  <2> QED BY <1>2, <1>4, <1>7, <1>8, <2>1, <2>2
<1>10. CASE m = 1
  <2>1. b[2] = t[1] /\ b[4] = t[3] /\ q >= 3
    BY <1>2, <1>5, <1>6, <1>10
  <2> QED BY <1>2, <1>4, <1>7, <1>8, <2>1
<1>11. CASE m = 2
  <2>1. b[4] = t[2] /\ q >= 2
    BY <1>2, <1>5, <1>6, <1>11
  <2> QED BY <1>2, <1>4, <1>7, <1>8, <2>1
<1>12. CASE m = 3
  <2>1. b[1] = r[n + 1] /\ b[2] = r[n + 2] /\ b[3] = r[n + 3]
    BY <1>5, <1>6, <1>12
  <2>2. n \in {0, 1, 2} /\ p = n + 3
    BY <1>1, <1>5, <1>12
  <2>3. CASE n = 0
    <3>1. b[2] = x[2] /\ b[3] = x[3]
      BY <1>1, <2>1, <2>2, <2>3
    <3> QED BY <1>3, <3>1
  <2>4. CASE n = 1
    <3>1. b[1] = x[2]
      BY <1>1, <2>1, <2>2, <2>4
    <3> QED BY <1>3, <1>7, <3>1
  <2>5. CASE n = 2
    <3>1. b[1] = x[2]
      BY <1>1, <2>1, <2>2, <2>5
    <3> QED BY <1>3, <1>7, <3>1
  <2> QED BY <2>2, <2>3, <2>4, <2>5
<1>13. CASE m \in {4, 5}
  <2>1. b[1] = r[n + 1] /\ b[2] = r[n + 2] /\ b[3] = r[n + 3]
    BY <1>5, <1>6, <1>13
  <2>2. \/ n = 0 /\ p = 4
        \/ n = 0 /\ p = 5
        \/ n = 1 /\ p = 5
    BY <1>1, <1>5, <1>13
  <2>3. CASE n = 0 /\ p = 4
    <3>1. b[2] = x[2] /\ b[3] = x[3]
      BY <1>1, <2>1, <2>3
    <3> QED BY <1>3, <3>1
  <2>4. CASE n = 0 /\ p = 5
    <3>1. b[2] = x[1]
      BY <1>1, <2>1, <2>4
    <3> QED BY <1>3, <1>7, <3>1
  <2>5. CASE n = 1 /\ p = 5
    <3>1. b[2] = x[2] /\ b[3] = x[3]
      BY <1>1, <2>1, <2>5
    <3> QED BY <1>3, <3>1
  <2> QED BY <2>2, <2>3, <2>4, <2>5
<1> QED BY <1>5, <1>9, <1>10, <1>11, <1>12, <1>13

\* Four bytes between the marks, that stand for a value within the range.
Marked(b) ==
    /\ b \in Seq(Bytes) /\ Len(b) = FrameLen
    /\ b[1] = Sync /\ b[FrameLen] = End
    /\ 256 * b[2] + b[3] <= LastCode

LEMMA MarkedBytes ==
    ASSUME NEW b, Marked(b)
    PROVE  b[1] = 170 /\ b[4] = 204 /\ b[2] \in 0..15
<1>1. 2 \in 1..Len(b) /\ 3 \in 1..Len(b) /\ b \in Seq(Bytes)
  BY DEF Marked, FrameLen
<1>2. b[2] \in Bytes /\ b[3] \in Bytes
  BY <1>1, ElementOfSeq
<1> DEFINE v == b[2]
           w == b[3]
<1>3. v \in 0..255 /\ w \in 0..255 /\ 256 * v + w <= 3938
  BY <1>2 DEF Marked, Bytes, LastCode
<1> HIDE DEF v, w
<1>4. v \in 0..15
  BY <1>3
<1>5. b[1] = 170 /\ b[4] = 204
  BY DEF Marked, Sync, End, FrameLen
<1> QED BY <1>4, <1>5 DEF v

\* Such bytes, after what is left of a reply of c and a reply of d, stand for
\* c or d.
LEMMA MarksSuffice ==
    ASSUME NEW c \in 0..LastCode, NEW r \in Replies(c), NEW n \in 0..Len(r),
           NEW d \in 0..LastCode, NEW t \in Replies(d),
           Len(r) - n + Len(t) >= FrameLen,
           NEW b, Marked(b), Joined(r, Len(r), n, t, b)
    PROVE  256 * b[2] + b[3] \in {c, d}
<1> DEFINE p == Len(r)
           q == Len(t)
           x == Frame(c)
           y == Frame(d)
<1>1. IsReply(r, p, x, c)
  BY ReplyShape, FrameShape DEF IsReply, FrameLen, Sync, End
<1>2. IsReply(t, q, y, d)
  BY ReplyShape, FrameShape DEF IsReply, FrameLen, Sync, End
<1>3. n \in 0..p /\ p - n + q >= 4 /\ Joined(r, p, n, t, b)
  BY DEF FrameLen
<1>4. b[1] = 170 /\ b[4] = 204 /\ b[2] \in 0..15
  BY MarkedBytes
<1> HIDE DEF p, q, x, y
<1> QED BY <1>1, <1>2, <1>3, <1>4, MarksInShapes

(***************************************************************************)
(* What a window receives.                                                 *)
(***************************************************************************)

LEMMA LineTypes ==
    ASSUME TypeOK
    PROVE  /\ buf \in Seq(Bytes) /\ rx \in Seq(Bytes) /\ air \in Seq(Bytes)
           /\ rx \o air \in Seq(Bytes)
           /\ sent \subseteq Readings /\ sent \subseteq 0..LastCode
<1>1. buf \in Seq(Bytes) /\ rx \in Seq(Bytes) /\ air \in Seq(Bytes) /\ sent \subseteq Readings
  BY DEF TypeOK
<1>2. rx \o air \in Seq(Bytes)
  BY <1>1, ConcatProperties
<1> QED BY <1>1, <1>2, SensorRange

\* The bytes of a reply.
LEMMA RepliesAreBytes ==
    ASSUME NEW c \in Readings, NEW r \in Replies(c)
    PROVE  r \in Seq(Bytes)
BY ReplyShape, SensorRange

LEMMA RestsAreBytes ==
    ASSUME sent \subseteq Readings, NEW l \in Rests
    PROVE  l \in Seq(Bytes)
<1>1. <<>> \in Seq(Bytes)
  OBVIOUS
<1> QED BY <1>1, RestShape, SensorRange

\* The bytes that are read are the first on the line.
LEMMA ReadFirst ==
    ASSUME TypeOK, NEW l \in Seq(Bytes), NEW t \in Seq(Bytes), Line = l \o t,
           Len(buf) = FrameLen
    PROVE  /\ Len(l) + Len(t) >= FrameLen
           /\ \A j \in 1..FrameLen : buf[j] = IF j <= Len(l) THEN l[j] ELSE t[j - Len(l)]
<1> DEFINE o == rx \o air
           p == Len(l)
           q == Len(t)
           k == Len(o)
<1>1. buf \in Seq(Bytes) /\ o \in Seq(Bytes)
  BY LineTypes
<1>2. p \in Nat /\ q \in Nat /\ k \in Nat
  BY <1>1, LenProperties
<1>3. /\ Len(buf \o o) = Len(buf) + k
      /\ \A j \in 1..Len(buf) + k : (buf \o o)[j] = IF j <= Len(buf) THEN buf[j] ELSE o[j - Len(buf)]
  BY <1>1, ConcatProperties
<1>4. /\ Len(l \o t) = p + q
      /\ \A j \in 1..p + q : (l \o t)[j] = IF j <= p THEN l[j] ELSE t[j - p]
  BY ConcatProperties
<1>5. buf \o o = l \o t /\ Len(buf) = 4
  BY DEF Line, FrameLen
<1> HIDE DEF o, p, q, k
<1>6. 4 + k = p + q
  BY <1>3, <1>4, <1>5
<1>7. \A j \in 1..4 : (buf \o o)[j] = buf[j]
  BY <1>2, <1>3, <1>5
<1>8. \A j \in 1..4 : buf[j] = IF j <= p THEN l[j] ELSE t[j - p]
  <2> SUFFICES ASSUME NEW j \in 1..4
               PROVE  buf[j] = IF j <= p THEN l[j] ELSE t[j - p]
    OBVIOUS
  <2>1. j \in 1..p + q
    BY <1>2, <1>6
  <2>2. (l \o t)[j] = IF j <= p THEN l[j] ELSE t[j - p]
    BY <1>4, <2>1
  <2> QED BY <1>5, <1>7, <2>2
<1>9. p + q >= 4
  BY <1>2, <1>6
<1> QED BY <1>8, <1>9 DEF p, q, FrameLen

\* A valid reading within the range was measured for this call.
LEMMA CodeWasSent ==
    ASSUME TypeOK, NEW l \in Rests, NEW c \in sent, NEW t \in Replies(c), Line = l \o t,
           Valid, Code <= LastCode
    PROVE  Code \in sent
<1>1. sent \subseteq Readings /\ sent \subseteq 0..LastCode
  BY LineTypes
<1>2. l \in Seq(Bytes) /\ t \in Seq(Bytes)
  BY <1>1, RepliesAreBytes, RestsAreBytes
<1>3. Marked(buf)
  BY LineTypes DEF Valid, Code, Marked
<1>4. /\ Len(l) + Len(t) >= FrameLen
      /\ \A j \in 1..FrameLen : buf[j] = IF j <= Len(l) THEN l[j] ELSE t[j - Len(l)]
  BY <1>2, ReadFirst DEF Valid
<1>5. CASE l = <<>>
  <2> DEFINE q == Len(t)
  <2>1. q \in Nat
    BY <1>2, LenProperties
  <2>2. Len(l) = 0
    BY <1>5
  <2>3. q >= FrameLen /\ \A j \in 1..FrameLen : buf[j] = t[j]
    <3>1. 0 + q >= FrameLen
      BY <1>4, <2>2
    <3>2. \A j \in 1..FrameLen : buf[j] = IF j <= 0 THEN l[j] ELSE t[j - 0]
      BY <1>4, <2>2
    <3> HIDE DEF q
    <3> QED BY <2>1, <3>1, <3>2
  <2>4. Joined(t, q, q, t, buf)
    <3> HIDE DEF q
    <3> QED BY <2>1, <2>3 DEF Joined, FrameLen
  <2>5. q \in 0..q /\ q - q + q >= FrameLen
    <3> HIDE DEF q
    <3> QED BY <2>1, <2>3
  <2>6. 256 * buf[2] + buf[3] \in {c, c}
    BY <1>1, <1>3, <2>4, <2>5, MarksSuffice
  <2> QED BY <2>6 DEF Code
<1>6. CASE l # <<>>
  <2>1. PICK e \in sent : \E r \in Replies(e) : \E n \in 0..Len(r) :
           Len(l) = Len(r) - n /\ \A j \in 1..Len(l) : l[j] = r[n + j]
    BY <1>1, <1>6, RestShape
  <2>2. PICK r \in Replies(e) : \E n \in 0..Len(r) :
           Len(l) = Len(r) - n /\ \A j \in 1..Len(l) : l[j] = r[n + j]
    BY <2>1
  <2>3. PICK n \in 0..Len(r) :
           Len(l) = Len(r) - n /\ \A j \in 1..Len(l) : l[j] = r[n + j]
    BY <2>2
  <2>4. Joined(r, Len(r), n, t, buf)
    <3> DEFINE p == Len(l)
               k == Len(r) - n
    <3>1. p \in Nat /\ p = k
      BY <1>2, <2>3, LenProperties
    <3>2. /\ \A j \in 1..p : l[j] = r[n + j]
          /\ \A j \in 1..4 : buf[j] = IF j <= p THEN l[j] ELSE t[j - p]
      BY <1>4, <2>3 DEF FrameLen
    <3> HIDE DEF p, k
    <3>3. \A j \in 1..4 : buf[j] = IF j <= k THEN r[n + j] ELSE t[j - k]
      BY <3>1, <3>2
    <3> QED BY <3>3 DEF k, Joined
  <2>5. Len(r) - n + Len(t) >= FrameLen
    BY <1>4, <2>3
  <2>6. 256 * buf[2] + buf[3] \in {e, c}
    BY <1>1, <1>3, <2>4, <2>5, MarksSuffice
  <2> QED BY <2>6 DEF Code
<1> QED BY <1>5, <1>6

\* A window that received a whole frame ends with it, and nothing is left.
LEMMA WholeWindow ==
    ASSUME TypeOK, NEW c \in Readings, Line = Frame(c), WindowOver, air = <<>>
    PROVE  rx \o air = <<>> /\ Attempt = 13 * c
<1>1. c \in 0..LastCode
  BY SensorRange
<1>2. Frame(c) \in Seq(Bytes) /\ Len(Frame(c)) = FrameLen
  BY <1>1, FrameShape
<1> DEFINE o == rx \o air
           k == Len(o)
<1>3. buf \in Seq(Bytes) /\ rx \in Seq(Bytes) /\ o \in Seq(Bytes)
  BY LineTypes
<1>4. Len(buf) + k = 4
  <2>1. Len(buf \o o) = Len(buf) + k
    BY <1>3, ConcatProperties
  <2>2. Len(buf \o o) = 4
    BY <1>2 DEF Line, FrameLen
  <2> QED BY <2>1, <2>2
<1>5. o = <<>>
  <2>1. CASE rx = <<>>
    BY <2>1
  <2>2. CASE Len(buf) >= 4
    <3>1. k \in Nat /\ Len(buf) \in Nat
      BY <1>3, LenProperties
    <3>2. k = 0
      <4> DEFINE m == Len(buf)
      <4>1. m + k = 4 /\ m >= 4 /\ m \in Nat /\ k \in Nat
        BY <1>4, <2>2, <3>1
      <4> HIDE DEF m, k
      <4> QED BY <4>1
    <3> QED BY <1>3, <3>2, EmptySeq
  <2> QED BY <2>1, <2>2 DEF WindowOver, FrameLen
<1>6. buf = Frame(c)
  BY <1>3, <1>5, ConcatEmptySeq DEF Line
<1>7. Valid
  BY <1>1, <1>6, FrameShape DEF Valid, FrameLen
<1>8. Code = c
  BY <1>1, <1>6, FrameShape DEF Code
<1> QED BY <1>5, <1>7, <1>8 DEF Attempt

\* One that received less ends with nothing.
LEMMA ShortWindow ==
    ASSUME TypeOK, NEW c \in Readings, Line \in Damaged(c), WindowOver, air = <<>>
    PROVE  rx \o air = <<>> /\ Attempt = Silent
<1>1. Line \in Seq(Bytes) /\ Len(Line) < FrameLen
  BY SensorRange, DamagedShape
<1> DEFINE o == rx \o air
           k == Len(o)
           m == Len(buf)
<1>2. buf \in Seq(Bytes) /\ rx \in Seq(Bytes) /\ o \in Seq(Bytes)
  BY LineTypes
<1>3. m + k < 4
  BY <1>1, <1>2, ConcatProperties DEF Line, FrameLen
<1>4. k \in Nat /\ m \in Nat
  BY <1>2, LenProperties
<1>5. m < 4
  <2> HIDE DEF m, k
  <2> QED BY <1>3, <1>4
<1>6. rx = <<>>
  <2>1. ~(m >= 4)
    <3> HIDE DEF m
    <3> QED BY <1>4, <1>5
  <2> QED BY <2>1 DEF WindowOver, FrameLen
<1>7. ~Valid
  <2>1. m # 4
    <3> HIDE DEF m
    <3> QED BY <1>4, <1>5
  <2> QED BY <2>1 DEF Valid, FrameLen
<1> QED BY <1>6, <1>7 DEF Attempt

(***************************************************************************)
(* What stays on the line.                                                 *)
(***************************************************************************)

\* The rest of a sequence, after its beginning.
LEMMA Dropped ==
    ASSUME NEW s \in Seq(Bytes), NEW o \in Seq(Bytes)
    PROVE  o = SubSeq(s \o o, Len(s) + 1, Len(s \o o))
<1> DEFINE w == s \o o
           m == Len(s)
           k == Len(o)
           u == SubSeq(w, m + 1, Len(w))
<1>1. w \in Seq(Bytes) /\ Len(w) = m + k
      /\ \A j \in 1..m + k : w[j] = IF j <= m THEN s[j] ELSE o[j - m]
  BY ConcatProperties
<1>2. m \in Nat /\ k \in Nat
  BY LenProperties
<1>3. \A j \in m + 1..Len(w) : w[j] \in Bytes
  <2>1. \A j \in m + 1..Len(w) : j \in 1..Len(w)
    <3> HIDE DEF m
    <3> QED BY <1>2
  <2> QED BY <1>1, <2>1, ElementOfSeq
<1> HIDE DEF w, k, m
<1>4. /\ u \in Seq(Bytes)
      /\ Len(u) = IF m + 1 <= m + k THEN m + k - (m + 1) + 1 ELSE 0
      /\ \A j \in 1..(m + k) - (m + 1) + 1 : u[j] = w[m + 1 + j - 1]
  BY <1>1, <1>2, <1>3, SubSeqProperties
<1> HIDE DEF u
<1>5. Len(u) = k
  BY <1>2, <1>4
<1>6. \A j \in 1..k : u[j] = o[j]
  <2> SUFFICES ASSUME NEW j \in 1..k PROVE u[j] = o[j]
    OBVIOUS
  <2>1. u[j] = w[m + j]
    BY <1>2, <1>4
  <2>2. w[m + j] = o[m + j - m]
    BY <1>1, <1>2
  <2> QED BY <1>2, <2>1, <2>2
<1> QED BY <1>4, <1>5, <1>6, SeqEqual DEF u, w, k, m

\* A byte that comes in leaves the one part and enters the other.
LEMMA DeliverKeeps ==
    ASSUME TypeOK, Deliver
    PROVE  /\ rx' \in Seq(Bytes) /\ air' \in Seq(Bytes)
           /\ rx' \o air' = rx \o air
<1>1. rx \in Seq(Bytes) /\ air \in Seq(Bytes) /\ air # <<>>
  BY LineTypes DEF Deliver
<1> DEFINE h == Head(air)
           z == Tail(air)
<1>2. h \in Bytes /\ z \in Seq(Bytes) /\ <<h>> \in Seq(Bytes)
  BY <1>1, HeadTailProperties
<1>3. <<h>> \o z = air
  <2>1. 1 \in 1..Len(air) /\ Len(air) \in 1..Len(air)
    BY <1>1, EmptySeq
  <2>2. SubSeq(air, 1, Len(air)) = <<air[1]>> \o SubSeq(air, 1 + 1, Len(air))
    BY <1>1, <2>1, SubSeqRecursiveFirst
  <2>3. SubSeq(air, 1, Len(air)) = air
    BY <1>1, SubSeqFull
  <2>4. z = SubSeq(air, 2, Len(air))
    BY <1>1, TailIsSubSeq
  <2>5. h = air[1]
    BY <1>1
  <2> QED BY <2>2, <2>3, <2>4, <2>5
<1>4. rx' = rx \o <<h>> /\ air' = z
  BY <1>1, <1>2, AppendIsConcat DEF Deliver
<1> HIDE DEF h, z
<1>5. (rx \o <<h>>) \o z = rx \o (<<h>> \o z)
  BY <1>1, <1>2, ConcatAssociative
<1> QED BY <1>1, <1>2, <1>3, <1>4, <1>5, ConcatProperties

\* A poll only moves bytes into the window.
LEMMA PollKeeps ==
    ASSUME TypeOK, Poll
    PROVE  /\ buf' \in Seq(Bytes) /\ Len(buf') <= FrameLen
           /\ rx' \in Seq(Bytes)
           /\ Line' = Line
<1> DEFINE k == Len(rx)
           m == Len(buf)
           n == IF k < 4 - m THEN k ELSE 4 - m
           a == SubSeq(rx, 1, n)
           z == SubSeq(rx, n + 1, k)
<1>1. buf \in Seq(Bytes) /\ rx \in Seq(Bytes) /\ air \in Seq(Bytes)
  BY LineTypes
<1>2. k \in Nat /\ m \in Nat /\ m < 4
  BY <1>1, LenProperties DEF Poll, FrameLen
<1>3. buf' = buf \o a /\ rx' = z /\ air' = air
  BY DEF Poll, AskedFor, FrameLen
<1>4. n \in 0..k /\ m + n <= 4
  <2> HIDE DEF k, m
  <2> QED BY <1>2
<1>5. a \o z = rx
  <2>1. 1 \in 1..k + 1 /\ n \in 0..k /\ n \in 1 - 1..k /\ k \in n..k
    <3> HIDE DEF k, n
    <3> QED BY <1>2, <1>4
  <2>2. a \o z = SubSeq(rx, 1, k)
    <3> HIDE DEF n
    <3> QED BY <1>1, <2>1, ConcatAdjacentSubSeq
  <2>3. SubSeq(rx, 1, k) = rx
    BY <1>1, SubSeqFull
  <2> QED BY <2>2, <2>3
<1>6. \A j \in 1..k : rx[j] \in Bytes
  BY <1>1, ElementOfSeq
<1> HIDE DEF n
<1>7. a \in Seq(Bytes) /\ Len(a) = n
  <2>1. n \in Int /\ \A j \in 1..n : rx[j] \in Bytes
    <3> HIDE DEF k
    <3> QED BY <1>2, <1>4, <1>6
  <2>2. a \in Seq(Bytes) /\ Len(a) = IF 1 <= n THEN n - 1 + 1 ELSE 0
    BY <2>1, SubSeqProperties
  <2>3. (IF 1 <= n THEN n - 1 + 1 ELSE 0) = n
    <3> HIDE DEF k
    <3> QED BY <1>2, <1>4
  <2> QED BY <2>2, <2>3
<1>8. z \in Seq(Bytes)
  <2>1. n + 1 \in Int /\ k \in Int /\ \A j \in n + 1..k : rx[j] \in Bytes
    <3> HIDE DEF k
    <3> QED BY <1>2, <1>4, <1>6
  <2> QED BY <2>1, SubSeqProperties
<1> HIDE DEF a, z
<1>9. buf \o a \in Seq(Bytes) /\ Len(buf \o a) = m + n
  BY <1>1, <1>7, ConcatProperties
<1>10. (buf \o a) \o (z \o air) = buf \o (rx \o air)
  <2>1. z \o air \in Seq(Bytes)
    BY <1>1, <1>8, ConcatProperties
  <2>2. (buf \o a) \o (z \o air) = buf \o (a \o (z \o air))
    <3> DEFINE v == z \o air
    <3>1. v \in Seq(Bytes) /\ a \in Seq(Bytes) /\ buf \in Seq(Bytes)
      BY <1>1, <1>7, <2>1
    <3> HIDE DEF v
    <3>2. (buf \o a) \o v = buf \o (a \o v)
      BY <3>1, ConcatAssociative
    <3> QED BY <3>2 DEF v
  <2>3. a \o (z \o air) = (a \o z) \o air
    BY <1>1, <1>7, <1>8, ConcatAssociative
  <2> QED BY <1>5, <2>2, <2>3
<1>11. Line' = Line
  BY <1>3, <1>10 DEF Line
<1> QED BY <1>3, <1>4, <1>8, <1>9, <1>11 DEF FrameLen

(***************************************************************************)
(* The steps.                                                              *)
(***************************************************************************)

LEMMA LastValueIs == LastValue \in Int /\ LastValue = 851955
BY SMT DEF LastValue

LEMMA LastValueInt == LastValue \in Int /\ 0 <= LastValue
BY LastValueIs, SMT

\* What an attempt may make of its window.
LEMMA AttemptTypes ==
    ASSUME TypeOK
    PROVE  /\ Attempt = Silent \/ Attempt \in 0..LastValue
           /\ Attempt \in Int
<1>1. CASE Valid
  <2>1. 2 \in 1..Len(buf) /\ 3 \in 1..Len(buf)
    BY <1>1 DEF Valid, FrameLen
  <2>2. buf[2] \in 0..255 /\ buf[3] \in 0..255
    BY <2>1, LineTypes, ElementOfSeq DEF Bytes
  <2> DEFINE v == buf[2]
             w == buf[3]
  <2>3. v \in 0..255 /\ w \in 0..255
    BY <2>2
  <2> HIDE DEF v, w
  <2>4. 13 * (256 * v + w) \in 0..LastValue
    <3> DEFINE k == 13 * (256 * v + w)
    <3>1. k \in Int /\ 0 <= k
      BY <2>3
    <3>2. k <= LastValue
      BY <2>3, LastValueIs, SMT
    <3> HIDE DEF k
    <3>3. k \in 0..LastValue
      BY <3>1, <3>2, LastValueInt, SMT
    <3> QED BY <3>3 DEF k
  <2>5. Attempt = 13 * (256 * v + w)
    BY <1>1 DEF Attempt, Code, v, w
  <2> QED BY <2>3, <2>4, <2>5
<1>2. CASE ~Valid
  BY <1>2 DEF Attempt, Silent
<1> QED BY <1>1, <1>2

LEMMA CurrentTypes ==
    ASSUME NEW v, v = Silent \/ v \in 0..LastValue
    PROVE  Amperes(v) \in Amperes(Silent)..Amperes(LastValue)
<1> DEFINE a == Amperes(v)
           l == Amperes(Silent)
           h == Amperes(LastValue)
<1>1. v \in Int /\ Silent <= v /\ v <= LastValue
  <2>1. CASE v = Silent
    BY <2>1, LastValueInt, SMT DEF Silent
  <2>2. CASE v \in 0..LastValue
    BY <2>2, LastValueInt, SMT DEF Silent
  <2> QED BY <2>1, <2>2
<1>2. a \in Int /\ l \in Int /\ h \in Int /\ l <= a /\ a <= h
  BY <1>1, LastValueInt, SMT DEF Amperes, Silent
<1> HIDE DEF a, l, h
<1>3. a \in l..h
  BY <1>2
<1> QED BY <1>3 DEF a, l, h

LEMMA TypeStep == ASSUME TypeOK, [Next]_vars PROVE TypeOK'
<1>0. /\ portOpen \in BOOLEAN
      /\ pc \in {"drain", "send", "window", "publish", "sleep"}
      /\ i \in 0..1
      /\ buf \in Seq(Bytes) /\ Len(buf) <= FrameLen
      /\ rx \in Seq(Bytes)
      /\ air \in Seq(Bytes)
      /\ value = Silent \/ value \in 0..LastValue
      /\ current \in Amperes(Silent)..Amperes(LastValue)
      /\ sent \subseteq Readings
      /\ losses \in 0..2
      /\ surplus \in BOOLEAN
      /\ late \in BOOLEAN
  BY DEF TypeOK
<1>00. <<>> \in Seq(Bytes) /\ Len(<<>>) <= FrameLen
  BY DEF FrameLen
<1>1. CASE DrainRead \/ DrainDone
  BY <1>0, <1>00, <1>1 DEF DrainRead, DrainDone, TypeOK
<1>2. CASE Send
  <2>1. PICK c \in Readings :
           /\ sent' = sent \cup {c}
           /\ \/ /\ air' = air \o Frame(c)
                 /\ UNCHANGED <<losses, surplus>>
              \/ /\ \E r \in Damaged(c) : air' = air \o r
                 /\ losses' = OneMoreLoss
                 /\ UNCHANGED surplus
              \/ /\ \E r \in Shifted(c) : air' = air \o r
                 /\ surplus' = TRUE
                 /\ UNCHANGED losses
    BY <1>2 DEF Send
  <2>2. losses' \in 0..2 /\ surplus' \in BOOLEAN
    <3>1. OneMoreLoss \in 0..2
      BY <1>0 DEF OneMoreLoss
    <3> QED BY <1>0, <2>1, <3>1
  <2>3. \E r \in Replies(c) : air' = air \o r
    BY <2>1 DEF Replies
  <2>4. air' \in Seq(Bytes)
    BY <1>0, <2>3, RepliesAreBytes, ConcatProperties
  <2> QED BY <1>0, <1>00, <1>2, <2>1, <2>2, <2>4 DEF Send, TypeOK
<1>3. CASE Poll
  BY <1>0, <1>3, PollKeeps DEF Poll, TypeOK
<1>4. CASE Retry
  <2>1. i' \in 0..1
    BY <1>0, <1>4 DEF Retry, Leaves
  <2>2. surplus' \in BOOLEAN /\ losses' = losses
    BY <1>0, <1>4 DEF Retry
  <2> QED BY <1>0, <1>4, <2>1, <2>2 DEF Retry, TypeOK
<1>5. CASE Return
  <2>1. surplus' \in BOOLEAN /\ losses' = losses
    BY <1>0, <1>5 DEF Return
  <2>2. value' = Silent \/ value' \in 0..LastValue
    BY <1>5, AttemptTypes DEF Return
  <2> QED BY <1>0, <1>00, <1>5, <2>1, <2>2 DEF Return, TypeOK
<1>6. CASE Publish
  BY <1>0, <1>6, CurrentTypes DEF Publish, TypeOK
<1>7. CASE NextTurn
  <2>1. i' = 0 /\ losses' = 0 /\ sent' = {} /\ surplus' = FALSE /\ late' = FALSE
    BY <1>7 DEF NextTurn
  <2>2. i' \in 0..1 /\ losses' \in 0..2
    BY <2>1
  <2>3. sent' \subseteq Readings /\ surplus' \in BOOLEAN /\ late' \in BOOLEAN
    BY <2>1
  <2>4. pc' = "drain" /\ UNCHANGED <<portOpen, buf, rx, air, value, current>>
    BY <1>7 DEF NextTurn
  <2> QED BY <1>0, <2>2, <2>3, <2>4 DEF TypeOK
<1>8. CASE Deliver
  BY <1>0, <1>8, DeliverKeeps DEF Deliver, TypeOK
<1>9. CASE UNCHANGED vars
  BY <1>9 DEF vars, TypeOK
<1> QED BY <1>1, <1>2, <1>3, <1>4, <1>5, <1>6, <1>7, <1>8, <1>9 DEF Next, Turn

\* A call begins with its first attempt and no reply lost.
LEMMA StartStep == ASSUME StartInv, [Next]_vars PROVE StartInv'
BY DEF StartInv, Next, Turn, DrainRead, DrainDone, Send, Poll, Retry, Return, Publish,
       NextTurn, Deliver, vars

\* What a call may leave behind it may still leave behind after another reply.
LEMMA RestsGrow ==
    ASSUME sent \subseteq sent'
    PROVE  Rests \subseteq Rests'
BY DEF Rests

\* What is on the line is of this call.
LEMMA LineStep == ASSUME TypeOK, StartInv, LineInv, [Next]_vars PROVE LineInv'
<1> SUFFICES ASSUME ~late'
             PROVE  /\ (pc = "send" => rx \o air \in Rests /\ (i = 0 => rx \o air = <<>>))'
                    /\ (pc = "window" =>
                          \E l \in Rests : \E c \in sent : \E r \in Replies(c) :
                              Line = l \o r /\ (i = 0 => l = <<>>))'
  BY DEF LineInv, Line
<1>0. /\ buf \in Seq(Bytes) /\ rx \in Seq(Bytes) /\ air \in Seq(Bytes)
      /\ rx \o air \in Seq(Bytes)
      /\ sent \subseteq Readings
  BY LineTypes
<1>00. ~late =>
          /\ pc = "send" => rx \o air \in Rests /\ (i = 0 => rx \o air = <<>>)
          /\ pc = "window" =>
                \E l \in Rests : \E c \in sent : \E r \in Replies(c) :
                    Line = l \o r /\ (i = 0 => l = <<>>)
  BY DEF LineInv, Line
<1>1. CASE DrainRead \/ Return \/ Publish \/ NextTurn
  BY <1>1 DEF DrainRead, Return, Publish, NextTurn
<1>2. CASE DrainDone
  <2>1. rx' = <<>> /\ air' = <<>> /\ pc' = "send"
    BY <1>2 DEF DrainDone
  <2>2. rx' \o air' = <<>>
    BY <2>1
  <2> QED BY <2>1, <2>2 DEF Rests
<1>3. CASE Send
  <2>1. ~late /\ pc = "send" /\ pc' = "window" /\ UNCHANGED <<i, rx>> /\ buf' = <<>>
    BY <1>3 DEF Send
  <2>c. PICK c \in Readings : \E r \in Replies(c) : sent' = sent \cup {c} /\ air' = air \o r
    BY <1>3 DEF Send, Replies
  <2>2. PICK r \in Replies(c) : sent' = sent \cup {c} /\ air' = air \o r
    BY <2>c
  <2> DEFINE l == rx \o air
  <2>3. l \in Rests' /\ (i = 0 => l = <<>>)
    BY <1>00, <2>1, <2>2, RestsGrow
  <2>4. Line' = l \o r
    <3>1. r \in Seq(Bytes)
      BY <2>2, RepliesAreBytes
    <3>2. rx \o (air \o r) = l \o r
      BY <1>0, <3>1, ConcatAssociative
    <3>3. <<>> \o (rx \o (air \o r)) = rx \o (air \o r)
      <4>1. rx \o (air \o r) \in Seq(Bytes)
        BY <1>0, <3>1, ConcatProperties
      <4> QED BY <4>1, ConcatEmptySeq
    <3> QED BY <2>1, <2>2, <3>2, <3>3 DEF Line
  <2> HIDE DEF l
  <2> QED BY <2>1, <2>2, <2>3, <2>4
<1>4. CASE Poll
  <2>1. Line' = Line
    BY <1>4, PollKeeps
  <2>2. UNCHANGED <<pc, i, sent, late>> /\ pc = "window"
    BY <1>4 DEF Poll
  <2>3. Rests' = Rests
    BY <2>2 DEF Rests
  <2> QED BY <1>00, <2>1, <2>2, <2>3
<1>5. CASE Deliver
  <2>1. rx' \o air' = rx \o air /\ UNCHANGED <<pc, i, buf, sent, late>>
    BY <1>5, DeliverKeeps DEF Deliver
  <2>2. Line' = Line /\ Rests' = Rests
    BY <2>1 DEF Line, Rests
  <2> QED BY <1>00, <2>1, <2>2
<1>6. CASE Retry
  <2>1. /\ pc = "window" /\ i = 0 /\ i' = 1 /\ pc' = "send"
        /\ ~late /\ UNCHANGED <<buf, rx, air, sent>>
    BY <1>6 DEF Retry, WindowOver, Leaves, TypeOK
  <2>2. PICK c \in sent : \E r \in Replies(c) : Line = <<>> \o r
    BY <1>00, <2>1
  <2>3. PICK r \in Replies(c) : Line = <<>> \o r
    BY <2>2
  <2>4. r \in Seq(Bytes) /\ Line = r
    BY <1>0, <2>3, RepliesAreBytes, ConcatEmptySeq
  <2> DEFINE o == rx \o air
             n == Len(buf)
  <2>5. o = SubSeq(r, n + 1, Len(r))
    BY <1>0, <2>4, Dropped DEF Line
  <2>6. n \in 0..Len(r)
    <3> DEFINE k == Len(o)
               q == Len(r)
    <3>1. n \in Nat /\ k \in Nat
      BY <1>0, LenProperties
    <3>2. q = n + k
      BY <1>0, <2>4, ConcatProperties DEF Line
    <3> HIDE DEF n, k, q
    <3>3. n \in 0..q
      BY <3>1, <3>2
    <3> QED BY <3>3 DEF q
  <2>7. o \in Rests
    <3> HIDE DEF o, n
    <3> QED BY <2>5, <2>6 DEF Rests
  <2> HIDE DEF o
  <2>8. o \in Rests' /\ (rx \o air)' = o
    BY <2>1, <2>7 DEF Rests, o
  <2> QED BY <2>1, <2>8
<1>7. CASE UNCHANGED vars
  <2>1. Line' = Line /\ Rests' = Rests /\ UNCHANGED <<pc, i, rx, air, sent, late>>
    BY <1>7 DEF vars, Line, Rests
  <2> QED BY <1>00, <2>1
<1> QED BY <1>1, <1>2, <1>3, <1>4, <1>5, <1>6, <1>7 DEF Next, Turn

\* A reading that is published was measured, or is out of range.
LEMMA MeasuredStep ==
    ASSUME TypeOK, LineInv, InRangeMeansMeasured, [Next]_vars
    PROVE  InRangeMeansMeasured'
<1>1. CASE Return
  <2> SUFFICES ASSUME ~late, value' \in 0..13 * LastCode
               PROVE  value' \in {13 * c : c \in sent'}
    BY <1>1 DEF Return, InRangeMeansMeasured
  <2>1. value' = Attempt /\ sent' = sent /\ pc = "window"
    BY <1>1 DEF Return, WindowOver
  <2>2. Valid /\ value' = 13 * Code
    BY <2>1 DEF Attempt, Silent
  <2>3. Code <= LastCode
    <3>1. 2 \in 1..Len(buf) /\ 3 \in 1..Len(buf)
      BY <2>2 DEF Valid, FrameLen
    <3>2. buf[2] \in Bytes /\ buf[3] \in Bytes
      BY <3>1, LineTypes, ElementOfSeq
    <3> DEFINE k == Code
    <3>3. k \in Int
      <4>1. 256 * buf[2] \in Int /\ buf[3] \in Int
        BY <3>2 DEF Bytes
      <4> QED BY <4>1 DEF Code
    <3> HIDE DEF k
    <3>4. 13 * k <= 13 * 3938
      BY <2>2, <3>3 DEF k, LastCode
    <3>5. k <= 3938
      BY <3>3, <3>4
    <3> QED BY <3>5 DEF k, LastCode
  <2>4. PICK l \in Rests : \E c \in sent : \E r \in Replies(c) : Line = l \o r
    BY <2>1 DEF LineInv, Line
  <2>5. Code \in sent
    BY <2>2, <2>3, <2>4, CodeWasSent
  <2> QED BY <2>1, <2>2, <2>5
<1>2. CASE pc' # "publish"
  BY <1>2 DEF InRangeMeansMeasured
<1>3. CASE UNCHANGED <<pc, value, sent, late>>
  BY <1>3 DEF InRangeMeansMeasured
<1> QED BY <1>1, <1>2, <1>3 DEF Next, Turn, DrainRead, DrainDone, Send, Poll, Retry, Publish,
           NextTurn, Deliver, vars

\* Losses are only counted up.
LEMMA LossesGrow ==
    ASSUME TypeOK, OneMoreLoss < 2
    PROVE  losses = 0 /\ OneMoreLoss = 1
<1>1. losses \in {0, 1, 2}
  BY DEF TypeOK
<1> QED BY <1>1 DEF OneMoreLoss

\* How a window ends with no byte too many and less than two losses: with a whole
\* frame, or with less than one and a loss.
LEMMA CleanWindow ==
    ASSUME TypeOK, LossInv, ~late, ~surplus, losses < 2, pc = "window", WindowOver, air = <<>>
    PROVE  /\ rx \o air = <<>>
           /\ \/ \E c \in sent : Attempt = 13 * c
              \/ Attempt = Silent /\ losses = 1 /\ (i = 1 => 0 \in sent)
<1>1. PICK c \in sent :
         \/ Line = Frame(c)
         \/ Line \in Damaged(c) /\ losses = 1 /\ (i = 1 => 0 \in sent)
  BY DEF LossInv, Line
<1>2. c \in Readings
  BY LineTypes
<1> QED BY <1>1, <1>2, WholeWindow, ShortWindow

\* With no byte too many and less than two losses, nothing is left behind.
LEMMA LossStep == ASSUME TypeOK, StartInv, LossInv, [Next]_vars PROVE LossInv'
<1> SUFFICES ASSUME ~late', ~surplus', losses' < 2
             PROVE  /\ (pc = "send" => /\ rx \o air = <<>>
                                       /\ IF i = 0 THEN losses = 0 ELSE losses = 1 \/ 0 \in sent)'
                    /\ (pc = "window" =>
                          \E c \in sent :
                              \/ Line = Frame(c)
                              \/ Line \in Damaged(c) /\ losses = 1 /\ (i = 1 => 0 \in sent))'
                    /\ (pc = "publish" => value \in 0..13 * LastCode \/ (losses = 1 /\ 0 \in sent))'
  BY DEF LossInv, Line
<1>0. /\ buf \in Seq(Bytes) /\ rx \in Seq(Bytes) /\ air \in Seq(Bytes)
      /\ rx \o air \in Seq(Bytes)
      /\ sent \subseteq Readings /\ sent \subseteq 0..LastCode
      /\ i \in 0..1
  BY LineTypes DEF TypeOK
<1>1. CASE DrainRead \/ Publish \/ NextTurn
  BY <1>1 DEF DrainRead, Publish, NextTurn
<1>2. CASE DrainDone
  <2>1. rx' = <<>> /\ air' = <<>> /\ pc' = "send" /\ i' = 0 /\ losses' = 0
    BY <1>2 DEF DrainDone, StartInv
  <2>2. rx' \o air' = <<>>
    BY <2>1
  <2> QED BY <2>1, <2>2
<1>3. CASE Send
  <2>1. ~late /\ pc = "send" /\ pc' = "window" /\ UNCHANGED <<i, rx>> /\ buf' = <<>>
    BY <1>3 DEF Send
  <2>2. PICK c \in Readings :
           /\ sent' = sent \cup {c}
           /\ \/ air' = air \o Frame(c) /\ UNCHANGED <<losses, surplus>>
              \/ /\ \E r \in Damaged(c) : air' = air \o r
                 /\ losses' = OneMoreLoss
                 /\ UNCHANGED surplus
    BY <1>3 DEF Send
  <2>3. PICK r \in Replies(c) :
           /\ air' = air \o r
           /\ \/ r = Frame(c) /\ losses < 2
              \/ r \in Damaged(c) /\ losses = 0 /\ losses' = 1
    <3>1. CASE air' = air \o Frame(c) /\ UNCHANGED <<losses, surplus>>
      BY <3>1 DEF Replies
    <3>2. CASE /\ \E r \in Damaged(c) : air' = air \o r
               /\ losses' = OneMoreLoss
               /\ UNCHANGED surplus
      BY <3>2, LossesGrow DEF Replies
    <3> QED BY <2>2, <3>1, <3>2
  <2>4. /\ rx \o air = <<>>
        /\ IF i = 0 THEN losses = 0 ELSE losses = 1 \/ 0 \in sent
    <3>1. ~surplus
      BY <2>2
    <3> QED BY <2>1, <2>3, <3>1 DEF LossInv
  <2>5. Line' = r
    <3>1. r \in Seq(Bytes)
      BY RepliesAreBytes
    <3>2. rx \o (air \o r) = <<>> \o r
      BY <1>0, <2>4, <3>1, ConcatAssociative
    <3>3. <<>> \o r = r
      BY <3>1, ConcatEmptySeq
    <3> QED BY <2>1, <2>3, <3>2, <3>3 DEF Line
  <2>6. c \in sent' /\ (0 \in sent => 0 \in sent')
    BY <2>2
  <2> QED BY <2>1, <2>3, <2>4, <2>5, <2>6
<1>4. CASE Poll
  <2>1. Line' = Line /\ UNCHANGED <<pc, i, sent, late, losses, surplus>> /\ pc = "window"
    BY <1>4, PollKeeps DEF Poll
  <2> QED BY <2>1 DEF LossInv, Line
<1>5. CASE Deliver
  <2>1. rx' \o air' = rx \o air /\ UNCHANGED <<pc, i, buf, sent, late, losses, surplus, value>>
    BY <1>5, DeliverKeeps DEF Deliver
  <2>2. Line' = Line
    BY <2>1 DEF Line
  <2> QED BY <2>1, <2>2 DEF LossInv, Line
<1>6. CASE Retry
  <2>1. /\ pc = "window" /\ WindowOver /\ ~Leaves /\ i' = i + 1 /\ pc' = "send"
        /\ ~late /\ UNCHANGED <<rx, air, sent>>
    BY <1>6 DEF Retry, WindowOver
  <2>2. air = <<>> /\ ~surplus /\ losses' = losses
    BY <1>6 DEF Retry
  <2>3. /\ rx \o air = <<>>
        /\ \/ \E c \in sent : Attempt = 13 * c
           \/ Attempt = Silent /\ losses = 1 /\ (i = 1 => 0 \in sent)
    BY <2>1, <2>2, CleanWindow
  <2>4. i' = 1
    BY <1>0, <2>1 DEF Leaves
  <2>5. losses = 1 \/ 0 \in sent
    <3>1. ASSUME NEW c \in sent, Attempt = 13 * c PROVE c = 0
      <4>1. ~(13 * c > 0) /\ c \in 0..3938
        BY <1>0, <2>1, <3>1 DEF Leaves, LastCode
      <4> QED BY <4>1
    <3> QED BY <2>3, <3>1
  <2> QED BY <2>1, <2>2, <2>3, <2>4, <2>5
<1>7. CASE Return
  <2>1. /\ pc = "window" /\ WindowOver /\ Leaves /\ pc' = "publish" /\ value' = Attempt
        /\ ~late /\ UNCHANGED <<i, rx, sent>>
    BY <1>7 DEF Return, WindowOver
  <2>2. air = <<>> /\ ~surplus /\ losses' = losses
    BY <1>7 DEF Return
  <2>3. \/ \E c \in sent : Attempt = 13 * c
        \/ Attempt = Silent /\ losses = 1 /\ (i = 1 => 0 \in sent)
    BY <2>1, <2>2, CleanWindow
  <2>4. CASE \E c \in sent : Attempt = 13 * c
    <3>1. PICK c \in sent : Attempt = 13 * c
      BY <2>4
    <3>2. c \in 0..3938
      BY <1>0 DEF LastCode
    <3> DEFINE v == 13 * c
               z == 13 * LastCode
    <3>3. v \in Int /\ z \in Int /\ 0 <= v /\ v <= z
      BY <3>2 DEF LastCode
    <3> HIDE DEF v, z
    <3>4. v \in 0..z
      BY <3>3
    <3> QED BY <2>1, <3>1, <3>4 DEF v, z
  <2>5. CASE Attempt = Silent /\ losses = 1 /\ (i = 1 => 0 \in sent)
    <3>1. i = 1
      BY <2>1, <2>5 DEF Leaves, Silent
    <3> QED BY <2>1, <2>2, <2>5, <3>1
  <2> QED BY <2>3, <2>4, <2>5
<1>8. CASE UNCHANGED vars
  <2>1. Line' = Line /\ rx' \o air' = rx \o air /\ UNCHANGED <<pc, i, sent, late, losses, surplus, value>>
    BY <1>8 DEF vars, Line
  <2> QED BY <2>1 DEF LossInv, Line
<1> QED BY <1>1, <1>2, <1>3, <1>4, <1>5, <1>6, <1>7, <1>8 DEF Next, Turn

LEMMA ToleratedStep ==
    ASSUME TypeOK, LossInv, OneLossTolerated, [Next]_vars
    PROVE  OneLossTolerated'
<1>1. CASE Publish
  <2> SUFFICES ASSUME ~late, ~surplus, current' \notin -25600..25600
               PROVE  losses = 2 \/ (losses = 1 /\ 0 \in sent)
    BY <1>1 DEF Publish, OneLossTolerated
  <2>1. pc = "publish" /\ current' = value - 25600
    BY <1>1 DEF Publish, Amperes
  <2>2. ASSUME value \in 0..13 * LastCode PROVE FALSE
    <3> DEFINE z == 13 * LastCode
               a == current'
               l == -25600
               h == 25600
    <3>1. z \in Int /\ z <= 51194
      BY DEF LastCode
    <3>2. value \in Int /\ 0 <= value /\ value <= z
      <4> HIDE DEF z
      <4> QED BY <2>2, <3>1 DEF z
    <3>3. a \in Int /\ l \in Int /\ h \in Int /\ l <= a /\ a <= h
      <4> HIDE DEF z
      <4> QED BY <2>1, <3>1, <3>2
    <3> HIDE DEF a, l, h, z
    <3>4. a \in l..h
      BY <3>3
    <3> QED BY <3>4 DEF a, l, h
  <2>3. losses \in {0, 1, 2}
    BY DEF TypeOK
  <2> QED BY <2>1, <2>2, <2>3 DEF LossInv
<1>2. CASE pc' # "sleep"
  BY <1>2 DEF OneLossTolerated
<1>3. CASE UNCHANGED <<pc, current, sent, losses, surplus, late>>
  BY <1>3 DEF OneLossTolerated
<1> QED BY <1>1, <1>2, <1>3 DEF Next, Turn, DrainRead, DrainDone, Send, Poll, Retry, Return,
           NextTurn, Deliver, vars

(***************************************************************************)
(* The theorems.                                                           *)
(***************************************************************************)

LEMMA InitInv == Init => IInv
<1> SUFFICES ASSUME Init PROVE IInv
  OBVIOUS
<1>1. TypeOK
  <2>1. value = 0 /\ 0 \in 0..LastValue
    BY LastValueInt, SMT DEF Init
  <2>2. current \in Amperes(Silent)..Amperes(LastValue)
    <3> DEFINE l == Amperes(Silent)
               h == Amperes(LastValue)
    <3>1. l \in Int /\ h \in Int /\ l <= 0 /\ 0 <= h
      <4>1. 25600 <= LastValue
        BY LastValueIs, SMT
      <4> QED BY <4>1, LastValueInt, SMT DEF Amperes, Silent
    <3> HIDE DEF l, h
    <3>2. 0 \in l..h
      BY <3>1
    <3> QED BY <3>2 DEF l, h, Init
  <2>3. buf = <<>> /\ rx = <<>> /\ air = <<>> /\ <<>> \in Seq(Bytes) /\ Len(<<>>) <= FrameLen
    BY DEF Init, FrameLen
  <2>4. i = 0 /\ losses = 0 /\ sent = {} /\ surplus = FALSE /\ late = FALSE
    BY DEF Init
  <2>5. i \in 0..1 /\ losses \in 0..2
    BY <2>4
  <2>6. sent \subseteq Readings /\ surplus \in BOOLEAN /\ late \in BOOLEAN
    BY <2>4
  <2> QED BY <2>1, <2>2, <2>3, <2>5, <2>6 DEF Init, TypeOK
<1> QED BY <1>1 DEF IInv, Init, StartInv, LineInv, LossInv, InRangeMeansMeasured, OneLossTolerated

\* The invariant is inductive.
THEOREM Invariance == Spec => []IInv
<1>1. IInv /\ [Next]_vars => IInv'
  <2> SUFFICES ASSUME IInv, [Next]_vars PROVE IInv'
    OBVIOUS
  <2>1. /\ TypeOK /\ StartInv /\ LineInv /\ LossInv
        /\ InRangeMeansMeasured /\ OneLossTolerated
    BY DEF IInv
  <2> QED BY <2>1, TypeStep, StartStep, LineStep, LossStep, MeasuredStep, ToleratedStep DEF IInv
<1> QED BY <1>1, InitInv, PTL DEF Spec

\* The types hold for any readings and any stray bytes: the window never holds
\* more than a frame, and nothing a reply may be turned into makes a value that
\* two bytes cannot stand for (s800serialDAO.c:17-60, 177-230).
THEOREM TypeCorrect == Spec => []TypeOK
<1>1. IInv => TypeOK
  BY DEF IInv
<1> QED BY <1>1, Invariance, PTL

\* For any readings of the sensor and any stray bytes: a value within the range
\* was measured for this call.  The two marks suffice, with no checksum
\* (s800serialDAO.c:23-25, 43-48).
THEOREM MarksAreEnough == Spec => []InRangeMeansMeasured
<1>1. IInv => InRangeMeansMeasured
  BY DEF IInv
<1> QED BY <1>1, Invariance, PTL

\* For any readings of the sensor: in a call with no stray byte and none after
\* its window, a single lost or short reply makes no absurd current, unless the
\* sensor answered 0 V (s800serialDAO.c:33, 54).
THEOREM SecondAttemptSuffices == Spec => []OneLossTolerated
<1>1. IInv => OneLossTolerated
  BY DEF IInv
<1> QED BY <1>1, Invariance, PTL

=============================================================================
