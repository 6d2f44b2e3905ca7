------------------------ MODULE VoltageControlProofs ------------------------
(***************************************************************************)
(* Proofs about VoltageControl, for every number of cells and every set of  *)
(* voltages, and about the codec of FrameCodec its voltages come through,   *)
(* for all codes and all bytes: the codec keeps the order of the codes, a   *)
(* pass follows the minimum, and so it discharges the cell that sent more.  *)
(***************************************************************************)
EXTENDS VoltageControl, TLAPS

-----------------------------------------------------------------------------
(***************************************************************************)
(* Numbers.                                                                *)
(***************************************************************************)

\* A code is its exponent and its mantissa.
LEMMA CodeParts ==
    ASSUME NEW c \in Numbers
    PROVE  /\ c \in Nat /\ c <= 30719
           /\ Exponent(c) \in 0..14
           /\ Mantissa(c) \in Nat /\ Mantissa(c) <= 2047
           /\ c = 2048 * Exponent(c) + Mantissa(c)
<1>1. c \in Nat /\ c <= LastNumber
  BY DEF Numbers, LastNumber
<1>2. c <= 30719
  BY <1>1 DEF LastNumber
<1> QED BY <1>1, <1>2 DEF Exponent, Mantissa

\* The divisors are even.
LEMMA DivisorKnown ==
    ASSUME NEW e \in 0..14
    PROVE  /\ Divisor(e) \in Nat \ {0, 1}
           /\ Divisor(e) % 2 = 0
           /\ Divisor(e) = 2 * (Divisor(e) \div 2)
BY DEF Divisor

\* A greater exponent has a smaller divisor, half at most but that exponent 0
\* shares that of exponent 1.
LEMMA DivisorFalls ==
    ASSUME NEW e \in 0..14, NEW f \in 0..14, e < f
    PROVE  /\ Divisor(f) <= Divisor(e)
           /\ e > 0 => 2 * Divisor(f) <= Divisor(e)
BY DEF Divisor

LEMMA SignificandKnown ==
    ASSUME NEW c \in Numbers
    PROVE  Significand(c) \in Nat /\ Significand(c) <= 4095
BY CodeParts DEF Significand

\* What a quotient rounded to the nearest integer is.
LEMMA RoundedNearest ==
    ASSUME NEW n \in Nat, NEW h \in Nat \ {0}
    PROVE  /\ Rounded(n, 2 * h) \in Nat
           /\ 2 * h * Rounded(n, 2 * h) <= n + h
           /\ n + h < 2 * h * Rounded(n, 2 * h) + 2 * h
<1> DEFINE d == 2 * h
<1> DEFINE q == (n + h) \div d
<1>1. d \in Nat \ {0} /\ d \div 2 = h
  OBVIOUS
<1>2. q \in Nat /\ d * q <= n + h /\ n + h < d * q + d
  <2> HIDE DEF d
  <2>1. n + h = d * q + ((n + h) % d) /\ (n + h) % d \in 0..d - 1
    BY <1>1
  <2>2. q \in Nat
    BY <1>1
  <2> QED BY <2>1, <2>2, <1>1
<1>3. Rounded(n, d) = q
  BY <1>1 DEF Rounded
<1> QED BY <1>2, <1>3

LEMMA TimesKeepsOrder ==
    ASSUME NEW a \in Nat, NEW b \in Nat, NEW k \in Nat \ {0}
    PROVE  /\ a <= b => k * a <= k * b
           /\ a < b  => k * a < k * b
           /\ k * a < k * b => a < b
OBVIOUS

\* Rounding keeps the order of two quotients.
LEMMA RoundedMonotone ==
    ASSUME NEW m \in Nat, NEW h \in Nat \ {0}, NEW n \in Nat, NEW k \in Nat \ {0},
           k * m <= h * n
    PROVE  Rounded(m, 2 * h) <= Rounded(n, 2 * k)
<1> DEFINE p == Rounded(m, 2 * h)
<1> DEFINE q == Rounded(n, 2 * k)
<1>1. p \in Nat /\ q \in Nat /\ 2 * h * p <= m + h /\ n + k < 2 * k * (q + 1)
  BY RoundedNearest
<1> HIDE DEF p, q
<1>2. 2 * h * p \in Nat /\ m + h \in Nat /\ n + k \in Nat /\ 2 * k * (q + 1) \in Nat
  BY <1>1
<1>3. k * (2 * h * p) <= k * (m + h)
  BY <1>1, <1>2, TimesKeepsOrder
<1>4. h * (n + k) < h * (2 * k * (q + 1))
  BY <1>1, <1>2, TimesKeepsOrder
<1>5. k * (m + h) <= h * (n + k)
  OBVIOUS
<1> DEFINE w == 2 * (h * k)
<1>6. w \in Nat \ {0} /\ k * (2 * h * p) = w * p /\ h * (2 * k * (q + 1)) = w * (q + 1)
  BY <1>1
<1> HIDE DEF w
<1>7. w * p < w * (q + 1)
  <2>1. /\ w * p \in Nat /\ w * (q + 1) \in Nat
        /\ k * (m + h) \in Nat /\ h * (n + k) \in Nat
    BY <1>1, <1>6
  <2> QED BY <2>1, <1>3, <1>4, <1>5, <1>6
<1>8. p < q + 1
  BY <1>1, <1>6, <1>7, TimesKeepsOrder
<1> QED BY <1>1, <1>8 DEF p, q

\* The comparison of two quotients s / 2d and t / 2e, by what is known of the
\* significands and divisors of two codes.
LEMMA QuotientsOrdered ==
    ASSUME NEW s \in Nat, NEW t \in Nat, NEW d \in Nat \ {0}, NEW e \in Nat \ {0},
           s <= 4095, \/ d = e /\ s <= t
                      \/ 2 * e <= d /\ 2048 <= t
    PROVE  e * s <= d * t
<1>1. CASE d = e /\ s <= t
  BY <1>1, TimesKeepsOrder
<1>2. CASE 2 * e <= d /\ 2048 <= t
  <2>1. e * s <= e * 4096
    BY TimesKeepsOrder
  <2>2. d * 2048 <= d * t
    BY <1>2, TimesKeepsOrder
  <2>3. e * 4096 <= d * 2048
    BY <1>2
  <2>4. e * s \in Int /\ d * t \in Int /\ e * 4096 \in Int /\ d * 2048 \in Int
    OBVIOUS
  <2> DEFINE w == e * s
  <2> DEFINE x == e * 4096
  <2> DEFINE y == d * 2048
  <2> DEFINE z == d * t
  <2> HIDE DEF w, x, y, z
  <2>5. w <= x /\ x <= y /\ y <= z /\ {w, x, y, z} \subseteq Int
    BY <2>1, <2>2, <2>3, <2>4 DEF w, x, y, z
  <2>6. w <= z
    BY <2>5
  <2> QED BY <2>6 DEF w, z
<1> QED BY <1>1, <1>2

\* The exact value of a code grows with it: the significands, each over the
\* divisor of its exponent.
LEMMA ExactMonotone ==
    ASSUME NEW a \in Numbers, NEW b \in Numbers, a <= b
    PROVE  Divisor(Exponent(b)) * Significand(a) <= Divisor(Exponent(a)) * Significand(b)
<1> DEFINE e == Exponent(a)
<1> DEFINE f == Exponent(b)
<1> DEFINE m == Mantissa(a)
<1> DEFINE n == Mantissa(b)
<1> DEFINE s == Significand(a)
<1> DEFINE t == Significand(b)
<1>1. e \in 0..14 /\ m \in Nat /\ m <= 2047 /\ a = 2048 * e + m
  BY CodeParts
<1>2. f \in 0..14 /\ n \in Nat /\ n <= 2047 /\ b = 2048 * f + n
  BY CodeParts
<1>3. s = IF e = 0 THEN m ELSE 2048 + m
  BY DEF Significand
<1>4. t = IF f = 0 THEN n ELSE 2048 + n
  BY DEF Significand
<1> HIDE DEF e, f, m, n, s, t
<1>5. s \in Nat /\ s <= 4095 /\ t \in Nat
  BY <1>1, <1>2, <1>3, <1>4
<1>6. Divisor(e) \in Nat \ {0}
  BY <1>1, DivisorKnown
<1>7. Divisor(f) \in Nat \ {0}
  BY <1>2, DivisorKnown
<1>8. e <= f /\ (e = f => m <= n)
  BY <1>1, <1>2
<1>9. \/ Divisor(e) = Divisor(f) /\ s <= t
      \/ 2 * Divisor(f) <= Divisor(e) /\ 2048 <= t
  <2>1. CASE e = f
    BY <2>1, <1>1, <1>2, <1>3, <1>4, <1>8
  <2>2. CASE e < f /\ e = 0
    <3>1. s <= t /\ 2048 <= t
      BY <2>2, <1>1, <1>2, <1>3, <1>4
    <3>2. Divisor(0) = 16384 /\ (Divisor(f) = 16384 \/ 2 * Divisor(f) <= 16384)
      BY <1>2 DEF Divisor
    <3> QED BY <3>1, <3>2, <2>2
  <2>3. CASE e < f /\ e > 0
    <3>1. 2048 <= t
      BY <2>3, <1>1, <1>2, <1>4
    <3>2. 2 * Divisor(f) <= Divisor(e)
      BY <2>3, <1>1, <1>2, DivisorFalls
    <3> QED BY <3>1, <3>2
  <2> QED BY <2>1, <2>2, <2>3, <1>1, <1>2, <1>8
<1>10. Divisor(f) * s <= Divisor(e) * t
  <2> DEFINE d == Divisor(e)
  <2> DEFINE g == Divisor(f)
  <2>1. /\ d \in Nat \ {0} /\ g \in Nat \ {0} /\ s \in Nat /\ t \in Nat
        /\ s <= 4095
        /\ (d = g /\ s <= t) \/ (2 * g <= d /\ 2048 <= t)
    BY <1>5, <1>6, <1>7, <1>9
  <2> HIDE DEF d, g
  <2>2. g * s <= d * t
    BY ONLY <2>1, QuotientsOrdered
  <2> QED BY <2>2 DEF d, g
<1> QED BY <1>10 DEF e, f, s, t

\* Half a divisor, and the number as a rounded quotient by it.
LEMMA DecodedIsRounded ==
    ASSUME NEW c \in Numbers
    PROVE  LET h == Divisor(Exponent(c)) \div 2
           IN  /\ h \in Nat \ {0}
               /\ Divisor(Exponent(c)) = 2 * h
               /\ decodeData(c) = Rounded(125 * Significand(c), 2 * h)
<1>1. Exponent(c) \in 0..14
  BY CodeParts
<1>2. /\ Divisor(Exponent(c)) \in Nat \ {0, 1}
      /\ Divisor(Exponent(c)) = 2 * (Divisor(Exponent(c)) \div 2)
  BY <1>1, DivisorKnown
<1>3. Divisor(Exponent(c)) \div 2 \in Nat \ {0}
  BY <1>2
<1> QED BY <1>2, <1>3 DEF decodeData

\* The greater of two codes never decodes to the smaller number
\* (s800serialDAO.c:250-254), whichever exponents they have.
THEOREM DecodeKeepsOrder ==
    ASSUME NEW a \in Numbers, NEW b \in Numbers, a <= b
    PROVE  decodeData(a) <= decodeData(b)
<1> DEFINE h == Divisor(Exponent(a)) \div 2
<1> DEFINE k == Divisor(Exponent(b)) \div 2
<1>1. /\ h \in Nat \ {0} /\ k \in Nat \ {0}
      /\ Divisor(Exponent(a)) = 2 * h /\ Divisor(Exponent(b)) = 2 * k
      /\ decodeData(a) = Rounded(125 * Significand(a), 2 * h)
      /\ decodeData(b) = Rounded(125 * Significand(b), 2 * k)
  BY DecodedIsRounded
<1>2. Significand(a) \in Nat /\ Significand(b) \in Nat
  BY SignificandKnown
<1> HIDE DEF h, k
<1>3. 2 * k * Significand(a) <= 2 * h * Significand(b)
  BY <1>1, ExactMonotone
<1>4. k * (125 * Significand(a)) <= h * (125 * Significand(b))
  <2>1. k * Significand(a) \in Nat /\ h * Significand(b) \in Nat
    BY <1>1, <1>2
  <2>2. /\ k * (125 * Significand(a)) = 125 * (k * Significand(a))
        /\ h * (125 * Significand(b)) = 125 * (h * Significand(b))
        /\ 2 * k * Significand(a) = 2 * (k * Significand(a))
        /\ 2 * h * Significand(b) = 2 * (h * Significand(b))
    BY <1>1, <1>2
  <2> QED BY <2>1, <2>2, <1>3
<1>5. 125 * Significand(a) \in Nat /\ 125 * Significand(b) \in Nat
  BY <1>2
<1> DEFINE m == 125 * Significand(a)
<1> DEFINE n == 125 * Significand(b)
<1>6. m \in Nat /\ n \in Nat /\ k * m <= h * n
  BY <1>4, <1>5
<1>7. decodeData(a) = Rounded(m, 2 * h) /\ decodeData(b) = Rounded(n, 2 * k)
  BY <1>1
<1> HIDE DEF m, n
<1>8. Rounded(m, 2 * h) <= Rounded(n, 2 * k)
  BY <1>1, <1>6, RoundedMonotone
<1> QED BY <1>7, <1>8

\* The same, from one code to the next, as the runs check it.
THEOREM DecodeIsMonotone == DecodeMonotone
<1> SUFFICES ASSUME NEW c \in 0..LastNumber - 1
             PROVE  decodeData(c) <= decodeData(c + 1)
  BY DEF DecodeMonotone
<1>1. c \in Nat /\ c <= LastNumber - 1 /\ LastNumber \in Nat
  BY DEF LastNumber
<1>2. c \in Numbers /\ c + 1 \in Numbers /\ c <= c + 1
  BY <1>1 DEF Numbers
<1> QED BY <1>2, DecodeKeepsOrder

\* Every number that is decoded lies between 0 and 255.938 (s800serialDAO.c:248,
\* 252-256), so that the error codes -1 and -2 are never readings.
THEOREM DecodeRange ==
    ASSUME NEW c \in Numbers
    PROVE  decodeData(c) \in Nat /\ decodeData(c) <= 255938
<1> DEFINE s == Significand(c)
<1> DEFINE h == Divisor(Exponent(c)) \div 2
<1>2. /\ h \in Nat \ {0}
      /\ decodeData(c) = Rounded(125 * s, 2 * h)
  BY DecodedIsRounded
<1>3. s \in Nat /\ s <= 4095
  BY SignificandKnown
<1> HIDE DEF s, h
<1>4. /\ decodeData(c) \in Nat
      /\ 2 * h * decodeData(c) <= 125 * s + h
  BY <1>2, <1>3, RoundedNearest
<1> DEFINE v == decodeData(c)
<1> HIDE DEF v
<1>5. h * (2 * v) < h * 511877
  <2>1. 125 * s <= 511875 * h
    BY <1>2, <1>3
  <2>2. h * (2 * v) = 2 * h * v
    BY <1>2, <1>4 DEF v
  <2> QED BY <2>1, <2>2, <1>2, <1>3, <1>4 DEF v
<1>6. 2 * v < 511877
  <2>1. 2 * v \in Nat /\ 511877 \in Nat
    BY <1>4 DEF v
  <2> QED BY ONLY <2>1, <1>2, <1>5, TimesKeepsOrder
<1> QED BY <1>4, <1>6 DEF v

(***************************************************************************)
(* Checksums.                                                              *)
(***************************************************************************)

LEMMA XorLaws ==
    ASSUME NEW a \in Bytes, NEW b \in Bytes, NEW c \in Bytes
    PROVE  /\ Xor({}, a) = a
           /\ Xor(a, a) = {}
           /\ Xor(a, b) = Xor(b, a)
           /\ Xor(Xor(a, b), c) = Xor(a, Xor(b, c))
           /\ Xor(a, b) \in Bytes
<1>1. Xor({}, a) = a
  BY DEF Xor
<1>2. Xor(a, a) = {}
  BY DEF Xor
<1>3. Xor(a, b) = Xor(b, a)
  BY DEF Xor
<1>4. Xor(Xor(a, b), c) = Xor(a, Xor(b, c))
  BY DEF Xor
<1>5. Xor(a, b) \in Bytes
  BY DEF Xor, Bytes
<1> QED BY <1>1, <1>2, <1>3, <1>4, <1>5

\* Two bytes are told apart by what a third makes of them.
LEMMA XorCancels ==
    ASSUME NEW a \in Bytes, NEW x \in Bytes, NEW y \in Bytes, Xor(a, x) = Xor(a, y)
    PROVE  x = y
<1>1. Xor(Xor(a, a), x) = Xor(Xor(a, a), y)
  BY XorLaws
<1>2. Xor(a, a) = {} /\ Xor({}, x) = x /\ Xor({}, y) = y
  BY XorLaws
<1> QED BY <1>1, <1>2

\* One byte in error is always noticed, and of all the stray bytes before a
\* frame only its own checksum is not (s800serialDAO.c:259-264): SerialLink lets
\* the checksum accept the bytes of one frame in order and nothing else, which is
\* wrong for that byte alone.
THEOREM DamageIsNoticed ==
    ASSUME NEW a \in Bytes, NEW b \in Bytes, NEW c \in Bytes, NEW d \in Bytes,
           NEW x \in Bytes, Accepted(a, b, c, d)
    PROVE  /\ x # a => ~Accepted(x, b, c, d)
           /\ x # b => ~Accepted(a, x, c, d)
           /\ x # c => ~Accepted(a, b, x, d)
           /\ x # d => ~Accepted(a, b, c, x)
           /\ Accepted(x, a, b, c) <=> x = d
<1> DEFINE e == Xor(a, b)
<1>1. e \in Bytes /\ Xor(b, c) \in Bytes /\ Xor({}, a) = a /\ Xor({}, x) = x
  BY XorLaws
<1>2. d = Xor(e, c) /\ e = Xor(b, a) /\ d = Xor(Xor(b, c), a)
  <2>1. d = Xor(e, c)
    BY <1>1 DEF Accepted, genChecksum
  <2>2. e = Xor(b, a) /\ Xor(e, c) = Xor(a, Xor(b, c))
    BY XorLaws
  <2>3. Xor(a, Xor(b, c)) = Xor(Xor(b, c), a)
    BY <1>1, XorLaws
  <2> QED BY <2>1, <2>2, <2>3
<1>3. ASSUME Accepted(x, b, c, d)
      PROVE  x = a
  <2>1. d = Xor(Xor(x, b), c)
    BY <1>1, <1>3 DEF Accepted, genChecksum
  <2>2. Xor(Xor(x, b), c) = Xor(x, Xor(b, c))
    BY XorLaws
  <2>3. Xor(x, Xor(b, c)) = Xor(Xor(b, c), x)
    BY <1>1, XorLaws
  <2>4. Xor(Xor(b, c), x) = Xor(Xor(b, c), a)
    BY <2>1, <2>2, <2>3, <1>2
  <2> QED BY ONLY <2>4, <1>1, XorCancels, x \in Bytes, a \in Bytes
<1>4. ASSUME Accepted(a, x, c, d)
      PROVE  x = b
  <2>1. d = Xor(Xor(a, x), c) /\ Xor(a, x) \in Bytes
    BY <1>1, <1>4, XorLaws DEF Accepted, genChecksum
  <2>2. Xor(Xor(a, x), c) = Xor(c, Xor(a, x)) /\ Xor(e, c) = Xor(c, e)
    BY <1>1, <2>1, XorLaws
  <2> DEFINE y == Xor(a, x)
  <2>3. Xor(c, y) = Xor(c, e)
    BY <1>2, <2>1, <2>2
  <2>4. y \in Bytes
    BY <2>1
  <2> HIDE DEF e, y
  <2>5. y = e
    BY <1>1, <2>3, <2>4, XorCancels
  <2> QED BY <2>5, XorCancels DEF e, y
<1>5. ASSUME Accepted(a, b, x, d)
      PROVE  x = c
  <2>1. d = Xor(e, x)
    BY <1>1, <1>5 DEF Accepted, genChecksum
  <2> QED BY <2>1, <1>1, <1>2, XorCancels
<1>6. x # d => ~Accepted(a, b, c, x)
  BY DEF Accepted
<1>7. Accepted(x, a, b, c) <=> x = d
  <2>1. Accepted(x, a, b, c) <=> Xor(Xor(x, a), b) = c
    BY <1>1 DEF Accepted, genChecksum
  <2>2. Xor(Xor(x, a), b) = Xor(x, e)
    BY XorLaws
  <2>3. Xor(x, e) = Xor(e, x)
    BY <1>1, XorLaws
  <2>4. Xor(e, d) = c
    <3>1. Xor(Xor(e, e), c) = Xor(e, Xor(e, c))
      BY <1>1, XorLaws
    <3>2. Xor(e, e) = {} /\ Xor({}, c) = c
      BY <1>1, XorLaws
    <3> QED BY <3>1, <3>2, <1>2
  <2> QED BY <2>1, <2>2, <2>3, <2>4, <1>1, XorCancels
<1> QED BY <1>3, <1>4, <1>5, <1>6, <1>7

\* A line that reads as zeros acknowledges the command to stop discharging: the
\* frame is valid, and repeats a command that is 0 (s800serialDAO.c:176-178).
THEOREM ZerosAcknowledgeOff == Accepted({}, {}, {}, {})
BY DEF Accepted, genChecksum, Xor

-----------------------------------------------------------------------------
(* Types.                                                                  *)

\* What control_voltage keeps of a reading (bs01thread.c:22-32) is a voltage
\* of the cell or 0, and its minimum is one of the readings.
LEMMA ReadingKept ==
    ASSUME NEW v \in Readings
    PROVE  /\ v \in Volts \cup {NoAnswer, NotANumber, Zero}
           /\ v \in Int
           /\ Kept(v) \in Volts \cup {0}
           /\ v > 0 => Kept(v) = v
           /\ v <= 0 => Kept(v) = 0
    BY VoltsAreMV DEF Readings, Kept, NoAnswer, NotANumber, Zero

\* The variables of a control pass keep their types (bs01thread.c:10-55).
THEOREM TypeCorrect == Spec => []TypeOK
<1>1. Init => TypeOK
    BY GroupSize DEF Init, TypeOK, Bats, Zero, Open, Off
<1>2. TypeOK /\ [Next]_vars => TypeOK'
    <2> SUFFICES ASSUME TypeOK, [Next]_vars PROVE TypeOK'
        OBVIOUS
    <2> USE DEF TypeOK
    <2>1. CASE Measure
        <3>1. PICK v \in Readings : /\ bat_zu' = [bat_zu EXCEPT ![i] = Kept(v)]
                                    /\ MinValue' = NewMin(i, v)
            BY <2>1 DEF Measure
        <3>2. NewMin(i, v) \in Volts \cup {NoAnswer, NotANumber, Zero}
            BY ReadingKept DEF NewMin
        <3>3. i' \in 1..(N + 1)
            BY <2>1, GroupSize DEF Measure
        <3> QED BY <2>1, <3>1, <3>2, <3>3, ReadingKept DEF Measure
    <2>2. CASE MeasuredAll
        BY <2>2, GroupSize DEF MeasuredAll
    <2>3. CASE Command
        <3>1. \A cmd \in Commands(i) : cmd \in {Open, Off}
            BY DEF Commands
        <3>2. told' \in [Bats -> {Open, Off}] /\ relay' \in [Bats -> {Open, Off}]
            BY <2>3, <3>1 DEF Command
        <3>3. i' \in 1..(N + 1)
            BY <2>3, GroupSize DEF Command
        <3> QED BY <2>3, <3>2, <3>3 DEF Command
    <2>4. CASE CommandedAll
        BY <2>4 DEF CommandedAll
    <2>5. CASE Publish
        BY <2>5, GroupSize DEF Publish, Zero
    <2>6. CASE Restart
        BY <2>6, GroupSize DEF Restart, Zero
    <2>7. CASE Heal
        BY <2>7 DEF Heal
    <2>8. CASE UNCHANGED vars
        BY <2>8 DEF vars
    <2> QED BY <2>1, <2>2, <2>3, <2>4, <2>5, <2>6, <2>7, <2>8 DEF Next, Pass
<1> QED BY <1>1, <1>2, PTL DEF Spec

-----------------------------------------------------------------------------
(* The minimum.                                                            *)

\* The cells this pass has measured.
Done == IF pc = "measure" THEN 1..(i - 1) ELSE 1..N

\* Once cell 1 has answered, MinValue is the lowest voltage heard so far.
MinimumOfDone ==
    1 \in Done /\ bat_zu[1] > 0 =>
        /\ \A c \in Done : bat_zu[c] > 0 => MinValue <= bat_zu[c]
        /\ \E c \in Done : bat_zu[c] > 0 /\ MinValue = bat_zu[c]

\* Every command sent compares the cell with MinValue.
CommandsCompare ==
    \A b \in Reached :
        /\ told[b] = Open => MinValue <= bat_zu[b] - Margin
        /\ told[b] = Off  => MinValue >= bat_zu[b] - Margin

IInv == TypeOK /\ MinimumOfDone /\ CommandsCompare

\* MinValue and the voltages are numbers.
LEMMA VoltagesAreNumbers == TypeOK => MinValue \in Int /\ \A c \in 1..N : bat_zu[c] \in Nat
<1> SUFFICES ASSUME TypeOK PROVE MinValue \in Int /\ \A c \in 1..N : bat_zu[c] \in Nat
    OBVIOUS
<1>1. MinValue \in Int
    BY VoltsAreMV DEF TypeOK, NoAnswer, NotANumber, Zero
<1>2. bat_zu \in [1..N -> Volts \cup {0}]
    BY DEF TypeOK, Bats
<1>3. Volts \cup {0} \subseteq Nat
    BY VoltsAreMV
<1> QED BY <1>1, <1>2, <1>3

LEMMA InvariantStarts == Init => IInv
<1> SUFFICES ASSUME Init PROVE IInv
    OBVIOUS
<1>1. TypeOK
    BY GroupSize DEF Init, TypeOK, Bats, Zero, Open, Off
<1>2. Done = {} /\ Reached = {}
    BY DEF Init, Done, Reached
<1> QED BY <1>1, <1>2 DEF IInv, MinimumOfDone, CommandsCompare

LEMMA MeasurePreserves ==
    ASSUME IInv, TypeOK', Measure
    PROVE  MinimumOfDone' /\ CommandsCompare'
<1> USE DEF IInv, TypeOK
<1>1. PICK v \in Readings : /\ bat_zu' = [bat_zu EXCEPT ![i] = Kept(v)]
                            /\ MinValue' = NewMin(i, v)
    BY DEF Measure
<1>2. i \in 1..N /\ Done = 1..(i - 1) /\ Done' = 1..i
    BY GroupSize DEF Measure, Done
<1>3. /\ bat_zu'[i] = Kept(v)
      /\ \A c \in 1..(i - 1) : bat_zu'[c] = bat_zu[c]
    BY <1>1, <1>2, GroupSize DEF Bats
<1>4. \A c \in 1..N : bat_zu[c] \in Nat /\ bat_zu'[c] \in Nat
    <2>1. \A c \in 1..N : bat_zu[c] \in Nat
        BY VoltagesAreNumbers
    <2>2. (\A c \in 1..N : bat_zu[c] \in Nat)'
        BY VoltagesAreNumbers, PTL
    <2> QED BY <2>1, <2>2
<1>5. MinValue \in Int /\ v \in Int
    BY VoltagesAreNumbers, ReadingKept
<1>6. CASE i = 1
    <2>1. Done' = {1} /\ MinValue' = v
        BY <1>1, <1>2, <1>6 DEF NewMin
    <2>2. bat_zu'[1] > 0 => bat_zu'[1] = v
        BY <1>3, <1>5, <1>6, ReadingKept
    <2>3. MinimumOfDone'
        BY <2>1, <2>2, <1>5 DEF MinimumOfDone
    <2> QED BY <2>3 DEF CommandsCompare, Reached, Measure
<1>7. CASE i > 1
    <2> SUFFICES ASSUME bat_zu'[1] > 0
                 PROVE  /\ \A c \in 1..i : bat_zu'[c] > 0 => MinValue' <= bat_zu'[c]
                        /\ \E c \in 1..i : bat_zu'[c] > 0 /\ MinValue' = bat_zu'[c]
        BY <1>2, <1>7 DEF MinimumOfDone, CommandsCompare, Reached, Measure
    <2>1. 1 \in Done /\ bat_zu[1] > 0
        BY <1>2, <1>3, <1>7
    <2>2. /\ \A c \in 1..(i - 1) : bat_zu[c] > 0 => MinValue <= bat_zu[c]
          /\ \E c \in 1..(i - 1) : bat_zu[c] > 0 /\ MinValue = bat_zu[c]
        BY <2>1, <1>2 DEF MinimumOfDone
    <2>3. MinValue' = IF v > 0 /\ v < MinValue THEN v ELSE MinValue
        BY <1>1, <1>7 DEF NewMin
    <2>4. /\ v > 0 => bat_zu'[i] = v
          /\ ~(v > 0) => bat_zu'[i] = 0
        BY <1>3, <1>5, ReadingKept
    <2>5. /\ MinValue' \in Int
          /\ MinValue' <= MinValue /\ (v > 0 => MinValue' <= v)
        BY <2>3, <1>5
    <2>6. \A c \in 1..i : bat_zu'[c] > 0 => MinValue' <= bat_zu'[c]
        <3> SUFFICES ASSUME NEW c \in 1..i, bat_zu'[c] > 0
                     PROVE  MinValue' <= bat_zu'[c]
            OBVIOUS
        <3>1. CASE c = i
            BY <3>1, <2>4, <2>5, <1>5
        <3>2. CASE c # i
            <4>1. c \in 1..(i - 1)
                BY <3>2, <1>2
            <4>2. bat_zu'[c] = bat_zu[c] /\ MinValue <= bat_zu[c]
                BY <4>1, <1>3, <2>2
            <4>3. bat_zu[c] \in Int
                BY <4>1, <1>2, <1>4, GroupSize
            <4> HIDE DEF IInv, TypeOK
            <4> QED BY <4>2, <4>3, <2>5, <1>5
        <3> QED BY <3>1, <3>2
    <2>7. \E c \in 1..i : bat_zu'[c] > 0 /\ MinValue' = bat_zu'[c]
        <3>1. CASE v > 0 /\ v < MinValue
            BY <3>1, <2>3, <2>4, <1>2
        <3>2. CASE ~(v > 0 /\ v < MinValue)
            <4>1. PICK c \in 1..(i - 1) : bat_zu[c] > 0 /\ MinValue = bat_zu[c]
                BY <2>2
            <4>2. c \in 1..i /\ bat_zu'[c] = bat_zu[c] /\ MinValue' = MinValue
                BY <4>1, <3>2, <1>2, <1>3, <2>3
            <4> QED BY <4>1, <4>2
        <3> QED BY <3>1, <3>2
    <2> QED BY <2>6, <2>7
<1> QED BY <1>2, <1>6, <1>7

LEMMA CommandPreserves ==
    ASSUME IInv, TypeOK', Command
    PROVE  MinimumOfDone' /\ CommandsCompare'
<1> USE DEF IInv, TypeOK
<1>1. MinimumOfDone'
    BY DEF MinimumOfDone, Done, Command
<1>2. PICK cmd \in Commands(i) : told' = [told EXCEPT ![i] = cmd]
    BY DEF Command
<1>3. i \in 1..N /\ Reached = 1..(i - 1) /\ Reached' = 1..i
    BY GroupSize DEF Command, Reached
<1>4. MinValue' = MinValue /\ bat_zu' = bat_zu
    BY DEF Command
<1>5. MinValue \in Int /\ \A b \in 1..N : bat_zu[b] \in Nat
    BY VoltagesAreNumbers
<1>6. /\ cmd = Open => MinValue <= bat_zu[i] - Margin
      /\ cmd = Off  => MinValue >= bat_zu[i] - Margin
    BY <1>2, <1>3, <1>5 DEF Commands, Open, Off, Margin
<1>7. ASSUME NEW b \in 1..i
      PROVE  /\ told'[b] = Open => MinValue <= bat_zu[b] - Margin
             /\ told'[b] = Off  => MinValue >= bat_zu[b] - Margin
    <2>1. CASE b = i
        BY <2>1, <1>2, <1>3, <1>6 DEF Bats
    <2>2. CASE b # i
        <3>1. b \in Reached /\ told'[b] = told[b]
            BY <2>2, <1>2, <1>3 DEF Bats
        <3> QED BY <3>1 DEF CommandsCompare
    <2> QED BY <2>1, <2>2
<1> QED BY <1>1, <1>3, <1>4, <1>7 DEF CommandsCompare

LEMMA InvariantKept ==
    ASSUME IInv, TypeOK', [Next]_vars
    PROVE  IInv'
<1> USE DEF IInv, TypeOK
<1>1. CASE Measure
    BY <1>1, MeasurePreserves
<1>2. CASE MeasuredAll
    <2>1. Done = 1..N /\ Done' = 1..N
        BY <1>2, GroupSize DEF MeasuredAll, Done
    <2>2. Reached' = {}
        BY <1>2 DEF MeasuredAll, Reached
    <2> QED BY <1>2, <2>1, <2>2 DEF MeasuredAll, MinimumOfDone, CommandsCompare
<1>3. CASE Command
    BY <1>3, CommandPreserves
<1>4. CASE CommandedAll
    <2>1. Reached = 1..N /\ Reached' = 1..N
        BY <1>4, GroupSize DEF CommandedAll, Reached, Bats
    <2>2. Done = 1..N /\ Done' = 1..N
        BY <1>4 DEF CommandedAll, Done
    <2> QED BY <1>4, <2>1, <2>2 DEF CommandedAll, MinimumOfDone, CommandsCompare
<1>5. CASE Publish
    <2>1. Done' = {} /\ Reached' = {}
        BY <1>5 DEF Publish, Done, Reached
    <2> QED BY <2>1 DEF MinimumOfDone, CommandsCompare
<1>6. CASE Restart
    <2>1. Done' = {} /\ Reached' = {}
        BY <1>6 DEF Restart, Done, Reached
    <2> QED BY <2>1 DEF MinimumOfDone, CommandsCompare
<1>7. CASE Heal
    BY <1>7 DEF Heal, MinimumOfDone, CommandsCompare, Done, Reached
<1>8. CASE UNCHANGED vars
    BY <1>8 DEF vars, MinimumOfDone, CommandsCompare, Done, Reached
<1> QED BY <1>1, <1>2, <1>3, <1>4, <1>5, <1>6, <1>7, <1>8 DEF Next, Pass

LEMMA InvariantSuffices == IInv => FollowsMinimum
<1> SUFFICES ASSUME IInv, 1 \in Heard, NEW b \in Reached
             PROVE  /\ told[b] = Open => \E c \in Heard : bat_zu[b] - Margin >= bat_zu[c]
                    /\ told[b] = Off  => \A c \in Heard : bat_zu[b] - Margin <= bat_zu[c]
    BY DEF FollowsMinimum
<1> USE DEF IInv, TypeOK
<1>1. pc # "measure" /\ Done = 1..N /\ b \in 1..N
    BY GroupSize DEF Reached, Done, Bats
<1>2. MinValue \in Int /\ \A c \in 1..N : bat_zu[c] \in Nat
    BY VoltagesAreNumbers
<1>3. 1 \in Done /\ bat_zu[1] > 0
    BY <1>1, GroupSize DEF Heard
<1>4. /\ \A c \in Heard : MinValue <= bat_zu[c]
      /\ \E c \in Heard : MinValue = bat_zu[c]
    BY <1>1, <1>3 DEF MinimumOfDone, Heard, Bats
<1>5. Heard \subseteq 1..N
    BY DEF Heard, Bats
<1> QED BY <1>1, <1>2, <1>4, <1>5 DEF CommandsCompare, Margin

\* Which cells a pass orders to discharge follows from the lowest voltage it
\* heard, whichever other cells were silent, for groups of any size
\* (bs01thread.c:17-48).
THEOREM PassFollowsMinimum == Spec => []FollowsMinimum
<1>1. Spec => []TypeOK
    BY TypeCorrect
<1>2. IInv /\ TypeOK' /\ [Next]_vars => IInv'
    BY InvariantKept
<1> QED BY <1>1, <1>2, InvariantStarts, InvariantSuffices, PTL DEF Spec

\* If cell 1 answers, a cell that is told to discharge sent a higher code than another
\* (bs01thread.c:41, s800serialDAO.c:250-254): nothing that the codec rounds
\* off or changes formula at can turn the order of two cells round.
THEOREM PassDischargesHigherCode == Spec => []DischargesHigherCode
<1>1. ASSUME TypeOK, FollowsMinimum PROVE DischargesHigherCode
    <2> SUFFICES ASSUME 1 \in Heard, NEW b \in Reached, told[b] = Open
                 PROVE  \E c \in Heard :
                          \A x \in CodesOf[bat_zu[b]], y \in CodesOf[bat_zu[c]] : x > y
        BY DEF DischargesHigherCode
    <2>1. PICK c \in Heard : bat_zu[b] - Margin >= bat_zu[c]
        BY <1>1 DEF FollowsMinimum
    <2>2. b \in 1..N /\ c \in 1..N /\ bat_zu[c] > 0
        BY <1>1, GroupSize DEF Heard, Reached, Bats, TypeOK
    <2>3. bat_zu[b] \in Nat /\ bat_zu[c] \in Nat /\ bat_zu[b] > bat_zu[c]
        BY <1>1, <2>1, <2>2, VoltagesAreNumbers DEF Margin
    <2>4. bat_zu[b] \in Volts /\ bat_zu[c] \in Volts
        BY <1>1, <2>2, <2>3 DEF TypeOK, Bats
    <2>5. ASSUME NEW x \in CodesOf[bat_zu[b]], NEW y \in CodesOf[bat_zu[c]]
          PROVE  x > y
        <3>1. /\ x \in Numbers /\ decodeData(x) = bat_zu[b]
              /\ y \in Numbers /\ decodeData(y) = bat_zu[c]
            BY <2>4 DEF CodesOf
        <3>2. x \in Nat /\ y \in Nat
            BY <3>1, CodeParts
        <3>3. ~(decodeData(x) <= decodeData(y))
            BY <2>3, <3>1
        <3>4. ~(x <= y)
            BY <3>1, <3>3, DecodeKeepsOrder
        <3> QED BY <3>2, <3>4
    <2> QED BY <2>5
<1> QED BY <1>1, TypeCorrect, PassFollowsMinimum, PTL

=============================================================================
