----------------------------- MODULE FrameCodec -----------------------------
(***************************************************************************)
(* The two pure functions of the serial protocol (s800serialDAO.c):         *)
(* decodeData, which turns two bytes into a number, and genChecksum, the    *)
(* exclusive or of the bytes before the last.                              *)
(*                                                                         *)
(* Numbers are integers in millivolts (thousandths of any unit), which is   *)
(* what decodeData rounds to.  For the checksum a byte is the set of its    *)
(* bits that are set.                                                      *)
(***************************************************************************)
EXTENDS Integers

\* A code is the two bytes of a reading: 256 * high + low.
Codes == 0..65535

\* The codes that are numbers: the sign is clear and the exponent is not 15.
LastNumber == 30719
Numbers    == 0..LastNumber

NotANumber == -2000     \* -2

Exponent(c) == c \div 2048
Mantissa(c) == c % 2048

HalfTheHiddenOne(c) == IF Exponent(c) = 0 THEN Mantissa(c) ELSE 1024 + Mantissa(c)

\* The leading 1 is not transmitted, except that exponent 0 has none.
Significand(c) == IF Exponent(c) = 0 THEN Mantissa(c) ELSE 2048 + Mantissa(c)

\* The number is Significand * 125 / Divisor millivolts; exponent 0 scales as
\* exponent 1 does.
Divisor(e) ==
    IF e = 0 THEN 16384
    ELSE <<16384, 8192, 4096, 2048, 1024, 512, 256, 128, 64, 32, 16, 8, 4, 2>>[e]

\* (int)(x * 1000 + 0.5) / 1000
Rounded(n, d) == (n + d \div 2) \div d

decodeData(c) ==
    IF c \in Numbers
    THEN Rounded(125 * Significand(c), Divisor(Exponent(c)))
    ELSE NotANumber

Bytes == SUBSET (0..7)

Xor(a, b) == (a \ b) \cup (b \ a)

\* genChecksum of three bytes: s starts as 0.
genChecksum(a, b, c) == Xor(Xor(Xor({}, a), b), c)

\* A reply of four bytes that sendSerialTextCommand accepts.
Accepted(a, b, c, d) == genChecksum(a, b, c) = d

-----------------------------------------------------------------------------

\* What is decoded grows with the code, across the change of formula at
\* exponent 0 and the rounding (s800serialDAO.c:250-254): a cell that answers a
\* higher code is never taken for a lower one.
DecodeMonotone == \A c \in 0..LastNumber - 1 : decodeData(c) <= decodeData(c + 1)

=============================================================================
