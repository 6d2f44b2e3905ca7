--------------------------- MODULE RequestFormat ---------------------------
(***************************************************************************)
(* What cmd_network makes of the bytes of one recv() (networkCommunication.c, *)
(* lines 36-77).  A request is the six bytes s800bm, a command and the      *)
(* number of a cell; TCP hands the stream of requests over in chunks of its *)
(* own choice, and each chunk is taken for one request and answered once.   *)
(*                                                                         *)
(* A reply is a pair: what is sent, and of which cell.  The contents of the *)
(* record are BatteryPack's subject.                                       *)
(***************************************************************************)
EXTENDS Integers, Sequences

Bytes == 0..255

Prefix == <<115, 56, 48, 48, 98, 109>>      \* s800bm

RequestLen == 8

Request(cmd, number) == Prefix \o <<cmd, number>>

\* What a recv returns of two requests: the bytes from a to b.
Received(first, second, a, b) ==
    SubSeq(Request(first[1], first[2]) \o Request(second[1], second[2]), a, b)

\* readbuffer[k], which memset has cleared beyond what was received.
readbuffer(chunk, k) == IF k < Len(chunk) THEN chunk[k + 1] ELSE 0

HasPrefix(chunk) == \A k \in 0..5 : readbuffer(chunk, k) = Prefix[k + 1]

RecognisedIfBoth(chunk) == HasPrefix(chunk) /\ Len(chunk) = RequestLen

RecognisedByLength(chunk) == Len(chunk) >= RequestLen

\* Not refused with "command formart error!": one of the two is enough.
Recognised(chunk) == HasPrefix(chunk) \/ Len(chunk) = RequestLen

Record      == <<"record", 0>>
Cell(n)     == <<"cell", n>>
CurrentOnly == <<"current", 0>>
Error(text) == <<text, 0>>

\* What a request asks for, with battery_total cells.
Meant(cmd, number, total) ==
    CASE cmd = 1                          -> Record
      [] cmd = 2 /\ number \in 1..total    -> Cell(number)
      [] cmd = 2 /\ number \notin 1..total -> Error("number")
      [] cmd \in {3, 4}                   -> CurrentOnly
      [] OTHER                            -> Error("command")

Reply(chunk, total) ==
    IF Recognised(chunk)
    THEN Meant(readbuffer(chunk, 6), readbuffer(chunk, 7), total)
    ELSE Error("format")

Data(reply) == reply \notin {Error("number"), Error("command"), Error("format")}

=============================================================================
