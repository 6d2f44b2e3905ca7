---------------------------- MODULE PackRequests -----------------------------
(***************************************************************************)
(* The requests that the connections of BatteryPack serve, and the bytes    *)
(* they come from (cmd_network, networkCommunication.c:36-77): what each    *)
(* chunk of two requests makes a connection send, against what the client   *)
(* meant by them.                                                          *)
(***************************************************************************)
EXTENDS BatteryPack, RequestFormat, FiniteSets

CONSTANT Asks           \* the requests: pairs of a command and a number

ASSUME AsksAreBytes  == Asks \subseteq Bytes \X Bytes
ASSUME CellsAreFinite == IsFiniteSet(Cells)

Total  == Cardinality(Cells)
Number == CHOOSE f \in [Cells -> 1..Total] : \A b, c \in Cells : f[b] = f[c] => b = c

\* Two requests, and what a recv may return of them, from byte a to byte b.
Chunks == {x \in [first : Asks, second : Asks, a : 1..RequestLen, b : 1..2 * RequestLen] :
              x.a <= x.b}

\* The fields a reply consists of, none if it is an error.
Parts(reply) ==
    CASE reply = Record      -> Fields
      [] reply = CurrentOnly -> {Current}
      [] OTHER -> UNION {CellFields(c) : c \in {b \in Cells : reply = Cell(Number[b])}}

SentFor(x) == Parts(Reply(Received(x.first, x.second, x.a, x.b), Total))
MeantBy(x) == Parts(Meant(x.first[1], x.first[2], Total))

\* For each request: is it sent for every chunk that begins with it, and is it
\* sent for other chunks than those and the eight bytes from the second byte of
\* a request on?
SentIfAsked == [q \in Requests |->
    \A x \in Chunks : x.a = 1 /\ x.b >= RequestLen /\ MeantBy(x) = q => SentFor(x) = q]
SentOnlyIfAsked == [q \in Requests |->
    \A x \in Chunks :
        SentFor(x) = q => (x.a = 1 /\ MeantBy(x) = q) \/ (x.a = 2 /\ x.b = RequestLen + 1)]

Serving(c) == pc[c] \in {"lock_reply", "send"}

\* What a connection serves is served for every chunk that begins with a request
\* for it, whatever came together with it (networkCommunication.c:40).
FirstIsAnswered == \A c \in Clients : Serving(c) => SentIfAsked[asked[c]]

\* What a connection serves was asked for by the first bytes it received, but for
\* eight bytes from the second byte of a request on (networkCommunication.c:40-43).
DataWereAsked == \A c \in Clients : Serving(c) => SentOnlyIfAsked[asked[c]]

=============================================================================
