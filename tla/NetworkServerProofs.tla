------------------------ MODULE NetworkServerProofs ------------------------
(***************************************************************************)
(* Theorems about NetworkServer, for any hosts, lines, and limits of        *)
(* descriptors and threads: its types, and that, while the ports lie above  *)
(* the socket, threads keep to their own connections and select meets no    *)
(* closed descriptor.                                                       *)
(***************************************************************************)
EXTENDS NetworkServer, SequenceTheorems, FiniteSetTheorems, TLAPS

(***************************************************************************)
(* The inductive invariant.                                                *)
(***************************************************************************)

\* TypeOK, but for what follows from the order in which the server starts.
Types ==
    /\ table \in [Fds -> {"free", "socket", "other"} \cup Ports \cup Clients]
    /\ net \in {"socket", "bind", "select", "accept", "ports", "gone"} \cup Ports
    /\ sockfd \in Fds \cup {NoFd}
    /\ port \in [Ports -> Fds \cup {NoFd}]
    /\ ready \subseteq Fds
    /\ thread \in Seq(Threads) /\ Len(thread) <= MaxThreads
    /\ peer \in [Clients -> {"away", "backlog", "open", "shut", "reset"}]
    /\ req \in [Clients -> BOOLEAN]
    /\ line \in [Ports -> BOOLEAN]
    /\ down \in {"no", "socket", "select", "threads", "sigpipe"}

Live(k) == k \in DOMAIN thread /\ thread[k].at # "ended"

\* Until it listens the server has neither ports nor threads; in its loop it has
\* the socket and both ports.
StartInv ==
    /\ net = "socket" <=> sockfd = NoFd
    /\ net \in {"socket", "bind", "gone"} \cup Ports => thread = <<>> /\ ready = {}
    /\ net \in {"socket", "bind", "232"} => \A p \in Ports : port[p] = NoFd
    /\ net = "485" => port["232"] # NoFd /\ port["485"] = NoFd
    /\ net \in {"select", "accept", "ports"} => \A p \in Ports : port[p] # NoFd

\* The socket stays open, and is all that the server watches.
SocketInv ==
    PortsAbove =>
        /\ net \notin {"socket", "gone"} => table[sockfd] = "socket"
        /\ ready \subseteq {sockfd}

\* The thread has its own connection, under a number nobody else has, or none.
OwnConnection(k) ==
    \/ thread[k].fd = NoFd /\ thread[k].owner = "nobody"
    \/ /\ thread[k].owner \in Clients
       /\ thread[k].fd \in Fds
       /\ table[thread[k].fd] = thread[k].owner
       /\ \A l \in DOMAIN thread : Live(l) /\ thread[l].fd = thread[k].fd => l = k

ThreadInv == PortsAbove => \A k \in DOMAIN thread : Live(k) => OwnConnection(k)

IInv == Types /\ StartInv /\ SocketInv /\ ThreadInv /\ SelectStaysGood

(***************************************************************************)
(* Descriptors and threads.                                                *)
(***************************************************************************)

\* A set of descriptors has a least one: the strict subset ordering is well
\* founded, and the descriptors up to the least one are the least such set.
LEMMA LeastFree ==
    ASSUME ~Full
    PROVE  \E fd \in Fds : Free(fd) /\ \A g \in Fds : Free(g) => fd <= g
<1> DEFINE F == {fd \in Fds : Free(fd)}
           UpTo(g) == {fd \in F : fd <= g}
           D == {UpTo(g) : g \in F}
<1>1. F \subseteq Fds /\ F # {} /\ Fds \subseteq Int
  BY Limits DEF Full, Fds
<1>2. D \subseteq FiniteSubsetsOf(Fds) /\ D # {}
  <2>1. IsFiniteSet(Fds)
    BY Limits, FS_Interval DEF Fds
  <2>2. ASSUME NEW g \in F PROVE UpTo(g) \in SUBSET Fds
    BY <1>1
  <2>3. ASSUME NEW g \in F PROVE IsFiniteSet(UpTo(g))
    BY <2>1, <2>2, FS_Subset
  <2> HIDE DEF F, UpTo
  <2> QED BY <1>1, <2>2, <2>3 DEF FiniteSubsetsOf
<1>3. PICK X \in D : \A Y \in D : <<Y, X>> \notin StrictSubsetOrdering(Fds)
  <2> HIDE DEF D
  <2> QED BY <1>2, FS_StrictSubsetOrderingWellFounded, WFMin
<1>4. PICK g \in F : X = UpTo(g)
  OBVIOUS
<1>5. ASSUME NEW h \in F, ~(g <= h) PROVE FALSE
  <2>0. g \in Int /\ h \in Int
    BY <1>1
  <2>1. UpTo(h) \subseteq UpTo(g) /\ g \in UpTo(g) /\ g \notin UpTo(h)
    <3>1. g \in UpTo(g) /\ g \notin UpTo(h)
      BY <2>0, <1>5
    <3>2. ASSUME NEW x \in UpTo(h) PROVE x \in UpTo(g)
      BY <1>1, <1>5, <2>0
    <3> QED BY <3>1, <3>2
  <2>2. UpTo(h) \in D /\ UpTo(g) \in D /\ UpTo(h) \in SUBSET Fds /\ UpTo(g) \in SUBSET Fds
    BY <1>1
  <2> HIDE DEF D, UpTo
  <2>3. <<UpTo(h), UpTo(g)>> \in StrictSubsetOrdering(Fds)
    BY <2>1, <2>2 DEF StrictSubsetOrdering
  <2> QED BY <1>3, <1>4, <2>2, <2>3
<1> QED BY <1>5

LEMMA LowestIsFree ==
    ASSUME ~Full
    PROVE  Lowest \in Fds /\ Free(Lowest)
BY LeastFree DEF Lowest

\* A thread moves on; its number and its owner stay.
LEMMA GotoKeeps ==
    ASSUME thread \in Seq(Threads), NEW k \in 1..Len(thread),
           NEW l \in {"recv", "send", "close", "ended"}, Goto(k, l)
    PROVE  /\ thread' \in Seq(Threads)
           /\ Len(thread') = Len(thread)
           /\ \A j \in 1..Len(thread) :
                 /\ thread'[j].fd = thread[j].fd
                 /\ thread'[j].owner = thread[j].owner
                 /\ thread'[j].at = IF j = k THEN l ELSE thread[j].at
<1> DEFINE t == [thread[k] EXCEPT !.at = l]
<1>1. thread[k] \in Threads
  BY ElementOfSeq
<1>2. t \in Threads /\ t.fd = thread[k].fd /\ t.owner = thread[k].owner /\ t.at = l
  BY <1>1 DEF Threads
<1>3. thread' = [thread EXCEPT ![k] = t]
  BY DEF Goto
<1> HIDE DEF t
<1>4. /\ thread' \in Seq(Threads)
      /\ Len(thread') = Len(thread)
      /\ \A j \in 1..Len(thread) : thread'[j] = IF j = k THEN t ELSE thread[j]
  BY <1>2, <1>3, ExceptSeq
<1> QED BY <1>2, <1>4

LEMMA StartedKeeps ==
    ASSUME thread \in Seq(Threads), NEW fd \in Fds \cup {NoFd},
           NEW owner \in Clients \cup Ports \cup {"nobody"},
           thread' = Started(fd, owner)
    PROVE  /\ thread' \in Seq(Threads)
           /\ Len(thread') = Len(thread) + 1
           /\ \A j \in 1..Len(thread) : thread'[j] = thread[j]
           /\ thread'[Len(thread) + 1] = [fd |-> fd, at |-> "recv", owner |-> owner]
<1> DEFINE t == [fd |-> fd, at |-> "recv", owner |-> owner]
<1>1. t \in Threads
  BY DEF Threads
<1>2. thread' = Append(thread, t)
  BY DEF Started
<1> HIDE DEF t
<1>3. /\ thread' \in Seq(Threads)
      /\ Len(thread') = Len(thread) + 1
      /\ \A j \in 1..Len(thread) : thread'[j] = thread[j]
      /\ thread'[Len(thread) + 1] = t
  BY <1>1, <1>2, AppendProperties
<1> QED BY <1>3 DEF t

LEMMA EndedKeeps ==
    ASSUME thread \in Seq(Threads), NEW k \in 1..Len(thread),
           thread' = [thread EXCEPT ![k] = Ended]
    PROVE  /\ thread' \in Seq(Threads)
           /\ Len(thread') = Len(thread)
           /\ \A j \in 1..Len(thread) : thread'[j] = IF j = k THEN Ended ELSE thread[j]
<1>1. Ended \in Threads
  BY DEF Ended, Threads
<1> QED BY <1>1, ExceptSeq

(***************************************************************************)
(* The invariant holds initially.                                          *)
(***************************************************************************)

LEMMA InitInv == Init => IInv
<1> SUFFICES ASSUME Init PROVE IInv
  OBVIOUS
<1>1. Types
  <2>1. thread \in Seq(Threads) /\ Len(thread) <= MaxThreads
    BY Limits DEF Init
  <2> QED BY <2>1 DEF Init, Types, Fds, NoFd, Ports
<1>2. StartInv
  BY DEF Init, StartInv, Ports
<1>3. SocketInv
  BY DEF Init, SocketInv
<1>4. ThreadInv
  BY DEF Init, ThreadInv, Live
<1>5. SelectStaysGood
  BY DEF Init, SelectStaysGood
<1> QED BY <1>1, <1>2, <1>3, <1>4, <1>5 DEF IInv

(***************************************************************************)
(* Every step keeps the types.                                             *)
(***************************************************************************)

\* The variables that describe the server and the process.
ServerTypes ==
    /\ table \in [Fds -> {"free", "socket", "other"} \cup Ports \cup Clients]
    /\ net \in {"socket", "bind", "select", "accept", "ports", "gone"} \cup Ports
    /\ sockfd \in Fds \cup {NoFd}
    /\ port \in [Ports -> Fds \cup {NoFd}]
    /\ ready \subseteq Fds
    /\ line \in [Ports -> BOOLEAN]
    /\ down \in {"no", "socket", "select", "threads", "sigpipe"}

\* Those that describe the connections.
PeerTypes ==
    /\ peer \in [Clients -> {"away", "backlog", "open", "shut", "reset"}]
    /\ req \in [Clients -> BOOLEAN]

ThreadTypes == thread \in Seq(Threads) /\ Len(thread) <= MaxThreads

LEMMA TypeParts ==
    /\ Types <=> ServerTypes /\ PeerTypes /\ ThreadTypes
    /\ Types' <=> ServerTypes' /\ PeerTypes' /\ ThreadTypes'
BY DEF Types, ServerTypes, PeerTypes, ThreadTypes

\* A thread keeps the type of the sequence when it moves on.
LEMMA MoveTypes ==
    ASSUME ThreadTypes, NEW k \in 1..Len(thread),
           NEW l \in {"recv", "send", "close", "ended"}, Goto(k, l)
    PROVE  ThreadTypes'
BY GotoKeeps DEF ThreadTypes

\* A thread is started only while there is room for one.
LEMMA StartTypes ==
    ASSUME ThreadTypes, Len(thread) < MaxThreads, NEW fd \in Fds \cup {NoFd},
           NEW owner \in Clients \cup Ports \cup {"nobody"},
           thread' = Started(fd, owner)
    PROVE  ThreadTypes'
<1>1. thread' \in Seq(Threads) /\ Len(thread') = Len(thread) + 1
  BY StartedKeeps DEF ThreadTypes
<1>2. Len(thread) \in Nat
  BY LenProperties DEF ThreadTypes
<1> QED BY <1>1, <1>2, Limits DEF ThreadTypes

LEMMA TypeStep == ASSUME Types, StartInv, [Next]_vars PROVE Types'
<1> USE DEF NoFd
<1>0. ServerTypes /\ PeerTypes /\ ThreadTypes
  BY TypeParts
<1>1. CASE OpenOther
  <2>1. ServerTypes'
    BY <1>0, <1>1, LowestIsFree DEF OpenOther, ServerTypes
  <2> QED BY <1>0, <1>1, <2>1, TypeParts DEF OpenOther, PeerTypes, ThreadTypes
<1>2. CASE CloseOther
  <2>1. ServerTypes'
    BY <1>0, <1>2 DEF CloseOther, ServerTypes
  <2> QED BY <1>0, <1>2, <2>1, TypeParts DEF CloseOther, PeerTypes, ThreadTypes
<1>3. CASE MakeSocket
  <2>1. ServerTypes'
    BY <1>0, <1>3, LowestIsFree DEF MakeSocket, ServerTypes
  <2> QED BY <1>0, <1>3, <2>1, TypeParts DEF MakeSocket, PeerTypes, ThreadTypes
<1>4. CASE Bind \/ BindFails
  <2>1. ServerTypes'
    BY <1>0, <1>4 DEF Bind, BindFails, ServerTypes, Ports
  <2> QED BY <1>0, <1>4, <2>1, TypeParts DEF Bind, BindFails, PeerTypes, ThreadTypes
<1>5. ASSUME NEW p \in Ports, OpenPort(p) \/ OpenPortFails(p) PROVE Types'
  <2>1. ServerTypes'
    BY <1>0, <1>5, LowestIsFree DEF OpenPort, OpenPortFails, ServerTypes, Ports
  <2> QED BY <1>0, <1>5, <2>1, TypeParts DEF OpenPort, OpenPortFails, PeerTypes, ThreadTypes
<1>6. CASE Select
  <2>1. Watched \subseteq Fds
    BY <1>0, <1>6 DEF Select, Watched, ServerTypes, StartInv, Ports
  <2>2. ServerTypes'
    BY <1>0, <1>6, <2>1 DEF Select, ServerTypes
  <2> QED BY <1>0, <1>6, <2>2, TypeParts DEF Select, PeerTypes, ThreadTypes
<1>7. CASE SocketFails \/ SelectFails \/ AcceptFails \/ NoAccept \/ NextTurn
  <2>1. ServerTypes'
    BY <1>0, <1>7 DEF SocketFails, SelectFails, AcceptFails, NoAccept, NextTurn, ServerTypes
  <2> QED BY <1>0, <1>7, <2>1, TypeParts
          DEF SocketFails, SelectFails, AcceptFails, NoAccept, NextTurn, PeerTypes, ThreadTypes
<1>8. CASE Accept
  <2>1. ASSUME ~Full, NEW c \in Backlog,
               table' = [table EXCEPT ![Lowest] = c],
               peer' = [peer EXCEPT ![c] = "open"],
               thread' = Started(Lowest, c)
        PROVE  Types'
    <3>1. ServerTypes'
      BY <1>0, <1>8, <2>1, LowestIsFree DEF Accept, Backlog, ServerTypes
    <3>2. PeerTypes'
      BY <1>0, <1>8, <2>1 DEF Accept, Backlog, PeerTypes
    <3>3. ThreadTypes'
      BY <1>0, <1>8, <2>1, LowestIsFree, StartTypes DEF Accept, Backlog
    <3> QED BY <3>1, <3>2, <3>3, TypeParts
  <2>2. ASSUME thread' = Started(NoFd, "nobody"), UNCHANGED <<table, peer>>
        PROVE  Types'
    <3>1. ServerTypes' /\ PeerTypes'
      BY <1>0, <1>8, <2>2 DEF Accept, ServerTypes, PeerTypes
    <3>2. ThreadTypes'
      BY <1>0, <1>8, <2>2, StartTypes DEF Accept
    <3> QED BY <3>1, <3>2, TypeParts
  <2> QED BY <1>8, <2>1, <2>2 DEF Accept
<1>9. ASSUME NEW p \in Ports, StartPort(p) PROVE Types'
  <2>1. ServerTypes' /\ PeerTypes'
    BY <1>0, <1>9 DEF StartPort, ServerTypes, PeerTypes
  <2>2. port[p] \in Fds \cup {NoFd}
    BY <1>0 DEF ServerTypes
  <2>3. ThreadTypes'
    <3>1. CASE Len(thread) < MaxThreads
      BY <1>0, <1>9, <2>2, <3>1, StartTypes DEF StartPort
    <3>2. CASE ~(Len(thread) < MaxThreads)
      BY <1>0, <1>9, <3>2 DEF StartPort, ThreadTypes
    <3> QED BY <3>1, <3>2
  <2> QED BY <2>1, <2>3, TypeParts
<1>10. ASSUME NEW k \in 1..Len(thread), RecvRequest(k) PROVE Types'
  <2>1. ServerTypes' /\ PeerTypes'
    BY <1>0, <1>10 DEF RecvRequest, ServerTypes, PeerTypes
  <2> QED BY <1>0, <1>10, <2>1, MoveTypes, TypeParts DEF RecvRequest
<1>11. ASSUME NEW k \in 1..Len(thread), RecvFails(k) PROVE Types'
  <2>1. ServerTypes' /\ PeerTypes'
    BY <1>0, <1>11 DEF RecvFails, ServerTypes, PeerTypes
  <2> QED BY <1>0, <1>11, <2>1, MoveTypes, TypeParts DEF RecvFails
<1>12. ASSUME NEW k \in 1..Len(thread), Send(k) PROVE Types'
  <2>1. ServerTypes' /\ PeerTypes'
    BY <1>0, <1>12 DEF Send, ServerTypes, PeerTypes
  <2> QED BY <1>0, <1>12, <2>1, MoveTypes, TypeParts DEF Send
<1>13. ASSUME NEW k \in 1..Len(thread), SendFails(k) PROVE Types'
  <2>1. ServerTypes' /\ PeerTypes' /\ ThreadTypes'
    BY <1>0, <1>13 DEF SendFails, ServerTypes, PeerTypes, ThreadTypes
  <2> QED BY <2>1, TypeParts
<1>14. ASSUME NEW k \in 1..Len(thread), Close(k) PROVE Types'
  <2>1. ServerTypes'
    BY <1>0, <1>14 DEF Close, Closed, ServerTypes
  <2>2. PeerTypes'
    BY <1>0, <1>14 DEF Close, Closed, PeerTypes
  <2>3. ThreadTypes'
    BY <1>0, <1>14, EndedKeeps DEF Close, ThreadTypes
  <2> QED BY <2>1, <2>2, <2>3, TypeParts
<1>15. ASSUME NEW c \in Clients, Connect(c) \/ Request(c) \/ Leave(c) PROVE Types'
  <2>1. ServerTypes' /\ ThreadTypes'
    BY <1>0, <1>15 DEF Connect, Request, Leave, ServerTypes, ThreadTypes
  <2>2. PeerTypes'
    BY <1>0, <1>15 DEF Connect, Request, Leave, PeerTypes
  <2> QED BY <2>1, <2>2, TypeParts
<1>16. ASSUME NEW p \in Ports, LineData(p) PROVE Types'
  <2>1. ServerTypes' /\ PeerTypes' /\ ThreadTypes'
    BY <1>0, <1>16 DEF LineData, ServerTypes, PeerTypes, ThreadTypes
  <2> QED BY <2>1, TypeParts
<1>17. CASE UNCHANGED vars
  BY <1>17 DEF vars, Types
<1> QED BY <1>1, <1>2, <1>3, <1>4, <1>5, <1>6, <1>7, <1>8, <1>9, <1>10, <1>11, <1>12,
           <1>13, <1>14, <1>15, <1>16, <1>17 DEF Next, Server, Connection

(***************************************************************************)
(* The order in which the server starts.                                   *)
(***************************************************************************)

LEMMA StartStep == ASSUME Types, StartInv, [Next]_vars PROVE StartInv'
<1> USE DEF NoFd
<1>0. ServerTypes /\ NoFd \notin Fds
  BY TypeParts DEF Fds
<1>1. CASE OpenOther \/ CloseOther
  BY <1>1 DEF OpenOther, CloseOther, StartInv
<1>2. CASE MakeSocket
  BY <1>0, <1>2, LowestIsFree DEF MakeSocket, StartInv, Ports
<1>3. CASE Bind \/ BindFails
  BY <1>3 DEF Bind, BindFails, StartInv, Ports
<1>4. ASSUME NEW p \in Ports, OpenPort(p) \/ OpenPortFails(p) PROVE StartInv'
  <2>1. CASE OpenPort("232")
    BY <1>0, <2>1, LowestIsFree DEF OpenPort, StartInv, ServerTypes, Ports
  <2>2. CASE OpenPort("485")
    BY <1>0, <2>2, LowestIsFree DEF OpenPort, StartInv, ServerTypes, Ports
  <2>3. CASE OpenPortFails(p)
    BY <2>3 DEF OpenPortFails, StartInv, Ports
  <2> QED BY <1>4, <2>1, <2>2, <2>3 DEF Ports
<1>5. CASE SocketFails \/ Select \/ SelectFails
  BY <1>5 DEF SocketFails, Select, SelectFails, StartInv, Ports
<1>6. CASE Accept
  BY <1>6 DEF Accept, StartInv, Ports
<1>7. CASE AcceptFails \/ NoAccept \/ NextTurn
  BY <1>7 DEF AcceptFails, NoAccept, NextTurn, StartInv, Ports
<1>8. ASSUME NEW p \in Ports, StartPort(p) PROVE StartInv'
  BY <1>8 DEF StartPort, StartInv, Ports
<1>9. ASSUME NEW k \in 1..Len(thread), Connection(k) PROVE StartInv'
  <2>1. thread # <<>>
    BY <1>9, Len(<<>>) = 0
  <2>2. UNCHANGED <<net, sockfd, port, ready>>
    BY <1>9 DEF Connection, RecvRequest, RecvFails, Send, SendFails, Close
  <2> QED BY <2>1, <2>2 DEF StartInv
<1>10. ASSUME NEW c \in Clients, Connect(c) \/ Request(c) \/ Leave(c) PROVE StartInv'
  BY <1>10 DEF Connect, Request, Leave, StartInv
<1>11. ASSUME NEW p \in Talking, LineData(p) PROVE StartInv'
  BY <1>11 DEF LineData, StartInv
<1>12. CASE UNCHANGED vars
  BY <1>12 DEF vars, StartInv
<1> QED BY <1>1, <1>2, <1>3, <1>4, <1>5, <1>6, <1>7, <1>8, <1>9, <1>10, <1>11, <1>12
        DEF Next, Server

(***************************************************************************)
(* While the ports lie above the socket.                                   *)
(***************************************************************************)

\* A port that has its number keeps it, and so does the socket: what lies above
\* the socket has always done so.
LEMMA AboveBefore == ASSUME Types, StartInv, [Next]_vars, PortsAbove' PROVE PortsAbove
<1>0. ServerTypes
  BY TypeParts
<1>1. CASE MakeSocket
  BY <1>1 DEF MakeSocket, StartInv, PortsAbove
<1>2. ASSUME NEW p \in Ports, OpenPort(p) PROVE PortsAbove
  BY <1>0, <1>2 DEF OpenPort, StartInv, PortsAbove, Ports, ServerTypes
<1>3. CASE UNCHANGED <<port, sockfd>>
  BY <1>3 DEF PortsAbove
<1> QED BY <1>1, <1>2, <1>3
        DEF Next, Server, OpenOther, CloseOther, Bind, BindFails, OpenPortFails, Select,
            SelectFails, SocketFails, Accept, AcceptFails, NoAccept, StartPort, NextTurn,
            Connection,
            RecvRequest, RecvFails, Send, SendFails, Close, Connect, Request, Leave, LineData,
            vars

\* Select watches the socket alone.
LEMMA OnlySocketWatched ==
    ASSUME Types, StartInv, PortsAbove, net \in {"select", "accept", "ports"}
    PROVE  Watched = {sockfd} /\ sockfd \in Fds /\ \A p \in Ports : port[p] # sockfd
<1>1. sockfd \in Fds /\ \A p \in Ports : port[p] \in Fds /\ port[p] > sockfd
  BY DEF Types, StartInv, PortsAbove, Ports
<1>2. \A fd \in Fds : fd \in Int
  BY Limits DEF Fds
<1>3. \A p \in Ports : ~(port[p] <= sockfd)
  BY <1>1, <1>2
<1>4. sockfd <= sockfd
  BY <1>1, <1>2
<1> QED BY <1>1, <1>3, <1>4 DEF Watched, Ports

\* So no port ever gets a thread.
LEMMA NoPortThread ==
    ASSUME Types, StartInv, SocketInv, PortsAbove, NEW p \in Ports
    PROVE  ~StartPort(p)
<1> SUFFICES ASSUME StartPort(p) PROVE FALSE
  OBVIOUS
<1>1. net \in {"select", "accept", "ports"} /\ port[p] \in ready
  BY DEF StartPort
<1> QED BY <1>1, OnlySocketWatched DEF SocketInv

(***************************************************************************)
(* The socket stays open.                                                  *)
(***************************************************************************)

\* What a thread closes is its own connection, or nothing.
LEMMA ClosesItsOwn ==
    ASSUME Types, ThreadInv, PortsAbove, NEW k \in 1..Len(thread), Close(k)
    PROVE  /\ Live(k)
           /\ \/ thread[k].fd = NoFd /\ UNCHANGED table
              \/ /\ thread[k].fd \in Fds
                 /\ table[thread[k].fd] \in Clients
                 /\ table' = [table EXCEPT ![thread[k].fd] = "free"]
<1>1. k \in DOMAIN thread
  BY DEF Types
<1>2. Live(k)
  BY <1>1 DEF Close, Live
<1>3. \/ thread[k].fd = NoFd
      \/ thread[k].fd \in Fds /\ table[thread[k].fd] \in Clients
  BY <1>1, <1>2 DEF ThreadInv, OwnConnection
<1>4. NoFd \notin Fds
  BY DEF Fds, NoFd
<1> QED BY <1>2, <1>3, <1>4 DEF Close, Closed

LEMMA SocketStep == ASSUME IInv, [Next]_vars PROVE SocketInv'
<1> SUFFICES ASSUME PortsAbove'
             PROVE  /\ (net \notin {"socket", "gone"} => table[sockfd] = "socket")'
                    /\ (ready \subseteq {sockfd})'
  BY DEF SocketInv
<1>0. /\ ServerTypes /\ Types /\ StartInv /\ SocketInv /\ ThreadInv
      /\ PortsAbove
      /\ net \notin {"socket", "gone"} => table[sockfd] = "socket"
      /\ ready \subseteq {sockfd}
  BY AboveBefore, TypeParts DEF IInv, SocketInv
<1>00. net # "socket" => sockfd \in Fds
  BY <1>0 DEF StartInv, ServerTypes
<1>1. CASE OpenOther
  BY <1>0, <1>00, <1>1, LowestIsFree DEF OpenOther, ServerTypes, Free
<1>2. CASE CloseOther
  BY <1>0, <1>00, <1>2 DEF CloseOther, ServerTypes
<1>3. CASE MakeSocket
  BY <1>0, <1>3, LowestIsFree DEF MakeSocket, StartInv, ServerTypes
<1>4. CASE Bind \/ BindFails
  BY <1>0, <1>4 DEF Bind, BindFails, StartInv
<1>5. ASSUME NEW p \in Ports, OpenPort(p) \/ OpenPortFails(p)
      PROVE  SocketInv'
  BY <1>0, <1>00, <1>5, LowestIsFree
     DEF OpenPort, OpenPortFails, ServerTypes, Free, SocketInv, Ports
<1>6. CASE Select
  <2>1. ready' \subseteq {sockfd}
    BY <1>0, <1>6, OnlySocketWatched DEF Select
  <2> QED BY <1>0, <1>6, <2>1 DEF Select
<1>7. CASE Accept
  <2>1. table'[sockfd] = "socket"
    BY <1>0, <1>00, <1>7, LowestIsFree DEF Accept, ServerTypes, Free
  <2> QED BY <1>0, <1>7, <2>1 DEF Accept
<1>8. CASE SocketFails \/ SelectFails \/ AcceptFails \/ NoAccept \/ NextTurn
  BY <1>0, <1>8 DEF SocketFails, SelectFails, AcceptFails, NoAccept, NextTurn
<1>9. ASSUME NEW p \in Ports, StartPort(p) PROVE SocketInv'
  BY <1>0, <1>9, NoPortThread
<1>10. ASSUME NEW k \in 1..Len(thread), Close(k) PROVE SocketInv'
  <2>1. "socket" \notin Clients
    BY Hosts
  <2>2. table[sockfd] = "socket" /\ sockfd \in Fds => table'[sockfd] = "socket"
    BY <1>0, <1>10, <2>1, ClosesItsOwn DEF ServerTypes
  <2> QED BY <1>0, <1>00, <1>10, <2>2 DEF Close, SocketInv
<1>11. CASE UNCHANGED <<table, net, sockfd, ready>>
  BY <1>0, <1>11
<1> QED BY <1>1, <1>2, <1>3, <1>4, <1>5, <1>6, <1>7, <1>8, <1>9, <1>10, <1>11
        DEF Next, Server, Connection, RecvRequest, RecvFails, Send, SendFails, Connect,
            Request, Leave, LineData, vars, SocketInv

(***************************************************************************)
(* Threads keep to their own.                                              *)
(***************************************************************************)

\* A step that gives out a number, or takes one from nobody's connection,
\* and starts or moves no thread to another number, disturbs no thread.
LEMMA TableKeepsOwn ==
    ASSUME Types, \A k \in DOMAIN thread : Live(k) => OwnConnection(k),
           DOMAIN thread' = DOMAIN thread,
           \A k \in DOMAIN thread : /\ thread'[k].fd = thread[k].fd
                                    /\ thread'[k].owner = thread[k].owner
                                    /\ Live(k)' => Live(k),
           \A fd \in Fds : table[fd] \in Clients => table'[fd] = table[fd]
    PROVE  (\A k \in DOMAIN thread : Live(k) => OwnConnection(k))'
<1> SUFFICES ASSUME NEW k \in DOMAIN thread, Live(k)' PROVE OwnConnection(k)'
  OBVIOUS
<1>1. OwnConnection(k)
  OBVIOUS
<1>2. CASE thread[k].fd = NoFd /\ thread[k].owner = "nobody"
  BY <1>2 DEF OwnConnection
<1>3. CASE ~(thread[k].fd = NoFd /\ thread[k].owner = "nobody")
  <2>1. /\ thread[k].owner \in Clients
        /\ thread[k].fd \in Fds
        /\ table'[thread[k].fd] = thread[k].owner
    BY <1>1, <1>3 DEF OwnConnection
  <2>2. ASSUME NEW l \in DOMAIN thread, Live(l)', thread'[l].fd = thread'[k].fd PROVE l = k
    BY <1>1, <1>3, <2>2 DEF OwnConnection
  <2> QED BY <2>1, <2>2 DEF OwnConnection
<1> QED BY <1>2, <1>3

\* A thread that is started with a number nobody has, or with none, disturbs no
\* other.
LEMMA StartedKeepsOwn ==
    ASSUME Types, \A k \in DOMAIN thread : Live(k) => OwnConnection(k),
           NEW n \in Fds \cup {NoFd}, NEW owner \in Clients \cup Ports \cup {"nobody"},
           thread' = Started(n, owner),
           \A k \in DOMAIN thread : Live(k) => thread[k].fd = NoFd \/ thread[k].fd # n,
           \A fd \in Fds : fd # n => table'[fd] = table[fd],
           NEW j \in 1..Len(thread), Live(j)'
    PROVE  OwnConnection(j)'
<1>0. thread \in Seq(Threads)
  BY DEF Types
<1>1. /\ thread' \in Seq(Threads)
      /\ Len(thread') = Len(thread) + 1
      /\ \A k \in 1..Len(thread) : thread'[k] = thread[k]
      /\ thread'[Len(thread) + 1] = [fd |-> n, at |-> "recv", owner |-> owner]
  BY <1>0, StartedKeeps
<1>2. /\ Len(thread) \in Nat
      /\ DOMAIN thread = 1..Len(thread)
      /\ DOMAIN thread' = 1..Len(thread) + 1
  BY <1>0, <1>1, LenProperties
<1>3. Live(j) /\ thread'[j] = thread[j]
  BY <1>1, <1>2 DEF Live
<1>4. OwnConnection(j)
  BY <1>2, <1>3
<1>5. CASE thread[j].fd = NoFd /\ thread[j].owner = "nobody"
  BY <1>3, <1>5 DEF OwnConnection
<1>6. CASE ~(thread[j].fd = NoFd /\ thread[j].owner = "nobody")
  <2>1. /\ thread[j].owner \in Clients
        /\ thread[j].fd \in Fds
        /\ table[thread[j].fd] = thread[j].owner
    BY <1>4, <1>6 DEF OwnConnection
  <2>2. thread[j].fd # NoFd /\ thread[j].fd # n
    BY <1>2, <1>3, <2>1 DEF Fds, NoFd
  <2>3. table'[thread[j].fd] = thread[j].owner
    BY <2>1, <2>2
  <2>4. ASSUME NEW l \in DOMAIN thread', Live(l)', thread'[l].fd = thread'[j].fd
        PROVE  l = j
    <3>1. l # Len(thread) + 1
      BY <1>1, <1>3, <2>2, <2>4
    <3>2. l \in 1..Len(thread)
      BY <1>2, <3>1
    <3>3. thread'[l] = thread[l] /\ Live(l)
      BY <1>1, <1>2, <2>4, <3>2 DEF Live
    <3> QED BY <1>2, <1>3, <1>4, <1>6, <2>4, <3>2, <3>3 DEF OwnConnection
  <2> QED BY <1>3, <2>1, <2>3, <2>4 DEF OwnConnection
<1> QED BY <1>5, <1>6

LEMMA ThreadStep == ASSUME IInv, [Next]_vars PROVE ThreadInv'
<1> SUFFICES ASSUME PortsAbove'
             PROVE  (\A k \in DOMAIN thread : Live(k) => OwnConnection(k))'
  BY DEF ThreadInv
<1>0. /\ ServerTypes /\ ThreadTypes /\ Types /\ StartInv /\ SocketInv /\ ThreadInv
      /\ PortsAbove
      /\ \A k \in DOMAIN thread : Live(k) => OwnConnection(k)
      /\ DOMAIN thread = 1..Len(thread)
  BY AboveBefore, TypeParts DEF IInv, ThreadInv, Types
<1>1. {"free", "other", "socket"} \cap Clients = {} /\ NoFd \notin Fds
  BY Hosts DEF Fds, NoFd
<1>2. CASE OpenOther
  <2>1. \A fd \in Fds : table[fd] \in Clients => table'[fd] = table[fd]
    BY <1>0, <1>1, <1>2, LowestIsFree DEF OpenOther, ServerTypes, Free
  <2> QED BY <1>0, <1>2, <2>1, TableKeepsOwn DEF OpenOther, Live
<1>3. CASE CloseOther
  <2>1. \A fd \in Fds : table[fd] \in Clients => table'[fd] = table[fd]
    BY <1>0, <1>1, <1>3 DEF CloseOther, ServerTypes
  <2> QED BY <1>0, <1>3, <2>1, TableKeepsOwn DEF CloseOther, Live
<1>4. CASE MakeSocket \/ BindFails
  <2>1. thread' = <<>>
    BY <1>0, <1>4 DEF MakeSocket, BindFails, StartInv
  <2> QED BY <2>1
<1>5. ASSUME NEW p \in Ports, OpenPort(p) PROVE ThreadInv'
  <2>1. thread' = <<>>
    BY <1>0, <1>5 DEF OpenPort, StartInv
  <2> QED BY <2>1 DEF ThreadInv
<1>6. CASE Accept
  <2>1. ASSUME ~Full, NEW c \in Backlog,
               table' = [table EXCEPT ![Lowest] = c], thread' = Started(Lowest, c)
        PROVE  ThreadInv'
    <3>1. c \in Clients /\ Lowest \in Fds /\ Free(Lowest)
      BY <2>1, LowestIsFree DEF Backlog
    <3>2. /\ thread' \in Seq(Threads)
          /\ Len(thread') = Len(thread) + 1
          /\ \A j \in 1..Len(thread) : thread'[j] = thread[j]
          /\ thread'[Len(thread) + 1] = [fd |-> Lowest, at |-> "recv", owner |-> c]
      BY <1>0, <2>1, <3>1, StartedKeeps DEF ThreadTypes
    <3>3. /\ Len(thread) \in Nat
          /\ DOMAIN thread' = 1..Len(thread) + 1
      BY <1>0, <3>2, LenProperties DEF ThreadTypes
    \* Nobody had the number.
    <3>4. ASSUME NEW j \in 1..Len(thread), Live(j) PROVE thread[j].fd # Lowest
      <4>1. OwnConnection(j)
        BY <1>0, <3>4
      <4> QED BY <1>1, <3>1, <4>1 DEF OwnConnection, Free
    <3>5. table'[Lowest] = c /\ \A fd \in Fds : fd # Lowest => table'[fd] = table[fd]
      BY <1>0, <2>1, <3>1 DEF ServerTypes
    <3>6. ASSUME NEW j \in 1..Len(thread), Live(j)' PROVE OwnConnection(j)'
      BY <1>0, <2>1, <3>1, <3>4, <3>5, <3>6, StartedKeepsOwn
    <3>7. PICK n \in Nat : n = Len(thread) + 1
      BY <3>3
    <3>8. OwnConnection(n)'
      <4>1. ASSUME NEW l \in DOMAIN thread', Live(l)', thread'[l].fd = thread'[n].fd
            PROVE  l = n
        <5>1. CASE l \in 1..Len(thread)
          <6>1. thread'[l] = thread[l] /\ Live(l)
            BY <1>0, <3>2, <4>1, <5>1 DEF Live
          <6> QED BY <3>2, <3>4, <3>7, <4>1, <5>1, <6>1
        <5> QED BY <3>3, <3>7, <5>1
      <4>2. thread'[n].fd = Lowest /\ thread'[n].owner = c
        BY <3>2, <3>7
      <4>3. table'[thread'[n].fd] = c
        BY <3>5, <4>2
      <4> QED BY <3>1, <4>1, <4>2, <4>3 DEF OwnConnection
    <3>9. ASSUME NEW j \in DOMAIN thread', Live(j)' PROVE OwnConnection(j)'
      <4>1. j \in 1..Len(thread) \/ j = n
        BY <3>3, <3>7
      <4> QED BY <3>6, <3>8, <3>9, <4>1
    <3> QED BY <3>9 DEF ThreadInv
  <2>2. ASSUME thread' = Started(NoFd, "nobody"), UNCHANGED table PROVE ThreadInv'
    <3>1. /\ thread' \in Seq(Threads)
          /\ Len(thread') = Len(thread) + 1
          /\ \A j \in 1..Len(thread) : thread'[j] = thread[j]
          /\ thread'[Len(thread) + 1] = [fd |-> NoFd, at |-> "recv", owner |-> "nobody"]
      BY <1>0, <2>2, StartedKeeps DEF ThreadTypes
    <3>2. /\ Len(thread) \in Nat
          /\ DOMAIN thread' = 1..Len(thread) + 1
      BY <1>0, <3>1, LenProperties DEF ThreadTypes
    <3>3. ASSUME NEW j \in 1..Len(thread), Live(j)' PROVE OwnConnection(j)'
      <4>1. \A k \in DOMAIN thread : thread[k].fd = NoFd \/ thread[k].fd # NoFd
        OBVIOUS
      <4> QED BY <1>0, <2>2, <3>3, <4>1, StartedKeepsOwn
    <3>4. ASSUME NEW j \in DOMAIN thread', Live(j)' PROVE OwnConnection(j)'
      <4>1. j \in 1..Len(thread) \/ j = Len(thread) + 1
        BY <3>2
      <4> QED BY <3>1, <3>3, <3>4, <4>1 DEF OwnConnection
    <3> QED BY <3>4 DEF ThreadInv
  <2> QED BY <1>6, <2>1, <2>2 DEF Accept, ThreadInv
<1>7. ASSUME NEW p \in Ports, StartPort(p) PROVE ThreadInv'
  BY <1>0, <1>7, NoPortThread
<1>8. ASSUME NEW k \in 1..Len(thread), RecvRequest(k) \/ RecvFails(k) \/ Send(k)
      PROVE  ThreadInv'
  <2>1. PICK l \in {"recv", "send", "close"} : Goto(k, l) /\ thread[k].at # "ended" /\ UNCHANGED table
    BY <1>8 DEF RecvRequest, RecvFails, Send
  <2>2. /\ Len(thread') = Len(thread) /\ thread' \in Seq(Threads)
        /\ \A j \in 1..Len(thread) :
              /\ thread'[j].fd = thread[j].fd
              /\ thread'[j].owner = thread[j].owner
              /\ thread'[j].at = IF j = k THEN l ELSE thread[j].at
    BY <1>0, <2>1, GotoKeeps DEF ThreadTypes
  <2>3. DOMAIN thread' = DOMAIN thread
    BY <1>0, <2>2, LenProperties
  <2>4. \A j \in DOMAIN thread : Live(j)' => Live(j)
    BY <1>0, <2>1, <2>2, <2>3 DEF Live
  <2> QED BY <1>0, <2>1, <2>2, <2>3, <2>4, TableKeepsOwn DEF ThreadInv
<1>9. ASSUME NEW k \in 1..Len(thread), Close(k) PROVE ThreadInv'
  <2>1. /\ Len(thread') = Len(thread) /\ thread' \in Seq(Threads)
        /\ \A j \in 1..Len(thread) : thread'[j] = IF j = k THEN Ended ELSE thread[j]
    BY <1>0, <1>9, EndedKeeps DEF Close, ThreadTypes
  <2>2. DOMAIN thread' = DOMAIN thread
    BY <1>0, <2>1, LenProperties
  <2>3. ASSUME NEW j \in DOMAIN thread, Live(j)' PROVE OwnConnection(j)'
    <3>1. j # k /\ thread'[j] = thread[j] /\ Live(j)
      BY <1>0, <2>1, <2>3 DEF Live, Ended
    <3>2. OwnConnection(j)
      BY <1>0, <3>1
    <3>3. CASE thread[j].fd = NoFd /\ thread[j].owner = "nobody"
      BY <3>1, <3>3 DEF OwnConnection
    <3>4. CASE ~(thread[j].fd = NoFd /\ thread[j].owner = "nobody")
      <4>1. thread[j].owner \in Clients /\ thread[j].fd \in Fds
            /\ table[thread[j].fd] = thread[j].owner
        BY <3>2, <3>4 DEF OwnConnection
      <4>2. thread[k].fd # thread[j].fd
        <5>1. Live(k) /\ k \in DOMAIN thread
          BY <1>0, <1>9, ClosesItsOwn
        <5> QED BY <3>1, <3>2, <3>4, <5>1 DEF OwnConnection
      <4>3. table'[thread[j].fd] = table[thread[j].fd]
        BY <1>0, <1>9, <4>1, <4>2, ClosesItsOwn DEF ServerTypes
      <4>4. ASSUME NEW l \in DOMAIN thread, Live(l)', thread'[l].fd = thread'[j].fd
            PROVE  l = j
        <5>1. thread'[l] = thread[l] /\ Live(l)
          BY <1>0, <2>1, <4>4 DEF Live, Ended
        <5> QED BY <3>1, <3>2, <3>4, <4>4, <5>1 DEF OwnConnection
      <4> QED BY <2>2, <3>1, <4>1, <4>3, <4>4 DEF OwnConnection
    <3> QED BY <3>3, <3>4
  <2> QED BY <2>2, <2>3 DEF ThreadInv
<1>10. CASE UNCHANGED <<table, thread>>
  BY <1>0, <1>10, TableKeepsOwn DEF Live
<1> QED BY <1>2, <1>3, <1>4, <1>5, <1>6, <1>7, <1>8, <1>9, <1>10
        DEF Next, Server, Connection, SocketFails, Bind, OpenPortFails, Select, SelectFails, AcceptFails,
            NoAccept, NextTurn, SendFails, Connect, Request, Leave, LineData, vars, ThreadInv

(***************************************************************************)
(* Select meets no closed descriptor.                                      *)
(***************************************************************************)

LEMMA SelectStep == ASSUME IInv, [Next]_vars PROVE SelectStaysGood'
<1>0. Types /\ StartInv /\ SocketInv /\ SelectStaysGood
  BY DEF IInv
<1> SUFFICES ASSUME PortsAbove', down' = "select" PROVE FALSE
  BY DEF SelectStaysGood
<1>1. PortsAbove
  BY <1>0, AboveBefore
<1>2. down # "select"
  BY <1>0, <1>1 DEF SelectStaysGood
<1>3. SelectFails
  BY <1>2 DEF Next, Server, Connection, OpenOther, CloseOther, MakeSocket, SocketFails, Bind,
       BindFails, OpenPort, OpenPortFails, Select, Accept, AcceptFails, NoAccept, StartPort,
       NextTurn, RecvRequest, RecvFails, Send, SendFails, Close, Connect, Request, Leave,
       LineData, vars
<1>4. Free(sockfd)
  BY <1>0, <1>1, <1>3, OnlySocketWatched DEF SelectFails
<1> QED BY <1>0, <1>1, <1>3, <1>4 DEF SocketInv, SelectFails, Free

(***************************************************************************)
(* The theorems.                                                           *)
(***************************************************************************)

\* The invariant is inductive.
THEOREM Invariance == Spec => []IInv
<1>1. IInv /\ [Next]_vars => IInv'
  <2> SUFFICES ASSUME IInv, [Next]_vars PROVE IInv'
    OBVIOUS
  <2>1. Types /\ StartInv
    BY DEF IInv
  <2> QED BY <2>1, TypeStep, StartStep, SocketStep, ThreadStep, SelectStep DEF IInv
<1> QED BY <1>1, InitInv, PTL DEF Spec

\* The types hold for any hosts and any limits of descriptors and threads: no
\* number beyond the table is given out, and no more threads are started than
\* there may be (networkCommunication.c:120-229).
THEOREM TypeCorrect == Spec => []TypeOK
<1>1. IInv => TypeOK
  <2> SUFFICES ASSUME IInv PROVE TypeOK
    OBVIOUS
  <2>1. Types /\ StartInv
    BY DEF IInv
  <2> QED BY <2>1 DEF Types, StartInv, TypeOK, NoFd
<1> QED BY <1>1, Invariance, PTL

\* For any hosts, however often numbers are given back and given out again: while
\* the ports lie above the socket, a thread receives from, answers and closes its
\* own connection, and never another's (networkCommunication.c:35-38, 85).
THEOREM OwnConnections == Spec => []ThreadsKeepToTheirOwn
<1>1. IInv => ThreadsKeepToTheirOwn
  <2> SUFFICES ASSUME IInv, PortsAbove, NEW k \in DOMAIN thread,
                      thread[k].at # "ended", thread[k].owner \in Clients
               PROVE  /\ At(k) = thread[k].owner
                      /\ \A l \in DOMAIN thread :
                            thread[l].at # "ended" /\ thread[l].fd = thread[k].fd => l = k
    BY DEF ThreadsKeepToTheirOwn
  <2>1. Live(k) /\ OwnConnection(k)
    BY DEF IInv, ThreadInv, Live
  <2>2. "nobody" \notin Clients /\ NoFd \notin Fds
    BY Hosts DEF Fds, NoFd
  <2> QED BY <2>1, <2>2 DEF OwnConnection, At, Live
<1> QED BY <1>1, Invariance, PTL

\* For any interleaving with the database connections of the other thread: the
\* process does not end on a closed descriptor in select while the ports lie
\* above the socket (networkCommunication.c:172-179).
THEOREM SelectNeverMeetsAClosedOne == Spec => []SelectStaysGood
<1>1. IInv => SelectStaysGood
  BY DEF IInv
<1> QED BY <1>1, Invariance, PTL

=============================================================================
