--------------------------- MODULE NetworkServer ---------------------------
(***************************************************************************)
(* thread_network_tcp and the threads it starts (networkCommunication.c):   *)
(* a listening socket, two serial ports to the PC, select(), and one        *)
(* cmd_network thread per accepted connection or readable port, which       *)
(* closes its descriptor when recv() fails.                                 *)
(*                                                                         *)
(* The subject is the table of descriptors of the process, which gives out  *)
(* the lowest free number: dis01 and bs01 open and close connections to the *)
(* database and a file while the server starts, so where the ports come to  *)
(* lie depends on the interleaving.  select(sockfd + 1, ...) watches only   *)
(* what lies below the socket.  Threads are never joined: each one that was *)
(* ever started counts against the limit of the process.                    *)
(*                                                                         *)
(* What is asked and answered is BatteryPack's subject.                     *)
(***************************************************************************)
EXTENDS Integers, Sequences, FiniteSets

CONSTANTS Clients,      \* the hosts that connect
          Talking,      \* the hosts, and the serial ports with a PC, that send
          MaxOthers,    \* the numbers the other threads have at once: one each
          MaxFd,        \* the largest descriptor
          MaxThreads    \* the threads the process can create

ASSUME Limits == {MaxFd, MaxOthers, MaxThreads} \subseteq Nat
ASSUME Lines  == Talking \subseteq Clients \cup {"232", "485"}
ASSUME Hosts  == Clients \cap {"free", "socket", "other", "nobody", "232", "485"} = {}

VARIABLES table,        \* the descriptors of the process
          net,          \* where thread_network_tcp is
          sockfd,
          port,         \* TO232PCfd and TO485PCfd
          ready,        \* rfd_set after select
          thread,       \* the cmd_network threads, in the order of their start
          peer,         \* per host: its connection
          req,          \* per host: has it sent a request nobody has read?
          line,         \* per port: are there bytes to read?
          down          \* why the process has ended, "no" if it runs

vars == <<table, net, sockfd, port, ready, thread, peer, req, line, down>>

Fds   == 0..MaxFd
NoFd  == -1
Ports == {"232", "485"}
Free(fd) == table[fd] = "free"
Full  == \A fd \in Fds : ~Free(fd)

\* The descriptor the system gives out next.
Lowest == CHOOSE fd \in Fds : Free(fd) /\ \A g \in Fds : Free(g) => fd <= g

Running == down = "no"

Init ==
    /\ table = [fd \in Fds |-> "free"]
    /\ net = "socket"
    /\ sockfd = NoFd
    /\ port = [p \in Ports |-> NoFd]
    /\ ready = {}
    /\ thread = <<>>
    /\ peer = [c \in Clients |-> "away"]
    /\ req = [c \in Clients |-> FALSE]
    /\ line = [p \in Ports |-> FALSE]
    /\ down = "no"

-----------------------------------------------------------------------------
(* The other threads of the process.                                       *)

\* AddCurrentData opens a connection to the database, and closes it; so does
\* bs01, which has RES_FILE open at other times.  Their serial ports, opened once
\* and kept, are left out.
OpenOther ==
    /\ Running
    /\ ~Full
    /\ Cardinality({fd \in Fds : table[fd] = "other"}) < MaxOthers
    /\ table' = [table EXCEPT ![Lowest] = "other"]
    /\ UNCHANGED <<net, sockfd, port, ready, thread, peer, req, line, down>>

CloseOther ==
    /\ Running
    /\ \E fd \in Fds : /\ table[fd] = "other"
                       /\ table' = [table EXCEPT ![fd] = "free"]
    /\ UNCHANGED <<net, sockfd, port, ready, thread, peer, req, line, down>>

-----------------------------------------------------------------------------
(* The start of thread_network_tcp.                                        *)

MakeSocket ==
    /\ Running
    /\ net = "socket"
    /\ ~Full
    /\ sockfd' = Lowest
    /\ table' = [table EXCEPT ![Lowest] = "socket"]
    /\ net' = "bind"
    /\ UNCHANGED <<port, ready, thread, peer, req, line, down>>

\* No socket, for whatever reason: exit(1).
SocketFails ==
    /\ Running
    /\ net = "socket"
    /\ down' = "socket"
    /\ UNCHANGED <<table, net, sockfd, port, ready, thread, peer, req, line>>

Bind ==
    /\ Running
    /\ net = "bind"
    /\ net' = "232"
    /\ UNCHANGED <<table, sockfd, port, ready, thread, peer, req, line, down>>

\* bind or listen fails: the thread closes the socket and ends, the process
\* goes on without a server.
BindFails ==
    /\ Running
    /\ net = "bind"
    /\ table' = [table EXCEPT ![sockfd] = "free"]
    /\ net' = "gone"
    /\ UNCHANGED <<sockfd, port, ready, thread, peer, req, line, down>>

OpenPort(p) ==
    /\ Running
    /\ net = p
    /\ ~Full
    /\ table' = [table EXCEPT ![Lowest] = p]
    /\ port' = [port EXCEPT ![p] = Lowest]
    /\ net' = IF p = "232" THEN "485" ELSE "select"
    /\ UNCHANGED <<sockfd, ready, thread, peer, req, line, down>>

OpenPortUnchecked(p) ==
    /\ Running
    /\ net = p
    /\ net' = IF p = "232" THEN "485" ELSE "select"
    /\ UNCHANGED <<table, sockfd, port, ready, thread, peer, req, line, down>>

\* A port cannot be opened: the thread ends, the socket goes on listening.
OpenPortFails(p) ==
    /\ Running
    /\ net = p
    /\ net' = "gone"
    /\ UNCHANGED <<table, sockfd, port, ready, thread, peer, req, line, down>>

-----------------------------------------------------------------------------
(* Its loop.                                                               *)

Backlog == {c \in Clients : peer[c] = "backlog"}

WatchedAll == {sockfd, port["232"], port["485"]}

WatchedBelow == {fd \in {sockfd, port["232"], port["485"]} : fd < sockfd}

\* select(sockfd + 1, ...) looks at the descriptors up to sockfd only.
Watched == {fd \in {sockfd, port["232"], port["485"]} : fd <= sockfd}

\* A port's number may meanwhile be another's; what the database sends is left
\* out.
Readable(fd) ==
    CASE table[fd] = "socket"    -> Backlog # {}
      [] table[fd] \in Ports     -> line[table[fd]]
      [] table[fd] \in Clients   -> req[table[fd]] \/ peer[table[fd]] \in {"shut", "reset"}
      [] OTHER                   -> FALSE

Select ==
    /\ Running
    /\ net = "select"
    /\ \A fd \in Watched : ~Free(fd)
    /\ ready' = {fd \in Watched : Readable(fd)}
    /\ ready' # {}
    /\ net' = "accept"
    /\ UNCHANGED <<table, sockfd, port, thread, peer, req, line, down>>

\* A watched descriptor is not open: EBADF, and exit(-1).
SelectFails ==
    /\ Running
    /\ net = "select"
    /\ \E fd \in Watched : Free(fd)
    /\ down' = "select"
    /\ UNCHANGED <<table, net, sockfd, port, ready, thread, peer, req, line>>

Started(fd, owner) == Append(thread, [fd |-> fd, at |-> "recv", owner |-> owner])

\* A thread is created for whatever accept returned, -1 included.
Accept ==
    /\ Running
    /\ net = "accept"
    /\ sockfd \in ready
    /\ Len(thread) < MaxThreads
    /\ \/ /\ ~Full
          /\ \E c \in Backlog :
                /\ table' = [table EXCEPT ![Lowest] = c]
                /\ peer' = [peer EXCEPT ![c] = "open"]
                /\ thread' = Started(Lowest, c)
       \/ /\ Full \/ Backlog = {}
          /\ thread' = Started(NoFd, "nobody")
          /\ UNCHANGED <<table, peer>>
    /\ net' = "ports"
    /\ UNCHANGED <<sockfd, port, ready, req, line, down>>

\* No more threads: exit(EXIT_FAILURE).
AcceptFails ==
    /\ Running
    /\ net = "accept"
    /\ sockfd \in ready
    /\ Len(thread) = MaxThreads
    /\ down' = "threads"
    /\ UNCHANGED <<table, net, sockfd, port, ready, thread, peer, req, line>>

NoAccept ==
    /\ Running
    /\ net = "accept"
    /\ sockfd \notin ready
    /\ net' = "ports"
    /\ UNCHANGED <<table, sockfd, port, ready, thread, peer, req, line, down>>

\* First 485, then 232; whether the thread could be created is not looked at.
StartPort(p) ==
    /\ Running
    /\ net = "ports"
    /\ port[p] \in ready
    /\ p = "232" => port["485"] \notin ready
    /\ ready' = ready \ {port[p]}
    /\ thread' = IF Len(thread) < MaxThreads THEN Started(port[p], p) ELSE thread
    /\ UNCHANGED <<table, net, sockfd, port, peer, req, line, down>>

NextTurn ==
    /\ Running
    /\ net = "ports"
    /\ \A p \in Ports : port[p] \notin ready
    /\ ready' = {}
    /\ net' = "select"
    /\ UNCHANGED <<table, sockfd, port, thread, peer, req, line, down>>

-----------------------------------------------------------------------------
(* cmd_network, the k-th thread started.                                    *)

\* What the descriptor of the thread means now.
At(k) == IF thread[k].fd = NoFd THEN "free" ELSE table[thread[k].fd]
Goto(k, l) == thread' = [thread EXCEPT ![k].at = l]

RecvRequest(k) ==
    /\ Running
    /\ thread[k].at = "recv"
    /\ At(k) \in Clients
    /\ req[At(k)] /\ peer[At(k)] # "reset"
    /\ req' = [req EXCEPT ![At(k)] = FALSE]
    /\ Goto(k, "send")
    /\ UNCHANGED <<table, net, sockfd, port, ready, peer, line, down>>

RecvGoesOn(k) == FALSE

\* The peer has closed or reset the connection, or the descriptor is closed or
\* not a connection at all: a serial port and bs01's file are none (ENOTSOCK).
\* What the database sends over its own is left out.
RecvFails(k) ==
    /\ Running
    /\ thread[k].at = "recv"
    /\ \/ At(k) \in {"free", "socket", "other"} \cup Ports
       \/ /\ At(k) \in Clients
          /\ \/ peer[At(k)] = "reset"
             \/ peer[At(k)] = "shut" /\ ~req[At(k)]
    /\ Goto(k, "close")
    /\ UNCHANGED <<table, net, sockfd, port, ready, peer, req, line, down>>

\* The answer; to a host that has closed its end it may bring a reset back.
Send(k) ==
    /\ Running
    /\ thread[k].at = "send"
    /\ ~(At(k) \in Clients /\ peer[At(k)] = "reset")
    /\ \/ UNCHANGED peer
       \/ /\ At(k) \in Clients /\ peer[At(k)] = "shut"
          /\ peer' = [peer EXCEPT ![At(k)] = "reset"]
    /\ Goto(k, "recv")
    /\ UNCHANGED <<table, net, sockfd, port, ready, req, line, down>>

\* The connection has been reset: SIGPIPE, which nobody handles.
SendFails(k) ==
    /\ Running
    /\ thread[k].at = "send"
    /\ At(k) \in Clients /\ peer[At(k)] = "reset"
    /\ down' = "sigpipe"
    /\ UNCHANGED <<table, net, sockfd, port, ready, thread, peer, req, line>>

Ended == [fd |-> NoFd, at |-> "ended", owner |-> "nobody"]

\* What is closed is what the number means now.
Closed(k) ==
    /\ table' = IF thread[k].fd = NoFd THEN table
                ELSE [table EXCEPT ![thread[k].fd] = "free"]
    /\ IF At(k) \in Clients
       THEN /\ peer' = [peer EXCEPT ![At(k)] = "away"]
            /\ req' = [req EXCEPT ![At(k)] = FALSE]
       ELSE UNCHANGED <<peer, req>>

CloseAndRecv(k) ==
    /\ Running
    /\ thread[k].at = "close"
    /\ Closed(k)
    /\ Goto(k, "recv")
    /\ UNCHANGED <<net, sockfd, port, ready, line, down>>

Close(k) ==
    /\ Running
    /\ thread[k].at = "close"
    /\ Closed(k)
    /\ thread' = [thread EXCEPT ![k] = Ended]
    /\ UNCHANGED <<net, sockfd, port, ready, line, down>>

-----------------------------------------------------------------------------
(* The hosts and the serial lines.                                          *)

Listening == net \notin {"socket", "bind"} /\ sockfd # NoFd /\ table[sockfd] = "socket"

Connect(c) ==
    /\ Running
    /\ Listening
    /\ peer[c] = "away"
    /\ peer' = [peer EXCEPT ![c] = "backlog"]
    /\ UNCHANGED <<table, net, sockfd, port, ready, thread, req, line, down>>

Request(c) ==
    /\ Running
    /\ peer[c] = "open"
    /\ ~req[c]
    /\ req' = [req EXCEPT ![c] = TRUE]
    /\ UNCHANGED <<table, net, sockfd, port, ready, thread, peer, line, down>>

\* The host gives up before it is accepted, closes, or aborts.
Leave(c) ==
    /\ Running
    /\ \/ peer[c] = "backlog" /\ peer' = [peer EXCEPT ![c] = "away"]
       \/ peer[c] = "open" /\ \E s \in {"shut", "reset"} : peer' = [peer EXCEPT ![c] = s]
    /\ UNCHANGED <<table, net, sockfd, port, ready, thread, req, line, down>>

LineData(p) ==
    /\ Running
    /\ ~line[p]
    /\ line' = [line EXCEPT ![p] = TRUE]
    /\ UNCHANGED <<table, net, sockfd, port, ready, thread, peer, req, down>>

-----------------------------------------------------------------------------

Server ==
    \/ MakeSocket \/ SocketFails \/ Bind \/ BindFails
    \/ \E p \in Ports : OpenPort(p) \/ OpenPortFails(p)
    \/ Select \/ SelectFails
    \/ Accept \/ AcceptFails \/ NoAccept
    \/ \E p \in Ports : StartPort(p)
    \/ NextTurn

Connection(k) == RecvRequest(k) \/ RecvFails(k) \/ Send(k) \/ SendFails(k) \/ Close(k)

Next ==
    \/ OpenOther \/ CloseOther
    \/ Server
    \/ \E k \in 1..Len(thread) : Connection(k)
    \/ \E c \in Clients : Connect(c) \/ Leave(c)
    \/ \E c \in Clients \cap Talking : Request(c)
    \/ \E p \in Ports \cap Talking : LineData(p)

Spec == Init /\ [][Next]_vars

\* Every thread runs on while its descriptor lets it; the hosts read what they
\* are sent (BatteryPack says what becomes of the mutex if they do not).
FairSpec ==
    /\ Spec
    /\ WF_vars(Server)
    /\ \A k \in 1..MaxThreads : WF_vars(k \in DOMAIN thread /\ Connection(k))

-----------------------------------------------------------------------------

Threads == [fd : Fds \cup {NoFd}, at : {"recv", "send", "close", "ended"},
            owner : Clients \cup Ports \cup {"nobody"}]

TypeOK ==
    /\ table \in [Fds -> {"free", "socket", "other"} \cup Ports \cup Clients]
    /\ net \in {"socket", "bind", "select", "accept", "ports", "gone"} \cup Ports
    /\ sockfd \in Fds \cup {NoFd}
    /\ port \in [Ports -> Fds \cup {NoFd}]
    /\ net # "socket" => sockfd \in Fds
    /\ net \in {"select", "accept", "ports"} => \A p \in Ports : port[p] \in Fds
    /\ ready \subseteq Fds
    /\ thread \in Seq(Threads) /\ Len(thread) <= MaxThreads
    /\ peer \in [Clients -> {"away", "backlog", "open", "shut", "reset"}]
    /\ req \in [Clients -> BOOLEAN]
    /\ line \in [Ports -> BOOLEAN]
    /\ down \in {"no", "socket", "select", "threads", "sigpipe"}

\* The ports lie where the server's own order of opening puts them, above the
\* socket.  They come to lie below it only if another thread took a lower number and
\* gave it back in between.
PortsAbove == \A p \in Ports : port[p] = NoFd \/ port[p] > sockfd

\* While the ports lie above the socket, every connection thread that has not
\* ended works on its own connection, whatever numbers were given back and
\* given out again, and no connection has two of them
\* (networkCommunication.c:35-38, 85, 185-196).
ThreadsKeepToTheirOwn ==
    PortsAbove =>
        \A k \in DOMAIN thread :
            thread[k].at # "ended" /\ thread[k].owner \in Clients =>
                /\ At(k) = thread[k].owner
                /\ \A l \in DOMAIN thread : thread[l].at # "ended" /\ thread[l].fd = thread[k].fd
                                            => l = k

\* While the ports lie above the socket, select never meets a closed
\* descriptor, so that exit of the process (networkCommunication.c:172-179) is
\* never taken.
SelectStaysGood == down = "select" => ~PortsAbove

\* The descriptor of a host that has gone is given back.
DescriptorsReturned ==
    \A c \in Clients : peer[c] \in {"shut", "reset"} ~> ~Running \/ peer[c] = "away"

\* A host that connects is accepted, and what it asks is taken, unless the
\* server has ended or the host has gone.
HostIsServed ==
    \A c \in Clients :
        /\ peer[c] = "backlog" ~> peer[c] # "backlog" \/ ~Running \/ net = "gone"
        /\ req[c] ~> ~req[c] \/ ~Running

\* The comments of networkCommunication.c:212 and 217: what comes in over a
\* serial port starts a thread for that port.
SerialPortServed ==
    \A p \in Ports :
        line[p] /\ net = "select"
            ~> ~Running \/ \E k \in DOMAIN thread : thread[k].owner = p

=============================================================================
