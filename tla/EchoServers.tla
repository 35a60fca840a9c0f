---------------------------- MODULE EchoServers ----------------------------
(***************************************************************************)
(* The echo servers side by side.  Whichever of the three TCP servers is   *)
(* started, its clients are those of EchoConn, and it implements the same  *)
(* EchoService; the UDP server has the clients and the network of UdpEcho. *)
(* The variables of the servers that are not started keep their values.    *)
(***************************************************************************)
EXTENDS EchoConn

CONSTANTS Stack,    \* what epoll_server's mesg may hold before the first message
          Lines,    \* bound: lines that each client of udp_server types
          Faults,   \* bound: datagrams lost or repeated, and udp_servers killed
          Absent    \* the clients that each of the servers does not have

ASSUME StackAssumption  == Stack \subseteq {"q", "other", "empty"}
ASSUME BoundsAssumption == Lines \in Nat \ {0} /\ Faults \in Nat

VARIABLES program,                                         \* the server
          csock,                                           \* tcp_server.c
          client_fd, client_index, readfd, start_index,    \* select_server.c
          nfds, events, rdl, i,                            \* epoll_server.c
          requests, answers, lost, repeated,               \* the network of udp_server.c,
          upc, datagram,                                   \* the server's place and mesg,
          cpc, typed, shown, quitters                      \* and its clients

ofTcp    == csock
ofSelect == <<client_fd, client_index, readfd, start_index>>
ofEpoll  == <<nfds, events, rdl, i>>
ofUdp    == <<requests, answers, lost, repeated, upc, datagram, cpc, typed, shown, quitters>>

vars == <<conn, program, ofTcp, ofSelect, ofEpoll, ofUdp>>

Tcp    == INSTANCE TcpServer
Select == INSTANCE SelectServer
Epoll  == INSTANCE EpollServer
Udp    == INSTANCE UdpEcho WITH spc <- upc, mesg <- datagram, got <- shown

\* With udp_server nobody connects.
ConnOff   == ConnInit /\ text = [c \in Client |-> "hello"] /\ mesg = "other" /\ spc = "accept"
TcpOff    == csock = 0
SelectOff == client_fd = <<>> /\ client_index = 0 /\ readfd = {} /\ start_index = 0
EpollOff  == nfds = 0 /\ events = <<>> /\ rdl = <<>> /\ i = 0

Init ==
    \/ program = "tcp"    /\ Tcp!Init    /\ SelectOff /\ EpollOff  /\ Udp!Init
    \/ program = "select" /\ Select!Init /\ TcpOff    /\ EpollOff  /\ Udp!Init
    \/ program = "epoll"  /\ Epoll!Init  /\ TcpOff    /\ SelectOff /\ Udp!Init
    \/ program = "udp"    /\ Udp!Init    /\ TcpOff    /\ SelectOff /\ EpollOff /\ ConnOff

TcpRuns    == program = "tcp"    /\ UNCHANGED <<program, ofSelect, ofEpoll, ofUdp>>
SelectRuns == program = "select" /\ UNCHANGED <<program, ofTcp, ofEpoll, ofUdp>>
EpollRuns  == program = "epoll"  /\ UNCHANGED <<program, ofTcp, ofSelect, ofUdp>>
UdpRuns    == program = "udp"    /\ UNCHANGED <<program, conn, ofTcp, ofSelect, ofEpoll>>

Server ==
    \/ TcpRuns    /\ Tcp!Server
    \/ SelectRuns /\ Select!Server
    \/ EpollRuns  /\ Epoll!Server
    \/ UdpRuns    /\ Udp!Server

Environment(c) ==
    /\ c \notin Absent[program]
    /\ \/ TcpRuns    /\ Tcp!Environment(c)
       \/ SelectRuns /\ Select!Environment(c)
       \/ EpollRuns  /\ Epoll!Environment(c)
       \/ UdpRuns    /\ Udp!Environment(c)

\* udp_server is started, killed and started again, and its network is no connection.
Outside == UdpRuns /\ Udp!Outside

Next == Server \/ Outside \/ \E c \in Client : Environment(c)

Spec == Init /\ [][Next]_vars

\* The server runs, and a client whose user is there sends its text; a client
\* of udp_server shows what has come, though nobody has to type anything.  The
\* UDP server takes the datagrams in the order they have come, so that none of
\* them is left for ever.
Fairness ==
    /\ WF_vars(Server)
    /\ \A c \in Client \ Unreliable : WF_vars(Environment(c) /\ sent' # sent)
    /\ \A c \in Client : WF_vars(UdpRuns /\ Udp!Show(c))

FairSpec == Spec /\ Fairness

-----------------------------------------------------------------------------
(* Correctness.                                                            *)

\* Every variable of the server that runs has its type.
TypeOK ==
    CASE program = "tcp"    -> Tcp!TypeOK
      [] program = "select" -> Select!TypeOK
      [] program = "epoll"  -> Epoll!TypeOK
      [] program = "udp"    -> Udp!TypeOK

\* What select_server.c and epoll_server.c count is the number of connections
\* that are open, whichever of them the arrays have forgotten.
Counts ==
    /\ program = "select" => Select!IndexCounts
    /\ program = "epoll"  => Epoll!NfdsCounts

\* Whatever datagrams are lost or reordered, a client of udp_client.c that types
\* again has been shown the line it has typed last, if none comes twice.
InStep == program = "udp" => Udp!InStep

\* Repeated datagrams or not, only a q of its own ends a client of udp_client.c.
OwnQuit == program = "udp" => Udp!OwnQuit

Waits(c) ==
    IF program = "udp" THEN cpc[c] = "wait" ELSE c \notin Unreliable /\ cst[c] = "queued"

Served(c) ==
    CASE program = "tcp"    -> Tcp!Served(c)
      [] program = "select" -> Select!Served(c)
      [] program = "epoll"  -> Epoll!Served(c)
      [] program = "udp"    -> Udp!Served(c)

\* A client that has connected, or sent a datagram, is answered or reset, or the
\* server has stopped, but for what each server does to its clients: the first
\* waits for one of them, the next two forget one when several are open, and
\* the last waits with its client when a datagram is lost.
Answered ==
    \A c \in Client :
      Waits(c) ~> Served(c) \/ \E d \in Unreliable : [](program = "tcp" /\ Tcp!StuckOn(d))
=============================================================================
