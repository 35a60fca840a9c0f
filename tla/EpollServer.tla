---------------------------- MODULE EpollServer ----------------------------
(***************************************************************************)
(* NetworkProgramming/epoll_server.c: the same service with epoll.  The    *)
(* listening socket is level-triggered, the clients' are edge-triggered:   *)
(* an arrival is reported once.  The loop looks at the first nfds cells of *)
(* the array events, however many of them epoll_wait() has filled in, and  *)
(* nfds goes up and down inside that loop.                                 *)
(***************************************************************************)
EXTENDS EchoConn

CONSTANT Stack   \* what mesg may hold before the first message

VARIABLES nfds,
          events,   \* what epoll_wait() has left in the array
          rdl,      \* the kernel's ready list of client sockets
          i

vars == <<conn, nfds, events, rdl, i>>

Junk == -1   \* a cell epoll_wait() has never filled in

Init ==
    /\ ConnInit
    /\ mesg \in Stack
    /\ spc = "wait"
    /\ nfds = 1
    /\ events = [k \in 0..Cardinality(Client) |-> Junk]
    /\ rdl = <<>>
    /\ i = 0

InReadyList(f) == \E k \in DOMAIN rdl : rdl[k] = f

\* The ready sockets in the order they became so; the listening socket, which
\* the kernel puts back every time, is anywhere among them.
Reported ==
    IF queue = <<>> THEN {rdl}
    ELSE {SubSeq(rdl, 1, k) \o <<Ssock>> \o SubSeq(rdl, k + 1, Len(rdl)) : k \in 0..Len(rdl)}

\* epoll_wait(epfd, events, MAX_EVENT, 500): after half a second with nothing
\* to report it returns 0, which is not looked at.
EpollWait ==
    /\ spc = "wait"
    /\ \E r \in Reported :
         events' = [k \in DOMAIN events |-> IF k < Len(r) THEN r[k + 1] ELSE events[k]]
    /\ rdl' = <<>>
    /\ i' = 0
    /\ spc' = "loop"
    /\ UNCHANGED <<net, mesg, nfds>>

Turn == spc = "loop" /\ i < nfds

\* EPOLL_CTL_ADD queues a socket that is readable already.
Accept ==
    /\ Turn /\ events[i] = Ssock /\ queue # <<>>
    /\ \E f \in Fd :
         /\ AcceptAs(f)
         /\ rdl' = IF Unread(Head(queue)) \/ Head(queue) \in left THEN Append(rdl, f) ELSE rdl
    /\ nfds' = nfds + 1
    /\ i' = i + 1
    /\ UNCHANGED <<spc, events>>

\* An event of an earlier round, an accept() that finds nobody (the socket is
\* non-blocking), or a cell that holds whatever the stack had.
Skip ==
    /\ Turn
    /\ \/ events[i] = Ssock /\ queue = <<>> /\ UNCHANGED mesg
       \/ events[i] = Junk /\ mesg' \in {mesg, "empty"}
       \/ /\ events[i] \in Fd
          /\ ~Unread(fds[events[i]])
          /\ mesg' = "empty"
    /\ i' = i + 1
    /\ UNCHANGED <<net, spc, nfds, events, rdl>>

Read ==
    /\ Turn /\ events[i] \in Fd
    /\ ReadFrom(events[i])
    /\ spc' = "echo"
    /\ UNCHANGED <<nfds, events, rdl, i>>

\* write, close, which also removes the socket from the ready list, nfds--.
EchoBack ==
    LET f == events[i] IN
    /\ spc = "echo"
    /\ EchoAndClose(f)
    /\ IF InReadyList(f)
       THEN \E k \in DOMAIN rdl :
              rdl[k] = f /\ rdl' = SubSeq(rdl, 1, k - 1) \o SubSeq(rdl, k + 1, Len(rdl))
       ELSE UNCHANGED rdl
    /\ nfds' = nfds - 1
    /\ i' = i + 1
    /\ spc' = "loop"
    /\ UNCHANGED <<mesg, events>>

LoopDone ==
    /\ spc = "loop" /\ i >= nfds
    /\ LoopEnd("wait")
    /\ UNCHANGED <<nfds, events, rdl, i>>

Server == EpollWait \/ Accept \/ Skip \/ Read \/ EchoBack \/ LoopDone

\* An arrival on a registered socket puts it on the ready list.
Arrival(c) ==
    /\ Send(c) \/ Leave(c)
    /\ rdl' = IF \E f \in Fd : fds[f] = c /\ ~InReadyList(f)
              THEN Append(rdl, CHOOSE f \in Fd : fds[f] = c) ELSE rdl
    /\ UNCHANGED <<nfds, events, i>>

Environment(c) == Arrival(c) \/ (Connect(c) /\ UNCHANGED <<nfds, events, rdl, i>>)

Next == Server \/ \E c \in Client : Environment(c)

Spec == Init /\ [][Next]_vars

-----------------------------------------------------------------------------
(* Correctness.                                                            *)

\* Every variable has its type.
TypeOK ==
    /\ ConnTypeOK
    /\ spc \in {"wait", "loop", "echo", "stopped"}
    /\ nfds \in 1..Cardinality(Client) + 1
    /\ events \in [0..Cardinality(Client) -> Fd \cup {Ssock, Junk}]
    /\ rdl \in Seq(Fd)
    /\ i \in 0..Cardinality(Client) + 1

\* nfds is the number of sockets epoll watches, so what epoll_wait() reports
\* fits in the cells the loop looks at when it starts.
NfdsCounts == Up => nfds = 1 + Cardinality({f \in Fd : fds[f] # Free})

\* What a client that sends its text may count on: it is answered or reset, or
\* the server has stopped, even if another one stalls or is killed, as long as
\* no three connections are open at once: the events the shrinking bound of the
\* loop cuts off are then never a client's that waits.
Served(c) ==
    \/ got[c] # "none" \/ ~Up
    \/ Cardinality({d \in Client : Open(d)}) > 2
=============================================================================
