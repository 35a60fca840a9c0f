----------------------------- MODULE TcpServer -----------------------------
(***************************************************************************)
(* NetworkProgramming/tcp_server.c: one connection after the other is      *)
(* accepted, read from once, sent the same bytes and closed.               *)
(***************************************************************************)
EXTENDS EchoConn

VARIABLE csock   \* the connection being served

vars == <<conn, csock>>

Init ==
    /\ ConnInit
    /\ mesg = "other"
    /\ spc = "accept"
    /\ csock = 0

\* Fault: if ((csock = accept(...) < 0)), which leaves the comparison in csock.
FaultyAccept ==
    /\ spc = "accept"
    /\ \E f \in Fd : AcceptAs(f)
    /\ csock' = 0
    /\ spc' = "read"

Accept ==
    /\ spc = "accept"
    /\ \E f \in Fd : AcceptAs(f) /\ csock' = f
    /\ spc' = "read"

\* read(csock, mesg, BUFSIZ) waits for the first bytes.
Read ==
    /\ spc = "read"
    /\ ReadFrom(csock)
    /\ spc' = "write"
    /\ UNCHANGED csock

\* read() <= 0 is reported and then ignored: n bytes of the old mesg are
\* written, which is none, or an error.
ReadNothing ==
    /\ spc = "read"
    /\ fds[csock] \in left /\ ~Unread(fds[csock])
    /\ spc' = "write"
    /\ UNCHANGED <<net, mesg, csock>>

WriteAndClose ==
    /\ spc = "write"
    /\ EchoAndClose(csock)
    /\ spc' = "test"
    /\ UNCHANGED <<mesg, csock>>

Test == spc = "test" /\ LoopEnd("accept") /\ UNCHANGED csock

Server == Accept \/ Read \/ ReadNothing \/ WriteAndClose \/ Test

Environment(c) == Peer(c) /\ UNCHANGED csock

Next == Server \/ \E c \in Client : Environment(c)

Spec == Init /\ [][Next]_vars

-----------------------------------------------------------------------------
(* Correctness.                                                            *)

\* Every variable has its type, and csock is a descriptor once accept() has
\* returned.
TypeOK ==
    /\ ConnTypeOK
    /\ spc \in {"accept", "read", "write", "test", "stopped"}
    /\ csock \in IF spc = "read" \/ spc = "write" THEN Fd ELSE Fd \cup {0}

\* What a client that connects may count on: it is answered, or its connection
\* is reset, or the server has stopped.  Nobody is forgotten in the queue, not
\* even behind a client that is killed; the one exception is a client d whose
\* user never types: read() is stuck on it for ever.
Served(c)  == got[c] # "none" \/ ~Up
StuckOn(d) == spc = "read" /\ fds[csock] = d /\ sent[d] = 0
=============================================================================
