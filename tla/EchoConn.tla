------------------------------ MODULE EchoConn ------------------------------
(***************************************************************************)
(* The clients (tcp_client.c) of the three echo servers, the kernel's side *)
(* of their connections, and the calls the servers make on them.  A client *)
(* connects, waits for a line from its user and sends BUFSIZ bytes of it,  *)
(* which arrive in two segments: the first begins with the text.           *)
(***************************************************************************)
EXTENDS Integers, Sequences, FiniteSets

CONSTANTS Client,      \* the clients, one connection each
          Unreliable,  \* clients whose user may never type, or kill them
          Backlog,     \* listen(ssock, 8)
          Ssock,       \* the listening socket
          Fd,          \* descriptor numbers for connections
          Free         \* an unused slot of the table

ASSUME ClientAssumption == IsFiniteSet(Client)
ASSUME FdAssumption     == Fd \subseteq Nat \ {0}
ASSUME SsockAssumption  == Ssock \notin Fd
ASSUME FreeAssumption   == Free \notin Client

\* What a buffer may hold that is nobody's text: what the stack had, which may
\* begin with a q, the client's address, the rest of a text, or zeros.
Filler == {"q", "other", "address", "empty"}

ASSUME TextAssumption == Client \cap (Filler \cup {"none", "lost"}) = {}

VARIABLES text,    \* what each client's user types
          cst,     \* each connection: idle, queued or accepted
          queue,   \* connections waiting for accept()
          sent,    \* segments of the text that have arrived
          taken,   \* segments read by the server
          left,    \* clients that were killed
          got,     \* what recv() gave each client: none, lost (an error or the
                   \* end), or what it holds, a client's name for its text
          fds,     \* the server's descriptor table
          mesg,    \* what the server's buffer mesg begins with: a client's text,
                   \* for which its name stands, or a Filler
          spc      \* where the server is

net  == <<text, cst, queue, sent, taken, left, got, fds>>
conn == <<net, mesg, spc>>

Up      == spc # "stopped"
Open(c) == \E f \in Fd : fds[f] = c

Lowest(f) == fds[f] = Free /\ \A g \in Fd : g < f => fds[g] # Free

ConnInit ==
    /\ text \in [Client -> {"q", "hello"}]
    /\ cst = [c \in Client |-> "idle"]
    /\ queue = <<>>
    /\ sent = [c \in Client |-> 0]
    /\ taken = [c \in Client |-> 0]
    /\ left = {}
    /\ got = [c \in Client |-> "none"]
    /\ fds = [f \in Fd |-> Free]

-----------------------------------------------------------------------------
(* The client.                                                             *)

Connect(c) ==
    /\ Up
    /\ cst[c] = "idle"
    /\ Len(queue) < Backlog
    /\ cst' = [cst EXCEPT ![c] = "queued"]
    /\ queue' = Append(queue, c)
    /\ UNCHANGED <<text, sent, taken, left, got, fds, mesg, spc>>

\* A reset may come before recv() has taken the echo.
Reset(c) == \E g \in {got[c], "lost"} \ {"none"} : got' = [got EXCEPT ![c] = g]

\* A segment that arrives after the server has closed is answered by a reset.
Send(c) ==
    /\ cst[c] # "idle"
    /\ sent[c] < 2
    /\ c \notin left
    /\ sent' = [sent EXCEPT ![c] = @ + 1]
    /\ IF ~Up \/ (cst[c] = "accepted" /\ ~Open(c)) THEN Reset(c) ELSE UNCHANGED got
    /\ UNCHANGED <<text, cst, queue, taken, left, fds, mesg, spc>>

\* The client is killed; its end of the connection is closed.
Leave(c) ==
    /\ c \in Unreliable \ left
    /\ cst[c] # "idle"
    /\ left' = left \cup {c}
    /\ UNCHANGED <<text, cst, queue, sent, taken, got, fds, mesg, spc>>

Peer(c) == Connect(c) \/ Send(c) \/ Leave(c)

-----------------------------------------------------------------------------
(* The server's calls.                                                     *)

Unread(x) == x # Free /\ taken[x] < sent[x]

\* accept() and inet_ntop(..., mesg, BUFSIZ): mesg holds an address.
AcceptAs(f) ==
    /\ queue # <<>>
    /\ Lowest(f)
    /\ fds' = [fds EXCEPT ![f] = Head(queue)]
    /\ cst' = [cst EXCEPT ![Head(queue)] = "accepted"]
    /\ queue' = Tail(queue)
    /\ mesg' = "address"
    /\ UNCHANGED <<text, sent, taken, left, got>>

\* Fault: memset(mesg, 0, sizeof(mesg)) comes after read().
ClearingReadFrom(f) ==
    LET x == fds[f] IN
    /\ Unread(x)
    /\ mesg' = "empty"
    /\ taken' = [taken EXCEPT ![x] = sent[x]]
    /\ UNCHANGED <<text, cst, queue, sent, left, got, fds>>

\* read(f, mesg, BUFSIZ) > 0: it takes all that has arrived.
ReadFrom(f) ==
    LET x == fds[f] IN
    /\ Unread(x)
    /\ mesg' = IF taken[x] = 0 THEN x ELSE "other"
    /\ taken' = [taken EXCEPT ![x] = sent[x]]
    /\ UNCHANGED <<text, cst, queue, sent, left, got, fds>>

\* Fault: the echo is not written.
FaultyEchoAndClose(f) ==
    /\ fds' = [fds EXCEPT ![f] = Free]
    /\ UNCHANGED <<text, cst, queue, sent, taken, left, got>>

\* write(f, mesg, n): the client receives what mesg holds by now, or nothing if
\* read() gave nothing, which leaves n <= 0.
Written(x) == IF taken[x] > 0 THEN mesg ELSE "lost"

\* ... and close(f).  A close that leaves bytes unread resets the connection,
\* and the reset may overtake the echo.
EchoAndClose(f) ==
    LET x == fds[f] IN
    /\ fds' = [fds EXCEPT ![f] = Free]
    /\ IF x = Free \/ x \in left
       THEN UNCHANGED got
       ELSE \E g \in {Written(x)} \cup (IF Unread(x) THEN {"lost"} ELSE {}) :
              got' = [got EXCEPT ![x] = g]
    /\ UNCHANGED <<text, cst, queue, sent, taken, left>>

\* close(ssock) and return: what is queued or open is closed by the kernel,
\* which resets what is unread.
Exit ==
    /\ spc' = "stopped"
    /\ fds' = [f \in Fd |-> Free]
    /\ got' = [c \in Client |->
                 IF cst[c] = "queued" \/ (Open(c) /\ Unread(c)) THEN "lost" ELSE got[c]]
    /\ UNCHANGED <<text, cst, queue, sent, taken, left, mesg>>

\* strncmp(mesg, "q", 1) is 0.
SaysQuit == mesg = "q" \/ (mesg \in Client /\ text[mesg] = "q")

\* while(strncmp(mesg, "q", 1)): on to the place next, or out of the loop.
LoopEnd(next) ==
    IF SaysQuit THEN Exit ELSE spc' = next /\ UNCHANGED <<net, mesg>>

-----------------------------------------------------------------------------
(* The types of the variables, and the service the servers implement.      *)

ConnTypeOK ==
    /\ text \in [Client -> {"q", "hello"}]
    /\ cst \in [Client -> {"idle", "queued", "accepted"}]
    /\ queue \in Seq(Client)
    /\ sent \in [Client -> 0..2]
    /\ taken \in [Client -> 0..2]
    /\ left \subseteq Client
    /\ got \in [Client -> Client \cup Filler \cup {"none", "lost"}]
    /\ fds \in [Fd -> Client \cup {Free}]
    /\ mesg \in Client \cup Filler

Echo == INSTANCE EchoService WITH said <- sent, heard <- taken, up <- Up

\* Every client is sent its own text and nobody else's, although all share one
\* mesg, at most once and after it has been read; it is lost only to a client
\* that was still sending it when it was read, or to the server's end; and the
\* server stops for no other reason than a q it has read, although mesg may hold
\* an address or another client's text by the time it is looked at.
Implements == Echo!Spec
=============================================================================
