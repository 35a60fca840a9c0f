------------------------------ MODULE HttpConn ------------------------------
(***************************************************************************)
(* One HTTP connection as both web servers of the repository handle it:    *)
(* the browser, the kernel's side of the socket (accept queue, descriptor  *)
(* table, bytes not yet read, reset on close) and the steps of the handler *)
(* thread clnt_connection() that webserver.c and rpi6.c share line by line.*)
(* WebServer and Rpi6 add the accept loop, the dispatch and the replies.   *)
(*                                                                         *)
(* A request is two segments: 1 is the request line, 2 is everything up to *)
(* the blank line.  A handler thread has the name of the browser whose     *)
(* accept() created it, which need not be the one it ends up talking to:   *)
(* the thread reads the descriptor from the stack cell csock of the accept *)
(* loop.                                                                   *)
(***************************************************************************)
EXTENDS Integers, Sequences, FiniteSets

CONSTANTS Client,      \* the browsers, one connection each
          Kind,        \* the kinds of request they make
          Unreliable,  \* browsers that may stall, or leave early
          Backlog,     \* length of the accept queue, listen(ssock, 10)
          Fd,          \* descriptor numbers
          System,      \* what the program itself keeps open in the table
          Free         \* an unused slot of the table

ASSUME FdAssumption     == Fd \subseteq Nat
ASSUME FreeAssumption   == Free \notin Client \cup System
ASSUME SystemAssumption == Client \cap System = {}

NoFd == -1

VARIABLES kind,     \* what each browser asks for
          cst,      \* each browser's connection: idle, queued or accepted
          backlog,  \* connections waiting for accept()
          sent,     \* segments each browser has sent
          taken,    \* segments of it that some read() has taken
          left,     \* browsers that have closed their end
          out,      \* replies that reached each browser
          reset,    \* browsers whose connection was reset
          fds,      \* the descriptor table
          csock,    \* the int csock on the stack of the accept loop
          cur,      \* the browser accepted last
          hpc,      \* where each handler thread is
          rfd,      \* the descriptor under clnt_read
          wfd,      \* the descriptor under clnt_write
          full,     \* the thread's stdio buffer holds the blank line
          method,   \* the first word of the line the thread read
          proc      \* the process is up or dead

client == <<cst, sent, left>>
thread == <<hpc, rfd, wfd, full, method>>
conn   == <<kind, client, backlog, taken, out, reset, fds, csock, cur, thread, proc>>

Method == {"get", "post", "other"}

MethodOf(k) == IF k \in {"post", "other"} THEN k ELSE "get"

\* What a browser gets, piece by piece: a status line, the page of rpi6.c with
\* its status line, a block of a file, and bytes that are of no file.
Piece == {"200", "400", "page", "all", "first", "last", "junk"}

Place == {"none", "load", "open_r", "open_w", "line", "dispatch", "headers",
          "data", "close_r", "close_w", "done"}

Open(x) == \E f \in Fd : fds[f] = x

\* accept(), dup() and open() return the lowest number that is free.
Lowest(f) == fds[f] = Free /\ \A g \in Fd : g < f => fds[g] # Free

ConnInit ==
    /\ kind \in [Client -> Kind]
    /\ cst = [c \in Client |-> "idle"]
    /\ backlog = <<>>
    /\ sent = [c \in Client |-> 0]
    /\ taken = [c \in Client |-> 0]
    /\ left = {}
    /\ out = [c \in Client |-> <<>>]
    /\ reset = {}
    /\ csock = NoFd
    /\ cur \in Client
    /\ hpc = [c \in Client |-> "none"]
    /\ rfd = [c \in Client |-> NoFd]
    /\ wfd = [c \in Client |-> NoFd]
    /\ full = [c \in Client |-> FALSE]
    /\ method = [c \in Client |-> "other"]
    /\ proc = "up"

-----------------------------------------------------------------------------
(* The browser.                                                            *)

Connect(c) ==
    /\ proc = "up"
    /\ cst[c] = "idle"
    /\ Len(backlog) < Backlog
    /\ cst' = [cst EXCEPT ![c] = "queued"]
    /\ backlog' = Append(backlog, c)
    /\ UNCHANGED <<kind, sent, left, taken, out, reset, fds, csock, cur, thread, proc>>

\* A reset may overtake what the browser has not read yet.
Reset(x) ==
    /\ reset' = reset \cup {x}
    /\ \E kept \in {out[x], <<>>} : out' = [out EXCEPT ![x] = kept]

\* A segment that reaches a socket the server has closed is answered by a reset.
Send(c) ==
    /\ cst[c] # "idle"
    /\ sent[c] < 2
    /\ c \notin left
    /\ sent' = [sent EXCEPT ![c] = @ + 1]
    /\ IF cst[c] = "accepted" /\ ~Open(c) THEN Reset(c) ELSE UNCHANGED <<out, reset>>
    /\ UNCHANGED <<kind, cst, left, backlog, taken, fds, csock, cur, thread, proc>>

Leave(c) ==
    /\ c \in Unreliable \ left
    /\ cst[c] # "idle"
    /\ left' = left \cup {c}
    /\ UNCHANGED <<kind, cst, sent, backlog, taken, out, reset, fds, csock, cur, thread, proc>>

Browser(c) == Connect(c) \/ Send(c) \/ Leave(c)

-----------------------------------------------------------------------------
(* The accept loop: csock = accept(...), pthread_create(..., &csock).      *)

Accept ==
    /\ proc = "up"
    /\ backlog # <<>>
    /\ \E f \in Fd :
         /\ Lowest(f)
         /\ fds' = [fds EXCEPT ![f] = Head(backlog)]
         /\ csock' = f
    /\ cur' = Head(backlog)
    /\ cst' = [cst EXCEPT ![Head(backlog)] = "accepted"]
    /\ backlog' = Tail(backlog)
    /\ UNCHANGED <<kind, sent, left, taken, out, reset, thread, proc>>

Create ==
    /\ proc = "up"
    /\ hpc' = [hpc EXCEPT ![cur] = "load"]
    /\ UNCHANGED <<kind, client, backlog, taken, out, reset, fds, csock, cur, rfd, wfd, full, method, proc>>

-----------------------------------------------------------------------------
(* The handler thread h.  At(h, pc) is the common guard, Goto the common   *)
(* effect of its steps.                                                    *)

At(h, pc)   == proc = "up" /\ hpc[h] = pc
Goto(h, pc) == hpc' = [hpc EXCEPT ![h] = pc]

\* The process is killed: the kernel closes its descriptors and the queue.
Die ==
    /\ proc' = "dead"
    /\ fds' = [f \in Fd |-> Free]
    /\ reset' = reset \cup {c \in Client : cst[c] = "queued" \/ (Open(c) /\ taken[c] < sent[c])}
    /\ UNCHANGED <<kind, client, backlog, taken, out, csock, cur, thread>>

\* Fault: int csock = (int)arg, the number an address gives.
FaultyLoad(h) ==
    /\ At(h, "load")
    /\ rfd' = [rfd EXCEPT ![h] = NoFd - 1]
    /\ Goto(h, "open_r")
    /\ UNCHANGED <<kind, client, backlog, taken, out, reset, fds, csock, cur, wfd, full, method, proc>>

\* int csock = *((int*)arg)
Load(h) ==
    /\ At(h, "load")
    /\ rfd' = [rfd EXCEPT ![h] = csock]
    /\ Goto(h, "open_r")
    /\ UNCHANGED <<kind, client, backlog, taken, out, reset, fds, csock, cur, wfd, full, method, proc>>

\* fdopen(csock, "r"): NULL for a descriptor that is not open, and fgets
\* then dereferences it.
OpenRead(h) ==
    /\ At(h, "open_r")
    /\ IF fds[rfd[h]] = Free
       THEN Die
       ELSE /\ Goto(h, "open_w")
            /\ UNCHANGED <<kind, client, backlog, taken, out, reset, fds, csock, cur, rfd, wfd, full, method, proc>>

\* fdopen(dup(csock), "w")
OpenWrite(h) ==
    /\ At(h, "open_w")
    /\ IF fds[rfd[h]] = Free
       THEN Die
       ELSE /\ \E f \in Fd :
                 /\ Lowest(f)
                 /\ fds' = [fds EXCEPT ![f] = fds[rfd[h]]]
                 /\ wfd' = [wfd EXCEPT ![h] = f]
            /\ Goto(h, "line")
            /\ UNCHANGED <<kind, client, backlog, taken, out, reset, csock, cur, rfd, full, method, proc>>

\* fgets and strtok(reg_line, "/ ").  The first read() takes every byte that
\* has arrived; at the end of the stream, or on a descriptor another thread
\* has closed, reg_line keeps the bytes the stack had.
ReadLine(h) ==
    LET x == fds[rfd[h]] IN
    /\ At(h, "line")
    /\ IF x \in Client /\ taken[x] < sent[x]
       THEN /\ method' = [method EXCEPT ![h] = IF taken[x] = 0 THEN MethodOf(kind[x]) ELSE "other"]
            /\ full' = [full EXCEPT ![h] = (sent[x] = 2)]
            /\ taken' = [taken EXCEPT ![x] = sent[x]]
       ELSE /\ x \in Client => x \in left
            /\ \E m \in Method : method' = [method EXCEPT ![h] = m]
            /\ UNCHANGED <<full, taken>>
    /\ Goto(h, "dispatch")
    /\ UNCHANGED <<kind, client, backlog, out, reset, fds, csock, cur, rfd, wfd, proc>>

\* Fault: the headers are read from the socket, past what stdio has buffered.
FaultyReadHeaders(h) ==
    LET x == fds[rfd[h]] IN
    /\ At(h, "headers")
    /\ x \in Client /\ taken[x] < sent[x] /\ sent[x] = 2
    /\ full' = [full EXCEPT ![h] = TRUE]
    /\ taken' = [taken EXCEPT ![x] = 2]
    /\ Goto(h, "data")
    /\ UNCHANGED <<kind, client, backlog, out, reset, fds, csock, cur, rfd, wfd, method, proc>>

\* The loop over the header lines, left when the blank line is read.
ReadHeaders(h) ==
    LET x == fds[rfd[h]] IN
    /\ At(h, "headers")
    /\ \/ full[h] /\ UNCHANGED <<full, taken>>
       \/ /\ ~full[h] /\ x \in Client
          /\ taken[x] < sent[x] /\ sent[x] = 2
          /\ full' = [full EXCEPT ![h] = TRUE]
          /\ taken' = [taken EXCEPT ![x] = 2]
    /\ Goto(h, "data")
    /\ UNCHANGED <<kind, client, backlog, out, reset, fds, csock, cur, rfd, wfd, method, proc>>

\* The same loop at the end of the stream: fgets fails, its result is not
\* looked at, reg_line is not the blank line and never will be.
Spin(h) ==
    LET x == fds[rfd[h]] IN
    /\ At(h, "headers")
    /\ ~full[h]
    /\ x \in Client => x \in left /\ taken[x] = sent[x]
    /\ UNCHANGED conn

\* What fflush() or fclose() writes on clnt_write reaches the peer of wfd,
\* unless that peer has gone.
Deliver(h, reply) ==
    LET x == fds[wfd[h]] IN
    out' = IF x \in Client \ left THEN [out EXCEPT ![x] = Append(@, reply)] ELSE out

\* close(f).  When the last descriptor of a connection goes while bytes of
\* the request are still unread, the kernel resets the connection.
Close(f, text) ==
    LET x == fds[f] IN
    /\ fds' = [fds EXCEPT ![f] = Free]
    /\ IF /\ x \in Client /\ taken[x] < sent[x]
          /\ \A g \in Fd \ {f} : fds[g] # x
       THEN /\ reset' = reset \cup {x}
            /\ \E kept \in {text[x], <<>>} : out' = [text EXCEPT ![x] = kept]
       ELSE out' = text /\ UNCHANGED reset

\* fclose(clnt_read)
CloseRead(h) ==
    /\ At(h, "close_r")
    /\ Close(rfd[h], out)
    /\ Goto(h, "close_w")
    /\ UNCHANGED <<kind, client, backlog, taken, csock, cur, rfd, wfd, full, method, proc>>

\* sendOk(clnt_write) for POST and sendError(clnt_write) for the rest, both
\* of which end in fflush(); where GET and the rest go then is a parameter.
DispatchWith(h, get, rest) ==
    /\ At(h, "dispatch")
    /\ IF method[h] = "get"
       THEN Goto(h, get) /\ UNCHANGED out
       ELSE Goto(h, rest) /\ Deliver(h, IF method[h] = "post" THEN "200" ELSE "400")
    /\ UNCHANGED <<kind, client, backlog, taken, reset, fds, csock, cur, rfd, wfd, full, method, proc>>

\* Faults: return instead of goto END; the reply to GET without a look at the
\* headers; no goto END after sendOk() and sendError(), so that the page is
\* put behind their reply, as it is for GET.
ReturnEarly(h) == DispatchWith(h, "headers", "done")
SkipHeaders(h) == DispatchWith(h, "data", "close_r")
FallThrough(h) ==
    /\ At(h, "dispatch")
    /\ Goto(h, "headers")
    /\ method' = [method EXCEPT ![h] = "get"]
    /\ IF method[h] = "get" THEN UNCHANGED out
       ELSE Deliver(h, IF method[h] = "post" THEN "200" ELSE "400")
    /\ UNCHANGED <<kind, client, backlog, taken, reset, fds, csock, cur, rfd, wfd, full, proc>>

\* GET goes on with the headers, the rest to END.
Dispatch(h) == DispatchWith(h, "headers", "close_r")

-----------------------------------------------------------------------------
(* The types of the variables.                                             *)

PeerTypeOK ==
    /\ kind \in [Client -> Kind]
    /\ cst \in [Client -> {"idle", "queued", "accepted"}]
    /\ backlog \in Seq(Client)
    /\ sent \in [Client -> 0..2]
    /\ taken \in [Client -> 0..2]
    /\ left \subseteq Client
    /\ out \in [Client -> Seq(Piece)]
    /\ reset \subseteq Client

ThreadTypeOK ==
    /\ fds \in [Fd -> Client \cup System \cup {Free}]
    /\ csock \in Fd \cup {NoFd}
    /\ cur \in Client
    /\ hpc \in [Client -> Place]
    /\ rfd \in [Client -> Fd \cup {NoFd}]
    /\ wfd \in [Client -> Fd \cup {NoFd}]
    /\ full \in [Client -> BOOLEAN]
    /\ method \in [Client -> Method]
    /\ proc \in {"up", "dead"}

ConnTypeOK == PeerTypeOK /\ ThreadTypeOK

-----------------------------------------------------------------------------
(* Who talks to whom.                                                      *)

Reading == {"open_w", "line", "dispatch", "headers", "data", "close_r"}
Writing == {"line", "dispatch", "headers", "data", "close_r", "close_w"}

\* A handler thread reads from and writes to the connection it was created
\* for, although it finds the descriptor in a variable the accept loop uses
\* again: csock is not overwritten before Load has read it, and no thread
\* closes a number twice.
OwnConnection ==
    proc = "up" =>
      \A h \in Client : /\ hpc[h] \in Reading => fds[rfd[h]] = h
                        /\ hpc[h] \in Writing => fds[wfd[h]] = h
=============================================================================
