------------------------------ MODULE MsgQueue ------------------------------
(***************************************************************************)
(* Process_Signal/msg_server.c and msg_client.c, which share a System V    *)
(* message queue by its key, and posix_msg_server.c and                    *)
(* posix_msg_client.c, which share a POSIX one by its name.  A client      *)
(* sends a text to be shown and then an end that stops the server.  Each   *)
(* server and client is one run of the program.                            *)
(***************************************************************************)
EXTENDS Integers, SequencesExt

CONSTANTS Server, Client,
          MaxBytes,  \* what a System V queue holds: 16384 bytes
          MaxMsg     \* attr.mq_maxmsg, what a POSIX queue holds: 10

ASSUME BoundsAssumption ==
    IsFiniteSet(Server) /\ MaxBytes \in Nat /\ MaxMsg \in Nat \ {0}

VARIABLES api,         \* which of the two pairs of programs is run
          name,        \* the queue that has the key or name, 0 for none
          used,        \* queues created so far
          queue,       \* their messages, each of a client and of a kind
          spc, sid,    \* where each server is, and the queue it reads
          buf,         \* the message it has received last
          cpc, cid,    \* where each client is, and the queue it sends to
          sent,        \* clients whose text the kernel has taken
          shown,       \* clients whose text a server has shown
          ended,       \* clients whose end a server has acted on
          killed       \* servers and clients that were killed

kernel  == <<name, used, queue>>
servers == <<spc, sid, buf>>
clients == <<cpc, cid, sent>>
vars    == <<api, kernel, servers, clients, shown, ended, killed>>

Kind    == {"text", "end"}
Message == Client \X Kind
None    == <<>>
QueueId == 1..Cardinality(Server)

Init ==
    /\ api \in {"sysv", "posix"}
    /\ name = 0 /\ used = 0 /\ queue = [q \in QueueId |-> <<>>]
    /\ spc = [s \in Server |-> "idle"] /\ sid = [s \in Server |-> 0] /\ buf = [s \in Server |-> None]
    /\ cpc = [c \in Client |-> "idle"] /\ cid = [c \in Client |-> 0] /\ sent = {}
    /\ shown = {} /\ ended = {} /\ killed = {}

\* A System V queue is gone for everybody once it is removed; a POSIX one only
\* loses its name.
Exists(q) == IF api = "sysv" THEN q = name ELSE q # 0

\* strlen("hello world\n") + 1, and sizeof(mb->mtext).
Size(kind) == IF kind = "text" THEN 13 ELSE 8192

Count(messages, kind) == Cardinality({i \in DOMAIN messages : messages[i][2] = kind})

Bytes(q) == Count(queue[q], "text") * Size("text") + Count(queue[q], "end") * Size("end")

\* Fault: the message itself is not counted.
FaultyRoom(q, kind) == IF api = "sysv" THEN Bytes(q) <= MaxBytes ELSE Len(queue[q]) <= MaxMsg

Room(q, kind) ==
    IF api = "sysv" THEN Bytes(q) + Size(kind) <= MaxBytes ELSE Len(queue[q]) < MaxMsg

-----------------------------------------------------------------------------
(* The servers                                                             *)

Create(s) ==
    /\ spc[s] = "idle" /\ name = 0
    /\ used' = used + 1 /\ name' = used + 1
    /\ sid' = [sid EXCEPT ![s] = used + 1]
    /\ spc' = [spc EXCEPT ![s] = "recv"]
    /\ UNCHANGED <<api, queue, buf, clients, shown, ended, killed>>

\* msgget() with IPC_EXCL fails if there is a queue.
SysvOpen(s) ==
    /\ api = "sysv"
    /\ \/ Create(s)
       \/ /\ spc[s] = "idle" /\ name # 0
          /\ spc' = [spc EXCEPT ![s] = "done"]
          /\ UNCHANGED <<api, kernel, sid, buf, clients, shown, ended, killed>>

\* mq_open() opens the queue that is there.
PosixOpen(s) ==
    /\ api = "posix"
    /\ \/ Create(s)
       \/ /\ spc[s] = "idle" /\ name # 0
          /\ sid' = [sid EXCEPT ![s] = name]
          /\ spc' = [spc EXCEPT ![s] = "recv"]
          /\ UNCHANGED <<api, kernel, buf, clients, shown, ended, killed>>

ReceiveAt(s, i) ==
    LET q == sid[s] IN
    /\ spc[s] = "recv"
    /\ Exists(q) /\ queue[q] # <<>>
    /\ buf' = [buf EXCEPT ![s] = queue[q][i]]
    /\ queue' = [queue EXCEPT ![q] = RemoveAt(@, i)]
    /\ spc' = [spc EXCEPT ![s] = "handle"]
    /\ UNCHANGED <<api, name, used, sid, clients, shown, ended, killed>>

\* Fault: msgrcv(msqid, &mb, sizeof(mb), 2, 0) while there is an end.
FaultyReceive(s) ==
    /\ spc[s] = "recv"
    /\ \E i \in DOMAIN queue[sid[s]] :
         /\ queue[sid[s]][i][2] = "end" \/ i = 1
         /\ ReceiveAt(s, i)

\* msgrcv() of any type, mq_receive() of messages of one priority.
Receive(s) == ReceiveAt(s, 1)

\* msgrcv() fails when the queue is gone, and the loop of msg_server.c ends.
ReceiveNothing(s) ==
    /\ spc[s] = "recv" /\ ~Exists(sid[s])
    /\ spc' = [spc EXCEPT ![s] = "done"]
    /\ UNCHANGED <<api, kernel, sid, buf, clients, shown, ended, killed>>

\* Fault: the text falls through to the case of the end.
FaultyShow(s) ==
    /\ spc[s] = "handle" /\ buf[s][2] = "text"
    /\ shown' = shown \cup {buf[s][1]}
    /\ spc' = [spc EXCEPT ![s] = "recv"]
    /\ queue' = [queue EXCEPT ![sid[s]] = IF api = "sysv" THEN <<>> ELSE @]
    /\ name' = IF api = "sysv" THEN 0 ELSE name
    /\ UNCHANGED <<api, used, sid, buf, clients, ended, killed>>

\* case 1 of msg_server.c, and the default of posix_msg_server.c.
Show(s) ==
    /\ spc[s] = "handle" /\ buf[s][2] = "text"
    /\ shown' = shown \cup {buf[s][1]}
    /\ spc' = [spc EXCEPT ![s] = "recv"]
    /\ UNCHANGED <<api, kernel, sid, buf, clients, ended, killed>>

Ended(s) ==
    /\ spc[s] = "handle" /\ buf[s][2] = "end"
    /\ ended' = ended \cup {buf[s][1]}
    /\ UNCHANGED <<api, used, sid, buf, clients, shown, killed>>

\* case 2 of msg_server.c: the queue is removed with all that is in it.
\* msgctl() cannot fail: IPC_EXCL has kept every other server away.
Rmid(s) ==
    /\ api = "sysv" /\ Ended(s)
    /\ name' = 0 /\ queue' = [queue EXCEPT ![sid[s]] = <<>>]
    /\ spc' = [spc EXCEPT ![s] = "recv"]

\* Fault: the POSIX server breaks from the switch only.
FaultyQuit(s) ==
    /\ api = "posix" /\ Ended(s)
    /\ spc' = [spc EXCEPT ![s] = "recv"]
    /\ UNCHANGED <<name, queue>>

\* case 'q' of posix_msg_server.c: goto END.
Quit(s) ==
    /\ api = "posix" /\ Ended(s)
    /\ spc' = [spc EXCEPT ![s] = "unlink"]
    /\ UNCHANGED <<name, queue>>

\* Fault: mq_close() alone.
FaultyUnlink(s) ==
    /\ spc[s] = "unlink"
    /\ spc' = [spc EXCEPT ![s] = "done"]
    /\ UNCHANGED <<api, kernel, sid, buf, clients, shown, ended, killed>>

\* mq_close() and mq_unlink(), of whichever queue has the name by now.
Unlink(s) ==
    /\ spc[s] = "unlink"
    /\ name' = 0
    /\ spc' = [spc EXCEPT ![s] = "done"]
    /\ UNCHANGED <<api, used, queue, sid, buf, clients, shown, ended, killed>>

KillServer(s) ==
    /\ spc[s] \notin {"idle", "done"}
    /\ spc' = [spc EXCEPT ![s] = "done"]
    /\ killed' = killed \cup {s}
    /\ UNCHANGED <<api, kernel, sid, buf, clients, shown, ended>>

Serve(s) == Receive(s) \/ ReceiveNothing(s) \/ Show(s) \/ Rmid(s) \/ Quit(s) \/ Unlink(s)

-----------------------------------------------------------------------------
(* The clients                                                             *)

\* msg_client.c gives up when there is no queue.
SysvAttach(c) ==
    /\ api = "sysv" /\ cpc[c] = "idle"
    /\ cid' = [cid EXCEPT ![c] = name]
    /\ cpc' = [cpc EXCEPT ![c] = IF name = 0 THEN "done" ELSE "text"]
    /\ UNCHANGED <<api, kernel, servers, sent, shown, ended, killed>>

\* posix_msg_client.c goes on with a descriptor of -1, which is 0 here.
PosixAttach(c) ==
    /\ api = "posix" /\ cpc[c] = "idle"
    /\ cid' = [cid EXCEPT ![c] = name]
    /\ cpc' = [cpc EXCEPT ![c] = "text"]
    /\ UNCHANGED <<api, kernel, servers, sent, shown, ended, killed>>

\* Where a client goes from the place it is at.
After == [text |-> "end", end |-> "done"]

\* cpc[c] is the kind of message that is next.
Put(c) ==
    LET q == cid[c] IN
    /\ cpc[c] \in Kind
    /\ Exists(q) /\ Room(q, cpc[c])
    /\ queue' = [queue EXCEPT ![q] = Append(@, <<c, cpc[c]>>)]
    /\ sent' = sent \cup {c}
    /\ cpc' = [cpc EXCEPT ![c] = After[@]]
    /\ UNCHANGED <<api, name, used, servers, cid, shown, ended, killed>>

FailTo(c, place) ==
    /\ cpc[c] \in Kind /\ ~Exists(cid[c])
    /\ cpc' = [cpc EXCEPT ![c] = place]
    /\ UNCHANGED <<api, kernel, servers, cid, sent, shown, ended, killed>>

\* Fault: while(msgsnd(...) < 0);
FaultySysvFail(c) == api = "sysv" /\ FailTo(c, cpc[c])

\* msg_client.c returns at an error.
SysvFail(c) == api = "sysv" /\ FailTo(c, "done")

\* posix_msg_client.c does not look.
PosixFail(c) == api = "posix" /\ FailTo(c, After[cpc[c]])

Write(c) == Put(c) \/ SysvFail(c) \/ PosixFail(c)

KillClient(c) ==
    /\ cpc[c] \in Kind
    /\ cpc' = [cpc EXCEPT ![c] = "done"]
    /\ killed' = killed \cup {c}
    /\ UNCHANGED <<api, kernel, servers, cid, sent, shown, ended>>

-----------------------------------------------------------------------------

Next ==
    \/ \E s \in Server : SysvOpen(s) \/ PosixOpen(s) \/ Serve(s) \/ KillServer(s)
    \/ \E c \in Client : SysvAttach(c) \/ PosixAttach(c) \/ Write(c) \/ KillClient(c)

Spec == Init /\ [][Next]_vars

\* The scheduler runs every process; nobody has to start one.
Fairness ==
    /\ \A s \in Server : WF_vars(Serve(s))
    /\ \A c \in Client : WF_vars(Write(c))

FairSpec == Spec /\ Fairness

-----------------------------------------------------------------------------
(* Correctness.                                                            *)

Running(s) == spc[s] \notin {"idle", "done"}

\* A server that will look for another message in queue q.
Reads(s, q) == sid[s] = q /\ spc[s] \in {"recv", "handle"}

\* Every variable has its type, and no queue is over its limit.
TypeOK ==
    /\ api \in {"sysv", "posix"}
    /\ used \in 0..Cardinality(Server) /\ name \in 0..used
    /\ queue \in [QueueId -> Seq(Message)]
    /\ \A q \in QueueId : IF api = "sysv" THEN Bytes(q) <= MaxBytes ELSE Len(queue[q]) <= MaxMsg
    /\ spc \in [Server -> {"idle", "recv", "handle", "unlink", "done"}]
    /\ sid \in [Server -> 0..used] /\ buf \in [Server -> Message \cup {None}]
    /\ cpc \in [Client -> {"idle", "text", "end", "done"}] /\ cid \in [Client -> 0..used]
    /\ sent \subseteq Client /\ shown \subseteq sent /\ ended \subseteq sent
    /\ killed \subseteq Server \cup Client

\* A text that the kernel has taken gets lost only to the end of another
\* client or to the death of a server.
Lost(c) ==
    /\ c \in sent \ shown
    /\ ~\E s \in Server : spc[s] = "handle" /\ buf[s] = <<c, "text">>
    /\ ~\E q \in QueueId : /\ Contains(queue[q], <<c, "text">>)
                           /\ q = name \/ \E s \in Server : Reads(s, q)

LostToOthers ==
    \A c \in Client :
        Lost(c) => killed \cap Server # {} \/ \E d \in Client \ {c} : d \in ended

\* A queue that has the key or name is served, unless a server was killed.
NothingLeft ==
    name # 0 => (\E s \in Server : Running(s)) \/ killed \cap Server # {}

\* What a client sends next: without a queue, nothing.
Turn == [c \in Client |->
    IF cpc[c] = "idle" THEN "text" ELSE IF cid[c] = 0 THEN "done" ELSE cpc[c]]

InQueues == {m \in Message : \E q \in QueueId : \E i \in DOMAIN queue[q] : queue[q][i] = m}
InHands  == {m \in Message : \E s \in Server : spc[s] = "handle" /\ buf[s] = m}
Acted    == (shown \X {"text"}) \cup (ended \X {"end"})

Service == INSTANCE MessageService
           WITH turn <- Turn, waiting <- InQueues, held <- InHands, handled <- Acted

\* Both kinds of queue implement the service: whoever removes, unlinks, takes
\* over or abandons a queue, no message is taken twice or after a later one of
\* its client, none is shown that was not sent, and each loss has its reason.
Implements == Service!Spec

\* An end in the queue of a server stops it, or else another server of the
\* same queue.
EndStops ==
    \A s \in Server, c \in Client :
        Running(s) /\ sid[s] # 0 /\ Contains(queue[sid[s]], <<c, "end">>)
          ~> \E t \in Server : sid[t] = sid[s] /\ spc[t] = "done"

\* A client that is started comes to its end, unless it waits for room in a
\* queue that no server reads any more.
Abandoned(c) ==
    /\ cpc[c] \in Kind /\ Exists(cid[c]) /\ ~Room(cid[c], cpc[c])
    /\ ~\E s \in Server : Reads(s, cid[c])

ClientEnds == \A c \in Client : cpc[c] # "idle" ~> cpc[c] = "done" \/ Abandoned(c)
=============================================================================
