---------------------------- MODULE SelectServer ----------------------------
(***************************************************************************)
(* NetworkProgramming/select_server.c: one process serves the connections  *)
(* select() finds readable.  Its bookkeeping is the array client_fd, of    *)
(* which the first client_index cells are looked at, and the set readfd,   *)
(* which is both what select() is asked and what it answers.               *)
(***************************************************************************)
EXTENDS EchoConn

VARIABLES client_fd,     \* the array, with a cell for every client
          client_index,
          readfd,
          start_index

vars == <<conn, client_fd, client_index, readfd, start_index>>

Init ==
    /\ ConnInit
    /\ mesg = "other"
    /\ spc = "select"
    /\ client_fd = [i \in 0..Cardinality(Client) |-> 0]
    /\ client_index = 0
    /\ readfd = {}
    /\ start_index = 0

\* FD_SET of the listening socket and the array's descriptors, into a set
\* that still holds what the last round left in it.
Watched == readfd \cup {Ssock} \cup {client_fd[i] : i \in 0..client_index-1}

Readable(f) ==
    IF f = Ssock THEN queue # <<>>
    ELSE fds[f] # Free /\ (Unread(fds[f]) \/ fds[f] \in left)

\* select() fails for a descriptor that is not open and then leaves the set
\* as it is; its result is not looked at.
Select ==
    LET invalid == \E f \in Watched \ {Ssock} : fds[f] = Free
        ready   == {f \in Watched : Readable(f)} IN
    /\ spc = "select"
    /\ invalid \/ ready # {}
    /\ readfd' = IF invalid THEN Watched ELSE ready
    /\ start_index' = 0
    /\ spc' = IF Ssock \in readfd' THEN "accept" ELSE "scan"
    /\ UNCHANGED <<net, mesg, client_fd, client_index>>

Accept ==
    /\ spc = "accept"
    /\ \E f \in Fd :
         /\ AcceptAs(f)
         /\ readfd' = readfd \cup {f}
         /\ client_fd' = [client_fd EXCEPT ![client_index] = f]
    /\ client_index' = client_index + 1
    /\ spc' = "test"
    /\ UNCHANGED start_index

\* One turn of the loop over the array; a connection whose read() gives 0 is
\* left as it is.
Scan ==
    LET f == client_fd[start_index] IN
    /\ spc = "scan" /\ start_index < client_index
    /\ IF f \in readfd /\ Unread(fds[f])
       THEN ReadFrom(f) /\ spc' = "echo" /\ UNCHANGED start_index
       ELSE /\ mesg' = IF f \in readfd THEN "empty" ELSE mesg
            /\ start_index' = start_index + 1
            /\ UNCHANGED <<net, spc>>
    /\ UNCHANGED <<client_fd, client_index, readfd>>

\* Fault: client_index is not counted down.
FaultyEchoBack ==
    LET f == client_fd[start_index] IN
    /\ spc = "echo"
    /\ EchoAndClose(f)
    /\ readfd' = readfd \ {f}
    /\ start_index' = start_index + 1
    /\ spc' = "scan"
    /\ UNCHANGED <<mesg, client_fd, client_index>>

\* write, close, FD_CLR and client_index--; the array keeps the cell.
EchoBack ==
    LET f == client_fd[start_index] IN
    /\ spc = "echo"
    /\ EchoAndClose(f)
    /\ readfd' = readfd \ {f}
    /\ client_index' = client_index - 1
    /\ start_index' = start_index + 1
    /\ spc' = "scan"
    /\ UNCHANGED <<mesg, client_fd>>

ScanEnd ==
    /\ spc = "scan" /\ start_index >= client_index
    /\ spc' = "test"
    /\ UNCHANGED <<net, mesg, client_fd, client_index, readfd, start_index>>

Test == spc = "test" /\ LoopEnd("select") /\ UNCHANGED <<client_fd, client_index, readfd, start_index>>

Server == Select \/ Accept \/ Scan \/ EchoBack \/ ScanEnd \/ Test

Environment(c) ==
    /\ Peer(c)
    /\ UNCHANGED <<client_fd, client_index, readfd, start_index>>

Next == Server \/ \E c \in Client : Environment(c)

Spec == Init /\ [][Next]_vars

\* The server runs, and a client whose user is there sends its text.
Fairness ==
    /\ WF_vars(Server)
    /\ \A c \in Client \ Unreliable :
         WF_vars(Send(c) /\ UNCHANGED <<client_fd, client_index, readfd, start_index>>)

FairSpec == Spec /\ Fairness

-----------------------------------------------------------------------------
(* Correctness.                                                            *)

\* Every variable has its type.
TypeOK ==
    /\ ConnTypeOK
    /\ spc \in {"select", "accept", "scan", "echo", "test", "stopped"}
    /\ client_fd \in [0..Cardinality(Client) -> Fd \cup {0}]
    /\ client_index \in 0..Cardinality(Client)
    /\ readfd \subseteq Fd \cup {Ssock}
    /\ start_index \in 0..Cardinality(Client)

\* client_index is the number of open connections, although the array's first
\* client_index cells need not be theirs.
IndexCounts == Up => client_index = Cardinality({f \in Fd : fds[f] # Free})

\* What a client may count on: it is answered or reset, or the server has
\* stopped, unless at some moment while it waits two connections are open at
\* once: what the array has forgotten, or has not forgotten, is then never the
\* cause of a wait.
Served(c) ==
    \/ got[c] # "none" \/ ~Up
    \/ \E d, e \in Client : d # e /\ Open(d) /\ Open(e)

\* select_server.c:118-120 says that a message from a client that has
\* connected is found by the loop, read and sent back.
ConnectedIsEchoed ==
    \A c \in Client : cst[c] = "accepted" /\ sent[c] = 2 ~> (got[c] # "none" \/ ~Up)
=============================================================================
