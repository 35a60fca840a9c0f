-------------------------------- MODULE Fifo --------------------------------
(***************************************************************************)
(* Process_Signal/fifo_server.c and fifo_client.c: a server removes the    *)
(* file "fifo", makes a new FIFO of that name and reads from it until      *)
(* nobody can write; clients open it and send what their users type.  All  *)
(* are started by hand, in any order, and nobody removes the name at the   *)
(* end: who opens a FIFO that has no server any more waits.                *)
(***************************************************************************)
EXTENDS Processes, Sequences

CONSTANTS Server, Client,   \* the processes that run the two programs
          MaxLines          \* bound: lines a user types

VARIABLES name,    \* the FIFO with the name: that of its server, 0 for none
          file,    \* the FIFO each process has open, or is opening
          met,     \* processes whose open() the other side has answered
          buf,     \* the lines in each FIFO, each with its client
          typed,   \* lines each client has sent
          late     \* clients that came after their server had read its end

fifo == <<name, file, met, buf, typed, late>>
vars == <<table, fifo>>

Init ==
    /\ program = "fifo"
    /\ sigchld = "default"
    /\ TableInit(Server \cup Client, "off")
    /\ name = 0
    /\ file = [p \in Pid |-> 0]
    /\ met = {}
    /\ buf = [s \in Server |-> <<>>]
    /\ typed = [p \in Pid |-> 0]
    /\ late = {}

Readers(f)  == {p \in Server : file[p] = f}
Writers(f)  == {p \in Client : file[p] = f}

\* A process that ends closes the FIFO.
End(p, s) ==
    /\ Exit(p, s)
    /\ file' = [file EXCEPT ![p] = 0]
    /\ UNCHANGED <<name, met, buf, typed, late>>

Start(p) ==
    /\ pc[p] = "off"
    /\ Goto(p, IF p \in Server THEN "unlink" ELSE "open")
    /\ UNCHANGED fifo

\* unlink() takes the name, whoever is using the FIFO.
Unlink(p) ==
    /\ pc[p] = "unlink"
    /\ name' = 0
    /\ Goto(p, "mkfifo")
    /\ UNCHANGED <<file, met, buf, typed, late>>

\* mkfifo() fails if another server has made one in the meantime.
Mkfifo(p) ==
    /\ pc[p] = "mkfifo"
    /\ IF name # 0
       THEN End(p, "error")
       ELSE /\ name' = p
            /\ Goto(p, "open")
            /\ UNCHANGED <<file, met, buf, typed, late>>

\* open() counts as a reader or a writer at once and then waits for the other
\* side; whoever opens answers those who wait.  What nobody had open any more
\* is gone.
Open(p) ==
    /\ pc[p] = "open"
    /\ IF name = 0
       THEN End(p, "error")
       ELSE LET others == IF p \in Server THEN Writers(name) ELSE Readers(name) IN
            /\ file' = [file EXCEPT ![p] = name]
            /\ met' = (met \cup others) \cup (IF others # {} THEN {p} ELSE {})
            /\ late' = IF \E s \in others : pc[s] = "close" THEN late \cup {p} ELSE late
            /\ buf' = IF Readers(name) \cup Writers(name) = {} THEN [buf EXCEPT ![name] = <<>>] ELSE buf
            /\ Goto(p, "opening")
            /\ UNCHANGED <<name, typed>>

Opened(p) ==
    /\ pc[p] = "opening" /\ p \in met
    /\ Goto(p, IF p \in Server THEN "read" ELSE "type")
    /\ UNCHANGED fifo

-----------------------------------------------------------------------------

\* The user types a line, and write() puts it into the FIFO, or ends the
\* client with SIGPIPE if there is no reader.
Type(c) ==
    /\ pc[c] = "type" /\ typed[c] < MaxLines
    /\ IF Readers(file[c]) = {}
       THEN End(c, "signal")
       ELSE /\ buf' = [buf EXCEPT ![file[c]] = Append(@, c)]
            /\ typed' = [typed EXCEPT ![c] = @ + 1]
            /\ UNCHANGED <<table, name, file, met, late>>

\* The end of the user's input; close().
Finish(c) == pc[c] = "type" /\ End(c, "ok")

\* read() takes what there is, or finds the end when nobody can write.
Read(s) ==
    /\ pc[s] = "read"
    /\ IF buf[file[s]] # <<>>
       THEN buf' = [buf EXCEPT ![file[s]] = <<>>] /\ UNCHANGED table
       ELSE Writers(file[s]) = {} /\ Goto(s, "close") /\ UNCHANGED buf
    /\ UNCHANGED <<name, file, met, typed, late>>

Close(s) == pc[s] = "close" /\ End(s, "ok")

-----------------------------------------------------------------------------

Step(p) ==
    \/ Unlink(p) \/ Mkfifo(p) \/ Open(p) \/ Opened(p) \/ Read(p) \/ Close(p)

User(p) == Start(p) \/ Type(p) \/ Finish(p)

Killed(p) ==
    /\ pc[p] # "off"
    /\ Kill(p)
    /\ file' = [file EXCEPT ![p] = 0]
    /\ UNCHANGED <<name, met, buf, typed, late>>

Next == \E p \in Pid : Step(p) \/ User(p) \/ Killed(p)

Spec == Init /\ [][Next]_vars

-----------------------------------------------------------------------------
(* Correctness.                                                            *)

\* Every variable has its type.
TypeOK ==
    /\ TableTypeOK
    /\ pc \in [Pid -> {"off", "unlink", "mkfifo", "open", "opening", "read", "type", "close", Unborn, Gone}]
    /\ name \in Server \cup {0}
    /\ file \in [Pid -> Server \cup {0}]
    /\ met \subseteq Pid
    /\ buf \in [Server -> Seq(Client)]
    /\ typed \in [Pid -> 0..MaxLines]
    /\ late \subseteq Client

\* Unless a server is killed, a line stays unread only if its client opened
\* the FIFO after a server had read the end and before that server closed: the
\* name that is taken away, or given to another server's FIFO that a second
\* server then reads as well, loses nothing.
Delivered ==
    killed \cap Server = {} =>
      \A f \in Server : Readers(f) = {} => \A n \in DOMAIN buf[f] : buf[f][n] \in late

\* A process waits for its user, in open() for the other side of a FIFO nobody
\* can find, or has found, or for a client whose user has still to type.
Waits(p) ==
    \/ pc[p] \in {"off", "type"}
    \/ pc[p] = "opening" /\ p \notin met
    \/ pc[p] = "read" /\ Writers(file[p]) # {}
=============================================================================
