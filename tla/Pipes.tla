------------------------------- MODULE Pipes -------------------------------
(***************************************************************************)
(* A parent that reads what its child writes: Process_Signal/pipe.c, where *)
(* the child runs date with the pipe as its standard output, and           *)
(* NetworkProgramming/socketpair.c, where it writes into a socket.  A      *)
(* reader is told of the end only when nobody has the other side open, and *)
(* every process that fork() has given a descriptor counts.                *)
(***************************************************************************)
EXTENDS Processes

VARIABLES open,    \* the descriptors of each process
          chan,    \* what has been written and not been read
          line,    \* what the parent's buffer line holds
          shown    \* what the parent has shown

channel == <<open, chan, line, shown>>
vars    == <<table, channel>>

Init ==
    /\ program \in {"pipe", "socketpair"}
    /\ sigchld = "default"
    /\ TableInit({First}, "fork")
    /\ open = [p \in Pid |-> IF p = First THEN {"read", "write"} ELSE {}]
    /\ chan = "nothing"
    /\ line = "garbage"
    /\ shown = "nothing"

Close(p, fd) == open' = [open EXCEPT ![p] = @ \ {fd}]

\* pfd[1], sock_fd[0] and the standard output of date are open for writing.
CanWrite(p) == open[p] \cap {"write", "stdout"} # {}

End(p, s) ==
    /\ Exit(p, s)
    /\ open' = [open EXCEPT ![p] = {}]
    /\ UNCHANGED <<chan, line, shown>>

\* fork() gives the child a copy of all descriptors.  After a failure both
\* programs report it and end.
Fork(p) ==
    /\ pc[p] = "fork"
    /\ \/ \E q \in Pid :
            /\ ForkAs(p, q, "parent", "child")
            /\ open' = [open EXCEPT ![q] = open[p]]
       \/ Fails(p, "fork", "end") /\ UNCHANGED open
    /\ UNCHANGED <<chan, line, shown>>

\* A write into a pipe or a socket whose other side nobody has open any more
\* ends the writer with SIGPIPE.
Write(p, data, place) ==
    IF \E q \in Pid : "read" \in open[q]
    THEN /\ chan' = data
         /\ Goto(p, place)
         /\ UNCHANGED <<open, line, shown>>
    ELSE End(p, "signal")

-----------------------------------------------------------------------------
(* pipe.c                                                                  *)

\* close(pfd[0]) and dup2(pfd[1], 1) in the child.
Dup2(p) ==
    /\ program = "pipe" /\ pc[p] = "child"
    /\ open' = [open EXCEPT ![p] = {"write", "stdout"}]
    /\ Goto(p, "exec")
    /\ UNCHANGED <<chan, line, shown>>

\* execl() keeps the descriptors; after a failure close() and _exit(127).
ExecDate(p) ==
    /\ pc[p] = "exec"
    /\ \/ Goto(p, "date") /\ UNCHANGED channel
       \/ End(p, "notfound")

WriteDate(p) == pc[p] = "date" /\ Write(p, "data", "end")

\* Fault: the parent keeps its own writing end.
FaultyCloseWrite(p) ==
    /\ program = "pipe" /\ pc[p] = "parent"
    /\ Goto(p, "read")
    /\ UNCHANGED channel

\* close(pfd[1]) in the parent.
CloseWrite(p) ==
    /\ program = "pipe" /\ pc[p] = "parent"
    /\ Close(p, "write")
    /\ Goto(p, "read")
    /\ UNCHANGED <<chan, line, shown>>

-----------------------------------------------------------------------------
(* socketpair.c                                                            *)

WriteHello(p) == program = "socketpair" /\ pc[p] = "child" /\ Write(p, "data", "end")

\* wait() before read(): the data waits in the socket.
WaitFirst(p) ==
    /\ program = "socketpair" /\ pc[p] = "parent"
    /\ \E q \in Pid : Reap(p, 0, q, "read")
    /\ UNCHANGED channel

-----------------------------------------------------------------------------

\* read() of what is there, or of nothing when no process can write; line,
\* which nobody has initialised, is shown in either case.
Read(p) ==
    /\ pc[p] = "read"
    /\ \/ chan # "nothing" /\ line' = chan
       \/ chan = "nothing" /\ (\A q \in Pid : ~CanWrite(q)) /\ UNCHANGED line
    /\ chan' = "nothing"
    /\ shown' = line'
    /\ Close(p, "read")
    /\ Goto(p, IF program = "pipe" THEN "wait" ELSE "end")

\* waitpid(pid, &status, 0) at the end of pipe.c.
WaitLast(p) ==
    /\ pc[p] = "wait"
    /\ \E q \in Pid : Reap(p, 0, q, "end")
    /\ UNCHANGED channel

Return(p) == pc[p] = "end" /\ End(p, "ok")

Step(p) ==
    \/ Fork(p) \/ Dup2(p) \/ ExecDate(p) \/ WriteDate(p) \/ CloseWrite(p) \/ WriteHello(p)
    \/ WaitFirst(p) \/ Read(p) \/ WaitLast(p) \/ Return(p)

Killed(p) == Kill(p) /\ open' = [open EXCEPT ![p] = {}] /\ UNCHANGED <<chan, line, shown>>

Next == \E p \in Pid : Step(p) \/ Killed(p)

Spec == Init /\ [][Next]_vars

-----------------------------------------------------------------------------
(* Correctness.                                                            *)

\* Every variable has its type.
TypeOK ==
    /\ TableTypeOK
    /\ pc \in [Pid -> {Unborn, Zombie, Gone, "fork", "child", "exec", "date", "parent",
                       "read", "wait", "end"}]
    /\ open \in [Pid -> SUBSET {"read", "write", "stdout"}]
    /\ chan \in {"nothing", "data"}
    /\ line \in {"garbage", "data"}
    /\ shown \in {"nothing", "garbage", "data"}

\* A parent shows what its child has written, whether it reads it before or
\* after the child has ended; bytes nobody has written are shown only if date
\* could not be run, or the child was killed before it had written.
Delivered ==
    shown = "garbage" => killed # {} \/ \E q \in Pid : exit[q] = "notfound"

\* The parent of socketpair.c holds the writing side of its own socket, so it
\* waits for ever for a child that was killed before it had written.
Waits(p) ==
    program = "socketpair" /\ pc[p] = "read" /\ chan = "nothing" /\ killed \ {First} # {}
=============================================================================
