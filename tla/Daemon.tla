------------------------------- MODULE Daemon -------------------------------
(***************************************************************************)
(* NetworkProgramming/daemon.c: a process leaves its parent, its session   *)
(* and its files behind, one call after the other; meanwhile the terminal  *)
(* may hang up.  Only getrlimit() says how many descriptors there are to   *)
(* close.                                                                  *)
(***************************************************************************)
EXTENDS Processes, Integers, Sequences

CONSTANTS Fd,        \* the descriptors: 0, 1, 2 and more
          Assumed,   \* how many are assumed when there is no limit: 1024
          Limits     \* the hard limits there may be

Infinity == -1   \* RLIM_INFINITY

VARIABLES rlim_max,   \* the hard limit
          fds,        \* what each process has under each descriptor
          ctty,       \* processes the terminal controls
          hup,        \* processes that ignore SIGHUP
          opened      \* fd0, fd1, fd2

daemon == <<rlim_max, fds, ctty, hup, opened>>
vars   == <<table, daemon>>

Closed == "closed"
None   == [f \in Fd |-> Closed]

\* The shell starts it with any of its own descriptors open.
Init ==
    /\ program = "daemon"
    /\ sigchld = "default"
    /\ TableInit({First}, "fork")
    /\ rlim_max \in Limits
    /\ \E inherited \in [Fd -> {Closed, "file"}] :
         fds = [p \in Pid |-> IF p = First THEN inherited ELSE None]
    /\ ctty = {First}
    /\ hup = {}
    /\ opened = <<>>

\* fork(): the parent ends.  After a failure the process goes on all the same.
Fork(p) ==
    /\ pc[p] = "fork"
    /\ \/ \E q \in Pid :
            /\ ForkAs(p, q, "return", "setsid")
            /\ fds' = [fds EXCEPT ![q] = fds[p]]
            /\ ctty' = IF p \in ctty THEN ctty \cup {q} ELSE ctty
       \/ Fails(p, "fork", "setsid") /\ UNCHANGED <<fds, ctty>>
    /\ UNCHANGED <<rlim_max, hup, opened>>

Return(p) ==
    /\ pc[p] = "return"
    /\ Exit(p, "ok")
    /\ fds' = [fds EXCEPT ![p] = None]
    /\ UNCHANGED <<rlim_max, ctty, hup, opened>>

\* setsid() fails for the leader of a process group, as the shell makes First.
Setsid(p) ==
    /\ pc[p] = "setsid"
    /\ ctty' = IF p = First THEN ctty ELSE ctty \ {p}
    /\ Goto(p, "sigaction")
    /\ UNCHANGED <<rlim_max, fds, hup, opened>>

Sigaction(p) ==
    /\ pc[p] = "sigaction"
    /\ hup' = hup \cup {p}
    /\ Goto(p, "close")
    /\ UNCHANGED <<rlim_max, fds, ctty, opened>>

\* Fault: the standard descriptors are kept.
FaultyClose(p) ==
    LET n == IF rlim_max = Infinity THEN Assumed ELSE rlim_max IN
    /\ pc[p] = "close"
    /\ fds' = [fds EXCEPT ![p] = [f \in Fd |-> IF f \in 3..n-1 THEN Closed ELSE @[f]]]
    /\ Goto(p, "open")
    /\ UNCHANGED <<rlim_max, ctty, hup, opened>>

\* The loop over all descriptors below the limit.
Close(p) ==
    LET n == IF rlim_max = Infinity THEN Assumed ELSE rlim_max IN
    /\ pc[p] = "close"
    /\ fds' = [fds EXCEPT ![p] = [f \in Fd |-> IF f < n THEN Closed ELSE @[f]]]
    /\ Goto(p, "open")
    /\ UNCHANGED <<rlim_max, ctty, hup, opened>>

\* The lowest free descriptor below the limit, or -1.  (open() and dup() look
\* at the soft limit, which is taken to be the hard one.)
Lowest(p) ==
    LET free == {f \in Fd : fds[p][f] = Closed /\ (rlim_max = Infinity \/ f < rlim_max)} IN
    IF free = {} THEN -1 ELSE CHOOSE f \in free : \A g \in free : f <= g

\* open("/dev/null"), then dup(0) twice.
OpenNull(p) ==
    LET f == Lowest(p) IN
    /\ pc[p] = "open" /\ Len(opened) < 3
    /\ opened' = Append(opened, IF opened # <<>> /\ fds[p][0] = Closed THEN -1 ELSE f)
    /\ fds' = IF f = -1 THEN fds
              ELSE [fds EXCEPT ![p][f] = IF opened = <<>> THEN "null" ELSE fds[p][0]]
    /\ UNCHANGED <<table, rlim_max, ctty, hup>>

\* fd0, fd1 and fd2 are compared with 0, 1 and 2; syslog() opens the next one.
Check(p) ==
    LET f == Lowest(p) IN
    /\ pc[p] = "open" /\ Len(opened) = 3
    /\ IF opened = <<0, 1, 2>>
       THEN /\ fds' = IF f = -1 THEN fds ELSE [fds EXCEPT ![p][f] = "log"]
            /\ Goto(p, "loop")
       ELSE /\ fds' = [fds EXCEPT ![p] = None]
            /\ Exit(p, "error")
    /\ UNCHANGED <<rlim_max, ctty, hup, opened>>

\* The terminal hangs up, and who is controlled by it and does not ignore
\* SIGHUP is gone.
Hangup(p) ==
    /\ p \in ctty \ hup
    /\ Kill(p)
    /\ fds' = [fds EXCEPT ![p] = None]
    /\ UNCHANGED <<rlim_max, ctty, hup, opened>>

Step(p) == Fork(p) \/ Return(p) \/ Setsid(p) \/ Sigaction(p) \/ Close(p) \/ OpenNull(p) \/ Check(p)

Next == \E p \in Pid : Step(p) \/ Hangup(p)

Spec == Init /\ [][Next]_vars

-----------------------------------------------------------------------------
(* Correctness.                                                            *)

\* Every variable has its type.
TypeOK ==
    /\ TableTypeOK
    /\ pc \in [Pid -> {Unborn, Zombie, Gone, "fork", "return", "setsid", "sigaction", "close",
                       "open", "loop"}]
    /\ fds \in [Pid -> [Fd -> {Closed, "file", "null", "log"}]]
    /\ ctty \subseteq Pid /\ hup \subseteq Pid
    /\ Len(opened) <= 3

\* A daemon that has come to its loop has /dev/null as 0, 1 and 2 and is not
\* controlled by a terminal unless fork() has failed; of its parent's files
\* it holds only those beyond what getrlimit() told it of.  Finding other
\* descriptors than 0, 1 and 2 is impossible unless the limit is below 3.
Detached ==
    \A p \in Pid :
      /\ pc[p] = "loop" =>
           /\ \A f \in {0, 1, 2} : fds[p][f] = "null"
           /\ p \in ctty => failed # {}
           /\ \A f \in Fd : fds[p][f] = "file" => f >= IF rlim_max = Infinity THEN Assumed ELSE rlim_max
      /\ exit[p] = "error" => rlim_max \in 0..2

\* A daemon stays in its loop.
Waits(p) == pc[p] = "loop"
=============================================================================
