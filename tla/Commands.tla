------------------------------ MODULE Commands ------------------------------
(***************************************************************************)
(* Programs that run others: IPC/pipe.c and IPC/fork.c, the same text,     *)
(* with a child of their own and /bin/ps three times; and the system() of  *)
(* Process_Signal/system.c and spawn.c, with three commands each.          *)
(***************************************************************************)
EXTENDS Processes, Integers

VARIABLES main,    \* IPC/pipe.c: what the first fork() gave each process
          pid,     \* what the last fork() or posix_spawn() gave it
          st,      \* its variable status: garbage until a wait has set it, and
                   \* in the same place of the stack at every call of system()
          round,   \* how many commands it has run
          shown    \* what it shows, or returns from system(), of a status

locals == <<main, pid, st, round, shown>>
vars   == <<table, locals>>

Failed == 1 + CHOOSE n \in Pid : \A m \in Pid : m <= n   \* stands for -1
Commands == {"ps", "system", "spawn"}

Init ==
    /\ program \in Commands
    /\ sigchld \in {"default", "ignored"}
    /\ TableInit({First}, IF program = "ps" THEN "fork" ELSE "run")
    /\ main = [p \in Pid |-> 0]
    /\ pid = [p \in Pid |-> 0]
    /\ st = [p \in Pid |-> "garbage"]
    /\ round = [p \in Pid |-> 0]
    /\ shown = [p \in Pid |-> "none"]

\* The child q starts with a copy of its parent's variables.
Copy(p, q) ==
    /\ round' = [round EXCEPT ![q] = round[p]]
    /\ main' = [main EXCEPT ![q] = main[p]]
    /\ UNCHANGED <<st, shown>>

-----------------------------------------------------------------------------
(* IPC/pipe.c: main().                                                     *)

\* main() forks a child that sleeps and returns 3.  The result is not tested:
\* after a failure the only process is the parent of nobody.
Fork(p) ==
    /\ program = "ps" /\ pc[p] = "fork"
    /\ \/ \E q \in Pid :
            /\ ForkAs(p, q, "run", "child")
            /\ main' = [main EXCEPT ![p] = q]
       \/ Fails(p, "fork", "run") /\ main' = [main EXCEPT ![p] = Failed]
    /\ UNCHANGED <<pid, st, round, shown>>

ChildReturns(p) == pc[p] = "child" /\ Exit(p, "three") /\ UNCHANGED locals

\* run_ps(): nor is the result tested here.
RunPs(p) ==
    /\ program = "ps" /\ pc[p] = "run"
    /\ \/ \E q \in Pid :
            /\ ForkAs(p, q, "wait", "exec")
            /\ pid' = [pid EXCEPT ![p] = q, ![q] = 0]
            /\ Copy(p, q)
       \/ /\ Fails(p, "run_ps", "wait")
          /\ pid' = [pid EXCEPT ![p] = Failed]
          /\ UNCHANGED <<main, st, round, shown>>

\* execve() may fail, and then the child returns from run_ps() like its
\* parent and goes on with main() as the parent of nobody.
ExecPs(p) ==
    /\ program = "ps" /\ pc[p] = "exec"
    /\ Goto(p, "ps") \/ Goto(p, "wait")
    /\ UNCHANGED locals

\* Fault: run_ps() waits for any child, so it may take the one main() forked.
FaultyWaitPs(p) ==
    LET after == IF round[p] = 1 THEN "collect" ELSE IF round[p] = 2 THEN "end" ELSE "run" IN
    /\ program = "ps" /\ pc[p] = "wait"
    /\ \/ \E q \in Pid : Reap(p, Failed, q, after)
       \/ NoChild(p, Failed) /\ Goto(p, after)
    /\ round' = [round EXCEPT ![p] = @ + 1]
    /\ UNCHANGED <<main, pid, st, shown>>

\* waitpid(pid, &status, 0) of run_ps(), whose status nobody looks at: pid is
\* the process that runs ps, 0 in a child whose execve() failed, -1 where
\* fork() failed.
WaitPs(p) ==
    LET after == IF round[p] = 1 THEN "collect" ELSE IF round[p] = 2 THEN "end" ELSE "run" IN
    /\ program = "ps" /\ pc[p] = "wait"
    /\ \/ \E q \in Pid : Reap(p, pid[p], q, after)
       \/ NoChild(p, pid[p]) /\ Goto(p, after)
    /\ round' = [round EXCEPT ![p] = @ + 1]
    /\ UNCHANGED <<main, pid, st, shown>>

\* waitpid(pid, &status, 0) of main(), and the line about the child.  In a
\* process that is not its parent status stays as the stack had it.
Collect(p) ==
    /\ pc[p] = "collect"
    /\ \/ \E q \in Pid :
            Reap(p, main[p], q, "run") /\ st' = [st EXCEPT ![p] = exit[q]]
       \/ NoChild(p, main[p]) /\ Goto(p, "run") /\ UNCHANGED st
    /\ shown' = [shown EXCEPT ![p] = st'[p]]
    /\ UNCHANGED <<main, pid, round>>

End(p) == pc[p] = "end" /\ Exit(p, "ok") /\ UNCHANGED locals

-----------------------------------------------------------------------------
(* system.c and spawn.c: system() for each of who, nocommand, cal.         *)

\* fork() or posix_spawn() in system().  Nothing sets status before the wait:
\* it is as the stack has it, perhaps what an earlier call has left there; and
\* so is pid where posix_spawn() fails, in its fork or in its exec.
System(p) ==
    /\ program \in {"system", "spawn"} /\ pc[p] = "run"
    /\ \E s \in {st[p], "garbage"} : st' = [st EXCEPT ![p] = s]
    /\ \/ \E q \in Pid :
            /\ ForkAs(p, q, "wait", IF program = "system" THEN "exec" ELSE "sh")
            /\ pid' = [pid EXCEPT ![p] = q]
            /\ round' = [round EXCEPT ![q] = round[p]]
       \/ /\ Fails(p, "system", IF program = "system" THEN "failed" ELSE "wait")
          /\ IF program = "system" THEN UNCHANGED pid
             ELSE \E x \in {0, pid[p], Failed} : pid' = [pid EXCEPT ![p] = x]
          /\ UNCHANGED round
    /\ UNCHANGED <<main, shown>>

\* execl() may fail: _exit(127).
ExecSh(p) ==
    /\ program = "system" /\ pc[p] = "exec"
    /\ Goto(p, "sh") \/ Exit(p, "notfound")
    /\ UNCHANGED locals

\* The shell, or ps, ends: 127 for a command there is none of.
CommandEnds(p) ==
    /\ pc[p] \in {"sh", "ps"}
    /\ Exit(p, IF pc[p] = "sh" /\ round[p] = 1 THEN "notfound" ELSE "ok")
    /\ UNCHANGED locals

Returns(p, s) ==
    /\ st' = [st EXCEPT ![p] = s]
    /\ shown' = [shown EXCEPT ![p] = s]
    /\ round' = [round EXCEPT ![p] = @ + 1]
    /\ UNCHANGED <<main, pid>>

\* waitpid() in system(), and its return.  system.c makes -1 of an error;
\* spawn.c returns what status held.
WaitSh(p) ==
    LET after == IF round[p] = 2 THEN "end" ELSE "run" IN
    /\ program \in {"system", "spawn"}
    /\ \/ pc[p] = "wait" /\ \E q \in Pid : Reap(p, pid[p], q, after) /\ Returns(p, exit[q])
       \/ /\ pc[p] = "wait" /\ NoChild(p, pid[p])
          /\ Goto(p, after)
          /\ Returns(p, IF program = "system" THEN "error" ELSE st[p])
       \/ pc[p] = "failed" /\ Goto(p, after) /\ Returns(p, "error")

-----------------------------------------------------------------------------

Step(p) ==
    \/ Fork(p) \/ ChildReturns(p) \/ RunPs(p) \/ ExecPs(p) \/ WaitPs(p) \/ Collect(p) \/ End(p)
    \/ System(p) \/ ExecSh(p) \/ CommandEnds(p) \/ WaitSh(p)

Killed(p) == Kill(p) /\ UNCHANGED locals

Next == \E p \in Pid : Step(p) \/ Killed(p)

Spec == Init /\ [][Next]_vars

-----------------------------------------------------------------------------
(* Correctness.                                                            *)

\* Every variable has its type; status is one some process has ended with.
TypeOK ==
    /\ TableTypeOK
    /\ pc \in [Pid -> {Unborn, Zombie, Gone, "fork", "child", "run", "exec", "ps", "sh",
                       "wait", "failed", "collect", "end"}]
    /\ main \in [Pid -> Pid \cup {0, Failed}]
    /\ pid \in [Pid -> Pid \cup {0, Failed}]
    /\ st \in [Pid -> Status \cup {"garbage"}]
    /\ round \in [Pid -> 0..3]
    /\ shown \in [Pid -> Status \cup {"garbage"}]

\* IPC/pipe.c shows the 3 its child has returned, although run_ps() waits for
\* children too and an execve() that fails makes a second parent of its child,
\* unless the child is killed, a fork() fails or SIGCHLD was ignored; and no
\* second parent ever shows a status.  system() returns the status of the
\* command it was called with, also when commands before it have failed, were
\* killed or had no shell.  Only an error can change that, or a SIGCHLD that is
\* ignored: then system.c returns -1, and spawn.c whatever status held, which
\* after a posix_spawn() that failed may be an earlier command's.
OwnStatus ==
    /\ program = "ps" =>
         /\ shown[First] # "none" /\ killed = {} /\ failed = {} /\ sigchld = "default"
              => shown[First] = "three"
         /\ \A p \in Pid \ {First} : shown[p] \in {"none", "garbage"}
    /\ program # "ps" /\ shown[First] # "none" =>
         LET command(n) == \E q \in Pid \ {First} : exit[q] = shown[First] /\ round[q] = n
         IN
         \/ command(round[First] - 1)
         \/ /\ failed # {} \/ sigchld = "ignored"
            /\ shown[First] = IF program = "system" THEN "error" ELSE "garbage"
         \/ program = "spawn" /\ failed # {} /\ \E n \in 0..round[First] - 2 : command(n)
=============================================================================
