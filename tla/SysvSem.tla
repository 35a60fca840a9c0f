------------------------------ MODULE SysvSem ------------------------------
(***************************************************************************)
(* Process_Signal/sem.c: a private semaphore that the process gives to     *)
(* and takes from with SEM_UNDO, and removes.  A run that is killed leaves *)
(* its semaphore behind, and there are not many.                           *)
(***************************************************************************)
EXTENDS Processes, Integers

CONSTANTS Runs,    \* the processes that run the program, side by side
          Limit,   \* what each counts to: 8
          MaxSem   \* how many semaphores the system has

VARIABLES sem,     \* the semaphores that exist, by the process they are of
          value,   \* their values
          adj,     \* what the end of each process will add to its own
          cnt      \* each process's count

semaphores == <<sem, value, adj, cnt>>
vars       == <<table, semaphores>>

Init ==
    /\ program = "sem"
    /\ sigchld = "default"
    /\ TableInit(Runs, "off")
    /\ sem = {}
    /\ value = [p \in Pid |-> 0]
    /\ adj = [p \in Pid |-> 0]
    /\ cnt = [p \in Pid |-> 0]

\* The end of a process undoes what it has done to a semaphore that exists.
Undo(p) ==
    /\ value' = IF p \in sem THEN [value EXCEPT ![p] = @ + adj[p]] ELSE value
    /\ adj' = [adj EXCEPT ![p] = 0]

Start(p) == pc[p] = "off" /\ Goto(p, "semget") /\ UNCHANGED semaphores

\* semget(IPC_PRIVATE) makes a new one; it fails when there are no more.
Semget(p) ==
    /\ pc[p] = "semget"
    /\ IF Cardinality(sem) < MaxSem
       THEN sem' = sem \cup {p} /\ Goto(p, "setval")
       ELSE sem' = sem /\ Exit(p, "error")
    /\ UNCHANGED <<value, adj, cnt>>

\* semctl(SETVAL) to 1.
Setval(p) ==
    /\ pc[p] = "setval"
    /\ value' = [value EXCEPT ![p] = 1]
    /\ adj' = [adj EXCEPT ![p] = 0]
    /\ Goto(p, "loop")
    /\ UNCHANGED <<sem, cnt>>

\* Fault: one turn too many.
FaultyIncrease(p) ==
    /\ pc[p] = "loop" /\ cnt[p] <= Limit
    /\ cnt' = [cnt EXCEPT ![p] = @ + 1]
    /\ value' = [value EXCEPT ![p] = @ + 1]
    /\ adj' = [adj EXCEPT ![p] = @ - 1]
    /\ UNCHANGED <<table, sem>>

\* cnt++ and v(), as long as cnt is below the limit.
Increase(p) ==
    /\ pc[p] = "loop" /\ cnt[p] < Limit
    /\ cnt' = [cnt EXCEPT ![p] = @ + 1]
    /\ value' = [value EXCEPT ![p] = @ + 1]
    /\ adj' = [adj EXCEPT ![p] = @ - 1]
    /\ UNCHANGED <<table, sem>>

\* cnt-- and p(), which waits for a value above 0; then the loop is left.
Decrease(p) ==
    /\ pc[p] = "loop" /\ cnt[p] >= Limit
    /\ value[p] > 0
    /\ cnt' = [cnt EXCEPT ![p] = @ - 1]
    /\ value' = [value EXCEPT ![p] = @ - 1]
    /\ adj' = [adj EXCEPT ![p] = @ + 1]
    /\ Goto(p, "remove")
    /\ UNCHANGED sem

\* semctl(IPC_RMID), and the end.
Remove(p) ==
    /\ pc[p] = "remove"
    /\ sem' = sem \ {p}
    /\ adj' = [adj EXCEPT ![p] = 0]
    /\ Exit(p, "ok")
    /\ UNCHANGED <<value, cnt>>

Step(p) == Semget(p) \/ Setval(p) \/ Increase(p) \/ Decrease(p) \/ Remove(p)

Killed(p) == pc[p] # "off" /\ Kill(p) /\ Undo(p) /\ UNCHANGED <<sem, cnt>>

Next == \E p \in Pid : Start(p) \/ Step(p) \/ Killed(p)

Spec == Init /\ [][Next]_vars

-----------------------------------------------------------------------------
(* Correctness.                                                            *)

\* Every variable has its type.
TypeOK ==
    /\ TableTypeOK
    /\ pc \in [Pid -> {"off", "semget", "setval", "loop", "remove", Unborn, Gone}]
    /\ sem \subseteq Pid
    /\ value \in [Pid -> 0..Limit + 1]
    /\ adj \in [Pid -> -Limit..0]
    /\ cnt \in [Pid -> 0..Limit]

\* A semaphore that was given its first value has it again once its process
\* has been killed, whatever the process had done to it.
Undone ==
    \A p \in sem : pc[p] = Gone /\ value[p] # 0 => value[p] = 1

\* Only a run that was killed leaves its semaphore behind.
NothingLeft == \A p \in sem : Running(p) \/ p \in killed

\* The process waits for its user to start it.
Waits(p) == pc[p] = "off"
=============================================================================
