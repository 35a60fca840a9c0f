---------------------------- MODULE SharedMemory ----------------------------
(***************************************************************************)
(* Process_Signal/shm.c: a child counts in a shared segment and its parent *)
(* shows the count.  The parent creates the segment if there is none, the  *)
(* child only looks for one, nobody waits for anybody, and each removes    *)
(* the segment when it is done.  A run that was killed leaves it behind.   *)
(***************************************************************************)
EXTENDS Processes

CONSTANT Turns   \* turns of the two loops: 3

VARIABLES key,      \* the segment with the key SHM_KEY, 0 for none
          val,      \* the number in each segment
          shmid,    \* the segment each process has looked up
          shmmem,   \* the segment it has attached
          i         \* its loop's counter

memory == <<key, val, shmid, shmmem, i>>
vars   == <<table, memory>>

Stale == 1   \* the segment an earlier run has left
Fresh == 2   \* the segment this run's parent creates
Seg   == {Stale, Fresh}

Init ==
    /\ program = "shm"
    /\ sigchld = "default"
    /\ TableInit({First}, "fork")
    /\ key \in {0, Stale}
    /\ val \in [Seg -> 0..Turns + 1] /\ val[Fresh] = 0
    /\ key = 0 => val[Stale] = 0
    /\ shmid = [p \in Pid |-> 0]
    /\ shmmem = [p \in Pid |-> 0]
    /\ i = [p \in Pid |-> 0]

\* A segment without its key lives on as long as somebody has it attached.
Exists(s) == s \in Seg /\ (key = s \/ \E p \in Pid : shmmem[p] = s)

\* The end of a process detaches its memory.
End(p, s) ==
    /\ Exit(p, s)
    /\ shmmem' = [shmmem EXCEPT ![p] = 0]

\* After a failed fork() shmctl() is called with a shmid that was never set.
Fork(p) ==
    /\ pc[p] = "fork"
    /\ \/ (\E q \in Pid : ForkAs(p, q, "get", "get")) /\ UNCHANGED memory
       \/ /\ Fails(p, "fork", "remove")
          /\ \E s \in {0, Stale} : shmid' = [shmid EXCEPT ![p] = s]
          /\ UNCHANGED <<key, val, shmmem, i>>

\* Fault: the parent creates a segment whatever there is.
FaultyGet(p) ==
    /\ pc[p] = "get"
    /\ LET s == IF p = First THEN Fresh ELSE key IN
         IF s = 0
         THEN End(p, "error") /\ UNCHANGED <<key, val, shmid, i>>
         ELSE /\ shmid' = [shmid EXCEPT ![p] = s]
              /\ key' = s
              /\ Goto(p, "attach")
              /\ UNCHANGED <<val, shmmem, i>>

\* shmget(): with IPC_CREAT in the parent, without it in the child.
Get(p) ==
    /\ pc[p] = "get"
    /\ LET s == IF key = 0 /\ p = First THEN Fresh ELSE key IN
         IF s = 0
         THEN End(p, "error") /\ UNCHANGED <<key, val, shmid, i>>
         ELSE /\ shmid' = [shmid EXCEPT ![p] = s]
              /\ key' = s
              /\ Goto(p, "attach")
              /\ UNCHANGED <<val, shmmem, i>>

\* shmat() fails if the segment has gone in the meantime.  The child begins
\* with *cVal = 1.
Attach(p) ==
    /\ pc[p] = "attach"
    /\ IF Exists(shmid[p])
       THEN /\ shmmem' = [shmmem EXCEPT ![p] = shmid[p]]
            /\ val' = IF p = First THEN val ELSE [val EXCEPT ![shmid[p]] = 1]
            /\ Goto(p, "loop")
       ELSE End(p, "error") /\ UNCHANGED val
    /\ UNCHANGED <<key, shmid, i>>

\* A turn: the child counts and sleeps, the parent sleeps and shows.
Turn(p) ==
    /\ pc[p] = "loop"
    /\ IF i[p] < Turns
       THEN /\ i' = [i EXCEPT ![p] = @ + 1]
            /\ val' = IF p = First THEN val ELSE [val EXCEPT ![shmmem[p]] = @ + 1]
            /\ UNCHANGED table
       ELSE Goto(p, "remove") /\ UNCHANGED <<val, i>>
    /\ UNCHANGED <<key, shmid, shmmem>>

\* Fault: only the child removes the segment.
FaultyRemove(p) ==
    /\ pc[p] = "remove"
    /\ key' = IF shmid[p] = key /\ p # First THEN 0 ELSE key
    /\ Goto(p, "end")
    /\ UNCHANGED <<val, shmid, shmmem, i>>

\* shmctl(shmid, IPC_RMID, 0): the key is free at once.
Remove(p) ==
    /\ pc[p] = "remove"
    /\ key' = IF shmid[p] = key THEN 0 ELSE key
    /\ Goto(p, "end")
    /\ UNCHANGED <<val, shmid, shmmem, i>>

Return(p) == pc[p] = "end" /\ End(p, "ok") /\ UNCHANGED <<key, val, shmid, i>>

Step(p) == Fork(p) \/ Get(p) \/ Attach(p) \/ Turn(p) \/ Remove(p) \/ Return(p)

Killed(p) ==
    /\ Kill(p)
    /\ shmmem' = [shmmem EXCEPT ![p] = 0]
    /\ UNCHANGED <<key, val, shmid, i>>

Next == \E p \in Pid : Step(p) \/ Killed(p)

Spec == Init /\ [][Next]_vars

-----------------------------------------------------------------------------
(* Correctness.                                                            *)

\* Every variable has its type; nobody has attached a segment that is gone.
TypeOK ==
    /\ TableTypeOK
    /\ pc \in [Pid -> {Unborn, Zombie, Gone, "fork", "get", "attach", "loop", "remove", "end"}]
    /\ key \in Seg \cup {0}
    /\ val \in [Seg -> 0..Turns + 1]
    /\ shmid \in [Pid -> Seg \cup {0}]
    /\ shmmem \in [Pid -> Seg \cup {0}]
    /\ i \in [Pid -> 0..Turns]

\* A parent and a child that are both in their loops are in one segment, be
\* it of this run or of one that was killed, although each of them may remove
\* the segment while the other is about to look for it.
SameMemory ==
    \A p, q \in Pid : pc[p] = "loop" /\ pc[q] = "loop" => shmmem[p] = shmmem[q]

\* A run that forked, and of which nobody was killed, removes its own segment
\* and the one it found.
NothingLeft ==
    killed = {} /\ failed = {} /\ (\A p \in Pid : ~Running(p)) => key = 0
=============================================================================
