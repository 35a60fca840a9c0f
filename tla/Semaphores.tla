----------------------------- MODULE Semaphores -----------------------------
(***************************************************************************)
(* Process_Signal/posix_sem.c and thread.c: two programs that open the     *)
(* same POSIX semaphore, by the name "posix_sem".  A run of each may be    *)
(* under way, be killed, and be started again.                             *)
(***************************************************************************)
EXTENDS Integers

CONSTANTS Rounds,   \* turns of each of the two threads of thread.c: 10
          Value,    \* what thread.c opens the semaphore with: 7
          Limit,    \* what posix_sem.c opens it with and counts to: 8
          MaxSem    \* bound: semaphores created

ASSUME BoundsAssumption ==
    Rounds \in Nat \ {0} /\ Value \in Nat /\ Limit \in Nat \ {0} /\ MaxSem \in Nat

\* The semaphore thread.c opens has room for all but one turn of posix_sem.c.
ASSUME ValueAssumption == Value >= Limit - 1

VARIABLES name,    \* the semaphore "posix_sem" names, 0 for none
          used,    \* semaphores created so far
          val,     \* their values
          owner,   \* the program that created each of them
          pc,      \* where main() of each program is
          sem,     \* the semaphore each program uses
          cnt,     \* each program's variable cnt
          vpc, vi, vreg,   \* ptheadV() of thread.c: place, i, the cnt it has loaded
          ppc, pi, preg,   \* ptheadP()
          dead     \* programs that have been killed once

kernel  == <<name, used, val, owner>>
threads == <<vpc, vi, vreg, ppc, pi, preg>>
vars    == <<kernel, pc, sem, cnt, threads, dead>>

Prog == {"posix_sem", "thread"}

Init ==
    /\ name = 0 /\ used = 0
    /\ val = [s \in 1..MaxSem |-> 0]
    /\ owner = [s \in 1..MaxSem |-> "thread"]
    /\ pc = [g \in Prog |-> "off"]
    /\ sem = [g \in Prog |-> 0]
    /\ cnt = [g \in Prog |-> 0]
    /\ vpc = "done" /\ vi = 0 /\ vreg = 0
    /\ ppc = "done" /\ pi = 0 /\ preg = 0
    /\ dead = {}

Goto(g, place) == pc' = [pc EXCEPT ![g] = place]

Take(s) == val[s] > 0 /\ val' = [val EXCEPT ![s] = @ - 1]
Give(s) == val' = [val EXCEPT ![s] = @ + 1]

\* sem_open(name, O_CREAT, ..., value): a semaphore that is there is taken as
\* it is, whatever its value.
Open(g, value) ==
    /\ pc[g] = "off"
    /\ \/ /\ name # 0
          /\ sem' = [sem EXCEPT ![g] = name]
          /\ UNCHANGED kernel
       \/ /\ name = 0 /\ used < MaxSem
          /\ used' = used + 1
          /\ name' = used + 1
          /\ val' = [val EXCEPT ![used + 1] = value]
          /\ owner' = [owner EXCEPT ![used + 1] = g]
          /\ sem' = [sem EXCEPT ![g] = used + 1]
    /\ UNCHANGED <<cnt, dead>>

\* A process ends, and its memory is gone.
Exit(g) ==
    /\ Goto(g, "off")
    /\ sem' = [sem EXCEPT ![g] = 0]
    /\ cnt' = [cnt EXCEPT ![g] = 0]
    /\ IF g = "thread"
       THEN /\ vpc' = "done" /\ vi' = 0 /\ vreg' = 0
            /\ ppc' = "done" /\ pi' = 0 /\ preg' = 0
       ELSE UNCHANGED threads

\* Fault: the semaphore is closed, but its name is not removed.
FaultyClose(g) == pc[g] = "close" /\ Exit(g) /\ UNCHANGED <<kernel, dead>>

\* sem_close() and sem_unlink(), which removes the name from whatever
\* semaphore has it by now.
Close(g) ==
    /\ pc[g] = "close"
    /\ Exit(g)
    /\ name' = 0
    /\ UNCHANGED <<used, val, owner, dead>>

\* A kill takes the process, not the semaphore nor its name.  Bound: each
\* program is killed once at most.
Kill(g) ==
    /\ pc[g] # "off" /\ g \notin dead
    /\ Exit(g)
    /\ dead' = dead \cup {g}
    /\ UNCHANGED kernel

-----------------------------------------------------------------------------
(* posix_sem.c: Limit times v(), which is sem_wait(), then p() once.       *)

StartCount == Open("posix_sem", Limit) /\ Goto("posix_sem", "test") /\ UNCHANGED threads

CountTo(limit) ==
    LET g == "posix_sem" IN
    /\ pc[g] = "test"
    /\ IF cnt[g] >= limit
       THEN cnt' = [cnt EXCEPT ![g] = @ - 1] /\ Goto(g, "p")
       ELSE cnt' = [cnt EXCEPT ![g] = @ + 1] /\ Goto(g, "v")
    /\ UNCHANGED <<kernel, sem, threads, dead>>

\* Fault: cnt > 8.
FaultyTest == CountTo(Limit + 1)

Test == CountTo(Limit)

V ==
    /\ pc["posix_sem"] = "v"
    /\ Take(sem["posix_sem"])
    /\ Goto("posix_sem", "test")
    /\ UNCHANGED <<name, used, owner, sem, cnt, threads, dead>>

P ==
    /\ pc["posix_sem"] = "p"
    /\ Give(sem["posix_sem"])
    /\ Goto("posix_sem", "close")
    /\ UNCHANGED <<name, used, owner, sem, cnt, threads, dead>>

Count == Test \/ V \/ P \/ Close("posix_sem")

-----------------------------------------------------------------------------
(* thread.c                                                                *)

StartThreads ==
    /\ Open("thread", Value)
    /\ Goto("thread", "join")
    /\ vpc' = "load" /\ ppc' = "post"
    /\ UNCHANGED <<vi, vreg, pi, preg>>

\* ptheadV(): cnt++ is a load and a store, neither of them protected, then
\* sem_wait().
ThreadV ==
    /\ pc["thread"] = "join"
    /\ \/ /\ vpc = "load" /\ vpc' = "store"
          /\ vreg' = cnt["thread"]
          /\ UNCHANGED <<val, cnt, vi>>
       \/ /\ vpc = "store" /\ vpc' = "wait"
          /\ cnt' = [cnt EXCEPT !["thread"] = vreg + 1]
          /\ vreg' = 0
          /\ UNCHANGED <<val, vi>>
       \/ /\ vpc = "wait" /\ vpc' = IF vi + 1 < Rounds THEN "load" ELSE "done"
          /\ Take(sem["thread"])
          /\ vi' = vi + 1
          /\ UNCHANGED <<cnt, vreg>>
    /\ UNCHANGED <<name, used, owner, pc, sem, ppc, pi, preg, dead>>

\* ptheadP(): sem_post(), then cnt--, which is a load and a store, too.
PostTurns(turns) ==
    /\ pc["thread"] = "join"
    /\ \/ /\ ppc = "post" /\ ppc' = "load"
          /\ Give(sem["thread"])
          /\ UNCHANGED <<cnt, pi, preg>>
       \/ /\ ppc = "load" /\ ppc' = "store"
          /\ preg' = cnt["thread"]
          /\ UNCHANGED <<val, cnt, pi>>
       \/ /\ ppc = "store" /\ ppc' = IF pi + 1 < turns THEN "post" ELSE "done"
          /\ cnt' = [cnt EXCEPT !["thread"] = preg - 1]
          /\ preg' = 0 /\ pi' = pi + 1
          /\ UNCHANGED val
    /\ UNCHANGED <<name, used, owner, pc, sem, vpc, vi, vreg, dead>>

\* Fault: for(i = 1; i < 10; i++).
FaultyThreadP == PostTurns(Rounds - 1)

ThreadP == PostTurns(Rounds)

Join ==
    /\ pc["thread"] = "join"
    /\ vpc = "done" /\ ppc = "done"
    /\ Goto("thread", "close")
    /\ UNCHANGED <<kernel, sem, cnt, threads, dead>>

-----------------------------------------------------------------------------

Next ==
    \/ StartCount \/ Count
    \/ StartThreads \/ ThreadV \/ ThreadP \/ Join \/ Close("thread")
    \/ \E g \in Prog : Kill(g)

Spec == Init /\ [][Next]_vars

\* The scheduler runs every process and thread; nobody has to start one.
Fairness ==
    /\ WF_vars(Count)
    /\ WF_vars(ThreadV) /\ WF_vars(ThreadP) /\ WF_vars(Join \/ Close("thread"))

FairSpec == Spec /\ Fairness

-----------------------------------------------------------------------------
(* Correctness.                                                            *)

\* Every variable has its type.  That cnt of thread.c stays within the turns
\* of its threads, whatever updates they lose, is part of it.
TypeOK ==
    /\ used \in 0..MaxSem /\ name \in 0..used
    /\ val \in [1..MaxSem -> Nat]
    /\ owner \in [1..MaxSem -> Prog]
    /\ pc \in [Prog -> {"off", "test", "v", "p", "close", "join"}]
    /\ sem \in [Prog -> 0..used]
    /\ cnt \in [Prog -> Int]
    /\ cnt["posix_sem"] \in 0..Limit /\ cnt["thread"] \in -Rounds..Rounds
    /\ vpc \in {"load", "store", "wait", "done"} /\ vi \in 0..Rounds /\ vreg \in -Rounds..Rounds
    /\ ppc \in {"post", "load", "store", "done"} /\ pi \in 0..Rounds /\ preg \in -Rounds..Rounds
    /\ dead \subseteq Prog

\* As long as nobody is killed, ptheadV() never waits for a sem_post() that
\* does not come: at a value of 0 there is one to come of ptheadP(), or of a
\* posix_sem that has taken the same semaphore and has finished counting.
NotStuck ==
    /\ dead = {}
    /\ pc["thread"] = "join" /\ vpc = "wait" /\ val[sem["thread"]] = 0
    => \/ ppc = "post"
       \/ ppc # "done" /\ pi + 1 < Rounds
       \/ /\ sem["posix_sem"] = sem["thread"]
          /\ \/ pc["posix_sem"] = "p"
             \/ pc["posix_sem"] = "test" /\ cnt["posix_sem"] = Limit

\* thread.c comes to its end beside posix_sem.c, although both take from one
\* semaphore and neither knows of the other, unless one of them is killed.
ThreadEnds == pc["thread"] # "off" ~> (pc["thread"] = "off" \/ dead # {})

\* So does posix_sem.c if it has created the semaphore, even when thread.c
\* joins it.  (At one that thread.c has created it may wait for ever.)
CountEnds ==
    pc["posix_sem"] # "off" /\ owner[sem["posix_sem"]] = "posix_sem"
      ~> (pc["posix_sem"] = "off" \/ dead # {})

\* Programs that have not been killed leave no semaphore behind.
NothingLeft == dead = {} /\ (\A g \in Prog : pc[g] = "off") => name = 0
=============================================================================
