----------------------------- MODULE Processes -----------------------------
(***************************************************************************)
(* The kernel's process table, as the programs that fork() use it: places  *)
(* in the code, parents, zombies, waitpid(), and a kill from outside.      *)
(* A module about a program extends this one and adds what it works on.    *)
(***************************************************************************)
EXTENDS Naturals, FiniteSets

CONSTANTS Pid,       \* the process numbers a run may use
          MaxKills   \* bound: processes killed from outside

ASSUME PidAssumption == 1 \in Pid /\ Pid \subseteq Nat \ {0}

VARIABLES program,   \* which program is run
          sigchld,   \* what it inherits for SIGCHLD: default or ignored
          pc,        \* where each process is
          parent,    \* the parent of each, Adopter for a stranger or nobody
          exit,      \* what each has ended with
          killed,    \* processes that were killed
          failed     \* the calls that have failed for want of resources

table == <<program, sigchld, pc, parent, exit, killed, failed>>

First == 1   \* the process the user starts
Adopter == 0   \* the process that adopts orphans

Unborn   == "unborn"
Zombie   == "zombie"
Gone     == "gone"
Running(p)  == pc[p] \notin {Unborn, Zombie, Gone}
Children(p) == {q \in Pid : parent[q] = p /\ pc[q] \notin {Unborn, Gone}}

\* The processes in Roots are at the place start: the user has started them.
TableInit(Roots, start) ==
    /\ pc = [p \in Pid |-> IF p \in Roots THEN start ELSE Unborn]
    /\ parent = [p \in Pid |-> Adopter]
    /\ exit = [p \in Pid |-> "none"]
    /\ killed = {}
    /\ failed = {}

Goto(p, place) ==
    /\ pc' = [pc EXCEPT ![p] = place]
    /\ UNCHANGED <<program, sigchld, parent, exit, killed, failed>>

\* fork(): the parent goes on at here, and the child q, whose number is the
\* next one, at there.
ForkAs(p, q, here, there) ==
    /\ pc[q] = Unborn /\ \A r \in Pid : r < q => pc[r] # Unborn
    /\ pc' = [pc EXCEPT ![p] = here, ![q] = there]
    /\ parent' = [parent EXCEPT ![q] = p]
    /\ UNCHANGED <<program, sigchld, exit, killed, failed>>

\* fork(), or a call made of it, gives -1: there are too many processes.
Fails(p, call, here) ==
    /\ pc' = [pc EXCEPT ![p] = here]
    /\ failed' = failed \cup {call}
    /\ UNCHANGED <<program, sigchld, parent, exit, killed>>

\* p ends: its zombies are gone, its other children are orphans, and p itself
\* is a zombie until its parent waits for it, if it ever will.
Ends(p, s) ==
    /\ pc' = [q \in Pid |->
                CASE q = p -> IF parent[p] = Adopter \/ sigchld = "ignored" THEN Gone ELSE Zombie
                  [] parent[q] = p /\ pc[q] = Zombie -> Gone
                  [] OTHER -> pc[q]]
    /\ parent' = [q \in Pid |-> IF parent[q] = p /\ pc[q] # Gone THEN Adopter ELSE parent[q]]
    /\ exit' = [exit EXCEPT ![p] = s]
    /\ UNCHANGED <<program, sigchld, failed>>

Exit(p, s) == Ends(p, s) /\ UNCHANGED killed

Kill(p) ==
    /\ Running(p)
    /\ Cardinality(killed) < MaxKills
    /\ killed' = killed \cup {p}
    /\ Ends(p, "signal")

-----------------------------------------------------------------------------
(* waitpid(x, &status, 0): x is a process, or 0 or -1, which stand for any *)
(* child (all processes are of one group).                                 *)

Awaited(p, x) == IF x \in Pid THEN Children(p) \cap {x} ELSE Children(p)

\* A child is reaped, and what it ended with is the status.
Reap(p, x, q, here) ==
    /\ q \in Awaited(p, x)
    /\ pc[q] = Zombie
    /\ pc' = [pc EXCEPT ![p] = here, ![q] = Gone]
    /\ UNCHANGED <<program, sigchld, parent, exit, killed, failed>>

\* ECHILD: there is no such child, or none any more as SIGCHLD is ignored.
NoChild(p, x) == Awaited(p, x) = {}

-----------------------------------------------------------------------------
(* What the modules say of every program.                                  *)

Status == {"none", "signal", "ok", "three", "error", "notfound"}

TableTypeOK ==
    /\ sigchld \in {"default", "ignored"}
    /\ parent \in [Pid -> Pid \cup {Adopter}]
    /\ exit \in [Pid -> Status]
    /\ killed \subseteq Pid

\* Processes whose parent has ended without waiting for them.
Orphans == {q \in Pid \ {First} : pc[q] # Unborn /\ parent[q] = Adopter}

\* No process leaves a child behind, running or zombie, unless one was killed,
\* and whichever of the calls fail.
Reaped == killed = {} => Orphans = {}
=============================================================================
