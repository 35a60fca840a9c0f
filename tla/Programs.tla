------------------------------ MODULE Programs ------------------------------
(***************************************************************************)
(* The programs of Process_Signal and IPC, and the two of                  *)
(* NetworkProgramming that fork(), side by side over one process table:    *)
(* one of them is started, and the variables of the others keep their      *)
(* values.                                                                 *)
(***************************************************************************)
EXTENDS Processes, Integers, Sequences

CONSTANTS Turns,                      \* shm.c
          Server, Client, MaxLines,   \* fifo_server.c, fifo_client.c
          MaxSignals,                 \* handleSingal.c
          Fd, Assumed, Limits,        \* daemon.c
          Runs, Limit, MaxSem         \* sem.c

ASSUME BoundsAssumption == {Turns, MaxLines, MaxSignals, Assumed, Limit, MaxSem} \subseteq Nat
                           /\ Limit # 0 /\ Assumed > 2
ASSUME RolesAssumption  == Runs \cup Server \cup Client \subseteq Pid /\ Server \cap Client = {}
ASSUME ThreadsAssumption == {First + 1, First + 2} \subseteq Pid   \* of thread_mutex.c
ASSUME FdAssumption     == {0, 1, 2} \subseteq Fd /\ Fd \subseteq Nat /\ Limits \subseteq Nat \cup {-1}

VARIABLES main, pid, st, round, reported,                  \* IPC/pipe.c, system.c, spawn.c
          open, chan, line, displayed,                     \* pipe.c, socketpair.c
          key, val, shmid, shmmem, i,                      \* shm.c
          name, file, met, buf, typed, late,               \* fifo_server.c, fifo_client.c
          space, g_var, var, reg, mid, shown,              \* fork.c, vfork.c, thread_mutex.c
          mask, disp, pending, stack, sent, catched,       \* handleSingal.c
          rlim_max, fds, ctty, hup, opened,                \* daemon.c
          sem, value, adj, cnt                             \* sem.c

Commands     == INSTANCE Commands WITH shown <- reported
Pipes        == INSTANCE Pipes WITH shown <- displayed
SharedMemory == INSTANCE SharedMemory
Fifo         == INSTANCE Fifo
Memory       == INSTANCE Memory
Signals      == INSTANCE Signals
Daemon       == INSTANCE Daemon
SysvSem      == INSTANCE SysvSem

ofCommands == <<main, pid, st, round, reported>>
ofPipes    == <<open, chan, line, displayed>>
ofShm      == <<key, val, shmid, shmmem, i>>
ofFifo     == <<name, file, met, buf, typed, late>>
ofMemory   == <<space, g_var, var, reg, mid, shown>>
ofSignals  == <<mask, disp, pending, stack, sent, catched>>
ofDaemon   == <<rlim_max, fds, ctty, hup, opened>>
ofSem      == <<sem, value, adj, cnt>>

vars == <<table, ofCommands, ofPipes, ofShm, ofFifo, ofMemory, ofSignals, ofDaemon, ofSem>>

\* The module each program is described in.
ModuleOf ==
    [ps |-> "Commands", system |-> "Commands", spawn |-> "Commands",
     pipe |-> "Pipes", socketpair |-> "Pipes", shm |-> "SharedMemory", fifo |-> "Fifo",
     fork |-> "Memory", vfork |-> "Memory", thread_mutex |-> "Memory",
     signal |-> "Signals", daemon |-> "Daemon", sem |-> "SysvSem"]

\* One module's program is started; the variables of the others are empty,
\* and keep their values.
Init ==
    /\ program \in DOMAIN ModuleOf
    /\ IF ModuleOf[program] = "Commands" THEN Commands!Init
       ELSE main = {} /\ pid = {} /\ st = {} /\ round = {} /\ reported = {}
    /\ IF ModuleOf[program] = "Pipes" THEN Pipes!Init
       ELSE open = {} /\ chan = {} /\ line = {} /\ displayed = {}
    /\ IF ModuleOf[program] = "SharedMemory" THEN SharedMemory!Init
       ELSE key = {} /\ val = {} /\ shmid = {} /\ shmmem = {} /\ i = {}
    /\ IF ModuleOf[program] = "Fifo" THEN Fifo!Init
       ELSE name = {} /\ file = {} /\ met = {} /\ buf = {} /\ typed = {} /\ late = {}
    /\ IF ModuleOf[program] = "Memory" THEN Memory!Init
       ELSE space = {} /\ g_var = {} /\ var = {} /\ reg = {} /\ mid = {} /\ shown = {}
    /\ IF ModuleOf[program] = "Signals" THEN Signals!Init
       ELSE mask = {} /\ disp = {} /\ pending = {} /\ stack = {} /\ sent = {} /\ catched = {}
    /\ IF ModuleOf[program] = "Daemon" THEN Daemon!Init
       ELSE rlim_max = {} /\ fds = {} /\ ctty = {} /\ hup = {} /\ opened = {}
    /\ IF ModuleOf[program] = "SysvSem" THEN SysvSem!Init
       ELSE sem = {} /\ value = {} /\ adj = {} /\ cnt = {}

\* A step of the one module leaves the variables of the others alone, and the
\* program is the same one.
Only(m) ==
    /\ ModuleOf[program] = m
    /\ program' = program
    /\ IF m = "Commands" THEN TRUE ELSE UNCHANGED ofCommands
    /\ IF m = "Pipes" THEN TRUE ELSE UNCHANGED ofPipes
    /\ IF m = "SharedMemory" THEN TRUE ELSE UNCHANGED ofShm
    /\ IF m = "Fifo" THEN TRUE ELSE UNCHANGED ofFifo
    /\ IF m = "Memory" THEN TRUE ELSE UNCHANGED ofMemory
    /\ IF m = "Signals" THEN TRUE ELSE UNCHANGED ofSignals
    /\ IF m = "Daemon" THEN TRUE ELSE UNCHANGED ofDaemon
    /\ IF m = "SysvSem" THEN TRUE ELSE UNCHANGED ofSem

-----------------------------------------------------------------------------

\* What a process does of itself.
Step(p) ==
    \/ Only("Commands") /\ Commands!Step(p)
    \/ Only("Pipes") /\ Pipes!Step(p)
    \/ Only("SharedMemory") /\ SharedMemory!Step(p)
    \/ Only("Fifo") /\ Fifo!Step(p)
    \/ Only("Memory") /\ Memory!Step(p)
    \/ Only("Signals") /\ Signals!Step(p)
    \/ Only("Daemon") /\ Daemon!Step(p)
    \/ Only("SysvSem") /\ SysvSem!Step(p)

\* What others do to it, or its user with it.
Environment(p) ==
    \/ Only("Commands") /\ Commands!Killed(p)
    \/ Only("Pipes") /\ Pipes!Killed(p)
    \/ Only("SharedMemory") /\ SharedMemory!Killed(p)
    \/ Only("Fifo") /\ (Fifo!User(p) \/ Fifo!Killed(p))
    \/ Only("Signals") /\ \E s \in Signals!Signal : Signals!Send(p, s)
    \/ Only("Daemon") /\ Daemon!Hangup(p)
    \/ Only("SysvSem") /\ (SysvSem!Start(p) \/ SysvSem!Killed(p))

Next == \E p \in Pid : Step(p) \/ Environment(p)

Spec == Init /\ [][Next]_vars

\* Every process is scheduled.
Fairness == \A p \in Pid : WF_vars(Step(p))

FairSpec == Spec /\ Fairness

-----------------------------------------------------------------------------
(* Correctness.                                                            *)

\* Every variable of the program that runs has its type.
TypeOK ==
    CASE ModuleOf[program] = "Commands"     -> Commands!TypeOK
      [] ModuleOf[program] = "Pipes"        -> Pipes!TypeOK
      [] ModuleOf[program] = "SharedMemory" -> SharedMemory!TypeOK
      [] ModuleOf[program] = "Fifo"         -> Fifo!TypeOK
      [] ModuleOf[program] = "Memory"       -> Memory!TypeOK
      [] ModuleOf[program] = "Signals"      -> Signals!TypeOK
      [] ModuleOf[program] = "Daemon"       -> Daemon!TypeOK
      [] ModuleOf[program] = "SysvSem"      -> SysvSem!TypeOK

\* What the programs show or leave is what was to be shown: the status of the
\* command that was run, the line the child has written and the lines users
\* have typed, variables as fork(), vfork() and a mutex keep them, and a
\* semaphore with its first value after a kill.
Outcome ==
    CASE ModuleOf[program] = "Commands" -> Commands!OwnStatus
      [] ModuleOf[program] = "Pipes"    -> Pipes!Delivered
      [] ModuleOf[program] = "Fifo"     -> Fifo!Delivered
      [] ModuleOf[program] = "Memory"   -> Memory!OwnChanges
      [] ModuleOf[program] = "SysvSem"  -> SysvSem!Undone
      [] OTHER -> TRUE

\* The parent and the child of shm.c count in and show one segment.
SameMemory == program = "shm" => SharedMemory!SameMemory

\* Nothing stays in the system but what a kill, or a failed fork(), leaves:
\* no child, no shared segment, no semaphore.
NothingLeft ==
    /\ ModuleOf[program] \in {"Commands", "Pipes"} => Reaped
    /\ program = "shm" => SharedMemory!NothingLeft
    /\ program = "sem" => SysvSem!NothingLeft

\* What a process has protected itself against does not reach it: signals it
\* has blocked, registered or ignored, and the terminal and the files of the
\* daemon's parent.
Protected ==
    [][/\ program = "signal" => Signals!Survival
       /\ program = "daemon" => Daemon!Detached]_vars

\* Every process ends, whatever fails or is killed, unless it waits for what
\* nobody has promised: its user, a signal, a client, the other end of a FIFO
\* that has been taken away, a child that was killed.
Waits(p) ==
    \/ ModuleOf[program] = "Pipes"   /\ Pipes!Waits(p)
    \/ ModuleOf[program] = "Fifo"    /\ Fifo!Waits(p)
    \/ ModuleOf[program] = "Signals" /\ Signals!Waits(p)
    \/ ModuleOf[program] = "Daemon"  /\ Daemon!Waits(p)
    \/ ModuleOf[program] = "SysvSem" /\ SysvSem!Waits(p)

AllEnd == \A p \in Pid : Running(p) ~> ~Running(p) \/ Waits(p)
=============================================================================
