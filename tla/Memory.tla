------------------------------- MODULE Memory -------------------------------
(***************************************************************************)
(* Who sees whose change of a variable: Process_Signal/fork.c, where the   *)
(* child has a copy of its parent's memory, vfork.c, where it works in its *)
(* parent's while the parent is suspended, and thread_mutex.c, where two   *)
(* threads change a variable of the process under a mutex.                 *)
(***************************************************************************)
EXTENDS Processes, Integers

VARIABLES space,   \* the process in whose memory each process or thread works
          g_var,   \* the global variable of each memory
          var,     \* the local variable of main(), if it has one
          reg,     \* what a thread has loaded of g_var
          mid,     \* the thread that has the mutex, 0 for none
          shown    \* what each has shown: before and after, or g_var and var

store == <<space, g_var, var, reg, mid, shown>>
vars  == <<table, store>>

Start == [fork |-> 92, vfork |-> 88, thread_mutex |-> 0]   \* var in main()

Init ==
    /\ program \in DOMAIN Start
    /\ sigchld = "default"
    /\ TableInit({First}, "fork")
    /\ space = [p \in Pid |-> p]
    /\ g_var = [p \in Pid |-> 1]
    /\ var = [p \in Pid |-> Start[program]]
    /\ reg = [p \in Pid |-> 0]
    /\ mid = 0
    /\ shown = [p \in Pid |-> <<>>]

\* The end of a process; that of main() takes all its threads along.
End(p) == Exit(p, "ok") /\ UNCHANGED store

-----------------------------------------------------------------------------
(* fork.c and vfork.c                                                      *)

\* fork() copies the memory; vfork() shares it and suspends the parent.  Both
\* programs report a failure and go on.
Fork(p) ==
    /\ program # "thread_mutex" /\ pc[p] = "fork"
    /\ \/ \E q \in Pid :
            /\ ForkAs(p, q, IF program = "fork" THEN "show" ELSE "vfork", "child")
            /\ g_var' = [g_var EXCEPT ![q] = g_var[p]]
            /\ var' = [var EXCEPT ![q] = var[p]]
            /\ space' = IF program = "fork" THEN space ELSE [space EXCEPT ![q] = p]
       \/ Fails(p, "fork", "show") /\ UNCHANGED <<space, g_var, var>>
    /\ UNCHANGED <<reg, mid, shown>>

\* g_var++ and var++ in the child.
Child(p) ==
    /\ pc[p] = "child"
    /\ g_var' = [g_var EXCEPT ![space[p]] = @ + 1]
    /\ var' = [var EXCEPT ![space[p]] = @ + 1]
    /\ Goto(p, "show")
    /\ UNCHANGED <<space, reg, mid, shown>>

\* The parent of a vfork() goes on when its child has ended.  The program is
\* built without optimisation: var is in the memory the child has changed.
Resume(p) ==
    /\ pc[p] = "vfork"
    /\ \A q \in Children(p) : pc[q] = Zombie
    /\ Goto(p, "show")
    /\ UNCHANGED store

Show(p) ==
    /\ pc[p] = "show"
    /\ shown' = [shown EXCEPT ![p] = <<g_var[space[p]], var[space[p]]>>]
    /\ Goto(p, "end")
    /\ UNCHANGED <<space, g_var, var, reg, mid>>

-----------------------------------------------------------------------------
(* thread_mutex.c                                                          *)

\* pthread_create(), for the incrementing thread and then the other one.
Create(p) ==
    /\ program = "thread_mutex" /\ p = First /\ pc[p] = "fork"
    /\ \E q \in Pid :
         /\ ForkAs(p, q, IF Children(p) = {} THEN "fork" ELSE "join", "lock")
         /\ space' = [space EXCEPT ![q] = p]
    /\ UNCHANGED <<g_var, var, reg, mid, shown>>

Change(q) == IF q = First + 1 THEN 1 ELSE -1   \* inc_function, dec_function

\* pthread_mutex_lock(), and the value before the change.
Lock(q) ==
    /\ pc[q] = "lock"
    /\ mid = 0
    /\ mid' = q
    /\ reg' = [reg EXCEPT ![q] = g_var[space[q]]]
    /\ Goto(q, "store")
    /\ UNCHANGED <<space, g_var, var, shown>>

\* g_var++ or g_var--.
Store(q) ==
    /\ pc[q] = "store"
    /\ g_var' = [g_var EXCEPT ![space[q]] = reg[q] + Change(q)]
    /\ Goto(q, "unlock")
    /\ UNCHANGED <<space, var, reg, mid, shown>>

\* The value after it, and pthread_mutex_unlock().
Unlock(q) ==
    /\ pc[q] = "unlock"
    /\ shown' = [shown EXCEPT ![q] = <<reg[q], g_var[space[q]]>>]
    /\ mid' = 0
    /\ Goto(q, "end")
    /\ UNCHANGED <<space, g_var, var, reg>>

\* pthread_join(), for both threads.
Join(p) ==
    /\ pc[p] = "join"
    /\ \A q \in Children(p) : pc[q] = Zombie
    /\ Goto(p, "end")
    /\ UNCHANGED store

Return(p) == pc[p] = "end" /\ End(p)

-----------------------------------------------------------------------------

Step(p) ==
    \/ Fork(p) \/ Child(p) \/ Resume(p) \/ Show(p)
    \/ Create(p) \/ Lock(p) \/ Store(p) \/ Unlock(p) \/ Join(p) \/ Return(p)

Next == \E p \in Pid : Step(p)

Spec == Init /\ [][Next]_vars

-----------------------------------------------------------------------------
(* Correctness.                                                            *)

\* Every variable has its type.
TypeOK ==
    /\ TableTypeOK
    /\ space \in [Pid -> Pid]
    /\ g_var \in [Pid -> 0..2]
    /\ var \in [Pid -> {0, 88, 89, 92, 93}]
    /\ reg \in [Pid -> 0..2]
    /\ mid \in Pid \cup {0}

\* In fork.c the child's changes are its own.  In vfork.c the parent shows the
\* child's g_var and var, and after the child.  In thread_mutex.c each thread
\* shows one change, the process ends with the value it began with, and no
\* thread sees the other one's half done.
OwnChanges ==
    LET shows(p, s) == shown[p] = <<>> \/ shown[p] \in s IN
    /\ program = "fork" /\ failed = {} =>
         shows(First, {<<1, 92>>}) /\ shows(First + 1, {<<2, 93>>})
    /\ program = "vfork" /\ failed = {} =>
         /\ shows(First, {<<2, 89>>}) /\ shows(First + 1, {<<2, 89>>})
         /\ shown[First] # <<>> => shown[First + 1] # <<>>
    /\ program = "thread_mutex" =>
         /\ \A q \in {First + 1, First + 2} :
              shown[q] # <<>> => shown[q][2] = shown[q][1] + Change(q)
         /\ pc[First] = "end" => g_var[First] = 1
=============================================================================
