------------------------------ MODULE Signals ------------------------------
(***************************************************************************)
(* Process_Signal/handleSingal.c: a process that blocks two signals,       *)
(* installs one handler for three others, ignores one and then pauses for  *)
(* ever.  Signals arrive at any moment, also before main() has come that   *)
(* far, and while the handler is at work for another signal.               *)
(***************************************************************************)
EXTENDS Processes, Sequences

CONSTANT MaxSignals   \* bound: signals sent

VARIABLES mask,      \* signals that are blocked
          disp,      \* what is to be done with each: default, handler, ignore
          pending,   \* signals that have arrived and have not been delivered
          stack,     \* the signals the handler is at work for, innermost first
          sent,      \* how often each signal was sent
          catched    \* how often the handler has shown each

signals == <<mask, disp, pending, stack, sent, catched>>
vars    == <<table, signals>>

Signal == {"INT", "USR1", "USR2", "PIPE", "QUIT", "RTMIN", "TERM"}

Init ==
    /\ program = "signal"
    /\ sigchld = "default"
    /\ TableInit({First}, "block")
    /\ mask = {}
    /\ disp = [s \in Signal |-> "default"]
    /\ pending = {}
    /\ stack = <<>>
    /\ sent = [s \in Signal |-> 0]
    /\ catched = [s \in Signal |-> 0]

InHandler(s) == \E n \in DOMAIN stack : stack[n] = s

\* main() does nothing while a handler runs, or a signal is to be delivered.
Deliverable == {s \in pending : s \notin mask /\ ~InHandler(s)}
InMain(p)   == stack = <<>> /\ Deliverable = {}

\* sigprocmask(SIG_BLOCK): SIGQUIT and SIGRTMIN.
Block(p) ==
    /\ pc[p] = "block" /\ InMain(p)
    /\ mask' = {"QUIT", "RTMIN"}
    /\ Goto(p, "INT")
    /\ UNCHANGED <<disp, pending, stack, sent, catched>>

Following == [INT |-> "USR1", USR1 |-> "USR2", USR2 |-> "PIPE", PIPE |-> "pause"]

\* signal(SIGINT, sigHandler), and so on in this order; signal(SIGPIPE,
\* SIG_IGN) last.
Register(p) ==
    /\ pc[p] \in DOMAIN Following /\ InMain(p)
    /\ disp' = [disp EXCEPT ![pc[p]] = IF pc[p] = "PIPE" THEN "ignore" ELSE "handler"]
    /\ Goto(p, Following[pc[p]])
    /\ UNCHANGED <<mask, pending, stack, sent, catched>>

-----------------------------------------------------------------------------

\* Somebody sends a signal.  One that is pending already is not counted twice
\* (of SIGRTMIN there may be several; none is ever delivered).
Send(p, s) ==
    /\ Running(p)
    /\ Cardinality({c \in Signal \X (1..MaxSignals) : c[2] <= sent[c[1]]}) < MaxSignals
    /\ sent' = [sent EXCEPT ![s] = @ + 1]
    /\ pending' = IF disp[s] = "ignore" THEN pending ELSE pending \cup {s}
    /\ UNCHANGED <<table, mask, disp, stack, catched>>

\* A signal is delivered: the default of all seven is the end.
Deliver(p, s) ==
    /\ Running(p)
    /\ s \in Deliverable
    /\ pending' = pending \ {s}
    /\ IF disp[s] = "handler"
       THEN stack' = <<s>> \o stack /\ UNCHANGED table
       ELSE Exit(p, "signal") /\ stack' = stack
    /\ UNCHANGED <<mask, disp, sent, catched>>

\* sigHandler(): SIGINT is shown and ends the process, another is shown.  The
\* branch for SIGQUIT and the last one are never reached.
SigHandler(p) ==
    /\ Running(p) /\ stack # <<>>
    /\ catched' = [catched EXCEPT ![Head(stack)] = @ + 1]
    /\ IF Head(stack) = "INT"
       THEN Exit(p, "ok") /\ UNCHANGED stack
       ELSE stack' = Tail(stack) /\ UNCHANGED table
    /\ UNCHANGED <<mask, disp, pending, sent>>

-----------------------------------------------------------------------------

Step(p) == Block(p) \/ Register(p) \/ SigHandler(p) \/ \E s \in Signal : Deliver(p, s)

Next == \E p \in Pid : Step(p) \/ \E s \in Signal : Send(p, s)

Spec == Init /\ [][Next]_vars

-----------------------------------------------------------------------------
(* Correctness.                                                            *)

\* Every variable has its type; no handler interrupts itself.
TypeOK ==
    /\ TableTypeOK
    /\ pc \in [Pid -> {Unborn, Gone, "block", "INT", "USR1", "USR2", "PIPE", "pause"}]
    /\ mask \in {{}, {"QUIT", "RTMIN"}}
    /\ disp \in [Signal -> {"default", "handler", "ignore"}]
    /\ pending \subseteq Signal
    /\ \A m, n \in DOMAIN stack : stack[m] \in Signal /\ (stack[m] = stack[n] => m = n)
    /\ \A s \in Signal : catched[s] <= sent[s]

\* Once main() has come to pause(), only SIGTERM, which it does nothing about,
\* and SIGINT's handler end the process: a signal that was sent before it was
\* blocked, registered or ignored has ended it before that, or is shown.
Survival ==
    \A p \in Pid : pc[p] = "pause" /\ ~Running(p)'
      => "TERM" \in pending \/ (stack # <<>> /\ Head(stack) = "INT")

Survives == [][Survival]_vars

\* The process waits in pause() as long as nobody sends SIGINT, and once it
\* has shown SIGUSR1 and SIGUSR2 if they were sent: several of one kind may be
\* shown once, but not none of them.
Waits(p) ==
    /\ pc[p] = "pause"
    /\ sent["INT"] = 0
    /\ \A s \in {"USR1", "USR2"} : sent[s] > 0 => catched[s] > 0
=============================================================================
