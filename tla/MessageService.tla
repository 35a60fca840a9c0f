--------------------------- MODULE MessageService ---------------------------
(***************************************************************************)
(* What the message queues of Process_Signal promise, System V and POSIX   *)
(* alike, taken from what both do: a client's text and its end are each    *)
(* taken by one server at most, and in that order; a server shows what it  *)
(* has taken, and nothing else; a message that was sent gets lost only to  *)
(* an end that a server acts on, or with the server that has taken it.     *)
(***************************************************************************)
CONSTANT Client

VARIABLES turn,      \* what each client sends next, or "done"
          waiting,   \* messages that were sent and that no server has taken
          held,      \* those a server has taken and not yet acted on
          handled    \* texts that were shown and ends that were acted on

vars == <<turn, waiting, held, handled>>

Kind    == {"text", "end"}
Message == Client \X Kind

\* What a client does when its text or its end has been sent.
Following == [text |-> "end", end |-> "done"]

Init ==
    /\ turn = [c \in Client |-> "text"]
    /\ waiting = {} /\ held = {} /\ handled = {}

Send(c) ==
    /\ turn[c] \in Kind
    /\ waiting' = waiting \cup {<<c, turn[c]>>}
    /\ turn' = [turn EXCEPT ![c] = Following[@]]
    /\ UNCHANGED <<held, handled>>

\* There is no queue, or an error, or the client is killed.
GiveUp(c) ==
    /\ turn[c] \in Kind
    /\ turn' = [turn EXCEPT ![c] = "done"]
    /\ UNCHANGED <<waiting, held, handled>>

\* A client's end is not taken before its text.
Take(m) ==
    /\ m \in waiting
    /\ m[2] = "end" => <<m[1], "text">> \notin waiting
    /\ waiting' = waiting \ {m}
    /\ held' = held \cup {m}
    /\ UNCHANGED <<turn, handled>>

Handle(m) ==
    /\ m \in held
    /\ held' = held \ {m}
    /\ handled' = handled \cup {m}
    /\ UNCHANGED turn

Show(m) == m[2] = "text" /\ Handle(m) /\ UNCHANGED waiting

\* A queue that is removed takes what waits in it along.
Stop(m) == m[2] = "end" /\ Handle(m) /\ waiting' \subseteq waiting

\* A server is killed with a message in its hand.
Die(m) ==
    /\ m \in held
    /\ held' = held \ {m}
    /\ UNCHANGED <<turn, waiting, handled>>

Next ==
    \/ \E c \in Client : Send(c) \/ GiveUp(c)
    \/ \E m \in Message : Take(m) \/ Show(m) \/ Stop(m) \/ Die(m)

Spec == Init /\ [][Next]_vars
=============================================================================
