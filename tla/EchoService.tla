---------------------------- MODULE EchoService ----------------------------
(***************************************************************************)
(* What tcp_server.c, select_server.c and epoll_server.c promise, taken    *)
(* from what all three do: a client is sent its own text back, once and    *)
(* after the server has read it.  The server reads once and takes what has *)
(* come: only a client that says the rest of its text too late may lose the*)
(* echo.  The server stops only when it has read a text that begins with q,*)
(* and then nothing more is promised to those it has not read.             *)
(***************************************************************************)
EXTENDS Naturals

CONSTANT Client

VARIABLES text,    \* what each client has to say, in two parts
          said,    \* how many of them have been said
          heard,   \* and how many the server has read
          got,     \* what each client received: none, lost, or whose text
          up       \* the server runs

vars == <<text, said, heard, got, up>>

Init ==
    /\ text \in [Client -> {"q", "hello"}]
    /\ said = [c \in Client |-> 0]
    /\ heard = [c \in Client |-> 0]
    /\ got = [c \in Client |-> "none"]
    /\ up = TRUE

Lost(L) == got' = [c \in Client |-> IF c \in L THEN "lost" ELSE got[c]]

\* What is said to a server that has answered already, or stopped, is refused,
\* and the refusal may overtake the answer.
Say(c) ==
    /\ said[c] < 2
    /\ said' = [said EXCEPT ![c] = @ + 1]
    /\ \/ UNCHANGED got
       \/ (got[c] # "none" \/ ~up) /\ Lost({c})
    /\ UNCHANGED <<text, heard, up>>

Hear(c) ==
    /\ up
    /\ heard[c] = 0 /\ said[c] > 0
    /\ heard' = [heard EXCEPT ![c] = said[c]]
    /\ UNCHANGED <<text, said, got, up>>

Answer(c) ==
    /\ up
    /\ heard[c] > 0 /\ got[c] = "none"
    /\ \/ got' = [got EXCEPT ![c] = c]
       \/ heard[c] < said[c] /\ Lost({c})
    /\ UNCHANGED <<text, said, heard, up>>

Stop ==
    /\ up
    /\ \E c \in Client : heard[c] > 0 /\ text[c] = "q"
    /\ up' = FALSE
    /\ \E L \in SUBSET {c \in Client : heard[c] = 0} : Lost(L)
    /\ UNCHANGED <<text, said, heard>>

Next ==
    \/ Stop
    \/ \E c \in Client : Say(c) \/ Hear(c) \/ Answer(c)

Spec == Init /\ [][Next]_vars
=============================================================================
