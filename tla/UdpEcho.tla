------------------------------- MODULE UdpEcho -------------------------------
(***************************************************************************)
(* NetworkProgramming/udp_server.c and udp_client.c: a client types a      *)
(* line, sends it in a datagram and waits in recvfrom(), without a timeout *)
(* and without looking at the sender, for the datagram to come back.  A    *)
(* line that starts with q ends both.  The network loses, reorders and     *)
(* repeats datagrams.                                                      *)
(***************************************************************************)
EXTENDS Integers

CONSTANTS Client,
          Lines,      \* bound: lines that each client types
          Faults      \* bound: datagrams lost or repeated, and servers killed

VARIABLES requests, answers,   \* the datagrams under way, each way
          spc, mesg,           \* where the server is, and what it holds
          cpc,                 \* where each client is
          typed, got,          \* lines it has typed, and the line it was shown last
          quitters,            \* clients that have typed a q
          lost, repeated       \* how many datagrams were lost or were repeated

network == <<requests, answers>>
server  == <<spc, mesg>>
client  == <<cpc, typed, got, quitters>>
vars    == <<network, server, client, lost, repeated>>

Text     == {"line", "q"}
Datagram == [from : Client, n : 1..Lines, text : Text]
Nothing  == [from |-> "nobody"]

Init ==
    /\ requests = {} /\ answers = {}
    /\ spc = "off" /\ mesg = Nothing
    /\ cpc = [c \in Client |-> "off"]
    /\ typed = [c \in Client |-> 0] /\ got = [c \in Client |-> 0]
    /\ quitters = {}
    /\ lost = 0 /\ repeated = 0

-----------------------------------------------------------------------------
(* The network: a datagram that is taken may stay for a second delivery.    *)

Taken(net, d) ==
    \/ net' = net \ {d} /\ UNCHANGED repeated
    \/ /\ lost + repeated < Faults
       /\ repeated' = repeated + 1
       /\ UNCHANGED net

Lose ==
    /\ lost + repeated < Faults
    /\ lost' = lost + 1
    /\ \/ \E d \in requests : requests' = requests \ {d} /\ UNCHANGED answers
       \/ \E d \in answers : answers' = answers \ {d} /\ UNCHANGED requests
    /\ UNCHANGED <<server, client, repeated>>

\* Nobody has the port any more, which no program is told of.  (Bound: it is
\* not one of the Faults.)
Refuse ==
    /\ \/ /\ spc = "off"
          /\ \E d \in requests : requests' = requests \ {d}
          /\ lost' = lost + 1
          /\ UNCHANGED answers
       \/ /\ \E d \in answers : cpc[d.from] = "done" /\ answers' = answers \ {d}
          /\ UNCHANGED <<requests, lost>>
    /\ UNCHANGED <<server, client, repeated>>

-----------------------------------------------------------------------------
(* The server                                                              *)

Start ==
    /\ spc = "off"
    /\ spc' = "recv"
    /\ UNCHANGED <<network, mesg, client, lost, repeated>>

Receive ==
    /\ spc = "recv"
    /\ \E d \in requests : mesg' = d /\ Taken(requests, d)
    /\ spc' = "send"
    /\ UNCHANGED <<answers, client, lost>>

\* sendto(), and the test at the end of the loop; close() at the end of all.
EchoTo(receivers) ==
    /\ spc = "send"
    /\ answers' = answers \cup {[mesg EXCEPT !.from = c] : c \in receivers}
    /\ IF mesg.text = "q"
       THEN spc' = "off" /\ mesg' = Nothing
       ELSE spc' = "recv" /\ UNCHANGED mesg
    /\ UNCHANGED <<requests, client, lost, repeated>>

\* Fault: the echo goes to everybody the server knows.
FaultyEcho == EchoTo({c \in Client : cpc[c] # "off"})

Echo == EchoTo({mesg.from})

\* What the socket of the server had received is gone with it.
Kill ==
    /\ spc # "off" /\ lost + repeated < Faults
    /\ spc' = "off" /\ mesg' = Nothing
    /\ lost' = lost + 1
    /\ UNCHANGED <<network, client, repeated>>

-----------------------------------------------------------------------------
(* The clients                                                             *)

Open(c) ==
    /\ cpc[c] = "off"
    /\ cpc' = [cpc EXCEPT ![c] = "type"]
    /\ UNCHANGED <<network, server, typed, got, quitters, lost, repeated>>

\* fgets() and sendto().
Type(c, text) ==
    /\ cpc[c] = "type" /\ typed[c] < Lines
    /\ typed' = [typed EXCEPT ![c] = @ + 1]
    /\ requests' = requests \cup {[from |-> c, n |-> typed[c] + 1, text |-> text]}
    /\ quitters' = IF text = "q" THEN quitters \cup {c} ELSE quitters
    /\ cpc' = [cpc EXCEPT ![c] = "wait"]
    /\ UNCHANGED <<answers, server, got, lost, repeated>>

\* recvfrom() and fputs(), and the test at the end of the loop, which looks at
\* what has come back.
Show(c) ==
    /\ cpc[c] = "wait"
    /\ \E d \in answers :
          /\ d.from = c
          /\ got' = [got EXCEPT ![c] = d.n]
          /\ cpc' = [cpc EXCEPT ![c] = IF d.text = "q" THEN "done" ELSE "type"]
          /\ Taken(answers, d)
    /\ UNCHANGED <<requests, server, typed, quitters, lost>>

-----------------------------------------------------------------------------

Server == Receive \/ Echo

\* What happens to the network and to the server.
Outside == Lose \/ Refuse \/ Start \/ Kill

Environment(c) == Open(c) \/ Show(c) \/ \E text \in Text : Type(c, text)

Next == Server \/ Outside \/ \E c \in Client : Environment(c)

Spec == Init /\ [][Next]_vars

-----------------------------------------------------------------------------
(* Correctness.                                                            *)

\* Every variable has its type, and nothing is under way that nobody has typed.
TypeOK ==
    /\ requests \subseteq Datagram /\ answers \subseteq Datagram
    /\ \A d \in requests \cup answers : d.n <= typed[d.from]
    /\ spc \in {"off", "recv", "send"} /\ mesg \in Datagram \cup {Nothing}
    /\ cpc \in [Client -> {"off", "type", "wait", "done"}]
    /\ typed \in [Client -> 0..Lines] /\ got \in [Client -> 0..Lines]
    /\ quitters \subseteq Client
    /\ lost \in Nat /\ repeated \in 0..Faults

\* Without numbers in the datagrams, and whatever is lost or reordered, a
\* client that types again has been shown the line it has typed last, as long
\* as the network repeats no datagram.
InStep == repeated = 0 => \A c \in Client : cpc[c] \in {"type", "done"} => got[c] = typed[c]

\* Repeated datagrams or not, only a q of its own ends a client.
OwnQuit == \A c \in Client : cpc[c] = "done" => c \in quitters

\* What a client that waits may count on: it goes on, unless a datagram is lost,
\* with a server that was killed maybe, or the server has stopped at a q before
\* it took the line.
Served(c) ==
    \/ cpc[c] # "wait" \/ lost > 0
    \/ spc = "off" /\ \E d \in requests : d.from = c
=============================================================================
