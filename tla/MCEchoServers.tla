--------------------------- MODULE MCEchoServers ---------------------------
(* Instances of EchoServers for TLC. *)
EXTENDS EchoServers

CONSTANTS c1, c2, c3

MCFd == 4..6

MCAbsent == [tcp |-> {}, select |-> {c3}, epoll |-> {c3}, udp |-> {c3}]
=============================================================================
