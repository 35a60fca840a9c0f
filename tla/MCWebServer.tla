---------------------------- MODULE MCWebServer ----------------------------
(* Instances of WebServer for TLC. *)
EXTENDS WebServer, TLC

CONSTANTS c1, c2, c3

MCKind == Gets \cup {"post", "other"}
MCFd   == 4..6
MCSymmetry == Permutations(Client)
=============================================================================
