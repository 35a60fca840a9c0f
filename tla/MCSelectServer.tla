--------------------------- MODULE MCSelectServer ---------------------------
(* Instances of SelectServer for TLC. *)
EXTENDS SelectServer

CONSTANTS c1, c2

MCFd == 4..6
=============================================================================
