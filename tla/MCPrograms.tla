----------------------------- MODULE MCPrograms -----------------------------
(* Instances of Programs for TLC. *)
EXTENDS Programs

MCPid == 1..5

MCServer == 1..2
MCClient == 3..4
MCRuns   == 1..2

\* 0, 1, 2, and one more that is below the higher limits.
MCFd     == 0..4
MCLimits == {-1, 2, 4, 5}
=============================================================================
