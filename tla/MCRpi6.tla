------------------------------- MODULE MCRpi6 -------------------------------
(* Instances of Rpi6 for TLC. *)
EXTENDS Rpi6, TLC

CONSTANTS c1, c2

\* Two sensors, the joystick and the listener, and two descriptors for each
\* of two connections.
MCFd     == 3..10
MCSystem == {"pressure", "temperature", "joystick", "listener"}
MCSlot   == [pressure |-> 3, temperature |-> 4, joystick |-> 5, listener |-> 6]
MCSymmetry == Permutations(Client)
=============================================================================
