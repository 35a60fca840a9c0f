----------------------------- MODULE FileModes -----------------------------
(***************************************************************************)
(* Permissions: File/chmod.c, which reads the mode of its first file,      *)
(* changes two bits of it and writes it back, and gives its second file a  *)
(* fixed mode; and the nine characters that File/list.c makes of a mode.   *)
(***************************************************************************)
EXTENDS Naturals

CONSTANTS Modes   \* the modes files may have: sets of bits

Bits == {"IRUSR", "IWUSR", "IXUSR", "IRGRP", "IWGRP", "IXGRP", "IROTH", "IWOTH", "IXOTH",
         "ISUID", "ISGID", "ISVTX"}

VARIABLES program, pc,
          arg,       \* argv[1] and argv[2]
          mode,      \* the mode of each file
          statbuf,   \* what stat() has told
          changed    \* another process has changed a mode

modes == <<arg, mode, statbuf, changed>>
vars  == <<program, pc, modes>>

File == {"4.txt", "5.txt"}

Init ==
    /\ program = "chmod"
    /\ pc = "stat"
    /\ arg \in [1..2 -> File]
    /\ mode \in [File -> Modes]
    /\ statbuf = {}
    /\ changed = FALSE

\* stat() fails if there is no such file.
Stat ==
    /\ pc = "stat"
    /\ \/ statbuf' = mode[arg[1]] /\ pc' = "first"
       \/ pc' = "error" /\ UNCHANGED statbuf
    /\ UNCHANGED <<program, arg, mode, changed>>

Chmod(f, m, place) ==
    /\ \/ mode' = [mode EXCEPT ![f] = m] /\ pc' = place
       \/ pc' = "error" /\ UNCHANGED mode
    /\ UNCHANGED <<program, arg, statbuf, changed>>

First  == pc = "first" /\ Chmod(arg[1], (statbuf \ {"IXGRP"}) \cup {"ISGID"}, "second")
Second == pc = "second" /\ Chmod(arg[2], {"IRUSR", "IWUSR", "IRGRP", "IROTH"}, "ok")

Step == Stat \/ First \/ Second

\* Another process changes a mode between two of the calls.
Environment ==
    /\ pc \in {"stat", "first", "second"} /\ ~changed
    /\ \E f \in File, m \in Modes : mode' = [mode EXCEPT ![f] = m]
    /\ changed' = TRUE
    /\ UNCHANGED <<program, pc, arg, statbuf>>

Next == Step \/ Environment

Spec == Init /\ [][Next]_vars

-----------------------------------------------------------------------------

\* list.c: permission[1] to permission[9].  The last one is set twice, and
\* the second time to x where others may not execute.
Permission(m) ==
    LET Is(bit, c) == IF bit \in m THEN c ELSE "-" IN
    << Is("IRUSR", "r"), Is("IWUSR", "w"), IF "IXUSR" \in m THEN "x" ELSE Is("ISUID", "S"),
       Is("IRGRP", "r"), Is("IWGRP", "w"), IF "IXGRP" \in m THEN "x" ELSE Is("ISGID", "S"),
       Is("IROTH", "r"), Is("IWOTH", "w"),
       IF "ISVTX" \in m THEN IF "IXOTH" \in m THEN "t" ELSE "T" ELSE "x" >>

-----------------------------------------------------------------------------
(* Correctness.                                                            *)

\* Every variable has its type.
TypeOK ==
    /\ pc \in {"stat", "first", "second", "ok", "error"}
    /\ mode \in [File -> SUBSET Bits]
    /\ statbuf \subseteq Bits

\* When chmod has ended well and nobody else has changed a mode, its second
\* file has the mode 0644 of the comments, and its first file, if that is
\* another one, the mode it had, with the group's set-id bit and without its
\* execute bit.  Of the letters list shows for them the first eight are those of
\* the comments; the last, wrong where others may not execute, is right where
\* they may.
Changed ==
    pc = "ok" /\ ~changed =>
      /\ mode[arg[2]] = {"IRUSR", "IWUSR", "IRGRP", "IROTH"}
      /\ \A n \in 1..8 : Permission(mode[arg[2]])[n] = <<"r", "w", "-", "r", "-", "-", "r", "-">>[n]
      /\ arg[1] # arg[2] =>
           /\ mode[arg[1]] = (statbuf \ {"IXGRP"}) \cup {"ISGID"}
           /\ Permission(mode[arg[1]])[6] = "S"
           /\ \A n \in (1..8) \ {6} :
                Permission(mode[arg[1]])[n] = Permission(statbuf)[n]
           /\ "IXOTH" \in statbuf =>
                Permission(mode[arg[1]])[9] = IF "ISVTX" \in statbuf THEN "t" ELSE "x"
=============================================================================
