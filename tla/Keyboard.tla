------------------------------ MODULE Keyboard ------------------------------
(***************************************************************************)
(* kbhit(), which looks whether a key was pressed, and the loop around it: *)
(* that of File/hitkey.c, and that of rpi6.c, which puts the terminal back *)
(* in order each time.  The terminal and the flag O_NONBLOCK are not the   *)
(* program's own: the shell finds them as the program leaves them.         *)
(***************************************************************************)
EXTENDS Naturals, Sequences

CONSTANTS Key,      \* the keys there are, "q" among them
          MaxKeys   \* bound: keys pressed

VARIABLES program, pc,
          tty,        \* the terminal: cooked, or raw
          nonblock,   \* O_NONBLOCK of descriptor 0
          oldt, oldf, \* what kbhit() has found
          ch,         \* the key kbhit() has read
          queue,      \* keys the kernel has
          stdin,      \* keys stdin has
          pressed,    \* all keys pressed
          got         \* keys the loop has taken

terminal == <<tty, nonblock, oldt, oldf, ch, queue, stdin, pressed, got>>
vars     == <<program, pc, terminal>>

EOF == "EOF"

Init ==
    /\ program \in {"hitkey", "rpi6"}
    /\ pc = "raw"
    /\ tty = "cooked" /\ nonblock = FALSE
    /\ oldt = "cooked" /\ oldf = FALSE
    /\ ch = EOF
    /\ queue = <<>> /\ stdin = <<>> /\ pressed = <<>> /\ got = <<>>

Going == pc \notin {"end", "killed"}

-----------------------------------------------------------------------------
(* kbhit()                                                                 *)

\* tcgetattr(), tcsetattr() without ICANON and ECHO.
Raw ==
    /\ pc = "raw"
    /\ oldt' = tty
    /\ tty' = "raw"
    /\ pc' = "nonblock"
    /\ UNCHANGED <<program, nonblock, oldf, ch, queue, stdin, pressed, got>>

\* fcntl(0, F_GETFL), fcntl(0, F_SETFL) with O_NONBLOCK.
Nonblock ==
    /\ pc = "nonblock"
    /\ oldf' = nonblock
    /\ nonblock' = TRUE
    /\ pc' = "read"
    /\ UNCHANGED <<program, tty, oldt, ch, queue, stdin, pressed, got>>

\* getchar(): from stdin, which is filled from the kernel if it is empty.
Getchar ==
    /\ pc = "read"
    /\ LET keys == IF stdin = <<>> THEN queue ELSE stdin IN
         /\ ch' = IF keys = <<>> THEN EOF ELSE Head(keys)
         /\ stdin' = IF keys = <<>> THEN <<>> ELSE Tail(keys)
         /\ queue' = IF stdin = <<>> THEN <<>> ELSE queue
    /\ pc' = IF program = "rpi6" THEN "cooked" ELSE "unget"
    /\ UNCHANGED <<program, tty, nonblock, oldt, oldf, pressed, got>>

\* rpi6.c: tcsetattr(), fcntl() with what there was.
Cooked ==
    /\ pc = "cooked"
    /\ tty' = oldt
    /\ pc' = "block"
    /\ UNCHANGED <<program, nonblock, oldt, oldf, ch, queue, stdin, pressed, got>>

Block ==
    /\ pc = "block"
    /\ nonblock' = oldf
    /\ pc' = "unget"
    /\ UNCHANGED <<program, tty, oldt, oldf, ch, queue, stdin, pressed, got>>

\* Fault: the key is not put back, and kbhit() returns 0.
FaultyUngetc ==
    /\ pc = "unget"
    /\ pc' = "raw"
    /\ ch' = EOF
    /\ UNCHANGED <<program, tty, nonblock, oldt, oldf, queue, stdin, pressed, got>>

\* ungetc(); then hitkey.c returns 0 in any case, rpi6.c 1 if there was a key.
Ungetc ==
    /\ pc = "unget"
    /\ stdin' = IF ch = EOF THEN stdin ELSE <<ch>> \o stdin
    /\ ch' = EOF
    /\ pc' = IF program = "rpi6" /\ ch # EOF THEN "switch" ELSE "raw"
    /\ UNCHANGED <<program, tty, nonblock, oldt, oldf, queue, pressed, got>>

-----------------------------------------------------------------------------

\* switch(getchar()): q ends the loop.
Switch ==
    /\ pc = "switch"
    /\ got' = Append(got, Head(stdin))
    /\ stdin' = Tail(stdin)
    /\ pc' = IF Head(stdin) = "q" THEN "end" ELSE "raw"
    /\ UNCHANGED <<program, tty, nonblock, oldt, oldf, ch, queue, pressed>>

Step == Raw \/ Nonblock \/ Getchar \/ Cooked \/ Block \/ Ungetc \/ Switch

\* The user presses a key.
Press(k) ==
    /\ Going /\ Len(pressed) < MaxKeys
    /\ pressed' = Append(pressed, k)
    /\ queue' = Append(queue, k)
    /\ UNCHANGED <<program, pc, tty, nonblock, oldt, oldf, ch, stdin, got>>

Killed == Going /\ pc' = "killed" /\ UNCHANGED <<program, terminal>>

Environment == Killed \/ \E k \in Key : Press(k)

Next == Step \/ Environment

Spec == Init /\ [][Next]_vars

-----------------------------------------------------------------------------
(* Correctness.                                                            *)

\* Every variable has its type.
TypeOK ==
    /\ pc \in {"raw", "nonblock", "read", "cooked", "block", "unget", "switch", "end", "killed"}
    /\ tty \in {"cooked", "raw"} /\ oldt \in {"cooked", "raw"}
    /\ nonblock \in BOOLEAN /\ oldf \in BOOLEAN
    /\ ch \in Key \cup {EOF}
    /\ \A s \in {queue, stdin, pressed, got} : s \in Seq(Key)

\* No key is lost or overtakes another between the terminal, stdin and the
\* loop, however often kbhit() takes one out and puts it back.  rpi6.c leaves
\* kbhit(), and ends on q, with the terminal and the flag as they were.
Keys ==
    /\ got \o (IF ch = EOF THEN <<>> ELSE <<ch>>) \o stdin \o queue = pressed
    /\ program = "rpi6" /\ pc \in {"unget", "switch", "end"} => tty = "cooked" /\ ~nonblock

\* The loop goes on until q is pressed; that of hitkey.c goes on for ever.
Waits ==
    \/ program = "hitkey"
    \/ \A n \in DOMAIN pressed : pressed[n] # "q"
=============================================================================
