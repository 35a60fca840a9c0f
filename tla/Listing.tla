------------------------------ MODULE Listing ------------------------------
(***************************************************************************)
(* File/list.c: listDir() goes into a directory, shows a line for every    *)
(* entry, calls itself for the subdirectories and goes back with "..".     *)
(* Every name is looked up from where the process is, and chdir(), lstat() *)
(* and getpwuid() are not tested.  Meanwhile entries may be removed.       *)
(***************************************************************************)
EXTENDS Naturals, Sequences, FiniteSets, SequencesExt

CONSTANTS Tree,         \* the paths there are at first, sequences of names
          Dirs,         \* those of directories
          Args,         \* those list may be started for
          MaxOpen,      \* how many directories may be open at once
          MaxRemoved    \* bound: entries removed by others

VARIABLES program, pc,
          argv,      \* the directory list is started for; <<>> stands for "."
          exists,    \* the paths there are
          closed,    \* directories that cannot be searched
          secret,    \* directories that cannot be read
          foreign,   \* entries whose owner is in no list of users
          cwd,       \* where the process is, Outside if it has left the tree
          frames,    \* the calls of listDir(), the innermost one last
          lines      \* what has been shown

listing == <<argv, exists, closed, secret, foreign, cwd, frames, lines>>
vars    == <<program, pc, listing>>

Start   == <<>>        \* where the program is started
Outside == <<"..">>
Nothing == <<"zero">>  \* statBuf before the first lstat()

Parent(d)   == IF d \in {Start, Outside} THEN Outside ELSE Front(d)
Children(d) == {n \in {p[Len(p)] : p \in Tree \ {Start}} : Append(d, n) \in exists}

\* What the kernel finds from the process's directory: every directory on the
\* way has to let itself be searched.
Found(path) == path \in exists /\ \A n \in Len(cwd)..Len(path) - 1 : SubSeq(path, 1, n) \notin closed
Path(name)  == IF name = "." THEN cwd ELSE Append(cwd, name)

Init ==
    /\ program = "list"
    /\ pc = "open"
    /\ argv \in Args
    /\ exists = Tree
    /\ closed \in SUBSET (Dirs \ {Start})
    /\ secret \in SUBSET (Dirs \ {Start})
    /\ foreign \in {{}} \cup {{p} : p \in Tree \ Dirs}
    /\ cwd = Start
    /\ frames = <<>>
    /\ lines = {}

Top == Last(frames)
Depth == Len(frames)
SetTop(f) == frames' = [frames EXCEPT ![Depth] = f]

\* The directory that is opened next: the argument, or a subdirectory.
Target == IF frames = <<>> THEN argv ELSE Append(cwd, Head(Top.dirName))

\* opendir(), which needs a descriptor; if it fails, -1 is returned and the
\* caller leaves its loop.
Opendir ==
    /\ pc = "open"
    /\ IF Found(Target) /\ Target \in Dirs \ secret /\ Depth < MaxOpen
       THEN /\ frames' = Append(frames, [dir |-> Target, todo |-> {}, stat |-> Nothing, dirName |-> <<>>])
            /\ pc' = "chdir"
       ELSE IF frames = <<>>
       THEN pc' = "end" /\ UNCHANGED frames
       ELSE pc' = "close" /\ UNCHANGED frames
    /\ UNCHANGED <<program, argv, exists, closed, secret, foreign, cwd, lines>>

\* chdir(arg): the process stays where it is if it fails.  The first readdir()
\* fetches the entries, which may be gone when their turn comes.
Chdir ==
    /\ pc = "chdir"
    /\ cwd' = IF Found(Top.dir) /\ Top.dir \notin closed THEN Top.dir ELSE cwd
    /\ SetTop([Top EXCEPT !.todo = Children(Top.dir) \cup {"."}])
    /\ pc' = "read"
    /\ UNCHANGED <<program, argv, exists, closed, secret, foreign, lines>>

\* readdir(), lstat() and the line.  If lstat() fails statBuf stays what it
\* was for the entry before.  getpwuid() is NULL for an owner in no list.
\* The entry ".." is like "." and left out.
Readdir ==
    /\ pc = "read"
    /\ \E name \in Top.todo :
         LET ok   == IF name = "." THEN cwd \notin closed ELSE Found(Append(cwd, name))
             stat == IF ok THEN Path(name) ELSE Top.stat
         IN
         IF stat \in foreign
         THEN pc' = "crashed" /\ UNCHANGED <<frames, lines>>
         ELSE /\ lines' = lines \cup {[of |-> IF name = "." THEN Top.dir ELSE Append(Top.dir, name),
                                       stat |-> stat]}
              /\ SetTop([Top EXCEPT
                   !.todo = @ \ {name},
                   !.stat = stat,
                   !.dirName = IF stat \in Dirs /\ name # "." THEN Append(@, name) ELSE @])
              /\ UNCHANGED pc
    /\ UNCHANGED <<program, argv, exists, closed, secret, foreign, cwd>>

\* Where a call goes on: with its next subdirectory, if there is one.
Subdirs(call) == IF call.dirName = <<>> THEN "close" ELSE "open"

ReadEnd ==
    /\ pc = "read"
    /\ Top.todo = {}
    /\ pc' = Subdirs(Top)
    /\ UNCHANGED <<program, listing>>

\* Fault: the process does not go back.
FaultyClosedir ==
    /\ pc = "close"
    /\ UNCHANGED cwd
    /\ LET rest == Front(frames) IN
         IF rest = <<>>
         THEN frames' = rest /\ pc' = "end"
         ELSE LET caller == [Last(rest) EXCEPT !.dirName = Tail(@)] IN
              /\ frames' = [rest EXCEPT ![Len(rest)] = caller]
              /\ pc' = Subdirs(caller)
    /\ UNCHANGED <<program, argv, exists, closed, secret, foreign, lines>>

\* closedir(), chdir("..") and return 0: the caller goes on with the next
\* subdirectory.
Closedir ==
    /\ pc = "close"
    /\ cwd' = IF cwd \in closed THEN cwd ELSE Parent(cwd)
    /\ LET rest == Front(frames) IN
         IF rest = <<>>
         THEN frames' = rest /\ pc' = "end"
         ELSE LET caller == [Last(rest) EXCEPT !.dirName = Tail(@)] IN
              /\ frames' = [rest EXCEPT ![Len(rest)] = caller]
              /\ pc' = Subdirs(caller)
    /\ UNCHANGED <<program, argv, exists, closed, secret, foreign, lines>>

Step == Opendir \/ Chdir \/ Readdir \/ ReadEnd \/ Closedir

\* Another process removes an entry.
Environment ==
    /\ pc \notin {"end", "crashed"}
    /\ Cardinality(Tree \ exists) < MaxRemoved
    /\ \E p \in exists \ {Start} :
         /\ Children(p) = {}
         /\ exists' = exists \ {p}
    /\ UNCHANGED <<program, pc, argv, closed, secret, foreign, cwd, frames, lines>>

Next == Step \/ Environment

Spec == Init /\ [][Next]_vars

-----------------------------------------------------------------------------
(* Correctness.                                                            *)

\* Every variable has its type.
TypeOK ==
    /\ pc \in {"open", "chdir", "read", "close", "end", "crashed"}
    /\ argv \in Args /\ exists \subseteq Tree
    /\ cwd \in Dirs \cup {Outside}
    /\ Depth <= MaxOpen
    /\ \A n \in 1..Depth : frames[n].dir \in Dirs /\ frames[n].stat \in Tree \cup {Nothing}

\* Directories listDir() may fail to go into although it has opened them.
Barred == closed \cup (Dirs \ exists)

\* A line shows the attributes of its own entry, unless that was removed or
\* some directory could be opened but not entered: then names are looked up
\* elsewhere, and a line may show another file's attributes.  As long as there
\* is no such directory the process is where its innermost call is, also when
\* a subdirectory's call has returned, and a listing of one name's directory
\* ends where it started; and everything below the argument is shown if nothing
\* was removed either, all can be read and the descriptors suffice.
Listed ==
    /\ \A l \in lines : l.stat # l.of => l.of \notin exists \/ Barred # {}
    /\ Barred = {} =>
         /\ pc \in {"open", "read", "close"} /\ frames # <<>> => cwd = Top.dir
         /\ pc = "end" /\ Len(argv) = 1 => cwd = Start
    /\ pc = "end" /\ Barred \cup secret = {} /\ exists = Tree
         /\ (\A d \in Dirs : Len(d) < MaxOpen + Len(argv))
       => \A p \in Tree : Len(p) >= Len(argv) /\ SubSeq(p, 1, Len(argv)) = argv
            => \E l \in lines : l.of = p
=============================================================================
