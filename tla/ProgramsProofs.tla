--------------------------- MODULE ProgramsProofs ---------------------------
(***************************************************************************)
(* Proofs about Programs.  The invariant is that of the program which was  *)
(* started, and there is a section for each module whose program that may  *)
(* be: what its steps keep, and what follows for the properties.           *)
(***************************************************************************)
EXTENDS Programs, WellFoundedInduction, TLAPS

USE DEF Unborn, Zombie, Gone, First, Adopter, Status,
        SharedMemory!Unborn, SharedMemory!Zombie, SharedMemory!Gone, SharedMemory!First,
        SharedMemory!Adopter, SharedMemory!Status,
        SysvSem!Unborn, SysvSem!Zombie, SysvSem!Gone, SysvSem!First, SysvSem!Adopter,
        SysvSem!Status

-----------------------------------------------------------------------------
(* The process table.                                                      *)

Dead == {Unborn, Zombie, Gone}

\* Nobody is the child of a process that has not started, and only who has
\* ended has a status.
Family ==
    \A p \in Pid : pc[p] = Unborn => parent[p] = Adopter /\ \A q \in Pid : parent[q] # p

Ended == \A p \in Pid : exit[p] # "none" => pc[p] \in {Zombie, Gone}

TableInv(Places) == TableTypeOK /\ pc \in [Pid -> Places] /\ Family /\ Ended

LEMMA TableInitInv ==
    ASSUME NEW Roots, NEW start, TableInit(Roots, start), sigchld \in {"default", "ignored"}
    PROVE  /\ TableInv({start, Unborn})
           /\ \A p \in Pid : Children(p) = {}
BY PidAssumption DEF TableInit, TableInv, TableTypeOK, Family, Ended, Children

LEMMA TableWider ==
    ASSUME NEW A, NEW B, A \subseteq B, TableInv(A) PROVE TableInv(B)
BY DEF TableInv

LEMMA GotoTable ==
    ASSUME NEW Places, TableInv(Places), NEW p \in Pid, Running(p), NEW place \in Places \ Dead,
           \/ Goto(p, place)
           \/ \E call : Fails(p, call, place)
    PROVE  /\ TableInv(Places)' /\ pc' = [pc EXCEPT ![p] = place]
           /\ UNCHANGED <<program, sigchld, parent, exit, killed>> /\ failed \subseteq failed'
           /\ \A q \in Pid : Children(q)' = Children(q)
           /\ Orphans' = Orphans
<1>1. /\ pc' = [pc EXCEPT ![p] = place] /\ UNCHANGED <<program, sigchld, parent, exit, killed>>
      /\ failed \subseteq failed'
  BY DEF Goto, Fails
<1>2. TableInv(Places)' BY <1>1 DEF TableInv, TableTypeOK, Family, Ended, Running, Dead
<1>3. \A q \in Pid : Children(q)' = Children(q)
  BY <1>1 DEF TableInv, Children, Running, Dead
<1>4. Orphans' = Orphans BY <1>1 DEF TableInv, Orphans, Running, Dead
<1> QED BY <1>1, <1>2, <1>3, <1>4

LEMMA ForkTable ==
    ASSUME NEW Places, TableInv(Places), NEW p \in Pid, Running(p), NEW q \in Pid,
           NEW here \in Places \ Dead, NEW there \in Places \ Dead, ForkAs(p, q, here, there)
    PROVE  /\ TableInv(Places)' /\ pc' = [pc EXCEPT ![p] = here, ![q] = there]
           /\ pc[q] = Unborn /\ q # p /\ parent'[q] = p /\ exit[q] = "none"
           /\ UNCHANGED <<program, sigchld, exit, killed, failed>>
           /\ Children(q) = {} /\ Children(p)' = Children(p) \cup {q}
           /\ \A r \in Pid \ {p} : Children(r)' = Children(r)
           /\ Orphans' \subseteq Orphans
<1>1. /\ pc[q] = Unborn /\ pc' = [pc EXCEPT ![p] = here, ![q] = there]
      /\ parent' = [parent EXCEPT ![q] = p] /\ UNCHANGED <<program, sigchld, exit, killed, failed>>
  BY DEF ForkAs
<1>2. q # p BY <1>1 DEF Running
<1>3. /\ pc'[p] = here /\ pc'[q] = there /\ \A r \in Pid \ {p, q} : pc'[r] = pc[r]
      /\ parent'[q] = p /\ \A r \in Pid \ {q} : parent'[r] = parent[r]
  BY <1>1, <1>2 DEF TableInv, TableTypeOK
<1>4. \A r \in Pid : parent[r] # q BY <1>1 DEF TableInv, Family
<1>5. Family' BY <1>1, <1>3, <1>4 DEF TableInv, Family, Running, Dead
<1>6. Ended' BY <1>1, <1>3 DEF TableInv, Ended, Running
<1>7. TableInv(Places)' BY <1>1, <1>5, <1>6 DEF TableInv, TableTypeOK, Dead
<1>8. Children(q) = {} /\ Children(p)' = Children(p) \cup {q}
  BY <1>1, <1>2, <1>3, <1>4 DEF Children, Running, Dead
<1>9. \A r \in Pid \ {p} : Children(r)' = Children(r)
  BY <1>1, <1>2, <1>3, <1>4 DEF Children, Running, Dead, TableInv, Family
<1>10. Orphans' \subseteq Orphans
  BY <1>1, <1>2, <1>3, PidAssumption DEF Orphans, Running, Dead
<1> QED BY <1>1, <1>2, <1>3, <1>6, <1>7, <1>8, <1>9, <1>10 DEF TableInv, Ended

\* Who ends leaves no children, but perhaps orphans.
LEMMA EndsTable ==
    ASSUME NEW Places, TableInv(Places), {Zombie, Gone} \subseteq Places, NEW p \in Pid, Running(p),
           NEW s \in Status \ {"none"}, Exit(p, s) \/ (s = "signal" /\ Kill(p))
    PROVE  /\ TableInv(Places)' /\ pc'[p] \in {Zombie, Gone}
           /\ parent[p] # Adopter /\ sigchld = "default" => pc'[p] = Zombie
           /\ \A q \in Pid \ {p} : pc'[q] = pc[q] \/ (pc[q] = Zombie /\ pc'[q] = Gone)
           /\ \A q \in Pid \ {p} : parent[q] # p => pc'[q] = pc[q] /\ parent'[q] = parent[q]
           /\ parent[p] # p => parent'[p] = parent[p]
           /\ exit' = [exit EXCEPT ![p] = s] /\ UNCHANGED <<program, sigchld, failed>>
           /\ killed \subseteq killed' /\ (killed' = killed \/ p \in killed')
           /\ Children(p)' = {}
           /\ \A r \in Pid \ {p} : Children(r)' \subseteq Children(r)
           /\ Orphans' \subseteq Orphans \cup Children(p)
<1>1. /\ Ends(p, s) /\ killed \subseteq killed' /\ (killed' = killed \/ p \in killed')
      /\ killed' \subseteq killed \cup {p}
  BY DEF Exit, Kill
<1>2. /\ pc'[p] = (IF parent[p] = Adopter \/ sigchld = "ignored" THEN Gone ELSE Zombie)
      /\ \A q \in Pid \ {p} : pc'[q] = IF parent[q] = p /\ pc[q] = Zombie THEN Gone ELSE pc[q]
      /\ pc' \in [Pid -> Places]
  <2>1. pc' = [q \in Pid |->
                 CASE q = p -> IF parent[p] = Adopter \/ sigchld = "ignored" THEN Gone ELSE Zombie
                   [] parent[q] = p /\ pc[q] = Zombie -> Gone
                   [] OTHER -> pc[q]]
    BY <1>1 DEF Ends
  <2>2. pc'[p] = IF parent[p] = Adopter \/ sigchld = "ignored" THEN Gone ELSE Zombie
    BY <2>1 DEF Running
  <2>3. \A q \in Pid \ {p} : pc'[q] = IF parent[q] = p /\ pc[q] = Zombie THEN Gone ELSE pc[q]
    BY <2>1
  <2>4. \A q \in Pid : pc'[q] \in Places BY <2>2, <2>3 DEF TableInv
  <2> QED BY <2>1, <2>2, <2>3, <2>4
<1>3. /\ \A q \in Pid : parent'[q] = IF parent[q] = p /\ pc[q] # Gone THEN Adopter ELSE parent[q]
      /\ parent' \in [Pid -> Pid \cup {Adopter}]
      /\ exit' = [exit EXCEPT ![p] = s] /\ UNCHANGED <<program, sigchld, failed>>
  BY <1>1 DEF Ends, TableInv, TableTypeOK
<1>4. TableTypeOK' BY <1>1, <1>3 DEF TableInv, TableTypeOK
<1>5. Family' BY <1>2, <1>3, PidAssumption DEF TableInv, Family, Running
<1>6. Ended' BY <1>2, <1>3 DEF TableInv, TableTypeOK, Ended
<1>7. Children(p)' = {}
  <2>1. \A q \in Pid : parent'[q] = p => q # p /\ pc[q] = Gone
    BY <1>3, PidAssumption DEF Running
  <2> QED BY <1>2, <2>1 DEF Children
<1>8. \A r \in Pid \ {p} : Children(r)' \subseteq Children(r)
  BY <1>2, <1>3, PidAssumption DEF Children, Running
<1>9. Orphans' \subseteq Orphans \cup Children(p)
  BY <1>2, <1>3, PidAssumption DEF Orphans, Children, Running
<1> QED BY <1>1, <1>2, <1>3, <1>4, <1>5, <1>6, <1>7, <1>8, <1>9, PidAssumption DEF TableInv

LEMMA ReapTable ==
    ASSUME NEW Places, TableInv(Places), Gone \in Places, NEW p \in Pid, Running(p), NEW q \in Pid,
           NEW x, NEW here \in Places \ Dead, Reap(p, x, q, here)
    PROVE  /\ TableInv(Places)' /\ pc' = [pc EXCEPT ![p] = here, ![q] = Gone]
           /\ q # p /\ q \in Awaited(p, x) /\ q \in Children(p) /\ pc[q] = Zombie
           /\ UNCHANGED <<program, sigchld, parent, exit, killed, failed>>
           /\ Children(p)' = Children(p) \ {q}
           /\ \A r \in Pid \ {p} : Children(r)' = Children(r)
           /\ Orphans' = Orphans
<1>1. /\ q \in Awaited(p, x) /\ pc[q] = Zombie /\ pc' = [pc EXCEPT ![p] = here, ![q] = Gone]
      /\ UNCHANGED <<program, sigchld, parent, exit, killed, failed>>
  BY DEF Reap
<1>2. q # p /\ q \in Children(p) BY <1>1 DEF Running, Awaited
<1>3. /\ pc'[p] = here /\ pc'[q] = Gone /\ \A r \in Pid \ {p, q} : pc'[r] = pc[r]
      /\ parent[q] = p
  BY <1>1, <1>2 DEF TableInv, Children
<1>4. TableInv(Places)'
  BY <1>1, <1>3 DEF TableInv, TableTypeOK, Family, Ended, Running, Dead
<1>5. /\ Children(p)' = Children(p) \ {q}
      /\ \A r \in Pid \ {p} : Children(r)' = Children(r)
  BY <1>1, <1>2, <1>3 DEF Children, Running, Dead
<1>6. Orphans' = Orphans BY <1>1, <1>2, <1>3 DEF Orphans, Running, Dead
<1> QED BY <1>1, <1>2, <1>4, <1>5, <1>6

\* waitpid(x), whether there is a child to reap or not.
LEMMA WaitTable ==
    ASSUME NEW Places, TableInv(Places), Gone \in Places, NEW p \in Pid, Running(p),
           NEW x, NEW here \in Places \ Dead,
           (\E q \in Pid : Reap(p, x, q, here)) \/ (NoChild(p, x) /\ Goto(p, here))
    PROVE  /\ TableInv(Places)' /\ pc'[p] = here
           /\ \A r \in Pid \ {p} :
                pc'[r] = pc[r] \/ (r \in Awaited(p, x) /\ pc[r] = Zombie /\ pc'[r] = Gone)
           /\ UNCHANGED <<program, sigchld, parent, exit, killed>> /\ failed' = failed
           /\ Children(p)' \subseteq Children(p) /\ x \notin Children(p)'
           /\ \A r \in Pid \ {p} : Children(r)' = Children(r)
           /\ Orphans' = Orphans
<1>1. CASE \E q \in Pid : Reap(p, x, q, here)
  <2>1. PICK q \in Pid : Reap(p, x, q, here) BY <1>1
  <2>2. /\ TableInv(Places)' /\ pc' = [pc EXCEPT ![p] = here, ![q] = Gone]
        /\ q # p /\ q \in Awaited(p, x) /\ q \in Children(p) /\ pc[q] = Zombie
        /\ UNCHANGED <<program, sigchld, parent, exit, killed, failed>>
        /\ Children(p)' = Children(p) \ {q}
        /\ \A r \in Pid \ {p} : Children(r)' = Children(r)
        /\ Orphans' = Orphans
    BY <2>1, ReapTable
  <2>3. x \in Pid => q = x BY <2>2 DEF Awaited
  <2>4. x \notin Children(p)' BY <2>2, <2>3 DEF Children
  <2> QED BY <2>2, <2>4 DEF TableInv
<1>2. CASE NoChild(p, x) /\ Goto(p, here)
  <2>1. /\ TableInv(Places)' /\ pc' = [pc EXCEPT ![p] = here]
        /\ UNCHANGED <<program, sigchld, parent, exit, killed>> /\ failed' = failed
        /\ \A q \in Pid : Children(q)' = Children(q)
        /\ Orphans' = Orphans
    BY <1>2, GotoTable DEF Goto
  <2>2. x \notin Children(p) BY <1>2 DEF NoChild, Awaited
  <2> QED BY <2>1, <2>2 DEF TableInv
<1> QED BY <1>1, <1>2

LEMMA TableFrame ==
    ASSUME NEW Places, TableInv(Places), UNCHANGED table PROVE TableInv(Places)'
BY DEF table, TableInv, TableTypeOK, Family, Ended

-----------------------------------------------------------------------------
(* shm.c: any number of turns and of kills, and whatever fails.            *)

USE DEF SharedMemory!Seg, SharedMemory!Stale, SharedMemory!Fresh

ShmPlaces == {Unborn, Zombie, Gone, "fork", "get", "attach", "loop", "remove", "end"}

ShmMaps ==
    /\ pc \in [Pid -> ShmPlaces]
    /\ parent \in [Pid -> Pid \cup {Adopter}]
    /\ key \in SharedMemory!Seg \cup {0}
    /\ shmid \in [Pid -> SharedMemory!Seg \cup {0}]
    /\ shmmem \in [Pid -> SharedMemory!Seg \cup {0}]

\* There is one fork(), and so one child.
ShmOneChild ==
    /\ \A p \in Pid : pc[p] = "fork" => p = First
    /\ pc[First] = "fork" => \A p \in Pid \ {First} : pc[p] = Unborn
    /\ \A p, q \in Pid \ {First} : pc[p] # Unborn /\ pc[q] # Unborn => p = q

ShmUsing(p) == pc[p] \in {"attach", "loop"}

\* What a process has looked up is what the other one looks up, or has.
ShmShared ==
    /\ \A p \in Pid : ShmUsing(p) => shmid[p] # 0
    /\ \A p \in Pid : pc[p] = "loop" => shmmem[p] = shmid[p]
    /\ \A p, q \in Pid : p # q /\ ShmUsing(p) /\ ShmUsing(q) => shmid[p] = shmid[q]
    /\ \A p, q \in Pid : pc[p] = "get" /\ ShmUsing(q) => key = shmid[q]

\* Somebody will remove what has the key.
ShmHolds(p) == pc[p] \in {"attach", "loop", "remove"} /\ shmid[p] = key

ShmRemoved ==
    killed = {} /\ failed = {} /\ key # 0 =>
      pc[First] \in {"fork", "get"} \/ \E p \in Pid : ShmHolds(p)

ShmInv == ShmMaps /\ ShmOneChild /\ ShmShared /\ ShmRemoved

LEMMA ShmInvInit == SharedMemory!Init => ShmInv
BY PidAssumption DEF SharedMemory!Init, SharedMemory!TableInit, ShmInv, ShmMaps, ShmOneChild,
    ShmUsing, ShmShared, ShmRemoved, ShmHolds, ShmPlaces

\* A step of p, after which p is at a place, and which leaves the rest of the
\* two processes' business alone, keeps OneChild.
LEMMA ShmMoveOneChild ==
    ASSUME ShmMaps, ShmOneChild, NEW p \in Pid, NEW place \in ShmPlaces, pc[p] # Unborn, pc[p] # "fork",
           place # "fork", pc' = [pc EXCEPT ![p] = place]
    PROVE  ShmOneChild'
BY PidAssumption DEF ShmMaps, ShmOneChild

\* What the end of a process does to the table.
LEMMA ShmEndMoves ==
    ASSUME ShmMaps, NEW p \in Pid, NEW s, SharedMemory!Ends(p, s)
    PROVE  /\ pc' \in [Pid -> ShmPlaces]
           /\ pc'[p] \in {Zombie, Gone}
           /\ \A q \in Pid \ {p} : pc'[q] = pc[q] \/ (pc[q] = Zombie /\ pc'[q] = Gone)
           /\ parent' \in [Pid -> Pid \cup {Adopter}]
BY DEF ShmMaps, SharedMemory!Ends, ShmPlaces

\* An end keeps what the others have, if p held nothing that was still there.
LEMMA ShmEndKeeps ==
    ASSUME ShmInv, NEW p \in Pid, NEW s, SharedMemory!Ends(p, s), pc[p] # Unborn,
           shmmem' = [shmmem EXCEPT ![p] = 0], UNCHANGED <<key, shmid>>,
           killed' # {} \/ (killed' = killed /\ pc[p] \notin {"fork", "get"} /\ ~ShmHolds(p))
                        \/ (killed' = killed /\ pc[p] = "get" /\ key = 0)
    PROVE  ShmInv'
<1> DEFINE mv == /\ pc' \in [Pid -> ShmPlaces]
                 /\ pc'[p] \in {Zombie, Gone}
                 /\ \A q \in Pid \ {p} : pc'[q] = pc[q] \/ (pc[q] = Zombie /\ pc'[q] = Gone)
<1>1. mv /\ parent' \in [Pid -> Pid \cup {Adopter}] BY ShmEndMoves DEF ShmInv
<1> HIDE DEF mv
<1>2. failed' = failed BY DEF SharedMemory!Ends
<1>3. ShmMaps' BY <1>1 DEF ShmInv, ShmMaps, mv
<1>4. ShmOneChild' BY <1>1, PidAssumption DEF ShmInv, ShmMaps, ShmOneChild, mv
<1>5. ShmShared'
  BY <1>1 DEF ShmInv, ShmMaps, ShmShared, ShmUsing, mv
<1>6. ShmRemoved'
  <2>1. SUFFICES ASSUME killed' = {}, failed = {}, key # 0,
                        pc'[First] \notin {"fork", "get"}
                 PROVE  \E q \in Pid : ShmHolds(q)'
    BY <1>2 DEF ShmRemoved
  <2>2. killed = {} /\ pc[p] \notin {"fork", "get"} /\ ~ShmHolds(p) BY <2>1
  <2>3. pc[First] \notin {"fork", "get"} BY <1>1, <2>1, <2>2, PidAssumption DEF mv
  <2>4. PICK q \in Pid : ShmHolds(q) BY <2>1, <2>2, <2>3 DEF ShmInv, ShmRemoved
  <2>5. q # p /\ pc'[q] = pc[q] BY <1>1, <2>2, <2>4 DEF mv, ShmHolds
  <2> QED BY <2>4, <2>5 DEF ShmHolds
<1> QED BY <1>3, <1>4, <1>5, <1>6 DEF ShmInv

LEMMA ShmForkInv == ASSUME ShmInv, NEW p \in Pid, SharedMemory!Fork(p) PROVE ShmInv'
<1>1. p = First /\ pc[First] = "fork" /\ \A q \in Pid \ {First} : pc[q] = Unborn
  BY DEF SharedMemory!Fork, ShmInv, ShmOneChild
<1>2. CASE \E q \in Pid : SharedMemory!ForkAs(p, q, "get", "get") /\ UNCHANGED SharedMemory!memory
  <2>1. PICK q \in Pid : SharedMemory!ForkAs(p, q, "get", "get") /\ UNCHANGED SharedMemory!memory BY <1>2
  <2>2. q # First /\ pc' = [pc EXCEPT ![First] = "get", ![q] = "get"]
    BY <1>1, <2>1 DEF SharedMemory!ForkAs
  <2>3. ShmMaps' BY <2>1, <2>2, <1>1 DEF ShmInv, ShmMaps, SharedMemory!ForkAs,
      SharedMemory!memory, ShmPlaces
  <2>4. ShmOneChild' BY <2>2, <1>1, PidAssumption DEF ShmInv, ShmMaps, ShmOneChild
  <2>5. ShmShared' BY <2>1, <2>2, <1>1 DEF ShmInv, ShmMaps, ShmShared, ShmUsing, SharedMemory!memory
  <2>6. ShmRemoved' BY <2>2, <1>1, PidAssumption DEF ShmInv, ShmMaps, ShmRemoved
  <2> QED BY <2>3, <2>4, <2>5, <2>6 DEF ShmInv
<1>3. CASE SharedMemory!Fails(p, "fork", "remove")
  <2>1. pc' = [pc EXCEPT ![First] = "remove"] /\ failed' # {} /\ parent' = parent
    BY <1>1, <1>3 DEF SharedMemory!Fails
  <2>2. UNCHANGED <<key, shmmem>> /\ shmid' \in [Pid -> SharedMemory!Seg \cup {0}]
    BY <1>1, <1>3 DEF SharedMemory!Fork, ShmInv, ShmMaps, SharedMemory!memory,
        SharedMemory!ForkAs, SharedMemory!Fails
  <2>3. ShmMaps' BY <2>1, <2>2 DEF ShmInv, ShmMaps, ShmPlaces
  <2>4. ShmOneChild' BY <2>1, <1>1, PidAssumption DEF ShmInv, ShmMaps, ShmOneChild
  <2>5. ShmShared' BY <2>1, <2>2, <1>1 DEF ShmInv, ShmMaps, ShmShared, ShmUsing
  <2>6. ShmRemoved' BY <2>1 DEF ShmRemoved
  <2> QED BY <2>3, <2>4, <2>5, <2>6 DEF ShmInv
<1> QED BY <1>2, <1>3 DEF SharedMemory!Fork

LEMMA ShmGetInv == ASSUME ShmInv, NEW p \in Pid, SharedMemory!Get(p) PROVE ShmInv'
<1> DEFINE s == IF key = 0 /\ p = First THEN SharedMemory!Fresh ELSE key
<1>1. pc[p] = "get" BY DEF SharedMemory!Get
<1>2. CASE s = 0
  <2>1. SharedMemory!End(p, "error") /\ UNCHANGED <<key, shmid>> /\ key = 0 BY <1>2
     DEF SharedMemory!Get
  <2> QED BY <1>1, <2>1, ShmEndKeeps DEF SharedMemory!End, SharedMemory!Exit
<1>3. CASE s # 0
  <2>1. /\ shmid' = [shmid EXCEPT ![p] = s] /\ key' = s
        /\ pc' = [pc EXCEPT ![p] = "attach"]
        /\ UNCHANGED <<shmmem, parent, killed, failed>>
    BY <1>3 DEF SharedMemory!Get, SharedMemory!Goto
  <2>2. \A q \in Pid : ShmUsing(q) => key = shmid[q] /\ key # 0
    BY <1>1 DEF ShmInv, ShmShared
  <2>3. key # 0 => s = key OBVIOUS
  <2>4. s \in SharedMemory!Seg BY <1>3 DEF ShmInv, ShmMaps
  <2> HIDE DEF s
  <2>5. ShmMaps' BY <2>1, <2>4 DEF ShmInv, ShmMaps, ShmPlaces
  <2>6. ShmOneChild' BY <2>1, <1>1, ShmMoveOneChild DEF ShmInv, ShmPlaces
  <2>7. ShmShared' BY <2>1, <2>2, <2>3, <2>4, <1>1 DEF ShmInv, ShmMaps, ShmShared, ShmUsing
  <2>8. ShmRemoved' BY <2>1, <1>1 DEF ShmInv, ShmMaps, ShmRemoved, ShmHolds
  <2> QED BY <2>5, <2>6, <2>7, <2>8 DEF ShmInv
<1> QED BY <1>2, <1>3

LEMMA ShmAttachInv == ASSUME ShmInv, NEW p \in Pid, SharedMemory!Attach(p) PROVE ShmInv'
<1>1. pc[p] = "attach" BY DEF SharedMemory!Attach
<1>2. CASE SharedMemory!Exists(shmid[p])
  <2>1. /\ shmmem' = [shmmem EXCEPT ![p] = shmid[p]]
        /\ pc' = [pc EXCEPT ![p] = "loop"]
        /\ UNCHANGED <<key, shmid, parent, killed, failed>>
    BY <1>2 DEF SharedMemory!Attach, SharedMemory!Goto
  <2>2. ShmMaps' BY <2>1 DEF ShmInv, ShmMaps, ShmPlaces
  <2>3. ShmOneChild' BY <2>1, <1>1, ShmMoveOneChild DEF ShmInv, ShmPlaces
  <2>4. ShmShared' BY <2>1, <1>1 DEF ShmInv, ShmMaps, ShmShared, ShmUsing
  <2>5. ShmRemoved' BY <2>1, <1>1 DEF ShmInv, ShmMaps, ShmRemoved, ShmHolds
  <2> QED BY <2>2, <2>3, <2>4, <2>5 DEF ShmInv
<1>3. CASE ~SharedMemory!Exists(shmid[p])
  <2>1. SharedMemory!End(p, "error") /\ UNCHANGED <<key, shmid>> BY <1>3 DEF SharedMemory!Attach
  <2>2. shmid[p] \in SharedMemory!Seg BY <1>1 DEF ShmInv, ShmMaps, ShmShared, ShmUsing
  <2>3. ~ShmHolds(p) BY <1>3, <2>2 DEF SharedMemory!Exists, ShmHolds
  <2> QED BY <1>1, <2>1, <2>3, ShmEndKeeps DEF SharedMemory!End, SharedMemory!Exit
<1> QED BY <1>2, <1>3

LEMMA ShmTurnInv == ASSUME ShmInv, NEW p \in Pid, SharedMemory!Turn(p) PROVE ShmInv'
<1>1. pc[p] = "loop" /\ UNCHANGED <<key, shmid, shmmem>> BY DEF SharedMemory!Turn
<1>2. CASE UNCHANGED SharedMemory!table
  BY <1>1, <1>2 DEF SharedMemory!table, ShmInv, ShmMaps, ShmOneChild, ShmShared, ShmUsing,
      ShmRemoved, ShmHolds
<1>3. CASE SharedMemory!Goto(p, "remove")
  <2>1. pc' = [pc EXCEPT ![p] = "remove"] /\ UNCHANGED <<parent, killed, failed>>
    BY <1>3 DEF SharedMemory!Goto
  <2>2. ShmMaps' BY <2>1, <1>1 DEF ShmInv, ShmMaps, ShmPlaces
  <2>3. ShmOneChild' BY <2>1, <1>1, ShmMoveOneChild DEF ShmInv, ShmPlaces
  <2>4. ShmShared' BY <2>1, <1>1 DEF ShmInv, ShmMaps, ShmShared, ShmUsing
  <2>5. ShmRemoved' BY <2>1, <1>1 DEF ShmInv, ShmMaps, ShmRemoved, ShmHolds
  <2> QED BY <2>2, <2>3, <2>4, <2>5 DEF ShmInv
<1> QED BY <1>2, <1>3 DEF SharedMemory!Turn

LEMMA ShmRemoveInv == ASSUME ShmInv, NEW p \in Pid, SharedMemory!Remove(p) PROVE ShmInv'
<1>1. /\ pc[p] = "remove"
      /\ key' = IF shmid[p] = key THEN 0 ELSE key
      /\ pc' = [pc EXCEPT ![p] = "end"]
      /\ UNCHANGED <<shmid, shmmem, parent, killed, failed>>
  BY DEF SharedMemory!Remove, SharedMemory!Goto
<1>2. ShmMaps' BY <1>1 DEF ShmInv, ShmMaps, ShmPlaces
<1>3. ShmOneChild' BY <1>1, ShmMoveOneChild DEF ShmInv, ShmPlaces
\* A third process would have to look for the segment.
<1>4. ~ \E q, r \in Pid : pc[q] = "get" /\ ShmUsing(r)
  BY <1>1 DEF ShmInv, ShmOneChild, ShmUsing
<1>5. ShmShared' BY <1>1, <1>4 DEF ShmInv, ShmMaps, ShmShared, ShmUsing
<1>6. ShmRemoved'
  <2>1. CASE shmid[p] = key BY <1>1, <2>1 DEF ShmRemoved
  <2>2. CASE shmid[p] # key
    <3>1. SUFFICES ASSUME killed = {}, failed = {}, key # 0, pc'[First] \notin {"fork", "get"}
                   PROVE  \E q \in Pid : ShmHolds(q)'
      BY <1>1, <2>2 DEF ShmRemoved
    <3>2. pc[First] \notin {"fork", "get"}
      BY <1>1, <3>1, PidAssumption DEF ShmInv, ShmMaps
    <3>3. PICK q \in Pid : ShmHolds(q) BY <3>1, <3>2 DEF ShmInv, ShmRemoved
    <3>4. q # p BY <2>2, <3>3 DEF ShmHolds
    <3> QED BY <1>1, <2>2, <3>3, <3>4 DEF ShmHolds, ShmInv, ShmMaps
  <2> QED BY <2>1, <2>2
<1> QED BY <1>2, <1>3, <1>5, <1>6 DEF ShmInv

LEMMA ShmReturnInv == ASSUME ShmInv, NEW p \in Pid, SharedMemory!Return(p) PROVE ShmInv'
<1>1. pc[p] = "end" /\ SharedMemory!End(p, "ok") /\ UNCHANGED <<key, shmid>> BY
   DEF SharedMemory!Return
<1>2. ~ShmHolds(p) BY <1>1 DEF ShmHolds
<1> QED BY <1>1, <1>2, ShmEndKeeps DEF SharedMemory!End, SharedMemory!Exit

LEMMA ShmKilledInv == ASSUME ShmInv, NEW p \in Pid, SharedMemory!Killed(p) PROVE ShmInv'
<1>1. /\ SharedMemory!Ends(p, "signal") /\ pc[p] # Unborn /\ killed' # {}
      /\ shmmem' = [shmmem EXCEPT ![p] = 0] /\ UNCHANGED <<key, shmid>>
  BY DEF SharedMemory!Killed, SharedMemory!Kill, SharedMemory!Running
<1> QED BY <1>1, ShmEndKeeps

LEMMA ShmFrame == ASSUME ShmInv, UNCHANGED <<table, ofShm>> PROVE ShmInv'
BY DEF table, ofShm, ShmInv, ShmMaps, ShmOneChild, ShmShared, ShmUsing, ShmRemoved, ShmHolds

LEMMA ShmStep ==
    ASSUME ShmInv, NEW p \in Pid, SharedMemory!Step(p) \/ SharedMemory!Killed(p)
    PROVE  ShmInv'
BY ShmForkInv, ShmGetInv, ShmAttachInv, ShmTurnInv, ShmRemoveInv, ShmReturnInv, ShmKilledInv
   DEF SharedMemory!Step

\* The types that are left, and why they hold: the child's count is in the
\* segment it has attached, one ahead of its turns.
ShmCount ==
    /\ sigchld = "default" /\ exit \in [Pid -> Status] /\ killed \subseteq Pid
    /\ i \in [Pid -> 0..Turns]
    /\ val \in [SharedMemory!Seg -> 0..Turns + 1]
    /\ \A q \in Pid \ {First} :
         /\ pc[q] = "loop" => val[shmmem[q]] = 1 + i[q]
         /\ pc[q] \in {Unborn, "get", "attach"} => i[q] = 0

LEMMA ShmTurns == Turns \in Nat
BY BoundsAssumption

LEMMA ShmCountInit == SharedMemory!Init => ShmCount
BY ShmTurns, PidAssumption DEF SharedMemory!Init, SharedMemory!TableInit, ShmCount

LEMMA ShmCountEnd ==
    ASSUME ShmInv, ShmCount, NEW p \in Pid, NEW x \in Status, SharedMemory!Ends(p, x),
           killed' \subseteq Pid, UNCHANGED <<val, i>>, shmmem' = [shmmem EXCEPT ![p] = 0]
    PROVE  ShmCount'
<1>1. /\ pc'[p] \in {Zombie, Gone}
      /\ \A q \in Pid \ {p} : pc'[q] = pc[q] \/ (pc[q] = Zombie /\ pc'[q] = Gone)
  BY ShmEndMoves DEF ShmInv
<1>2. \A q \in Pid \ {p} : shmmem'[q] = shmmem[q] BY DEF ShmInv, ShmMaps
<1>3. exit' \in [Pid -> Status] /\ sigchld' = sigchld BY DEF SharedMemory!Ends, ShmCount
<1>4. ASSUME NEW q \in Pid \ {First}
      PROVE  /\ pc'[q] = "loop" => val[shmmem'[q]] = 1 + i[q]
             /\ pc'[q] \in {Unborn, "get", "attach"} => i[q] = 0
  BY <1>1, <1>2 DEF ShmCount
<1> QED BY <1>3, <1>4 DEF ShmCount

LEMMA ShmCountStep ==
    ASSUME ShmInv, ShmCount, NEW p \in Pid, SharedMemory!Step(p) \/ SharedMemory!Killed(p)
    PROVE  ShmCount'
<1>1. CASE SharedMemory!Fork(p)
  <2>1. /\ pc[p] = "fork" /\ p = First /\ UNCHANGED <<val, i, shmmem, sigchld, exit, killed>>
        /\ \/ \E q \in Pid : pc[q] = Unborn /\ pc' = [pc EXCEPT ![p] = "get", ![q] = "get"]
           \/ pc' = [pc EXCEPT ![p] = "remove"]
    BY <1>1 DEF SharedMemory!Fork, SharedMemory!ForkAs, SharedMemory!Fails, SharedMemory!memory,
       ShmInv, ShmOneChild
  <2> QED BY <2>1 DEF ShmInv, ShmMaps, ShmCount
<1>2. CASE SharedMemory!Get(p)
  <2>1. CASE SharedMemory!End(p, "error") /\ UNCHANGED <<val, i>>
    BY <2>1, ShmCountEnd DEF SharedMemory!End, SharedMemory!Exit, ShmCount
  <2>2. CASE SharedMemory!Goto(p, "attach") /\ UNCHANGED <<val, shmmem, i>>
    <3>1. pc[p] = "get" BY <1>2 DEF SharedMemory!Get
    <3> QED BY <2>2, <3>1 DEF SharedMemory!Goto, ShmInv, ShmMaps, ShmCount
  <2> QED BY <1>2, <2>1, <2>2 DEF SharedMemory!Get
<1>3. CASE SharedMemory!Attach(p)
  <2>1. pc[p] = "attach" /\ i' = i BY <1>3 DEF SharedMemory!Attach
  <2>2. CASE SharedMemory!Exists(shmid[p])
    <3>1. /\ shmmem' = [shmmem EXCEPT ![p] = shmid[p]] /\ pc' = [pc EXCEPT ![p] = "loop"]
          /\ val' = IF p = First THEN val ELSE [val EXCEPT ![shmid[p]] = 1]
          /\ UNCHANGED <<sigchld, exit, killed>> /\ shmid[p] \in SharedMemory!Seg
      BY <1>3, <2>2 DEF SharedMemory!Attach, SharedMemory!Goto, SharedMemory!Exists
    <3>2. val' \in [SharedMemory!Seg -> 0..Turns + 1] BY <3>1, ShmTurns DEF ShmCount
    <3>3. ASSUME NEW q \in Pid \ {First}
          PROVE  /\ pc'[q] = "loop" => val'[shmmem'[q]] = 1 + i[q]
                 /\ pc'[q] \in {Unborn, "get", "attach"} => i[q] = 0
      <4>1. CASE q = p
        <5>1. i[p] = 0 /\ shmmem'[q] = shmid[p] /\ pc'[q] = "loop" /\ val'[shmid[p]] = 1
          BY <2>1, <3>1, <4>1 DEF ShmInv, ShmMaps, ShmCount
        <5> QED BY <4>1, <5>1
      <4>2. CASE q # p
        <5>1. p # First => pc[q] = Unborn BY <2>1, <4>2 DEF ShmInv, ShmOneChild
        <5>2. pc'[q] = pc[q] /\ shmmem'[q] = shmmem[q] BY <3>1, <4>2 DEF ShmInv, ShmMaps
        <5> QED BY <3>1, <5>1, <5>2 DEF ShmCount
      <4> QED BY <4>1, <4>2
    <3> QED BY <2>1, <3>1, <3>2, <3>3 DEF ShmCount
  <2>3. CASE ~SharedMemory!Exists(shmid[p])
    BY <1>3, <2>3, ShmCountEnd DEF SharedMemory!Attach, SharedMemory!End, SharedMemory!Exit, ShmCount
  <2> QED BY <2>2, <2>3
<1>4. CASE SharedMemory!Turn(p)
  <2>1. pc[p] = "loop" /\ UNCHANGED <<shmmem>> BY <1>4 DEF SharedMemory!Turn
  <2>2. CASE i[p] < Turns
    <3>1. /\ i' = [i EXCEPT ![p] = i[p] + 1] /\ UNCHANGED <<pc, sigchld, exit, killed>>
          /\ val' = IF p = First THEN val ELSE [val EXCEPT ![shmmem[p]] = val[shmmem[p]] + 1]
      BY <1>4, <2>2 DEF SharedMemory!Turn, SharedMemory!table
    <3>2. i[p] \in 0..Turns /\ i' \in [Pid -> 0..Turns] BY <2>2, <3>1, ShmTurns DEF ShmCount
    <3>3. p # First => val[shmmem[p]] = 1 + i[p] /\ shmmem[p] \in SharedMemory!Seg
      BY <2>1 DEF ShmInv, ShmMaps, ShmShared, ShmUsing, ShmCount
    <3>4. val' \in [SharedMemory!Seg -> 0..Turns + 1]
      BY <2>2, <3>1, <3>2, <3>3, ShmTurns DEF ShmCount
    <3>5. ASSUME NEW q \in Pid \ {First}
          PROVE  /\ pc[q] = "loop" => val'[shmmem[q]] = 1 + i'[q]
                 /\ pc[q] \in {Unborn, "get", "attach"} => i'[q] = 0
      <4>1. CASE q = p
        <5>1. i'[q] = i[p] + 1 /\ val'[shmmem[q]] = val[shmmem[p]] + 1
          BY <3>1, <3>3, <4>1 DEF ShmCount
        <5> QED BY <2>1, <3>2, <3>3, <4>1, <5>1
      <4>2. CASE q # p
        <5>1. p # First => pc[q] = Unborn BY <2>1, <4>2 DEF ShmInv, ShmOneChild
        <5>2. i'[q] = i[q] BY <3>1, <4>2 DEF ShmCount
        <5> QED BY <3>1, <5>1, <5>2 DEF ShmCount
      <4> QED BY <4>1, <4>2
    <3> QED BY <2>1, <3>1, <3>2, <3>4, <3>5 DEF ShmCount
  <2>3. CASE ~(i[p] < Turns)
    <3>1. pc' = [pc EXCEPT ![p] = "remove"] /\ UNCHANGED <<val, i, sigchld, exit, killed>>
      BY <1>4, <2>3 DEF SharedMemory!Turn, SharedMemory!Goto
    <3> QED BY <2>1, <3>1 DEF ShmInv, ShmMaps, ShmCount
  <2> QED BY <2>2, <2>3
<1>5. CASE SharedMemory!Remove(p)
  <2>1. pc[p] = "remove" /\ pc' = [pc EXCEPT ![p] = "end"]
        /\ UNCHANGED <<val, i, shmmem, sigchld, exit, killed>>
    BY <1>5 DEF SharedMemory!Remove, SharedMemory!Goto
  <2> QED BY <2>1 DEF ShmInv, ShmMaps, ShmCount
<1>6. CASE SharedMemory!Return(p)
  BY <1>6, ShmCountEnd DEF SharedMemory!Return, SharedMemory!End, SharedMemory!Exit, ShmCount
<1>7. CASE SharedMemory!Killed(p)
  BY <1>7, ShmCountEnd DEF SharedMemory!Killed, SharedMemory!Kill, ShmCount
<1> QED BY <1>1, <1>2, <1>3, <1>4, <1>5, <1>6, <1>7 DEF SharedMemory!Step

LEMMA ShmCountFrame == ASSUME ShmCount, UNCHANGED <<table, ofShm>> PROVE ShmCount'
BY DEF table, ofShm, ShmCount

\* What the invariant says of the properties.
LEMMA ShmInvImplies ==
    ASSUME ShmInv, ShmCount
    PROVE  SharedMemory!TypeOK /\ SharedMemory!SameMemory /\ SharedMemory!NothingLeft
<1>1. SharedMemory!SameMemory BY DEF ShmInv, ShmShared, ShmUsing, SharedMemory!SameMemory
<1>2. SharedMemory!NothingLeft
  BY PidAssumption DEF ShmInv, ShmMaps, ShmRemoved, ShmHolds, SharedMemory!NothingLeft,
      SharedMemory!Running
<1>3. SharedMemory!TypeOK
  BY DEF ShmInv, ShmMaps, ShmCount, ShmPlaces, SharedMemory!TypeOK, SharedMemory!TableTypeOK
<1> QED BY <1>1, <1>2, <1>3

-----------------------------------------------------------------------------
(* sem.c: any number of runs at once, any limit but 0 and any number of    *)
(* semaphores the system has.                                              *)

SemPlaces == {"off", "semget", "setval", "loop", "remove", Unborn, Gone}

\* Nobody forks, so nobody is a parent and nobody becomes a zombie.
SemBooks ==
    /\ sigchld = "default"
    /\ parent = [p \in Pid |-> Adopter]
    /\ exit \in [Pid -> Status]
    /\ killed \subseteq Pid
    /\ pc \in [Pid -> SemPlaces]
    /\ sem \subseteq Pid
    /\ value \in [Pid -> Int] /\ adj \in [Pid -> Int] /\ cnt \in [Pid -> Int]

\* What each run has done to its semaphore, and what its end would add, are
\* 1 together; a run that is gone has removed it, or was killed.
SemAccount(p) ==
    /\ pc[p] \in {"off", "semget", Unborn} => p \notin sem
    /\ pc[p] \in {"setval", "loop", "remove"} => p \in sem
    /\ pc[p] \in {"off", "semget", "setval", Unborn} => value[p] = 0 /\ adj[p] = 0 /\ cnt[p] = 0
    /\ pc[p] = "loop" => cnt[p] \in 0..Limit /\ value[p] = cnt[p] + 1 /\ adj[p] + cnt[p] = 0
    /\ pc[p] = "remove" => cnt[p] = Limit - 1 /\ value[p] = Limit /\ adj[p] = 1 - Limit
    /\ pc[p] = Gone =>
         /\ adj[p] = 0 /\ cnt[p] \in 0..Limit /\ value[p] \in 0..Limit
         /\ p \in sem => p \in killed /\ value[p] \in {0, 1}

SemInv == SemBooks /\ \A p \in Pid : SemAccount(p)

LEMMA SemBounds == Limit \in Nat \ {0} /\ Runs \subseteq Pid
BY BoundsAssumption, RolesAssumption

LEMMA SemInvInit == ASSUME SysvSem!Init PROVE SemInv
BY SemBounds DEF SysvSem!Init, SemInv, SemBooks, SemAccount, SysvSem!TableInit, SemPlaces

\* What the end of a run does to the process table.
LEMMA SemEndsAlone ==
    ASSUME SemBooks, NEW p \in Pid, NEW s \in Status, SysvSem!Ends(p, s)
    PROVE  /\ pc' = [pc EXCEPT ![p] = Gone]
           /\ parent' = parent
           /\ exit' = [exit EXCEPT ![p] = s]
           /\ sigchld' = sigchld
<1>1. \A q \in Pid : parent[q] = Adopter /\ parent[q] # p
  BY PidAssumption DEF SemBooks
<1>2. pc' = [pc EXCEPT ![p] = Gone]
  BY <1>1 DEF SysvSem!Ends, SemBooks
<1>3. parent' = parent
  BY <1>1 DEF SysvSem!Ends, SemBooks
<1> QED BY <1>2, <1>3 DEF SysvSem!Ends, SemBooks

\* A step of one run leaves the others' accounts alone.
LEMMA SemAccountFrame ==
    ASSUME NEW p \in Pid, NEW q \in Pid, p # q, SemAccount(q),
           pc'[q] = pc[q], value'[q] = value[q], adj'[q] = adj[q], cnt'[q] = cnt[q],
           q \in sem' <=> q \in sem, killed \subseteq killed'
    PROVE  SemAccount(q)'
BY DEF SemAccount

\* An action that changes what belongs to p keeps Inv if it keeps the books
\* and the account of p.
LEMMA SemOneRun ==
    ASSUME SemInv, NEW p \in Pid, SemBooks', SemAccount(p)',
           \A q \in Pid \ {p} : /\ pc'[q] = pc[q] /\ value'[q] = value[q]
                                /\ adj'[q] = adj[q] /\ cnt'[q] = cnt[q]
                                /\ (q \in sem' <=> q \in sem),
           killed \subseteq killed'
    PROVE  SemInv'
BY SemAccountFrame DEF SemInv

LEMMA SemStartInv ==
    ASSUME SemInv, NEW p \in Pid, SysvSem!Start(p) PROVE SemInv'
<1>1. SemBooks'
  BY DEF SysvSem!Start, SysvSem!Goto, SemInv, SemBooks, SemPlaces, SysvSem!semaphores
<1>2. SemAccount(p)'
  BY DEF SysvSem!Start, SysvSem!Goto, SemInv, SemBooks, SemAccount, SemPlaces, SysvSem!semaphores
<1> QED BY <1>1, <1>2, SemOneRun DEF SysvSem!Start, SysvSem!Goto, SemInv, SemBooks,
    SysvSem!semaphores

LEMMA SemSemgetInv ==
    ASSUME SemInv, NEW p \in Pid, SysvSem!Semget(p) PROVE SemInv'
<1>1. SemAccount(p) /\ SemBooks /\ pc[p] = "semget" BY DEF SemInv, SysvSem!Semget
<1>2. CASE sem' = sem \cup {p} /\ SysvSem!Goto(p, "setval")
  <2>1. sem' = sem \cup {p} /\ SysvSem!Goto(p, "setval") /\ UNCHANGED <<value, adj, cnt>>
    BY <1>2 DEF SysvSem!Semget
  <2>2. SemBooks' BY <2>1, <1>1 DEF SysvSem!Goto, SemBooks, SemPlaces
  <2>3. SemAccount(p)' BY <2>1, <1>1 DEF SysvSem!Goto, SemBooks, SemAccount, SemPlaces
  <2> QED BY <2>1, <2>2, <2>3, <1>1, SemOneRun DEF SysvSem!Goto, SemBooks
<1>3. CASE sem' = sem /\ SysvSem!Exit(p, "error")
  <2>1. sem' = sem /\ SysvSem!Ends(p, "error") /\ UNCHANGED <<killed, value, adj, cnt>>
    BY <1>3 DEF SysvSem!Semget, SysvSem!Exit
  <2>2. /\ pc' = [pc EXCEPT ![p] = Gone] /\ parent' = parent /\ sigchld' = sigchld
        /\ exit' = [exit EXCEPT ![p] = "error"]
    BY <2>1, <1>1, SemEndsAlone
  <2>3. SemBooks' BY <2>1, <2>2, <1>1 DEF SemBooks, SemPlaces
  <2>4. SemAccount(p)'
    BY <2>1, <2>2, <1>1, SemBounds DEF SemBooks, SemAccount, SemPlaces
  <2> QED BY <2>1, <2>2, <2>3, <2>4, <1>1, SemOneRun DEF SemBooks
<1> QED BY <1>2, <1>3 DEF SysvSem!Semget

LEMMA SemSetvalInv ==
    ASSUME SemInv, NEW p \in Pid, SysvSem!Setval(p) PROVE SemInv'
<1>1. SemAccount(p) /\ SemBooks /\ pc[p] = "setval" BY DEF SemInv, SysvSem!Setval
<1>2. SemBooks' BY <1>1 DEF SysvSem!Setval, SysvSem!Goto, SemBooks, SemPlaces
<1>3. pc'[p] = "loop" /\ value'[p] = 1 /\ adj'[p] = 0 /\ cnt'[p] = 0 /\ p \in sem'
  BY <1>1 DEF SysvSem!Setval, SysvSem!Goto, SemBooks, SemAccount
<1>4. SemAccount(p)'
  <2>1. cnt'[p] \in 0..Limit /\ value'[p] = cnt'[p] + 1 /\ adj'[p] + cnt'[p] = 0
    BY <1>3, SemBounds
  <2> QED BY <1>3, <2>1 DEF SemAccount
<1> QED BY <1>1, <1>2, <1>4, SemOneRun DEF SysvSem!Setval, SysvSem!Goto, SemBooks

LEMMA SemIncreaseInv ==
    ASSUME SemInv, NEW p \in Pid, SysvSem!Increase(p) PROVE SemInv'
<1>1. SemAccount(p) /\ SemBooks /\ pc[p] = "loop" BY DEF SemInv, SysvSem!Increase
<1>2. SemBooks' BY <1>1 DEF SysvSem!Increase, SemBooks, SysvSem!table
<1>3. SemAccount(p)'
  BY <1>1, SemBounds DEF SysvSem!Increase, SemBooks, SemAccount, SysvSem!table, SemPlaces
<1> QED BY <1>1, <1>2, <1>3, SemOneRun DEF SysvSem!Increase, SemBooks, SysvSem!table

LEMMA SemDecreaseInv ==
    ASSUME SemInv, NEW p \in Pid, SysvSem!Decrease(p) PROVE SemInv'
<1>1. SemAccount(p) /\ SemBooks /\ pc[p] = "loop" BY DEF SemInv, SysvSem!Decrease
<1>2. SemBooks' BY <1>1 DEF SysvSem!Decrease, SysvSem!Goto, SemBooks, SemPlaces
<1>3. SemAccount(p)'
  BY <1>1, SemBounds DEF SysvSem!Decrease, SysvSem!Goto, SemBooks, SemAccount, SemPlaces
<1> QED BY <1>1, <1>2, <1>3, SemOneRun DEF SysvSem!Decrease, SysvSem!Goto, SemBooks

LEMMA SemRemoveInv ==
    ASSUME SemInv, NEW p \in Pid, SysvSem!Remove(p) PROVE SemInv'
<1>1. SemAccount(p) /\ SemBooks /\ pc[p] = "remove" BY DEF SemInv, SysvSem!Remove
<1>2. /\ sem' = sem \ {p} /\ adj' = [adj EXCEPT ![p] = 0] /\ SysvSem!Ends(p, "ok")
      /\ UNCHANGED <<killed, value, cnt>>
  BY DEF SysvSem!Remove, SysvSem!Exit
<1>3. /\ pc' = [pc EXCEPT ![p] = Gone] /\ parent' = parent /\ sigchld' = sigchld
      /\ exit' = [exit EXCEPT ![p] = "ok"]
  BY <1>1, <1>2, SemEndsAlone
<1>4. SemBooks' BY <1>1, <1>2, <1>3 DEF SemBooks, SemPlaces
<1>5. SemAccount(p)'
  BY <1>1, <1>2, <1>3, SemBounds DEF SemBooks, SemAccount, SemPlaces
<1> QED BY <1>1, <1>2, <1>3, <1>4, <1>5, SemOneRun DEF SemBooks

LEMMA SemKilledInv ==
    ASSUME SemInv, NEW p \in Pid, SysvSem!Killed(p) PROVE SemInv'
<1>1. SemAccount(p) /\ SemBooks /\ pc[p] \in {"semget", "setval", "loop", "remove"}
  BY DEF SemInv, SemBooks, SysvSem!Killed, SysvSem!Kill, SysvSem!Running, SemPlaces
<1>2. /\ killed' = killed \cup {p} /\ SysvSem!Ends(p, "signal") /\ SysvSem!Undo(p) /\ UNCHANGED <<sem, cnt>>
  BY DEF SysvSem!Killed, SysvSem!Kill
<1>3. /\ pc' = [pc EXCEPT ![p] = Gone] /\ parent' = parent /\ sigchld' = sigchld
      /\ exit' = [exit EXCEPT ![p] = "signal"]
  BY <1>1, <1>2, SemEndsAlone
<1>4. SemBooks' BY <1>1, <1>2, <1>3 DEF SemBooks, SysvSem!Undo, SemPlaces
<1>5. /\ adj'[p] = 0 /\ cnt'[p] = cnt[p] /\ pc'[p] = Gone /\ p \in killed'
      /\ value'[p] = IF p \in sem THEN value[p] + adj[p] ELSE value[p]
  BY <1>1, <1>2, <1>3 DEF SemBooks, SysvSem!Undo
<1>6. SemAccount(p)'
  BY <1>1, <1>2, <1>5, SemBounds DEF SemBooks, SemAccount
<1> QED BY <1>1, <1>2, <1>3, <1>4, <1>6, SemOneRun DEF SemBooks, SysvSem!Undo

LEMMA SemFrame == ASSUME SemInv, UNCHANGED <<table, ofSem>> PROVE SemInv'
BY DEF table, ofSem, SemInv, SemBooks, SemAccount

LEMMA SemStep ==
    ASSUME SemInv, NEW p \in Pid, SysvSem!Start(p) \/ SysvSem!Step(p) \/ SysvSem!Killed(p)
    PROVE  SemInv'
BY SemStartInv, SemSemgetInv, SemSetvalInv, SemIncreaseInv, SemDecreaseInv, SemRemoveInv, SemKilledInv
   DEF SysvSem!Step

\* What the invariant says of the properties.
LEMMA SemInvImplies == ASSUME SemInv PROVE SysvSem!TypeOK /\ SysvSem!Undone /\ SysvSem!NothingLeft
<1>1. \A p \in Pid : SemAccount(p) /\ pc[p] \in SemPlaces BY DEF SemInv, SemBooks
<1>2. SysvSem!TypeOK
  <2>1. \A p \in Pid : value[p] \in 0..Limit + 1 /\ adj[p] \in -Limit..0 /\ cnt[p] \in 0..Limit
    BY <1>1, SemBounds DEF SemAccount, SemPlaces, SemInv, SemBooks
  <2>2. SysvSem!TableTypeOK BY DEF SysvSem!TableTypeOK, SemInv, SemBooks
  <2> QED BY <2>1, <2>2 DEF SysvSem!TypeOK, SemInv, SemBooks, SemPlaces
<1>3. SysvSem!Undone BY <1>1 DEF SysvSem!Undone, SemAccount, SemInv, SemBooks
<1>4. SysvSem!NothingLeft
  BY <1>1 DEF SysvSem!NothingLeft, SysvSem!Running, SemAccount, SemPlaces, SemInv, SemBooks
<1> QED BY <1>2, <1>3, <1>4

-----------------------------------------------------------------------------
(* pipe.c and socketpair.c.                                                *)

USE DEF Pipes!Unborn, Pipes!Zombie, Pipes!Gone, Pipes!First, Pipes!Adopter, Pipes!Status

\* The module's copies of the operators of Processes.
LEMMA PipeTable ==
    /\ \A r, l : Pipes!TableInit(r, l) <=> TableInit(r, l)
    /\ Pipes!TableTypeOK <=> TableTypeOK
    /\ \A p, l : Pipes!Goto(p, l) <=> Goto(p, l)
    /\ \A p, q, l, m : Pipes!ForkAs(p, q, l, m) <=> ForkAs(p, q, l, m)
    /\ \A p, c, l : Pipes!Fails(p, c, l) <=> Fails(p, c, l)
    /\ \A p, x : Pipes!Exit(p, x) <=> Exit(p, x)
    /\ \A p : Pipes!Kill(p) => Kill(p) /\ Running(p)
    /\ \A p, x, q, l : Pipes!Reap(p, x, q, l) <=> Reap(p, x, q, l)
BY DEF Pipes!TableInit, TableInit, Pipes!TableTypeOK, TableTypeOK, Pipes!Goto, Goto,
       Pipes!ForkAs, ForkAs, Pipes!Fails, Fails, Pipes!Exit, Exit, Pipes!Ends, Ends,
       Pipes!Kill, Kill, Pipes!Running, Running, Pipes!Reap, Reap, Pipes!Awaited, Awaited,
       Pipes!Children, Children, Pipes!Cardinality, Cardinality

PipePlaces ==
    Dead \cup {"fork", "child", "exec", "date", "parent", "read", "wait", "end"}

PipeTypes ==
    /\ program \in {"pipe", "socketpair"}
    /\ TableInv(PipePlaces) /\ sigchld = "default"
    /\ open \in [Pid -> SUBSET {"read", "write", "stdout"}]
    /\ chan \in {"nothing", "data"}
    /\ line \in {"garbage", "data"}
    /\ displayed \in {"nothing", "garbage", "data"}

\* There is one child, and nobody ends before it.
PipeChild ==
    /\ parent[First] = Adopter
    /\ \A p \in Pid : pc[p] \in {"fork", "parent", "read", "wait"} => p = First
    /\ pc[First] \notin {"child", "exec", "date"}
    /\ \A p, q \in Pid \ {First} : pc[p] # Unborn /\ pc[q] # Unborn => p = q
    /\ pc[First] = "fork" => \A q \in Pid \ {First} : pc[q] = Unborn
    /\ \A p \in Pid \ {First} : Children(p) = {}
    /\ pc[First] = "end" \/ (program = "socketpair" /\ pc[First] = "read") => Children(First) = {}
    /\ killed = {} => Orphans = {}

NotRun == killed # {} \/ \E q \in Pid : exit[q] = "notfound"

Writer(q) == q # First /\ pc[q] \in {"child", "exec", "date"} /\ open[q] \cap {"write", "stdout"} # {}

\* While the parent has to read, there is something to read, or somebody who
\* will write it.
PipeData ==
    /\ pc[First] \in {"fork", "parent", "read"} => "read" \in open[First]
    /\ pc[First] = "fork" => "write" \in open[First]
    /\ program = "socketpair" /\ pc[First] \in {"fork", "parent", "read"} => "write" \in open[First]
    /\ pc[First] \in {"parent", "read"} => NotRun \/ chan = "data" \/ \E q \in Pid : Writer(q)
    /\ displayed = "garbage" => NotRun

PipeInv == PipeTypes /\ PipeChild /\ PipeData

LEMMA PipeInvInit == ASSUME Pipes!Init PROVE PipeInv
<1>1. /\ TableInit({First}, "fork") /\ sigchld = "default"
      /\ open = [p \in Pid |-> IF p = First THEN {"read", "write"} ELSE {}]
      /\ chan = "nothing" /\ line = "garbage" /\ displayed = "nothing"
  BY PipeTable DEF Pipes!Init
<1>2. TableInv({"fork", Unborn}) /\ \A p \in Pid : Children(p) = {}
  BY <1>1, TableInitInv
<1>3. PipeTypes BY <1>1, <1>2, TableWider DEF PipeTypes, PipePlaces, Dead, Pipes!Init
<1>4. PipeChild BY <1>1, <1>2, PidAssumption DEF TableInit, PipeChild, Orphans
<1>5. PipeData BY <1>1, PidAssumption DEF TableInit, PipeData
<1> QED BY <1>3, <1>4, <1>5 DEF PipeInv

\* p goes on, if the data that First waits for is not lost by that.
LEMMA PipeMoves ==
    ASSUME PipeInv, NEW p \in Pid, Running(p), NEW place \in PipePlaces \ Dead,
           place \notin {"fork", "parent"},
           Goto(p, place) \/ \E call : Fails(p, call, place),
           p # First => place \in {"exec", "date", "end"},
           p = First => /\ place \in {"read", "wait", "end"}
                        /\ place = "end" \/ (program = "socketpair" /\ place = "read")
                             => Children(First) = {}
    PROVE  /\ PipeChild' /\ TableInv(PipePlaces)' /\ sigchld' = "default"
           /\ pc' = [pc EXCEPT ![p] = place] /\ UNCHANGED <<program, exit, killed>>
<1>1. /\ TableInv(PipePlaces)' /\ pc' = [pc EXCEPT ![p] = place]
      /\ UNCHANGED <<program, sigchld, parent, exit, killed>>
      /\ \A q \in Pid : Children(q)' = Children(q)
      /\ Orphans' = Orphans
  BY GotoTable DEF PipeInv, PipeTypes, PipePlaces
<1>2. program' = program BY DEF Goto, Fails
<1>3. /\ pc'[p] = place /\ \A q \in Pid \ {p} : pc'[q] = pc[q]
      /\ pc[p] # Unborn /\ place # Unborn
  BY <1>1 DEF PipeInv, PipeTypes, TableInv, Dead, Running
<1>4. PipeChild'
  BY <1>1, <1>2, <1>3, PidAssumption DEF PipeInv, PipeChild
<1> QED BY <1>1, <1>4 DEF PipeInv, PipeTypes

LEMMA PipeForkInv == ASSUME PipeInv, NEW p \in Pid, Pipes!Fork(p) PROVE PipeInv'
<1>1. /\ pc[p] = "fork" /\ p = First /\ Running(p) /\ UNCHANGED <<chan, line, displayed>>
      /\ \A q \in Pid \ {First} : pc[q] = Unborn
  BY DEF Pipes!Fork, PipeInv, PipeChild, Running
<1>2. CASE \E q \in Pid : Pipes!ForkAs(p, q, "parent", "child") /\ open' = [open EXCEPT ![q] = open[p]]
  <2>1. PICK q \in Pid : ForkAs(p, q, "parent", "child") /\ open' = [open EXCEPT ![q] = open[p]]
    BY <1>2, PipeTable
  <2>2. /\ TableInv(PipePlaces)' /\ pc' = [pc EXCEPT ![p] = "parent", ![q] = "child"]
        /\ q # p /\ parent'[q] = p /\ UNCHANGED <<program, sigchld, exit, killed>>
        /\ Children(q) = {}
        /\ \A r \in Pid \ {p} : Children(r)' = Children(r)
        /\ Orphans' \subseteq Orphans
    BY <1>1, <2>1, ForkTable DEF PipeInv, PipeTypes, PipePlaces, Dead
  <2>3. program' = program /\ parent' = [parent EXCEPT ![q] = p] BY <2>1 DEF ForkAs
  <2>4. /\ pc'[First] = "parent" /\ pc'[q] = "child" /\ parent'[First] = Adopter
        /\ \A r \in Pid \ {First, q} : pc'[r] = Unborn
    BY <1>1, <2>2, <2>3, PidAssumption DEF PipeInv, PipeTypes, PipeChild, TableInv, TableTypeOK
  <2>5. PipeTypes' BY <1>1, <2>1, <2>2 DEF PipeInv, PipeTypes
  <2>6. PipeChild'
    <3>1. \A r \in Pid \ {First} : Children(r)' = {} BY <1>1, <2>2 DEF PipeInv, PipeChild
    <3>2. killed' = {} => Orphans' = {} BY <2>2 DEF PipeInv, PipeChild
    <3>3. \A r \in Pid : pc'[r] \in {"fork", "parent", "read", "wait"} => r = First
      BY <2>4
    <3> QED BY <2>4, <3>1, <3>2, <3>3 DEF PipeChild
  <2>7. "write" \in open'[q] /\ open'[First] = open[First]
    BY <1>1, <2>1, <2>2, PidAssumption DEF PipeInv, PipeTypes, PipeData
  <2>8. Writer(q)' BY <1>1, <2>2, <2>4, <2>7 DEF Writer
  <2>9. NotRun' = NotRun BY <2>2 DEF NotRun
  <2>10. PipeData'
    BY <1>1, <2>3, <2>4, <2>7, <2>8, <2>9 DEF PipeInv, PipeData
  <2> QED BY <2>5, <2>6, <2>10 DEF PipeInv
<1>3. CASE Pipes!Fails(p, "fork", "end") /\ UNCHANGED open
  <2>1. Fails(p, "fork", "end") /\ UNCHANGED open BY <1>3, PipeTable
  <2>2. Children(First) = {}
    <3>1. \A q \in Pid : parent[q] = First => pc[q] = Unborn BY <1>1 DEF PipeInv, PipeChild
    <3> QED BY <3>1 DEF Children
  <2>3. /\ PipeChild' /\ TableInv(PipePlaces)' /\ sigchld' = "default"
        /\ pc' = [pc EXCEPT ![p] = "end"] /\ UNCHANGED <<program, exit, killed>>
    <3>1. \E call : Fails(p, call, "end") BY <2>1
    <3> QED BY <1>1, <2>2, <3>1, PipeMoves DEF PipePlaces, Dead
  <2>4. PipeData'
    BY <1>1, <2>1, <2>3, PidAssumption DEF PipeInv, PipeTypes, TableInv, PipeData, NotRun
  <2> QED BY <1>1, <2>1, <2>3, <2>4 DEF PipeInv, PipeTypes
<1> QED BY <1>2, <1>3 DEF Pipes!Fork

\* p ends, its descriptors are closed, and First does not wait for them.
LEMMA PipeEndInv ==
    ASSUME PipeInv, NEW p \in Pid, Running(p), NEW x \in Status \ {"none"},
           Exit(p, x) \/ (x = "signal" /\ Kill(p)),
           open' = [open EXCEPT ![p] = {}], UNCHANGED <<chan, line, displayed>>,
           killed' = {} => /\ p = First => pc[p] = "end"
                           /\ p # First /\ pc[First] \in {"parent", "read"} => NotRun' \/ chan = "data"
    PROVE  PipeInv'
<1>1. /\ TableInv(PipePlaces)' /\ pc'[p] \in {Zombie, Gone}
      /\ \A q \in Pid \ {p} : pc'[q] = pc[q] \/ (pc[q] = Zombie /\ pc'[q] = Gone)
      /\ \A q \in Pid \ {p} : parent[q] # p => pc'[q] = pc[q] /\ parent'[q] = parent[q]
      /\ parent[p] # p => parent'[p] = parent[p]
      /\ exit' = [exit EXCEPT ![p] = x] /\ UNCHANGED <<program, sigchld, failed>>
      /\ killed \subseteq killed' /\ (killed' = killed \/ p \in killed')
      /\ Children(p)' = {}
      /\ \A r \in Pid \ {p} : Children(r)' \subseteq Children(r)
      /\ Orphans' \subseteq Orphans \cup Children(p)
  BY EndsTable DEF PipeInv, PipeTypes, PipePlaces, Dead
<1>2. program' = program BY DEF Exit, Kill, Ends
<1>3. parent'[First] = Adopter BY <1>1, PidAssumption DEF PipeInv, PipeChild
<1>4. killed' = {} => Children(p) = {} BY DEF PipeInv, PipeChild
<1>5. killed' = {} => Orphans' = {} BY <1>1, <1>4 DEF PipeInv, PipeChild
<1>6. PipeTypes' BY <1>1 DEF PipeInv, PipeTypes
<1>7. PipeChild'
  <2>1. \A q \in Pid : pc'[q] \notin Dead => pc'[q] = pc[q] /\ q # p
    BY <1>1 DEF Dead
  <2>2. \A q \in Pid : pc'[q] = Unborn <=> pc[q] = Unborn BY <1>1 DEF Running
  <2>3. \A q \in Pid \ {First} : Children(q)' = {}
    BY <1>1 DEF PipeInv, PipeChild
  <2>4. pc'[First] = "end" \/ (program = "socketpair" /\ pc'[First] = "read") => Children(First)' = {}
    BY <1>1, <2>1, PidAssumption DEF PipeInv, PipeChild, Dead
  <2> QED BY <1>2, <1>3, <1>5, <2>1, <2>2, <2>3, <2>4, PidAssumption DEF PipeInv, PipeChild, Dead
<1>8. NotRun => NotRun'
  <2>1. \A q \in Pid : exit[q] = "notfound" => exit'[q] = "notfound"
    BY <1>1 DEF PipeInv, PipeTypes, TableInv, TableTypeOK, Ended, Running
  <2> QED BY <1>1, <2>1 DEF NotRun
<1>9. PipeData'
  <2>1. pc'[First] \notin Dead => pc'[First] = pc[First] /\ First # p /\ open'[First] = open[First]
    BY <1>1, PidAssumption DEF Dead, PipeInv, PipeTypes
  <2>2. killed' # {} => NotRun' BY DEF NotRun
  <2>3. pc'[First] \in {"parent", "read"} => NotRun' \/ chan = "data"
    BY <2>1, <2>2 DEF Dead
  <2> QED BY <1>2, <1>8, <2>1, <2>3 DEF PipeInv, PipeData, Dead
<1> QED BY <1>6, <1>7, <1>9 DEF PipeInv

\* The child has written, or is gone, when it is at none of its places.
LEMMA PipeWritten ==
    ASSUME PipeInv, NEW p \in Pid \ {First}, pc[p] # Unborn, ~Writer(p),
           pc[First] \in {"parent", "read"}
    PROVE  NotRun \/ chan = "data"
BY DEF PipeInv, PipeData, PipeChild, Writer

LEMMA PipeWriteInv ==
    ASSUME PipeInv, NEW p \in Pid \ {First}, pc[p] \in {"child", "date"}, Pipes!Write(p, "data", "end")
    PROVE  PipeInv'
<1>1. Running(p) BY DEF Running
<1>2. CASE \E q \in Pid : "read" \in open[q]
  <2>1. chan' = "data" /\ Goto(p, "end") /\ UNCHANGED <<open, line, displayed>>
    BY <1>2, PipeTable DEF Pipes!Write
  <2>2. /\ PipeChild' /\ TableInv(PipePlaces)' /\ sigchld' = "default"
        /\ pc' = [pc EXCEPT ![p] = "end"] /\ UNCHANGED <<program, exit, killed>>
    BY <1>1, <2>1, PipeMoves DEF PipePlaces, Dead
  <2>3. program' = program BY <2>1 DEF Goto
  <2>4. pc'[First] = pc[First] BY <2>2, PidAssumption DEF PipeInv, PipeTypes, TableInv
  <2> QED BY <2>1, <2>2, <2>3, <2>4 DEF PipeInv, PipeTypes, PipeData, NotRun
<1>3. CASE ~\E q \in Pid : "read" \in open[q]
  <2>1. /\ Exit(p, "signal") /\ open' = [open EXCEPT ![p] = {}]
        /\ UNCHANGED <<chan, line, displayed>>
    BY <1>3, PipeTable DEF Pipes!Write, Pipes!End
  <2>2. pc[First] \notin {"parent", "read"} BY <1>3, PidAssumption DEF PipeInv, PipeData
  <2> QED BY <1>1, <2>1, <2>2, PipeEndInv
<1> QED BY <1>2, <1>3

LEMMA PipeStep ==
    ASSUME PipeInv, NEW p \in Pid, Pipes!Step(p) \/ Pipes!Killed(p)
    PROVE  PipeInv'
<1> USE DEF PipePlaces, Dead
<1>1. CASE Pipes!Fork(p) BY <1>1, PipeForkInv
<1>2. CASE Pipes!Dup2(p)
  <2>1. /\ pc[p] = "child" /\ open' = [open EXCEPT ![p] = {"write", "stdout"}] /\ Goto(p, "exec")
        /\ UNCHANGED <<chan, line, displayed>>
    BY <1>2, PipeTable DEF Pipes!Dup2
  <2>2. p # First /\ Running(p) BY <2>1 DEF PipeInv, PipeChild, Running
  <2>3. /\ PipeChild' /\ TableInv(PipePlaces)' /\ sigchld' = "default"
        /\ pc' = [pc EXCEPT ![p] = "exec"] /\ UNCHANGED <<program, exit, killed>>
    BY <2>1, <2>2, PipeMoves
  <2>4. program' = program BY <2>1 DEF Goto
  <2>5. /\ pc'[First] = pc[First] /\ open'[First] = open[First]
        /\ pc'[p] = "exec" /\ "write" \in open'[p]
    BY <2>1, <2>2, <2>3, PidAssumption DEF PipeInv, PipeTypes, TableInv
  <2>6. Writer(p)' BY <2>2, <2>5 DEF Writer
  <2>7. PipeTypes' BY <2>1, <2>3 DEF PipeInv, PipeTypes
  <2>8. PipeData' BY <2>1, <2>3, <2>4, <2>5, <2>6 DEF PipeInv, PipeData, NotRun
  <2> QED BY <2>3, <2>7, <2>8 DEF PipeInv
<1>3. CASE Pipes!ExecDate(p)
  <2>1. pc[p] = "exec" /\ p # First /\ Running(p)
    BY <1>3 DEF Pipes!ExecDate, PipeInv, PipeChild, Running
  <2>2. CASE Pipes!Goto(p, "date") /\ UNCHANGED Pipes!channel
    <3>1. Goto(p, "date") /\ UNCHANGED <<open, chan, line, displayed>>
      BY <2>2, PipeTable DEF Pipes!channel
    <3>2. /\ PipeChild' /\ TableInv(PipePlaces)' /\ sigchld' = "default"
          /\ pc' = [pc EXCEPT ![p] = "date"] /\ UNCHANGED <<program, exit, killed>>
      BY <2>1, <3>1, PipeMoves
    <3>3. program' = program BY <3>1 DEF Goto
    <3>4. pc'[First] = pc[First] /\ \A q \in Pid : Writer(q) => Writer(q)'
      BY <2>1, <3>1, <3>2, PidAssumption DEF PipeInv, PipeTypes, TableInv, Writer
    <3> QED BY <3>1, <3>2, <3>3, <3>4 DEF PipeInv, PipeTypes, PipeData, NotRun
  <2>3. CASE Pipes!End(p, "notfound")
    <3>1. /\ Exit(p, "notfound") /\ open' = [open EXCEPT ![p] = {}]
          /\ UNCHANGED <<chan, line, displayed>>
      BY <2>3, PipeTable DEF Pipes!End
    <3>2. NotRun' BY <3>1 DEF NotRun, Exit, Ends, PipeInv, PipeTypes, TableInv, TableTypeOK
    <3> QED BY <2>1, <3>1, <3>2, PipeEndInv
  <2> QED BY <1>3, <2>2, <2>3 DEF Pipes!ExecDate
<1>4. CASE Pipes!WriteDate(p)
  BY <1>4, PipeWriteInv DEF Pipes!WriteDate, PipeInv, PipeChild
<1>5. CASE Pipes!CloseWrite(p)
  <2>1. /\ pc[p] = "parent" /\ program = "pipe" /\ open' = [open EXCEPT ![p] = @ \ {"write"}]
        /\ Goto(p, "read") /\ UNCHANGED <<chan, line, displayed>>
    BY <1>5, PipeTable DEF Pipes!CloseWrite, Pipes!Close
  <2>2. p = First /\ Running(p) BY <2>1 DEF PipeInv, PipeChild, Running
  <2>3. /\ PipeChild' /\ TableInv(PipePlaces)' /\ sigchld' = "default"
        /\ pc' = [pc EXCEPT ![p] = "read"] /\ UNCHANGED <<program, exit, killed>>
    BY <2>1, <2>2, PipeMoves
  <2>4. program' = program BY <2>1 DEF Goto
  <2>5. \A q \in Pid : Writer(q) => Writer(q)'
    BY <2>1, <2>2, <2>3 DEF PipeInv, PipeTypes, TableInv, Writer
  <2>6. "read" \in open'[First] /\ pc'[First] = "read"
    BY <2>1, <2>2, <2>3 DEF PipeInv, PipeTypes, PipeData, TableInv
  <2>7. PipeTypes' BY <2>1, <2>3 DEF PipeInv, PipeTypes
  <2>8. PipeData' BY <2>1, <2>2, <2>3, <2>4, <2>5, <2>6 DEF PipeInv, PipeData, NotRun
  <2> QED BY <2>3, <2>7, <2>8 DEF PipeInv
<1>6. CASE Pipes!WriteHello(p)
  BY <1>6, PipeWriteInv DEF Pipes!WriteHello, PipeInv, PipeChild
<1>7. CASE Pipes!WaitFirst(p) \/ Pipes!WaitLast(p)
  <2> DEFINE place == IF Pipes!WaitFirst(p) THEN "read" ELSE "end"
  <2>1. PICK q \in Pid : Reap(p, 0, q, place) /\ UNCHANGED <<open, chan, line, displayed>>
    BY <1>7, PipeTable DEF Pipes!WaitFirst, Pipes!WaitLast, Pipes!channel
  <2>2. /\ p = First /\ Running(p) /\ pc[p] \in {"parent", "wait"}
        /\ pc[p] = "parent" => place = "read"
        /\ pc[p] = "wait" => place = "end"
    BY <1>7 DEF Pipes!WaitFirst, Pipes!WaitLast, PipeInv, PipeChild, Running
  <2> HIDE DEF place
  <2>3. place \in {"read", "end"} BY <2>2
  <2>4. /\ TableInv(PipePlaces)' /\ pc' = [pc EXCEPT ![p] = place, ![q] = Gone]
        /\ q # p /\ q \in Children(p) /\ pc[q] = Zombie
        /\ UNCHANGED <<program, sigchld, parent, exit, killed>>
        /\ Children(p)' = Children(p) \ {q}
        /\ \A r \in Pid \ {p} : Children(r)' = Children(r)
        /\ Orphans' = Orphans
    BY <2>1, <2>2, <2>3, ReapTable DEF PipeInv, PipeTypes
  <2>5. program' = program BY <2>1 DEF Reap
  <2>6. Children(First)' = {}
    BY <2>2, <2>4, PidAssumption DEF Children, PipeInv, PipeChild
  <2>7. /\ pc'[First] = place /\ pc'[q] = Gone /\ \A r \in Pid \ {First, q} : pc'[r] = pc[r]
    BY <2>2, <2>4 DEF PipeInv, PipeTypes, TableInv
  <2>8. PipeTypes' BY <2>1, <2>4 DEF PipeInv, PipeTypes
  <2>9. PipeChild'
    BY ZenonT(30), <2>2, <2>3, <2>4, <2>5, <2>6, <2>7, PidAssumption DEF PipeInv, PipeChild
  <2>10. \A r \in Pid : Writer(r) => Writer(r)'
    BY <2>1, <2>2, <2>4, <2>7 DEF Writer
  <2>11. PipeData'
    BY <2>1, <2>2, <2>3, <2>4, <2>5, <2>7, <2>10 DEF PipeInv, PipeData, NotRun
  <2> QED BY <2>8, <2>9, <2>11 DEF PipeInv
<1>8. CASE Pipes!Read(p)
  <2> DEFINE place == IF program = "pipe" THEN "wait" ELSE "end"
  <2>1. /\ pc[p] = "read" /\ chan' = "nothing" /\ displayed' = line' /\ Goto(p, place)
        /\ open' = [open EXCEPT ![p] = @ \ {"read"}]
        /\ \/ chan # "nothing" /\ line' = chan
           \/ /\ chan = "nothing" /\ line' = line
              /\ \A q \in Pid : open[q] \cap {"write", "stdout"} = {}
    BY <1>8, PipeTable DEF Pipes!Read, Pipes!Close, Pipes!CanWrite
  <2>2. p = First /\ Running(p) BY <2>1 DEF PipeInv, PipeChild, Running
  <2>3. place \in {"wait", "end"} /\ (place = "end" => Children(First) = {})
    BY <2>1, <2>2 DEF PipeInv, PipeTypes, PipeChild
  <2> HIDE DEF place
  <2>4. /\ PipeChild' /\ TableInv(PipePlaces)' /\ sigchld' = "default"
        /\ pc' = [pc EXCEPT ![p] = place] /\ UNCHANGED <<program, exit, killed>>
    BY <2>1, <2>2, <2>3, PipeMoves
  <2>5. PipeTypes' BY <2>1, <2>4 DEF PipeInv, PipeTypes
  <2>6. pc'[First] = place BY <2>2, <2>4 DEF PipeInv, PipeTypes, TableInv
  <2>7. displayed' = "garbage" => NotRun
    BY <2>1, <2>2 DEF PipeInv, PipeTypes, PipeData, Writer
  <2>8. PipeData' BY <2>3, <2>4, <2>6, <2>7 DEF PipeData, NotRun
  <2> QED BY <2>4, <2>5, <2>8 DEF PipeInv
<1>9. CASE Pipes!Return(p)
  <2>1. /\ pc[p] = "end" /\ Running(p) /\ Exit(p, "ok") /\ open' = [open EXCEPT ![p] = {}]
        /\ UNCHANGED <<chan, line, displayed>>
    BY <1>9, PipeTable DEF Pipes!Return, Pipes!End, Running
  <2>2. p # First /\ pc[First] \in {"parent", "read"} => NotRun' \/ chan = "data"
    <3>1. p # First /\ pc[First] \in {"parent", "read"} => NotRun \/ chan = "data"
      BY <2>1, PipeWritten DEF Writer
    <3>2. \A q \in Pid : exit[q] = "notfound" => exit'[q] = "notfound"
      BY <2>1 DEF Exit, Ends, PipeInv, PipeTypes, TableInv, TableTypeOK, Ended
    <3> QED BY <2>1, <3>1, <3>2 DEF NotRun, Exit
  <2> QED BY <2>1, <2>2, PipeEndInv
<1>10. CASE Pipes!Killed(p)
  <2>1. /\ Kill(p) /\ Running(p) /\ killed' # {} /\ open' = [open EXCEPT ![p] = {}]
        /\ UNCHANGED <<chan, line, displayed>>
    BY <1>10, PipeTable DEF Pipes!Killed, Kill
  <2> QED BY <2>1, PipeEndInv
<1> QED BY <1>1, <1>2, <1>3, <1>4, <1>5, <1>6, <1>7, <1>8, <1>9, <1>10 DEF Pipes!Step

LEMMA PipeFrame == ASSUME PipeInv, UNCHANGED <<table, ofPipes>> PROVE PipeInv'
<1>1. TableInv(PipePlaces)' BY TableFrame DEF PipeInv, PipeTypes
<1> QED BY <1>1 DEF table, ofPipes, PipeInv, PipeTypes, PipeChild, PipeData, NotRun, Writer,
                    Children, Orphans

LEMMA PipeInvImplies ==
    ASSUME PipeInv PROVE Pipes!TypeOK /\ Pipes!Delivered /\ Reaped
BY PipeTable DEF PipeInv, PipeTypes, PipeChild, PipeData, NotRun, TableInv, PipePlaces, Dead,
    Pipes!TypeOK, Pipes!Delivered, Reaped

-----------------------------------------------------------------------------
(* IPC/pipe.c, system.c and spawn.c.                                       *)

USE DEF Commands!Unborn, Commands!Zombie, Commands!Gone, Commands!First, Commands!Adopter,
        Commands!Status

LEMMA CmdTable ==
    /\ \A r, l : Commands!TableInit(r, l) <=> TableInit(r, l)
    /\ Commands!TableTypeOK <=> TableTypeOK
    /\ \A p, l : Commands!Goto(p, l) <=> Goto(p, l)
    /\ \A p, q, l, m : Commands!ForkAs(p, q, l, m) <=> ForkAs(p, q, l, m)
    /\ \A p, c, l : Commands!Fails(p, c, l) <=> Fails(p, c, l)
    /\ \A p, x : Commands!Exit(p, x) <=> Exit(p, x)
    /\ \A p : Commands!Kill(p) => Kill(p) /\ Running(p)
    /\ \A p, x, q, l : Commands!Reap(p, x, q, l) <=> Reap(p, x, q, l)
    /\ \A p, x : Commands!NoChild(p, x) <=> NoChild(p, x)
<1> USE DEF Commands!Children, Children, Commands!Awaited, Awaited
<1>1. \A r, l : Commands!TableInit(r, l) <=> TableInit(r, l)
  BY DEF Commands!TableInit, TableInit
<1>2. Commands!TableTypeOK <=> TableTypeOK BY DEF Commands!TableTypeOK, TableTypeOK
<1>3. /\ \A p, l : Commands!Goto(p, l) <=> Goto(p, l)
      /\ \A p, q, l, m : Commands!ForkAs(p, q, l, m) <=> ForkAs(p, q, l, m)
      /\ \A p, c, l : Commands!Fails(p, c, l) <=> Fails(p, c, l)
  BY DEF Commands!Goto, Goto, Commands!ForkAs, ForkAs, Commands!Fails, Fails
<1>4. \A p, x : Commands!Exit(p, x) <=> Exit(p, x)
  BY DEF Commands!Exit, Exit, Commands!Ends, Ends
<1>5. \A p : Commands!Kill(p) => Kill(p) /\ Running(p)
  BY DEF Commands!Kill, Kill, Commands!Ends, Ends, Commands!Running, Running,
         Commands!Cardinality, Cardinality
<1>6. /\ \A p, x, q, l : Commands!Reap(p, x, q, l) <=> Reap(p, x, q, l)
      /\ \A p, x : Commands!NoChild(p, x) <=> NoChild(p, x)
  BY DEF Commands!Reap, Reap, Commands!NoChild, NoChild
<1> QED BY <1>1, <1>2, <1>3, <1>4, <1>5, <1>6

CmdPlaces ==
    Dead \cup {"fork", "child", "run", "exec", "ps", "sh", "wait", "failed", "collect", "end"}

CmdTypes ==
    /\ program \in {"ps", "system", "spawn"}
    /\ TableInv(CmdPlaces)
    /\ main \in [Pid -> Pid \cup {0, Commands!Failed}]
    /\ pid \in [Pid -> Pid \cup {0, Commands!Failed}]
    /\ st \in [Pid -> Status \cup {"garbage"}]
    /\ round \in [Pid -> 0..3]
    /\ reported \in [Pid -> Status \cup {"garbage"}]

\* How far each process has come in its commands.
CmdRound(p) ==
    /\ pc[p] \in CmdPlaces \ {"child", "end", Zombie, Gone} => round[p] <= 2
    /\ pc[p] = "collect" => program = "ps" /\ round[p] = 2
    /\ program = "ps" /\ pc[p] = "end" => round[p] = 3
    /\ pc[p] = "fork" => p = First /\ main[p] = 0 /\ round[p] = 0

\* The child that main() has forked has not been waited for.
Uncollected == round[First] < 2 \/ pc[First] = "collect"

\* The children a process can have are those it will wait for.
Kids(p) ==
    {x \in Pid : \/ program = "ps" /\ p = First /\ Uncollected /\ x = main[p]
                 \/ pc[p] = "wait" /\ x = pid[p]}

CmdFamily ==
    /\ pc[First] \notin {Unborn, "child", "exec", "ps", "sh"}
    /\ \A p \in Pid : Children(p) \subseteq Kids(p)
    /\ killed = {} => Orphans = {}

Clean == killed = {} /\ failed = {} /\ sigchld = "default"

\* The child of main() has returned 3, or will; a process that a failed
\* execve() has made a second parent learns nothing of anybody's status.
CmdPs ==
    program = "ps" =>
      /\ \A p \in Pid \ {First} : st[p] = "garbage" /\ reported[p] \in {"none", "garbage"}
      /\ Clean => reported[First] \in {"none", "three"}
      /\ Clean /\ pc[First] \in {"run", "wait", "collect"} /\ Uncollected =>
           /\ main[First] \in Pid \ {First}
           /\ parent[main[First]] = First
           /\ \/ pc[main[First]] = "child"
              \/ pc[main[First]] = Zombie /\ exit[main[First]] = "three"
           /\ pc[First] = "wait" => pid[First] \in Pid \ {main[First]}

\* Variable status keeps that of a command system() has waited for before; and
\* what it has returned is the status of the last command, or of an earlier one.
Kept == \E q \in Pid \ {First} : pc[q] = Gone /\ exit[q] = st[First] /\ round[q] < round[First]
Last ==
    \E q \in Pid \ {First} : pc[q] = Gone /\ exit[q] = reported[First] /\ round[q] + 1 = round[First]
Earlier ==
    \E q \in Pid \ {First} : pc[q] = Gone /\ exit[q] = reported[First] /\ round[q] + 1 < round[First]

Denied == failed # {} \/ sigchld = "ignored"

\* system() waits for its child unless there is none, and what it returns is
\* then the child's status; variable status keeps that of an earlier command.
CmdSystem ==
    program # "ps" =>
      /\ \A p \in Pid \ {First} : pc[p] \in Dead \cup {"exec", "sh"}
      /\ sigchld = "ignored" => \A p \in Pid : pc[p] # Zombie
      /\ pc[First] = "failed" => program = "system" /\ failed # {}
      /\ pc[First] = "wait" => \A q \in Children(First) : round[q] = round[First]
      /\ pc[First] = "wait" /\ ~(program = "spawn" /\ failed # {}) /\ sigchld # "ignored" =>
           pid[First] \in Children(First)
      /\ program = "spawn" =>
           st[First] = "garbage" \/ (sigchld # "ignored" /\ Kept)
      /\ reported[First] # "none" =>
           \/ Last
           \/ Denied /\ reported[First] = IF program = "system" THEN "error" ELSE "garbage"
           \/ program = "spawn" /\ failed # {} /\ Earlier

CmdInv == CmdTypes /\ (\A p \in Pid : CmdRound(p)) /\ CmdFamily /\ CmdPs /\ CmdSystem

LEMMA CmdInvInit == ASSUME Commands!Init PROVE CmdInv
<1> DEFINE start == IF program = "ps" THEN "fork" ELSE "run"
<1>1. /\ program \in {"ps", "system", "spawn"} /\ sigchld \in {"default", "ignored"}
      /\ TableInit({First}, start)
      /\ main = [p \in Pid |-> 0] /\ pid = [p \in Pid |-> 0] /\ st = [p \in Pid |-> "garbage"]
      /\ round = [p \in Pid |-> 0] /\ reported = [p \in Pid |-> "none"]
  BY CmdTable DEF Commands!Init, Commands!Commands
<1>2. start \in {"fork", "run"} /\ (start = "fork" <=> program = "ps") BY <1>1
<1> HIDE DEF start
<1>3. TableInv({start, Unborn}) /\ \A p \in Pid : Children(p) = {}
  BY <1>1, TableInitInv
<1>4. /\ pc = [p \in Pid |-> IF p \in {First} THEN start ELSE Unborn]
      /\ parent = [p \in Pid |-> Adopter] /\ killed = {}
  BY <1>1 DEF TableInit
<1>5. CmdTypes BY <1>1, <1>2, <1>3, TableWider DEF CmdTypes, CmdPlaces, Dead
<1>6. \A p \in Pid : CmdRound(p) BY <1>1, <1>2, <1>4 DEF CmdRound
<1>7. CmdFamily BY <1>2, <1>3, <1>4, PidAssumption DEF CmdFamily, Orphans
<1>8. CmdPs BY <1>1, <1>2, <1>4, PidAssumption DEF CmdPs
<1>9. CmdSystem BY <1>1, <1>2, <1>4, PidAssumption DEF CmdSystem, Dead
<1> QED BY <1>5, <1>6, <1>7, <1>8, <1>9 DEF CmdInv

LEMMA CmdForkInv == ASSUME CmdInv, NEW p \in Pid, Commands!Fork(p) PROVE CmdInv'
<1> USE DEF CmdPlaces, Dead
<1>1. /\ program = "ps" /\ pc[p] = "fork" /\ p = First /\ main[p] = 0 /\ round[p] = 0
      /\ UNCHANGED <<pid, st, round, reported>>
  BY DEF Commands!Fork, CmdInv, CmdRound
<1>2. Running(p) /\ TableInv(CmdPlaces) BY <1>1 DEF Running, CmdInv, CmdTypes
<1>3. Children(First) = {} BY <1>1, PidAssumption DEF CmdInv, CmdFamily, Kids
<1>4. CASE \E q \in Pid : ForkAs(p, q, "run", "child") /\ main' = [main EXCEPT ![p] = q]
  <2>1. PICK q \in Pid : ForkAs(p, q, "run", "child") /\ main' = [main EXCEPT ![p] = q] BY <1>4
  <2>2. /\ TableInv(CmdPlaces)' /\ pc' = [pc EXCEPT ![p] = "run", ![q] = "child"]
        /\ pc[q] = Unborn /\ q # p /\ parent'[q] = p
        /\ UNCHANGED <<program, sigchld, exit, killed, failed>>
        /\ Children(q) = {} /\ Children(p)' = Children(p) \cup {q}
        /\ \A r \in Pid \ {p} : Children(r)' = Children(r)
        /\ Orphans' \subseteq Orphans
    BY <1>2, <2>1, ForkTable
  <2>3. /\ pc'[First] = "run" /\ pc'[q] = "child" /\ \A r \in Pid \ {First, q} : pc'[r] = pc[r]
        /\ main'[First] = q /\ \A r \in Pid \ {First} : main'[r] = main[r]
    BY <1>1, <2>1, <2>2 DEF CmdInv, CmdTypes, TableInv
  <2>4. CmdTypes' BY <1>1, <2>1, <2>2 DEF CmdInv, CmdTypes
  <2>5. ASSUME NEW r \in Pid PROVE CmdRound(r)'
    <3>1. CASE r = First BY <1>1, <2>2, <2>3, <3>1 DEF CmdRound
    <3>2. CASE r = q
      <4>1. pc'[r] = "child" BY <2>3, <3>2
      <4> QED BY <4>1 DEF CmdRound
    <3>3. CASE r \notin {First, q}
      <4>1. pc'[r] = pc[r] /\ round'[r] = round[r] /\ main'[r] = main[r] /\ program' = program
        BY <1>1, <2>2, <2>3, <3>3
      <4> QED BY <4>1 DEF CmdInv, CmdRound
    <3> QED BY <3>1, <3>2, <3>3
  <2>6. CmdFamily'
    <3>1. Children(First)' \subseteq Kids(First)'
      BY <1>1, <1>3, <2>2, <2>3 DEF Kids, Uncollected
    <3>2. ASSUME NEW r \in Pid \ {First} PROVE Children(r)' \subseteq Kids(r)'
      <4>1. CASE r = q BY <1>1, <2>2, <4>1
      <4>2. CASE r # q
        <5>1. Children(r)' = Children(r) /\ pc'[r] = pc[r] /\ pid' = pid BY <1>1, <2>2, <2>3, <4>2
        <5> QED BY <5>1 DEF CmdInv, CmdFamily, Kids
      <4> QED BY <4>1, <4>2
    <3> QED BY <2>2, <2>3, <3>1, <3>2 DEF CmdInv, CmdFamily
  <2>7. CmdPs' BY <1>1, <2>2, <2>3 DEF CmdInv, CmdPs, Clean
  <2> QED BY <1>1, <2>2, <2>4, <2>5, <2>6, <2>7 DEF CmdInv, CmdSystem
<1>5. CASE Fails(p, "fork", "run") /\ main' = [main EXCEPT ![p] = Commands!Failed]
  <2>1. /\ TableInv(CmdPlaces)' /\ pc' = [pc EXCEPT ![p] = "run"]
        /\ UNCHANGED <<program, sigchld, parent, exit, killed>>
        /\ \A q \in Pid : Children(q)' = Children(q)
        /\ Orphans' = Orphans
    BY <1>2, <1>5, GotoTable
  <2>2. failed' # {} BY <1>5 DEF Fails
  <2>3. pc'[First] = "run" /\ \A r \in Pid \ {First} : pc'[r] = pc[r] /\ main'[r] = main[r]
    BY <1>1, <1>5, <2>1 DEF CmdInv, CmdTypes, TableInv
  <2>4. CmdTypes' BY <1>1, <1>5, <2>1 DEF CmdInv, CmdTypes
  <2>5. \A r \in Pid : CmdRound(r)' BY <1>1, <2>1, <2>3 DEF CmdInv, CmdRound
  <2>6. CmdFamily' BY <1>1, <1>3, <2>1, <2>3 DEF CmdInv, CmdFamily, Kids
  <2>7. CmdPs' BY <1>1, <2>1, <2>2 DEF CmdInv, CmdPs, Clean
  <2> QED BY <1>1, <2>1, <2>4, <2>5, <2>6, <2>7 DEF CmdInv, CmdSystem
<1> QED BY <1>4, <1>5, CmdTable DEF Commands!Fork

\* While SIGCHLD is ignored who ends is no zombie.
LEMMA EndsIgnored ==
    ASSUME NEW p \in Pid, NEW s, Exit(p, s) \/ Kill(p), NEW Places, pc \in [Pid -> Places],
           sigchld = "ignored"
    PROVE  pc'[p] = Gone
BY DEF Exit, Kill, Ends

\* p ends; while nobody was killed, it has no children then.
LEMMA CmdEndInv ==
    ASSUME CmdInv, NEW p \in Pid, Running(p), NEW s \in Status \ {"none"},
           Exit(p, s) \/ (s = "signal" /\ Kill(p)), UNCHANGED ofCommands,
           killed' # {} \/ Children(p) = {},
           killed' # {} \/ pc[p] # "child" \/ s = "three"
    PROVE  CmdInv'
<1> USE DEF CmdPlaces, Dead
<1>1. /\ TableInv(CmdPlaces)' /\ pc'[p] \in {Zombie, Gone}
      /\ parent[p] # Adopter /\ sigchld = "default" => pc'[p] = Zombie
      /\ \A q \in Pid \ {p} : pc'[q] = pc[q] \/ (pc[q] = Zombie /\ pc'[q] = Gone)
      /\ \A q \in Pid \ {p} : parent[q] # p => pc'[q] = pc[q] /\ parent'[q] = parent[q]
      /\ parent[p] # p => parent'[p] = parent[p]
      /\ exit' = [exit EXCEPT ![p] = s] /\ UNCHANGED <<program, sigchld, failed>>
      /\ killed \subseteq killed' /\ (killed' = killed \/ p \in killed')
      /\ Children(p)' = {}
      /\ \A r \in Pid \ {p} : Children(r)' \subseteq Children(r)
      /\ Orphans' \subseteq Orphans \cup Children(p)
  BY EndsTable DEF CmdInv, CmdTypes
<1>2. UNCHANGED <<main, pid, st, round, reported>> BY DEF ofCommands
<1>3. exit'[p] = s /\ \A q \in Pid \ {p} : exit'[q] = exit[q]
  BY <1>1 DEF CmdInv, CmdTypes, TableInv, TableTypeOK
<1>4. CmdTypes' BY <1>1, <1>2 DEF CmdInv, CmdTypes
<1>5. \A r \in Pid : CmdRound(r)' BY <1>1, <1>2 DEF CmdInv, CmdRound
<1>6. CmdFamily'
  <2>1. ASSUME NEW r \in Pid PROVE Children(r)' \subseteq Kids(r)'
    <3>1. CASE r = p BY <1>1, <3>1
    <3>2. CASE r # p
      <4>1. Children(r)' \subseteq Kids(r) BY <1>1, <3>2 DEF CmdInv, CmdFamily
      <4>2. (pc[r] = "wait" <=> pc'[r] = "wait") /\ (pc[r] = "collect" <=> pc'[r] = "collect")
        BY <1>1, <3>2
      <4> QED BY <1>1, <1>2, <4>1, <4>2 DEF Kids, Uncollected
    <3> QED BY <3>1, <3>2
  <2>2. pc'[First] \notin {Unborn, "child", "exec", "ps", "sh"}
    BY <1>1, PidAssumption DEF CmdInv, CmdFamily
  <2> QED BY <1>1, <2>1, <2>2 DEF CmdInv, CmdFamily
<1>7. CmdPs'
  <2> SUFFICES ASSUME program = "ps" PROVE CmdPs' BY <1>1 DEF CmdPs
  <2>1. Clean' => Clean BY <1>1 DEF Clean
  <2>2. ASSUME Clean', pc'[First] \in {"run", "wait", "collect"}, Uncollected'
        PROVE  /\ main[First] \in Pid \ {First}
               /\ parent'[main[First]] = First
               /\ \/ pc'[main[First]] = "child"
                  \/ pc'[main[First]] = Zombie /\ exit'[main[First]] = "three"
               /\ pc'[First] = "wait" => pid[First] \in Pid \ {main[First]}
    <3>1. p # First /\ pc'[First] = pc[First] BY <1>1, <2>2, PidAssumption
    <3>2. Clean /\ Uncollected BY <1>2, <2>1, <2>2, <3>1 DEF Uncollected
    <3>3. /\ main[First] \in Pid \ {First}
          /\ parent[main[First]] = First
          /\ \/ pc[main[First]] = "child"
             \/ pc[main[First]] = Zombie /\ exit[main[First]] = "three"
          /\ pc[First] = "wait" => pid[First] \in Pid \ {main[First]}
      BY <2>2, <3>1, <3>2 DEF CmdInv, CmdPs
    <3>4. CASE main[First] = p
      <4>1. pc[p] = "child" BY <3>3, <3>4 DEF Running
      <4>2. s = "three" /\ sigchld = "default" BY <2>2, <3>2, <4>1 DEF Clean
      <4> QED BY <1>1, <1>3, <3>1, <3>3, <3>4, <4>2
    <3>5. CASE main[First] # p BY <1>1, <1>3, <3>1, <3>3, <3>5
    <3> QED BY <3>4, <3>5
  <2>3. /\ \A q \in Pid \ {First} : st'[q] = "garbage" /\ reported'[q] \in {"none", "garbage"}
        /\ Clean' => reported'[First] \in {"none", "three"}
    BY <1>2, <2>1 DEF CmdInv, CmdPs
  <2> QED BY <1>2, <2>2, <2>3 DEF CmdPs
<1>8. CmdSystem'
  <2> SUFFICES ASSUME program # "ps" PROVE CmdSystem' BY <1>1 DEF CmdSystem
  <2>1. \A q \in Pid \ {First} : pc'[q] \in Dead \cup {"exec", "sh"}
    BY <1>1 DEF CmdInv, CmdSystem
  <2>2. pc'[First] \in {"wait", "failed"} => pc'[First] = pc[First] BY <1>1, PidAssumption
  <2>3. Children(First)' \subseteq Children(First) BY <1>1, PidAssumption
  <2>4. \A q \in Pid : pc[q] = Gone => pc'[q] = Gone /\ exit'[q] = exit[q]
    BY <1>1, <1>3 DEF Running
  <2>6. sigchld' = "ignored" => \A q \in Pid : pc'[q] # Zombie
    <3>1. sigchld = "ignored" => pc'[p] = Gone BY EndsIgnored DEF CmdInv, CmdTypes, TableInv
    <3> QED BY <1>1, <3>1 DEF CmdInv, CmdSystem
  <2>7. ASSUME pc'[First] = "wait", sigchld # "ignored", pid[First] \in Children(First)
        PROVE  pid[First] \in Children(First)'
    <3>1. p # First /\ pc[First] = "wait" /\ sigchld = "default"
      BY <1>1, <2>7, PidAssumption DEF CmdInv, CmdTypes, TableInv, TableTypeOK
    <3>2. parent[pid[First]] = First /\ pc[pid[First]] \notin {Unborn, Gone} /\ pid[First] \in Pid
      BY <2>7 DEF Children
    <3>3. parent'[pid[First]] = First /\ pc'[pid[First]] \notin {Unborn, Gone}
      BY <1>1, <3>1, <3>2, PidAssumption
    <3> QED BY <3>2, <3>3 DEF Children
  <2>8. /\ pc'[First] = "failed" => program = "system" /\ failed # {}
        /\ pc'[First] = "wait" => \A q \in Children(First)' : round[q] = round[First]
    BY <2>2, <2>3 DEF CmdInv, CmdSystem
  <2>9. ASSUME pc'[First] = "wait", ~(program = "spawn" /\ failed # {}), sigchld # "ignored"
        PROVE  pid[First] \in Children(First)'
    BY <2>2, <2>7, <2>9 DEF CmdInv, CmdSystem
  <2>10. program = "spawn" =>
           st[First] = "garbage" \/ (sigchld # "ignored" /\ Kept)
    BY DEF CmdInv, CmdSystem
  <2>11. reported[First] # "none" =>
           \/ Last
           \/ Denied /\ reported[First] = IF program = "system" THEN "error" ELSE "garbage"
           \/ program = "spawn" /\ failed # {} /\ Earlier
    BY DEF CmdInv, CmdSystem
  <2>12. Denied' <=> Denied BY <1>1 DEF Denied
  <2>13. (Kept => Kept') /\ (Earlier => Earlier') /\ (Last => Last')
    BY <1>2, <2>4 DEF Kept, Earlier, Last
  <2> QED BY <1>1, <1>2, <2>1, <2>6, <2>8, <2>9, <2>10, <2>11, <2>12, <2>13 DEF CmdSystem
<1> QED BY <1>4, <1>5, <1>6, <1>7, <1>8 DEF CmdInv

LEMMA CmdEnds ==
    ASSUME CmdInv, NEW p \in Pid,
           Commands!ChildReturns(p) \/ Commands!End(p) \/ Commands!CommandEnds(p) \/ Commands!Killed(p)
    PROVE  CmdInv'
<1>1. CASE Commands!Killed(p)
  <2>1. Kill(p) /\ Running(p) /\ UNCHANGED ofCommands /\ killed' # {}
    BY <1>1, CmdTable DEF Commands!Killed, Commands!locals, ofCommands, Kill
  <2> QED BY <2>1, CmdEndInv
<1>2. CASE \/ Commands!ChildReturns(p) \/ Commands!End(p) \/ Commands!CommandEnds(p)
  <2>1. /\ pc[p] \in {"child", "end", "sh", "ps"} /\ UNCHANGED ofCommands
        /\ \E s \in Status \ {"none"} : Exit(p, s) /\ (pc[p] = "child" => s = "three")
    BY <1>2, CmdTable DEF Commands!ChildReturns, Commands!End, Commands!CommandEnds,
       Commands!locals, ofCommands
  <2>2. Running(p) BY <2>1 DEF Running
  <2>3. Children(p) = {}
    <3>1. p = First => pc[p] = "end" BY <2>1 DEF CmdInv, CmdFamily
    <3>2. p = First /\ program = "ps" => ~Uncollected
      BY <3>1, PidAssumption DEF CmdInv, CmdRound, Uncollected
    <3> QED BY <2>1, <3>2 DEF CmdInv, CmdFamily, Kids
  <2> QED BY <2>1, <2>2, <2>3, CmdEndInv
<1> QED BY <1>1, <1>2

LEMMA CmdRunPsInv == ASSUME CmdInv, NEW p \in Pid, Commands!RunPs(p) PROVE CmdInv'
<1> USE DEF CmdPlaces, Dead
<1>1. program = "ps" /\ pc[p] = "run" /\ UNCHANGED <<st, reported>> /\ round[p] <= 2
  BY DEF Commands!RunPs, Commands!Copy, CmdInv, CmdRound
<1>2. Running(p) /\ TableInv(CmdPlaces) BY <1>1 DEF Running, CmdInv, CmdTypes
<1>3. CASE \E q \in Pid : /\ ForkAs(p, q, "wait", "exec") /\ Commands!Copy(p, q)
                          /\ pid' = [pid EXCEPT ![p] = q, ![q] = 0]
  <2>1. PICK q \in Pid : /\ ForkAs(p, q, "wait", "exec") /\ Commands!Copy(p, q)
                         /\ pid' = [pid EXCEPT ![p] = q, ![q] = 0]
    BY <1>3
  <2>2. /\ TableInv(CmdPlaces)' /\ pc' = [pc EXCEPT ![p] = "wait", ![q] = "exec"]
        /\ pc[q] = Unborn /\ q # p /\ parent'[q] = p
        /\ UNCHANGED <<program, sigchld, exit, killed, failed>>
        /\ Children(q) = {} /\ Children(p)' = Children(p) \cup {q}
        /\ \A r \in Pid \ {p} : Children(r)' = Children(r)
        /\ Orphans' \subseteq Orphans
    BY <1>2, <2>1, ForkTable
  <2>3. q # First BY <2>2 DEF CmdInv, CmdFamily
  <2>4. /\ pc'[p] = "wait" /\ pc'[q] = "exec" /\ \A r \in Pid \ {p, q} : pc'[r] = pc[r]
        /\ pid'[p] = q /\ \A r \in Pid \ {p, q} : pid'[r] = pid[r]
        /\ round'[q] = round[p] /\ \A r \in Pid \ {q} : round'[r] = round[r]
        /\ \A r \in Pid \ {q} : main'[r] = main[r]
        /\ \A r \in Pid \ {q} : parent'[r] = parent[r]
    BY <2>1, <2>2 DEF CmdInv, CmdTypes, TableInv, TableTypeOK, Commands!Copy, ForkAs
  <2>5. CmdTypes' BY <1>1, <2>1, <2>2 DEF CmdInv, CmdTypes, Commands!Copy
  <2>6. ASSUME NEW r \in Pid PROVE CmdRound(r)'
    <3>1. CASE r \in {p, q}
      <4>1. pc'[r] \in {"wait", "exec"} /\ round'[r] = round[p] BY <2>2, <2>4, <3>1
      <4> QED BY <1>1, <4>1 DEF CmdRound
    <3>2. CASE r \notin {p, q}
      <4>1. pc'[r] = pc[r] /\ round'[r] = round[r] /\ main'[r] = main[r] BY <2>4, <3>2
      <4> QED BY <2>2, <4>1 DEF CmdInv, CmdRound
    <3> QED BY <3>1, <3>2
  <2>7. Uncollected' <=> Uncollected
    BY <1>1, <2>3, <2>4, PidAssumption DEF Uncollected
  <2>8. CmdFamily'
    <3>1. ASSUME NEW r \in Pid PROVE Children(r)' \subseteq Kids(r)'
      <4>1. CASE r = q BY <2>2, <4>1
      <4>2. CASE r = p
        <5>1. Children(p) \subseteq Kids(p) BY DEF CmdInv, CmdFamily
        <5> QED BY <1>1, <2>2, <2>4, <2>7, <4>2, <5>1 DEF Kids
      <4>3. CASE r \notin {p, q}
        <5>1. Children(r)' \subseteq Kids(r) BY <2>2, <4>3 DEF CmdInv, CmdFamily
        <5> QED BY <2>2, <2>4, <2>7, <4>3, <5>1 DEF Kids
      <4> QED BY <4>1, <4>2, <4>3
    <3>2. pc'[First] \notin {Unborn, "child", "exec", "ps", "sh"}
      BY <2>3, <2>4, PidAssumption DEF CmdInv, CmdFamily
    <3> QED BY <2>2, <3>1, <3>2 DEF CmdInv, CmdFamily
  <2>9. CmdPs'
    <3>1. Clean' <=> Clean BY <2>2 DEF Clean
    <3>2. ASSUME Clean', pc'[First] \in {"run", "wait", "collect"}, Uncollected'
          PROVE  /\ main'[First] \in Pid \ {First}
                 /\ parent'[main'[First]] = First
                 /\ \/ pc'[main'[First]] = "child"
                    \/ pc'[main'[First]] = Zombie /\ exit'[main'[First]] = "three"
                 /\ pc'[First] = "wait" => pid'[First] \in Pid \ {main'[First]}
      <4>1. /\ main[First] \in Pid \ {First}
            /\ parent[main[First]] = First
            /\ \/ pc[main[First]] = "child"
               \/ pc[main[First]] = Zombie /\ exit[main[First]] = "three"
            /\ pc[First] = "wait" => pid[First] \in Pid \ {main[First]}
        BY <1>1, <2>3, <2>4, <2>7, <3>1, <3>2, PidAssumption DEF CmdInv, CmdPs
      <4>2. main[First] \notin {p, q} /\ main'[First] = main[First]
        BY <1>1, <2>2, <2>3, <2>4, <4>1, PidAssumption
      <4>3. pc'[main[First]] = pc[main[First]] /\ parent'[main[First]] = parent[main[First]]
        BY <2>4, <4>1, <4>2
      <4>4. pc'[First] = "wait" => pid'[First] \in Pid \ {main[First]}
        <5>1. CASE p = First BY <2>4, <4>2, <5>1
        <5>2. CASE p # First BY <2>3, <2>4, <4>1, <5>2, PidAssumption
        <5> QED BY <5>1, <5>2
      <4> QED BY <2>2, <4>1, <4>2, <4>3, <4>4
    <3> QED BY <1>1, <3>1, <3>2 DEF CmdInv, CmdPs
  <2> QED BY <1>1, <2>2, <2>5, <2>6, <2>8, <2>9 DEF CmdInv, CmdSystem
<1>4. CASE Fails(p, "run_ps", "wait") /\ pid' = [pid EXCEPT ![p] = Commands!Failed]
           /\ UNCHANGED <<main, round>>
  <2>1. /\ TableInv(CmdPlaces)' /\ pc' = [pc EXCEPT ![p] = "wait"]
        /\ UNCHANGED <<program, sigchld, parent, exit, killed>>
        /\ \A q \in Pid : Children(q)' = Children(q)
        /\ Orphans' = Orphans
    BY <1>2, <1>4, GotoTable
  <2>2. failed' # {} BY <1>4 DEF Fails
  <2>3. pc'[p] = "wait" /\ \A r \in Pid \ {p} : pc'[r] = pc[r] /\ pid'[r] = pid[r]
    BY <1>1, <1>4, <2>1 DEF CmdInv, CmdTypes, TableInv
  <2>4. CmdTypes' BY <1>1, <1>4, <2>1 DEF CmdInv, CmdTypes
  <2>5. \A r \in Pid : CmdRound(r)' BY <1>1, <1>4, <2>1, <2>3 DEF CmdInv, CmdRound
  <2>6. Uncollected' <=> Uncollected BY <1>1, <1>4, <2>3, PidAssumption DEF Uncollected
  <2>7. CmdFamily'
    <3>1. ASSUME NEW r \in Pid PROVE Children(r)' \subseteq Kids(r)'
      BY <1>1, <1>4, <2>1, <2>3, <2>6 DEF CmdInv, CmdFamily, Kids
    <3> QED BY <2>1, <2>3, <3>1, PidAssumption DEF CmdInv, CmdFamily
  <2>8. CmdPs' BY <1>1, <2>1, <2>2 DEF CmdInv, CmdPs, Clean
  <2> QED BY <1>1, <2>1, <2>4, <2>5, <2>7, <2>8 DEF CmdInv, CmdSystem
<1> QED BY <1>3, <1>4, CmdTable DEF Commands!RunPs

\* An execve() or execl(), whether it fails or not.
LEMMA CmdExecInv ==
    ASSUME CmdInv, NEW p \in Pid, pc[p] = "exec", NEW place \in {"ps", "wait", "sh"},
           program = "ps" <=> place # "sh", Goto(p, place), UNCHANGED ofCommands
    PROVE  CmdInv'
<1> USE DEF CmdPlaces, Dead
<1>1. UNCHANGED <<main, pid, st, round, reported>> BY DEF ofCommands
<1>2. p # First /\ Running(p) /\ TableInv(CmdPlaces)
  BY DEF CmdInv, CmdFamily, CmdTypes, Running
<1>3. /\ TableInv(CmdPlaces)' /\ pc' = [pc EXCEPT ![p] = place]
      /\ UNCHANGED <<program, sigchld, parent, exit, killed>>
      /\ \A q \in Pid : Children(q)' = Children(q)
      /\ Orphans' = Orphans
  BY <1>2, GotoTable
<1>4. failed' = failed BY DEF Goto
<1>5. pc'[p] = place /\ \A r \in Pid \ {p} : pc'[r] = pc[r]
  BY <1>2, <1>3 DEF TableInv
<1>6. CmdTypes' BY <1>1, <1>3 DEF CmdInv, CmdTypes
<1>7. ASSUME NEW r \in Pid PROVE CmdRound(r)'
  <2>1. CASE r = p BY <1>1, <1>3, <1>5, <2>1 DEF CmdInv, CmdRound
  <2>2. CASE r # p
    <3>1. pc'[r] = pc[r] BY <1>5, <2>2
    <3> QED BY <1>1, <1>3, <3>1 DEF CmdInv, CmdRound
  <2> QED BY <2>1, <2>2
<1>8. CmdFamily'
  <2>1. pc'[First] = pc[First] BY <1>2, <1>5, PidAssumption
  <2>2. ASSUME NEW r \in Pid PROVE Children(r)' \subseteq Kids(r)'
    BY <1>1, <1>2, <1>3, <1>5, <2>1 DEF CmdInv, CmdFamily, Kids, Uncollected
  <2> QED BY <1>3, <2>1, <2>2 DEF CmdInv, CmdFamily
<1>9. CmdPs'
  <2> SUFFICES ASSUME program = "ps" PROVE CmdPs' BY <1>3 DEF CmdPs
  <2>1. pc'[First] = pc[First] /\ (Clean' <=> Clean) /\ (Uncollected' <=> Uncollected)
    BY <1>1, <1>2, <1>3, <1>4, <1>5, PidAssumption DEF Clean, Uncollected
  <2>2. \A r \in Pid : pc[r] = "child" \/ pc[r] = Zombie => pc'[r] = pc[r]
    BY <1>5
  <2> QED BY <1>1, <1>3, <2>1, <2>2 DEF CmdInv, CmdPs
<1>10. CmdSystem'
  <2> SUFFICES ASSUME program # "ps" PROVE CmdSystem' BY <1>3 DEF CmdSystem
  <2>1. /\ pc'[First] = pc[First] /\ Children(First)' = Children(First)
        /\ \A r \in Pid \ {First} : pc'[r] \in Dead \cup {"exec", "sh"}
    BY <1>2, <1>3, <1>5, PidAssumption DEF CmdInv, CmdSystem
  <2>2. \A r \in Pid : (pc[r] = Gone => pc'[r] = Gone) /\ (pc'[r] = Zombie => pc[r] = Zombie)
    BY <1>5
  <2>3. (Kept => Kept') /\ (Earlier => Earlier') /\ (Last => Last') /\ (Denied' <=> Denied)
    BY <1>1, <1>3, <1>4, <2>2 DEF Kept, Earlier, Last, Denied
  <2> QED BY <1>1, <1>3, <1>4, <2>1, <2>2, <2>3 DEF CmdInv, CmdSystem
<1> QED BY <1>6, <1>7, <1>8, <1>9, <1>10 DEF CmdInv

LEMMA CmdExecs ==
    ASSUME CmdInv, NEW p \in Pid, Commands!ExecPs(p) \/ Commands!ExecSh(p) PROVE CmdInv'
<1>1. CASE Commands!ExecPs(p)
  <2>1. /\ program = "ps" /\ pc[p] = "exec" /\ UNCHANGED ofCommands
        /\ Goto(p, "ps") \/ Goto(p, "wait")
    BY <1>1, CmdTable DEF Commands!ExecPs, Commands!locals, ofCommands
  <2> QED BY <2>1, CmdExecInv
<1>2. CASE Commands!ExecSh(p)
  <2>1. /\ program = "system" /\ pc[p] = "exec" /\ UNCHANGED ofCommands
        /\ Goto(p, "sh") \/ Exit(p, "notfound")
    BY <1>2, CmdTable DEF Commands!ExecSh, Commands!locals, ofCommands
  <2>2. CASE Goto(p, "sh") BY <2>1, <2>2, CmdExecInv
  <2>3. CASE Exit(p, "notfound")
    <3>1. Running(p) BY <2>1 DEF Running
    <3>2. Children(p) = {}
      BY <2>1 DEF CmdInv, CmdFamily, Kids
    <3> QED BY <2>1, <2>3, <3>1, <3>2, CmdEndInv
  <2> QED BY <2>1, <2>2, <2>3
<1> QED BY <1>1, <1>2

LEMMA CmdWaitPsInv == ASSUME CmdInv, NEW p \in Pid, Commands!WaitPs(p) PROVE CmdInv'
<1> USE DEF CmdPlaces, Dead
<1> DEFINE after == IF round[p] = 1 THEN "collect" ELSE IF round[p] = 2 THEN "end" ELSE "run"
<1>1. /\ program = "ps" /\ pc[p] = "wait" /\ UNCHANGED <<main, pid, st, reported>>
      /\ round' = [round EXCEPT ![p] = round[p] + 1]
      /\ (\E q \in Pid : Reap(p, pid[p], q, after)) \/ (NoChild(p, pid[p]) /\ Goto(p, after))
  BY CmdTable DEF Commands!WaitPs
<1>2. Running(p) /\ TableInv(CmdPlaces) /\ after \in {"collect", "end", "run"}
  BY <1>1 DEF Running, CmdInv, CmdTypes
<1>3. round[p] \in 0..2 BY <1>1 DEF CmdInv, CmdTypes, CmdRound
<1>4. /\ after = "collect" <=> round[p] = 1
      /\ after = "end" <=> round[p] = 2
  OBVIOUS
<1> HIDE DEF after
<1>5. /\ TableInv(CmdPlaces)' /\ pc'[p] = after
      /\ \A r \in Pid \ {p} :
           pc'[r] = pc[r] \/ (r \in Awaited(p, pid[p]) /\ pc[r] = Zombie /\ pc'[r] = Gone)
      /\ UNCHANGED <<program, sigchld, parent, exit, killed>> /\ failed' = failed
      /\ Children(p)' \subseteq Children(p) /\ pid[p] \notin Children(p)'
      /\ \A r \in Pid \ {p} : Children(r)' = Children(r)
      /\ Orphans' = Orphans
  BY ZenonT(30), <1>1, <1>2, WaitTable
<1>6. round'[p] = round[p] + 1 /\ \A r \in Pid \ {p} : round'[r] = round[r]
  BY <1>1 DEF CmdInv, CmdTypes
<1>7. CmdTypes'
  <2>1. round' \in [Pid -> 0..3] BY <1>1, <1>3 DEF CmdInv, CmdTypes
  <2> QED BY <1>1, <1>5, <2>1 DEF CmdInv, CmdTypes
<1>8. ASSUME NEW r \in Pid PROVE CmdRound(r)'
  <2>1. CASE r = p BY <1>1, <1>2, <1>3, <1>4, <1>5, <1>6, <2>1 DEF CmdRound
  <2>2. CASE r # p
    <3>1. /\ round'[r] = round[r] /\ main'[r] = main[r] /\ program' = program
          /\ pc'[r] = pc[r] \/ pc'[r] = Gone
      BY <1>1, <1>5, <1>6, <2>2
    <3> QED BY <3>1 DEF CmdInv, CmdRound
  <2> QED BY <2>1, <2>2
<1>9. Uncollected' <=> Uncollected
  <2>1. CASE p = First
    BY <1>1, <1>3, <1>4, <1>5, <1>6, <2>1 DEF Uncollected
  <2>2. CASE p # First
    <3>1. /\ round'[First] = round[First]
          /\ pc'[First] = pc[First] \/ (pc[First] = Zombie /\ pc'[First] = Gone)
      BY <1>5, <1>6, <2>2, PidAssumption
    <3> QED BY <3>1 DEF Uncollected
  <2> QED BY <2>1, <2>2
<1>10. CmdFamily'
  <2>1. ASSUME NEW r \in Pid PROVE Children(r)' \subseteq Kids(r)'
    <3>1. CASE r = p
      <4>1. Children(p)' \subseteq Kids(p) \ {pid[p]} BY <1>5 DEF CmdInv, CmdFamily
      <4> QED BY <1>1, <1>5, <1>9, <3>1, <4>1 DEF Kids
    <3>2. CASE r # p
      <4>1. Children(r)' \subseteq Kids(r) BY <1>5, <3>2 DEF CmdInv, CmdFamily
      <4>2. pc[r] = "wait" => pc'[r] = "wait" BY <1>5, <3>2
      <4> QED BY <1>1, <1>5, <1>9, <4>1, <4>2 DEF Kids
    <3> QED BY <3>1, <3>2
  <2>2. pc'[First] \notin {Unborn, "child", "exec", "ps", "sh"}
    BY <1>2, <1>5, PidAssumption DEF CmdInv, CmdFamily
  <2> QED BY <1>5, <2>1, <2>2 DEF CmdInv, CmdFamily
<1>11. CmdPs'
  <2>1. Clean' <=> Clean BY <1>5 DEF Clean
  <2>2. ASSUME Clean, pc'[First] \in {"run", "wait", "collect"}, Uncollected'
        PROVE  /\ main[First] \in Pid \ {First}
               /\ parent[main[First]] = First
               /\ \/ pc'[main[First]] = "child"
                  \/ pc'[main[First]] = Zombie /\ exit[main[First]] = "three"
               /\ pc'[First] = "wait" => pid[First] \in Pid \ {main[First]}
    <3>1. pc[First] \in {"run", "wait", "collect"} /\ (pc'[First] = "wait" => pc[First] = "wait")
      <4>1. CASE p = First BY <1>1, <1>2, <1>5, <4>1
      <4>2. CASE p # First BY <1>5, <2>2, <4>2, PidAssumption
      <4> QED BY <4>1, <4>2
    <3>2. /\ main[First] \in Pid \ {First}
          /\ parent[main[First]] = First
          /\ \/ pc[main[First]] = "child"
             \/ pc[main[First]] = Zombie /\ exit[main[First]] = "three"
          /\ pc[First] = "wait" => pid[First] \in Pid \ {main[First]}
      BY <1>1, <1>9, <2>2, <3>1 DEF CmdInv, CmdPs
    <3>3. main[First] # p BY <1>1, <3>2
    <3>4. main[First] \notin Awaited(p, pid[p])
      <4>1. CASE p = First BY <1>1, <3>2, <4>1 DEF Awaited
      <4>2. CASE p # First BY <3>2, <4>2 DEF Awaited, Children
      <4> QED BY <4>1, <4>2
    <3>5. pc'[main[First]] = pc[main[First]] BY <1>5, <3>2, <3>3, <3>4
    <3> QED BY <3>1, <3>2, <3>5
  <2> QED BY <1>1, <1>5, <2>1, <2>2 DEF CmdInv, CmdPs
<1> QED BY <1>1, <1>5, <1>7, <1>8, <1>10, <1>11 DEF CmdInv, CmdSystem

LEMMA CmdCollectInv == ASSUME CmdInv, NEW p \in Pid, Commands!Collect(p) PROVE CmdInv'
<1> USE DEF CmdPlaces, Dead
<1>1. /\ pc[p] = "collect" /\ UNCHANGED <<main, pid, round>>
      /\ reported' = [reported EXCEPT ![p] = st'[p]]
      /\ \/ \E q \in Pid : Reap(p, main[p], q, "run") /\ st' = [st EXCEPT ![p] = exit[q]]
         \/ NoChild(p, main[p]) /\ Goto(p, "run") /\ st' = st
  BY CmdTable DEF Commands!Collect
<1>2. Running(p) /\ TableInv(CmdPlaces) /\ program = "ps" /\ round[p] = 2
  BY <1>1 DEF Running, CmdInv, CmdTypes, CmdRound
<1>3. /\ TableInv(CmdPlaces)' /\ pc'[p] = "run"
      /\ \A r \in Pid \ {p} :
           pc'[r] = pc[r] \/ (r \in Awaited(p, main[p]) /\ pc[r] = Zombie /\ pc'[r] = Gone)
      /\ UNCHANGED <<program, sigchld, parent, exit, killed>> /\ failed' = failed
      /\ Children(p)' \subseteq Children(p) /\ main[p] \notin Children(p)'
      /\ \A r \in Pid \ {p} : Children(r)' = Children(r)
      /\ Orphans' = Orphans
  <2>1. (\E q \in Pid : Reap(p, main[p], q, "run")) \/ (NoChild(p, main[p]) /\ Goto(p, "run"))
    BY <1>1
  <2>2. "run" \in CmdPlaces \ Dead /\ Gone \in CmdPlaces OBVIOUS
  <2> HIDE DEF CmdPlaces, Dead
  <2> QED BY <1>2, <2>1, <2>2, WaitTable
<1>4. p # First => Children(p) = {}
  BY <1>1 DEF CmdInv, CmdFamily, Kids
<1>5. p # First => st' = st
  <2>1. \A q \in Pid : Reap(p, main[p], q, "run") => q \in Children(p) BY DEF Reap, Awaited
  <2> QED BY <1>1, <1>4, <2>1
<1>6. CmdTypes'
  <2>1. st' \in [Pid -> Status \cup {"garbage"}]
    BY <1>1 DEF CmdInv, CmdTypes, TableInv, TableTypeOK
  <2> QED BY <1>1, <1>3, <2>1 DEF CmdInv, CmdTypes
<1>7. ASSUME NEW r \in Pid PROVE CmdRound(r)'
  <2>1. CASE r = p BY <1>1, <1>2, <1>3, <2>1 DEF CmdRound
  <2>2. CASE r # p
    <3>1. round' = round /\ main' = main /\ program' = program /\ (pc'[r] = pc[r] \/ pc'[r] = Gone)
      BY <1>1, <1>3, <2>2
    <3> QED BY <3>1 DEF CmdInv, CmdRound
  <2> QED BY <2>1, <2>2
<1>8. p # First => pc'[First] = pc[First]
  <2>1. p # First => First \notin Awaited(p, main[p]) BY <1>4 DEF Awaited
  <2> QED BY <1>3, <2>1, PidAssumption
<1>9. CmdFamily'
  <2>1. ASSUME NEW r \in Pid PROVE Children(r)' \subseteq Kids(r)'
    <3>1. CASE r = p
      <4>1. Children(p) \subseteq {main[p]} BY <1>1 DEF CmdInv, CmdFamily, Kids
      <4> QED BY <1>3, <3>1, <4>1
    <3>2. CASE r # p
      <4>1. Children(r)' \subseteq Kids(r) BY <1>3, <3>2 DEF CmdInv, CmdFamily
      <4>2. pc[r] = "wait" => pc'[r] = "wait" BY <1>3, <3>2
      <4>3. r = First => pc'[r] = pc[r] BY <1>8, <3>2
      <4> QED BY <1>1, <1>3, <4>1, <4>2, <4>3 DEF Kids, Uncollected
    <3> QED BY <3>1, <3>2
  <2>2. pc'[First] \notin {Unborn, "child", "exec", "ps", "sh"}
    BY <1>3, <1>8 DEF CmdInv, CmdFamily
  <2> QED BY <1>3, <2>1, <2>2 DEF CmdInv, CmdFamily
<1>10. CmdPs'
  <2>1. Clean' <=> Clean BY <1>3 DEF Clean
  <2>2. CASE p # First
    <3>1. /\ st' = st /\ pc'[First] = pc[First] /\ (Uncollected' <=> Uncollected)
          /\ \A r \in Pid \ {p} : pc'[r] = pc[r]
      BY <1>1, <1>3, <1>4, <1>5, <1>8, <2>2 DEF Uncollected, Awaited
    <3>2. /\ \A r \in Pid \ {First} : reported'[r] \in {"none", "garbage"}
          /\ reported'[First] = reported[First]
      BY <1>1, <1>2, <2>2, <3>1, PidAssumption DEF CmdInv, CmdPs, CmdTypes
    <3>3. \A r \in Pid : pc[r] = "child" \/ pc[r] = Zombie => pc'[r] = pc[r] BY <1>1, <3>1
    <3> QED BY <1>1, <1>2, <1>3, <2>1, <3>1, <3>2, <3>3 DEF CmdInv, CmdPs
  <2>3. CASE p = First
    <3>1. ~Uncollected' BY <1>1, <1>2, <1>3, <2>3 DEF Uncollected
    <3>2. \A r \in Pid \ {First} : st'[r] = st[r] /\ reported'[r] = reported[r]
      BY <1>1, <2>3 DEF CmdInv, CmdTypes
    <3>3. ASSUME Clean PROVE reported'[First] = "three"
      <4>1. /\ main[First] \in Children(First)
            /\ pc[main[First]] = Zombie => exit[main[First]] = "three"
        BY <1>1, <1>2, <2>3, <3>3 DEF CmdInv, CmdPs, Uncollected, Children
      <4>2. Awaited(First, main[First]) = {main[First]} BY <4>1 DEF Awaited, Children
      <4>3. PICK q \in Pid : Reap(p, main[p], q, "run") /\ st' = [st EXCEPT ![p] = exit[q]]
        BY <1>1, <2>3, <4>2 DEF NoChild
      <4>4. q = main[First] /\ pc[q] = Zombie BY <2>3, <4>2, <4>3 DEF Reap
      <4>5. st'[First] = "three" BY <2>3, <4>1, <4>3, <4>4 DEF CmdInv, CmdTypes
      <4> QED BY <1>1, <2>3, <4>5 DEF CmdInv, CmdTypes
    <3> QED BY <1>2, <1>3, <2>1, <3>1, <3>2, <3>3 DEF CmdInv, CmdPs
  <2> QED BY <2>2, <2>3
<1> QED BY <1>2, <1>3, <1>6, <1>7, <1>9, <1>10 DEF CmdInv, CmdSystem

\* In system() only the first process runs commands.
LEMMA CmdFirst ==
    ASSUME CmdInv, program # "ps", NEW p \in Pid, pc[p] \in {"run", "wait", "failed"}
    PROVE  p = First /\ round[First] \in 0..2 /\ (pc[First] # "wait" => Children(First) = {})
BY PidAssumption DEF CmdInv, CmdTypes, CmdRound, CmdSystem, CmdFamily, Kids, Dead, CmdPlaces

LEMMA CmdSystemInv == ASSUME CmdInv, NEW p \in Pid, Commands!System(p) PROVE CmdInv'
<1> USE DEF CmdPlaces, Dead
<1> DEFINE child == IF program = "system" THEN "exec" ELSE "sh"
           here  == IF program = "system" THEN "failed" ELSE "wait"
<1>1. /\ program # "ps" /\ pc[First] = "run" /\ p = First
      /\ Children(First) = {} /\ round[First] \in 0..2
      /\ \E x \in {st[First], "garbage"} : st' = [st EXCEPT ![First] = x]
      /\ UNCHANGED <<main, reported>>
  BY CmdFirst DEF Commands!System
<1>2. Running(First) /\ TableInv(CmdPlaces) /\ First \in Pid
  BY <1>1, PidAssumption DEF Running, CmdInv, CmdTypes
<1>3. \/ \E q \in Pid : /\ ForkAs(First, q, "wait", child)
                        /\ pid' = [pid EXCEPT ![First] = q]
                        /\ round' = [round EXCEPT ![q] = round[First]]
      \/ /\ Fails(First, "system", here) /\ round' = round
         /\ \E x \in {0, pid[First], Commands!Failed} : pid' = [pid EXCEPT ![First] = x]
  <2>1. CASE \E q \in Pid : /\ Commands!ForkAs(p, q, "wait", child)
                            /\ pid' = [pid EXCEPT ![p] = q]
                            /\ round' = [round EXCEPT ![q] = round[p]]
    BY <1>1, <2>1, CmdTable
  <2>2. CASE /\ Commands!Fails(p, "system", here) /\ UNCHANGED round
             /\ IF program = "system" THEN UNCHANGED pid
                ELSE \E x \in {0, pid[p], Commands!Failed} : pid' = [pid EXCEPT ![p] = x]
    <3>1. pid = [pid EXCEPT ![First] = pid[First]] BY DEF CmdInv, CmdTypes
    <3>2. \E x \in {0, pid[First], Commands!Failed} : pid' = [pid EXCEPT ![First] = x]
      BY <1>1, <2>2, <3>1
    <3>3. Fails(First, "system", here) BY <1>1, <2>2, CmdTable
    <3> QED BY <2>2, <3>2, <3>3
  <2> QED BY <2>1, <2>2 DEF Commands!System
<1>4. child \in {"exec", "sh"} /\ here \in {"failed", "wait"} OBVIOUS
<1> HIDE DEF child, here
<1>5. st'[First] \in {st[First], "garbage"} /\ st' \in [Pid -> Status \cup {"garbage"}]
  BY <1>1, <1>2 DEF CmdInv, CmdTypes
<1>6. CASE \E q \in Pid : /\ ForkAs(First, q, "wait", child)
                          /\ pid' = [pid EXCEPT ![First] = q]
                          /\ round' = [round EXCEPT ![q] = round[First]]
  <2>1. PICK q \in Pid : /\ ForkAs(First, q, "wait", child)
                         /\ pid' = [pid EXCEPT ![First] = q]
                         /\ round' = [round EXCEPT ![q] = round[First]]
    BY <1>6
  <2>2. /\ TableInv(CmdPlaces)' /\ pc' = [pc EXCEPT ![First] = "wait", ![q] = child]
        /\ pc[q] = Unborn /\ q # First /\ parent'[q] = First
        /\ UNCHANGED <<program, sigchld, exit, killed, failed>>
        /\ Children(q) = {} /\ Children(First)' = Children(First) \cup {q}
        /\ \A r \in Pid \ {First} : Children(r)' = Children(r)
        /\ Orphans' \subseteq Orphans
    BY <1>2, <1>4, <2>1, ForkTable
  <2>3. /\ pc'[First] = "wait" /\ pc'[q] = child /\ \A r \in Pid \ {First, q} : pc'[r] = pc[r]
        /\ pid'[First] = q /\ \A r \in Pid \ {First} : pid'[r] = pid[r]
        /\ round'[q] = round[First] /\ \A r \in Pid \ {q} : round'[r] = round[r]
    BY <1>2, <2>1, <2>2 DEF CmdInv, CmdTypes, TableInv
  <2>4. CmdTypes' BY <1>1, <1>2, <1>5, <2>1, <2>2 DEF CmdInv, CmdTypes
  <2>5. ASSUME NEW r \in Pid PROVE CmdRound(r)'
    <3>1. CASE r \in {First, q}
      <4>1. pc'[r] \in {"wait", "exec", "sh"} /\ round'[r] = round[First] /\ program' # "ps"
        BY <1>1, <1>4, <2>2, <2>3, <3>1
      <4> QED BY <1>1, <4>1 DEF CmdRound
    <3>2. CASE r \notin {First, q}
      <4>1. pc'[r] = pc[r] /\ round'[r] = round[r] /\ main' = main /\ program' = program
        BY <1>1, <2>2, <2>3, <3>2
      <4> QED BY <4>1 DEF CmdInv, CmdRound
    <3> QED BY <3>1, <3>2
  <2>6. CmdFamily'
    <3>1. ASSUME NEW r \in Pid PROVE Children(r)' \subseteq Kids(r)'
      <4>1. CASE r = First BY <1>1, <2>2, <2>3, <4>1 DEF Kids
      <4>2. CASE r = q BY <2>2, <4>2
      <4>3. CASE r \notin {First, q}
        <5>1. Children(r)' \subseteq Kids(r) BY <2>2, <4>3 DEF CmdInv, CmdFamily
        <5> QED BY <1>1, <2>2, <2>3, <4>3, <5>1 DEF Kids
      <4> QED BY <4>1, <4>2, <4>3
    <3> QED BY <2>2, <2>3, <3>1 DEF CmdInv, CmdFamily
  <2>7. CmdSystem'
    <3>1. \A r \in Pid \ {First} : pc'[r] \in Dead \cup {"exec", "sh"}
      BY <1>1, <1>4, <2>3 DEF CmdInv, CmdSystem
    <3>2. \A r \in Children(First)' : round'[r] = round'[First]
      BY <1>1, <1>2, <2>2, <2>3
    <3>3. \A r \in Pid : pc[r] = Gone => pc'[r] = Gone /\ round'[r] = round[r]
      BY <1>1, <2>2, <2>3
    <3>4. round'[First] = round[First] BY <1>2, <2>2, <2>3
    <3>5. (Earlier => Earlier') /\ (Last => Last') /\ (Denied' <=> Denied)
      BY <1>1, <2>2, <3>3, <3>4 DEF Earlier, Last, Denied
    <3>6. st'[First] # "garbage" /\ Kept => Kept'
      BY <1>5, <2>2, <3>3, <3>4 DEF Kept
    <3>7. sigchld = "ignored" => \A r \in Pid : pc'[r] # Zombie
      BY <1>1, <1>4, <2>3 DEF CmdInv, CmdSystem
    <3>8. pid'[First] \in Children(First)' /\ pc'[First] = "wait" BY <2>2, <2>3
    <3>9. program = "spawn" => st'[First] = "garbage" \/ (sigchld # "ignored" /\ Kept')
      BY <1>1, <1>5, <3>6 DEF CmdInv, CmdSystem
    <3>10. reported'[First] # "none" =>
             \/ Last'
             \/ Denied' /\ reported'[First] = IF program = "system" THEN "error" ELSE "garbage"
             \/ program = "spawn" /\ failed # {} /\ Earlier'
      BY <1>1, <3>5 DEF CmdInv, CmdSystem
    <3> HIDE DEF CmdPlaces, Dead
    <3> QED BY <2>2, <3>1, <3>2, <3>7, <3>8, <3>9, <3>10 DEF CmdSystem, Dead
  <2> QED BY <1>1, <2>2, <2>4, <2>5, <2>6, <2>7 DEF CmdInv, CmdPs
<1>7. CASE /\ Fails(First, "system", here) /\ round' = round
           /\ \E x \in {0, pid[First], Commands!Failed} : pid' = [pid EXCEPT ![First] = x]
  <2>1. /\ TableInv(CmdPlaces)' /\ pc' = [pc EXCEPT ![First] = here]
        /\ UNCHANGED <<program, sigchld, parent, exit, killed>>
        /\ \A q \in Pid : Children(q)' = Children(q)
        /\ Orphans' = Orphans
    BY <1>2, <1>4, <1>7, GotoTable
  <2>2. /\ pc'[First] = here /\ \A r \in Pid \ {First} : pc'[r] = pc[r] /\ pid'[r] = pid[r]
        /\ pid' \in [Pid -> Pid \cup {0, Commands!Failed}]
    BY <1>2, <1>7, <2>1 DEF CmdInv, CmdTypes, TableInv
  <2>3. CmdTypes' BY <1>1, <1>5, <1>7, <2>1, <2>2 DEF CmdInv, CmdTypes
  <2>4. ASSUME NEW r \in Pid PROVE CmdRound(r)'
    BY <1>1, <1>4, <1>7, <2>1, <2>2 DEF CmdInv, CmdRound
  <2>5. CmdFamily'
    <3>1. ASSUME NEW r \in Pid PROVE Children(r)' \subseteq Kids(r)'
      <4>1. CASE r = First BY <1>1, <2>1, <4>1
      <4>2. CASE r # First BY <1>1, <2>1, <2>2, <4>2 DEF CmdInv, CmdFamily, Kids
      <4> QED BY <4>1, <4>2
    <3> QED BY <1>4, <2>1, <2>2, <3>1 DEF CmdInv, CmdFamily
  <2>6. CmdSystem'
    <3>1. failed' # {} /\ (here = "wait" <=> program = "spawn") /\ (here = "failed" <=> program = "system")
      BY <1>1, <1>7 DEF Fails, here, CmdInv, CmdTypes
    <3>2. \A q \in Pid : (pc[q] = Gone => pc'[q] = Gone) /\ (pc'[q] = Zombie => pc[q] = Zombie)
      BY <1>1, <1>4, <2>2
    <3>3. (Earlier => Earlier') /\ (Last => Last') /\ Denied'
      BY <1>1, <1>7, <2>1, <3>1, <3>2 DEF Earlier, Last, Denied
    <3>4. st'[First] # "garbage" /\ Kept => Kept'
      BY <1>5, <1>7, <2>1, <3>2 DEF Kept
    <3>5. program = "spawn" => st'[First] = "garbage" \/ (sigchld # "ignored" /\ Kept')
      BY <1>1, <1>5, <3>4 DEF CmdInv, CmdSystem
    <3>6. reported'[First] # "none" =>
            \/ Last'
            \/ Denied' /\ reported'[First] = IF program = "system" THEN "error" ELSE "garbage"
            \/ program = "spawn" /\ failed' # {} /\ Earlier'
      BY <1>1, <3>1, <3>3 DEF CmdInv, CmdSystem
    <3>7. /\ \A q \in Pid \ {First} : pc'[q] \in Dead \cup {"exec", "sh"}
          /\ sigchld = "ignored" => \A q \in Pid : pc'[q] # Zombie
          /\ \A q \in Children(First)' : round'[q] = round'[First]
      BY <1>1, <1>7, <2>1, <2>2, <3>2 DEF CmdInv, CmdSystem
    <3>8. program \in {"system", "spawn"} BY <1>1 DEF CmdInv, CmdTypes
    <3> HIDE DEF CmdPlaces, Dead
    <3> QED BY <1>4, <2>1, <2>2, <3>1, <3>5, <3>6, <3>7, <3>8 DEF CmdSystem
  <2> QED BY <1>1, <2>1, <2>3, <2>4, <2>5, <2>6 DEF CmdInv, CmdPs
<1> QED BY <1>3, <1>6, <1>7

LEMMA CmdWaitShInv == ASSUME CmdInv, NEW p \in Pid, Commands!WaitSh(p) PROVE CmdInv'
<1> USE DEF CmdPlaces, Dead
<1> DEFINE after == IF round[First] = 2 THEN "end" ELSE "run"
           Returns(s) == /\ st' = [st EXCEPT ![First] = s]
                         /\ reported' = [reported EXCEPT ![First] = s]
                         /\ round' = [round EXCEPT ![First] = round[First] + 1]
                         /\ UNCHANGED <<main, pid>>
<1>1. /\ program # "ps" /\ pc[First] \in {"wait", "failed"} /\ p = First
      /\ pc[First] # "wait" => Children(First) = {}
      /\ round[First] \in 0..2
  BY CmdFirst DEF Commands!WaitSh
<1>2. \/ pc[First] = "wait" /\ \E q \in Pid : Reap(First, pid[First], q, after) /\ Returns(exit[q])
      \/ /\ pc[First] = "wait" /\ NoChild(First, pid[First]) /\ Goto(First, after)
         /\ Returns(IF program = "system" THEN "error" ELSE st[First])
      \/ pc[First] = "failed" /\ Goto(First, after) /\ Returns("error")
  BY <1>1, CmdTable DEF Commands!WaitSh, Commands!Returns
<1>3. Running(First) /\ TableInv(CmdPlaces) /\ First \in Pid
  BY <1>1, PidAssumption DEF Running, CmdInv, CmdTypes
<1>4. after \in {"end", "run"} /\ (after = "run" => round[First] < 2) BY <1>1
<1>5. after \in CmdPlaces \ Dead /\ Gone \in CmdPlaces BY <1>4
<1> HIDE DEF after
<1>6. /\ TableInv(CmdPlaces)' /\ pc'[First] = after
      /\ \A r \in Pid \ {First} : pc'[r] = pc[r] \/ (pc[r] = Zombie /\ pc'[r] = Gone)
      /\ UNCHANGED <<program, sigchld, parent, exit, killed>> /\ failed' = failed
      /\ Children(First)' = {}
      /\ \A r \in Pid \ {First} : Children(r)' = Children(r)
      /\ Orphans' = Orphans
  <2>1. CASE \/ \E q \in Pid : Reap(First, pid[First], q, after)
             \/ NoChild(First, pid[First]) /\ Goto(First, after)
    <3>1. pc[First] = "wait" => Children(First) \subseteq {pid[First]}
      BY <1>1, <1>3 DEF CmdInv, CmdFamily, Kids
    <3>2. Children(First) \subseteq {pid[First]} BY <1>1, <3>1
    <3> HIDE DEF CmdPlaces, Dead
    <3>3. /\ TableInv(CmdPlaces)' /\ pc'[First] = after
          /\ \A r \in Pid \ {First} :
               pc'[r] = pc[r] \/ (r \in Awaited(First, pid[First]) /\ pc[r] = Zombie /\ pc'[r] = Gone)
          /\ UNCHANGED <<program, sigchld, parent, exit, killed>> /\ failed' = failed
          /\ Children(First)' \subseteq Children(First) /\ pid[First] \notin Children(First)'
          /\ \A r \in Pid \ {First} : Children(r)' = Children(r)
          /\ Orphans' = Orphans
      BY <1>3, <1>5, <2>1, WaitTable
    <3>4. Children(First)' = {} BY <3>2, <3>3
    <3> QED BY <3>3, <3>4
  <2>2. CASE pc[First] = "failed" /\ Goto(First, after)
    <3>1. /\ TableInv(CmdPlaces)' /\ pc' = [pc EXCEPT ![First] = after]
          /\ UNCHANGED <<program, sigchld, parent, exit, killed>>
          /\ \A q \in Pid : Children(q)' = Children(q)
          /\ Orphans' = Orphans
      BY <1>3, <1>5, <2>2, GotoTable
    <3>2. failed' = failed BY <2>2 DEF Goto
    <3>3. Children(First) = {} BY <1>1, <2>2
    <3> QED BY <1>3, <3>1, <3>2, <3>3 DEF TableInv
  <2> QED BY <1>2, <2>1, <2>2
<1>7. PICK s \in Status \cup {"garbage"} :
        /\ Returns(s)
        /\ \/ \E q \in Pid \ {First} :
                pc[q] = Zombie /\ pc'[q] = Gone /\ exit[q] = s /\ round[q] = round[First]
           \/ Denied /\ s = IF program = "system" THEN "error" ELSE "garbage"
           \/ program = "spawn" /\ failed # {} /\ s = st[First] /\ Kept
  <2>1. CASE pc[First] = "wait" /\ \E q \in Pid : Reap(First, pid[First], q, after) /\ Returns(exit[q])
    <3>1. PICK q \in Pid : Reap(First, pid[First], q, after) /\ Returns(exit[q]) BY <2>1
    <3>2. pc[q] = Zombie /\ q \in Children(First) /\ q # First /\ pc'[q] = Gone
      BY <1>3, <2>1, <3>1 DEF Reap, Awaited, TableInv
    <3>3. round[q] = round[First] BY <1>1, <2>1, <3>2 DEF CmdInv, CmdSystem
    <3>4. exit[q] \in Status BY <1>3 DEF TableInv, TableTypeOK
    <3> QED BY <3>1, <3>2, <3>3, <3>4
  <2>2. CASE /\ pc[First] = "wait" /\ NoChild(First, pid[First])
             /\ Returns(IF program = "system" THEN "error" ELSE st[First])
    <3>1. pid[First] \notin Children(First) BY <2>2 DEF NoChild, Awaited, Children
    <3>2. Denied /\ (sigchld = "ignored" \/ (program = "spawn" /\ failed # {}))
      BY <1>1, <2>2, <3>1 DEF CmdInv, CmdSystem, Denied
    <3>3. CASE program = "system" BY <2>2, <3>2, <3>3
    <3>4. CASE program = "spawn"
      <4>1. st[First] = "garbage" \/ (failed # {} /\ Kept)
        BY <1>1, <3>2, <3>4 DEF CmdInv, CmdSystem
      <4>2. st[First] \in Status \cup {"garbage"} BY <1>3 DEF CmdInv, CmdTypes
      <4> QED BY <2>2, <3>2, <3>4, <4>1, <4>2
    <3> QED BY <1>1, <3>3, <3>4 DEF CmdInv, CmdTypes
  <2>3. CASE pc[First] = "failed" /\ Returns("error")
    <3>1. Denied /\ program = "system" BY <1>1, <2>3 DEF CmdInv, CmdSystem, Denied
    <3> QED BY <2>3, <3>1
  <2> QED BY <1>2, <2>1, <2>2, <2>3
<1>8. /\ reported'[First] = s /\ st'[First] = s /\ round'[First] = round[First] + 1
      /\ \A r \in Pid \ {First} : round'[r] = round[r]
      /\ UNCHANGED <<main, pid>>
  BY <1>3, <1>7 DEF CmdInv, CmdTypes
<1>9. CmdTypes'
  <2>1. round' \in [Pid -> 0..3] BY <1>1, <1>7 DEF CmdInv, CmdTypes
  <2> QED BY <1>3, <1>6, <1>7, <2>1 DEF CmdInv, CmdTypes
<1>10. ASSUME NEW r \in Pid PROVE CmdRound(r)'
  <2>1. CASE r = First BY <1>1, <1>4, <1>6, <1>8, <2>1 DEF CmdRound
  <2>2. CASE r # First
    <3>1. round'[r] = round[r] /\ main' = main /\ program' = program /\ (pc'[r] = pc[r] \/ pc'[r] = Gone)
      BY <1>6, <1>8, <2>2
    <3> QED BY <3>1 DEF CmdInv, CmdRound
  <2> QED BY <2>1, <2>2
<1>11. CmdFamily'
  <2>1. ASSUME NEW r \in Pid PROVE Children(r)' \subseteq Kids(r)'
    <3>1. CASE r = First BY <1>6, <3>1
    <3>2. CASE r # First
      <4>1. Children(r)' \subseteq Kids(r) BY <1>6, <3>2 DEF CmdInv, CmdFamily
      <4>2. pc[r] = "wait" => pc'[r] = "wait" BY <1>6, <3>2
      <4> QED BY <1>1, <1>6, <1>8, <4>1, <4>2 DEF Kids
    <3> QED BY <3>1, <3>2
  <2> QED BY <1>4, <1>6, <2>1 DEF CmdInv, CmdFamily
<1>12. CmdSystem'
  <2>1. \A q \in Pid \ {First} : pc'[q] \in Dead \cup {"exec", "sh"}
    BY <1>1, <1>6 DEF CmdInv, CmdSystem
  <2>2. pc'[First] \notin {"wait", "failed"} BY <1>4, <1>6
  <2>3. sigchld = "ignored" => \A q \in Pid : pc'[q] # Zombie
    BY <1>1, <1>4, <1>6 DEF CmdInv, CmdSystem
  <2>4. \A q \in Pid \ {First} : pc[q] = Gone => pc'[q] = Gone BY <1>6
  <2>5. \A q \in Pid : round[q] \in Nat BY DEF CmdInv, CmdTypes
  <2>6. (Denied' <=> Denied) /\ failed' = failed /\ exit' = exit /\ sigchld' = sigchld /\ program' = program
    BY <1>6 DEF Denied
  <2>7. CASE \E q \in Pid \ {First} :
               pc[q] = Zombie /\ pc'[q] = Gone /\ exit[q] = s /\ round[q] = round[First]
    <3>1. Last' /\ Kept' BY <1>8, <2>5, <2>6, <2>7 DEF Last, Kept
    <3>2. sigchld # "ignored" BY <1>1, <2>7 DEF CmdInv, CmdSystem
    <3> QED BY <2>1, <2>2, <2>3, <2>6, <3>1, <3>2 DEF CmdSystem
  <2>8. CASE Denied /\ s = IF program = "system" THEN "error" ELSE "garbage"
    BY <1>8, <2>1, <2>2, <2>3, <2>6, <2>8 DEF CmdSystem
  <2>9. CASE program = "spawn" /\ failed # {} /\ s = st[First] /\ Kept
    <3>1. PICK q \in Pid \ {First} : pc[q] = Gone /\ exit[q] = s /\ round[q] < round[First]
      BY <2>9 DEF Kept
    <3>2. pc'[q] = Gone /\ exit'[q] = s /\ round'[q] + 1 < round'[First] /\ round'[q] < round'[First]
      BY <1>3, <1>8, <2>4, <2>5, <2>6, <3>1
    <3>3. Earlier' BY <1>8, <3>2 DEF Earlier
    <3>4. Kept' BY <1>8, <3>2 DEF Kept
    <3>5. st[First] = "garbage" \/ sigchld # "ignored" BY <1>1, <2>9 DEF CmdInv, CmdSystem
    <3> QED BY <1>8, <2>1, <2>2, <2>3, <2>6, <2>9, <3>3, <3>4, <3>5 DEF CmdSystem
  <2> QED BY <1>7, <2>7, <2>8, <2>9
<1> QED BY <1>1, <1>6, <1>9, <1>10, <1>11, <1>12 DEF CmdInv, CmdPs

LEMMA CmdStep ==
    ASSUME CmdInv, NEW p \in Pid, Commands!Step(p) \/ Commands!Killed(p)
    PROVE  CmdInv'
BY CmdForkInv, CmdEnds, CmdRunPsInv, CmdExecs, CmdWaitPsInv, CmdCollectInv, CmdSystemInv,
   CmdWaitShInv DEF Commands!Step

LEMMA CmdFrame == ASSUME CmdInv, UNCHANGED <<table, ofCommands>> PROVE CmdInv'
<1>1. TableInv(CmdPlaces)' BY TableFrame DEF CmdInv, CmdTypes
<1> QED BY <1>1 DEF table, ofCommands, CmdInv, CmdTypes, CmdRound, CmdFamily, CmdPs, CmdSystem,
                    Denied, Kept, Earlier, Last, Clean, Uncollected, Kids, Children, Orphans

LEMMA CmdInvImplies ==
    ASSUME CmdInv PROVE Commands!TypeOK /\ Commands!OwnStatus /\ Reaped
<1>1. Commands!TypeOK
  BY CmdTable DEF CmdInv, CmdTypes, TableInv, CmdPlaces, Dead, Commands!TypeOK
<1>2. Commands!OwnStatus
  <2>1. ASSUME program # "ps", reported[First] # "none"
        PROVE  \/ \E q \in Pid \ {First} : exit[q] = reported[First] /\ round[q] = round[First] - 1
               \/ /\ failed # {} \/ sigchld = "ignored"
                  /\ reported[First] = IF program = "system" THEN "error" ELSE "garbage"
               \/ /\ program = "spawn" /\ failed # {}
                  /\ \E n \in 0..round[First] - 2 :
                       \E q \in Pid \ {First} : exit[q] = reported[First] /\ round[q] = n
    <3>1. \A q \in Pid : round[q] \in 0..3 BY DEF CmdInv, CmdTypes
    <3>2. First \in Pid BY PidAssumption
    <3>3. CASE Last BY <3>1, <3>2, <3>3 DEF Last
    <3>4. CASE Denied /\ reported[First] = IF program = "system" THEN "error" ELSE "garbage"
      BY <3>4 DEF Denied
    <3>5. CASE program = "spawn" /\ failed # {} /\ Earlier BY <3>1, <3>2, <3>5 DEF Earlier
    <3> QED BY <2>1, <3>3, <3>4, <3>5 DEF CmdInv, CmdSystem
  <2>2. program = "ps" =>
          /\ reported[First] # "none" /\ killed = {} /\ failed = {} /\ sigchld = "default"
               => reported[First] = "three"
          /\ \A p \in Pid \ {First} : reported[p] \in {"none", "garbage"}
    BY DEF CmdInv, CmdPs, Clean
  <2> QED BY <2>1, <2>2 DEF Commands!OwnStatus
<1>3. Reaped BY DEF CmdInv, CmdFamily, Reaped
<1> QED BY <1>1, <1>2, <1>3

-----------------------------------------------------------------------------
(* handleSingal.c: any signals in any order, and any number of them.       *)

USE DEF Signals!Unborn, Signals!Zombie, Signals!Gone, Signals!First, Signals!Adopter,
        Signals!Status, Signals!Signal

LEMMA SigTable ==
    /\ \A r, l : Signals!TableInit(r, l) <=> TableInit(r, l)
    /\ Signals!TableTypeOK <=> TableTypeOK
    /\ \A p, l : Signals!Goto(p, l) <=> Goto(p, l)
    /\ \A p, x : Signals!Exit(p, x) <=> Exit(p, x)
    /\ \A p : Signals!Running(p) <=> Running(p)
BY DEF Signals!TableInit, TableInit, Signals!TableTypeOK, TableTypeOK, Signals!Goto, Goto,
       Signals!Exit, Exit, Signals!Ends, Ends, Signals!Running, Running

SigPlaces == {Unborn, Gone, "block", "INT", "USR1", "USR2", "PIPE", "pause"}

\* One process runs, and nobody is its parent.
SigTypes ==
    /\ TableTypeOK /\ pc \in [Pid -> SigPlaces] /\ parent[First] = Adopter
    /\ \A p \in Pid \ {First} : pc[p] = Unborn
    /\ mask \in {{}, {"QUIT", "RTMIN"}}
    /\ disp \in [Signals!Signal -> {"default", "handler", "ignore"}]
    /\ pending \subseteq Signals!Signal
    /\ stack \in Seq(Signals!Signal)
    /\ \A m, n \in DOMAIN stack : stack[m] = stack[n] => m = n
    /\ sent \in [Signals!Signal -> Nat] /\ catched \in [Signals!Signal -> Nat]

\* A signal that is pending, or that the handler is at work for, was sent and
\* has not been shown.
SigSent ==
    \A s \in Signals!Signal :
      /\ catched[s] <= sent[s]
      /\ Running(First) =>
           /\ s \in pending \/ Signals!InHandler(s) => catched[s] + 1 <= sent[s]
           /\ s \in pending /\ Signals!InHandler(s) => catched[s] + 2 <= sent[s]

\* How far the process has come with what protects it.
SigPassed(place) ==
    CASE place = "INT" -> pc[First] \in {"USR1", "USR2", "PIPE", "pause"}
      [] place = "USR1" -> pc[First] \in {"USR2", "PIPE", "pause"}
      [] place = "USR2" -> pc[First] \in {"PIPE", "pause"}

SigGuarded ==
    /\ pc[First] \in {"INT", "USR1", "USR2", "PIPE", "pause"} => mask = {"QUIT", "RTMIN"}
    /\ \A s \in {"INT", "USR1", "USR2"} : SigPassed(s) => disp[s] = "handler"
    /\ pc[First] = "pause" => disp["PIPE"] = "ignore" /\ "PIPE" \notin pending

SigInv == SigTypes /\ SigSent /\ SigGuarded

LEMMA SigInvInit == ASSUME Signals!Init PROVE SigInv
<1>1. /\ TableInit({First}, "block") /\ sigchld = "default" /\ mask = {} /\ pending = {}
      /\ disp = [s \in Signals!Signal |-> "default"] /\ stack = <<>>
      /\ sent = [s \in Signals!Signal |-> 0] /\ catched = [s \in Signals!Signal |-> 0]
  BY SigTable DEF Signals!Init
<1>2. /\ pc = [p \in Pid |-> IF p \in {First} THEN "block" ELSE Unborn]
      /\ parent = [p \in Pid |-> Adopter] /\ exit = [p \in Pid |-> "none"] /\ killed = {}
  BY <1>1 DEF TableInit
<1>3. First \in Pid BY PidAssumption
<1>4. SigTypes BY <1>1, <1>2, <1>3 DEF SigTypes, SigPlaces, TableTypeOK
<1>5. ~ \E s \in Signals!Signal : s \in pending \/ Signals!InHandler(s)
  BY <1>1 DEF Signals!InHandler
<1>6. SigSent BY <1>1, <1>5 DEF SigSent
<1>7. SigGuarded BY <1>1, <1>2, <1>3 DEF SigGuarded, SigPassed
<1> QED BY <1>4, <1>6, <1>7 DEF SigInv

LEMMA SigFirst ==
    ASSUME SigInv, NEW p \in Pid, Running(p) PROVE p = First /\ First \in Pid
BY PidAssumption DEF SigInv, SigTypes, Running

\* A step of main().
LEMMA SigGoto ==
    ASSUME SigInv, NEW place \in SigPlaces \ {Unborn, Gone}, Goto(First, place), Running(First)
    PROVE  /\ TableTypeOK' /\ pc' \in [Pid -> SigPlaces] /\ parent'[First] = Adopter
           /\ \A p \in Pid \ {First} : pc'[p] = Unborn
           /\ pc'[First] = place /\ Running(First)'
<1>1. /\ pc' = [pc EXCEPT ![First] = place]
      /\ UNCHANGED <<sigchld, parent, exit, killed>>
  BY DEF Goto
<1>2. First \in Pid BY PidAssumption
<1>3. pc'[First] = place /\ \A p \in Pid \ {First} : pc'[p] = pc[p]
  BY <1>1, <1>2 DEF SigInv, SigTypes
<1>4. TableTypeOK' BY <1>1 DEF SigInv, SigTypes, TableTypeOK
<1>5. pc' \in [Pid -> SigPlaces] BY <1>1 DEF SigInv, SigTypes
<1>6. place \notin {Unborn, Zombie, Gone} BY DEF SigPlaces
<1> QED BY <1>1, <1>3, <1>4, <1>5, <1>6 DEF SigInv, SigTypes, Running

LEMMA SigExit ==
    ASSUME SigInv, NEW s \in Status, Exit(First, s), Running(First)
    PROVE  /\ TableTypeOK' /\ pc' \in [Pid -> SigPlaces] /\ parent'[First] = Adopter
           /\ \A p \in Pid \ {First} : pc'[p] = Unborn
           /\ pc'[First] = Gone
<1>1. First \in Pid BY PidAssumption
<1>2. /\ pc' = [q \in Pid |->
                  CASE q = First -> IF parent[First] = Adopter \/ sigchld = "ignored" THEN Gone ELSE Zombie
                    [] parent[q] = First /\ pc[q] = Zombie -> Gone
                    [] OTHER -> pc[q]]
      /\ parent' = [q \in Pid |-> IF parent[q] = First /\ pc[q] # Gone THEN Adopter ELSE parent[q]]
      /\ exit' = [exit EXCEPT ![First] = s]
      /\ UNCHANGED <<program, sigchld, failed, killed>>
  BY DEF Exit, Ends
<1>3. parent[First] = Adopter /\ \A p \in Pid \ {First} : pc[p] = Unborn
  BY DEF SigInv, SigTypes
<1>4. pc'[First] = Gone BY <1>1, <1>2, <1>3 DEF Running
<1>5. \A p \in Pid \ {First} : pc'[p] = Unborn BY <1>2, <1>3
<1>6. pc' \in [Pid -> SigPlaces] BY <1>2, <1>4, <1>5 DEF SigPlaces
<1>7. TableTypeOK' /\ parent'[First] = Adopter
  BY <1>1, <1>2, <1>3 DEF TableTypeOK, SigInv, SigTypes
<1> QED BY <1>4, <1>5, <1>6, <1>7

LEMMA SigMainInv ==
    ASSUME SigInv, NEW p \in Pid, Signals!Block(p) \/ Signals!Register(p) PROVE SigInv'
<1>1. /\ UNCHANGED <<pending, stack, sent, catched>> /\ stack = <<>>
      /\ pc[p] \in {"block", "INT", "USR1", "USR2", "PIPE"}
      /\ \A s \in pending : s \in mask
  BY DEF Signals!Block, Signals!Register, Signals!InMain, Signals!Deliverable, Signals!Following,
     Signals!InHandler
<1>2. Running(p) BY <1>1 DEF Running
<1>3. p = First /\ Running(First) /\ First \in Pid BY <1>2, SigFirst
<1>4. SigSent /\ (Running(First)' => SigSent') BY <1>1, <1>3 DEF SigInv, SigSent, Signals!InHandler
<1>5. CASE Signals!Block(p)
  <2>1. pc[First] = "block" /\ mask' = {"QUIT", "RTMIN"} /\ disp' = disp /\ Goto(First, "INT")
    BY <1>3, <1>5, SigTable DEF Signals!Block
  <2>2. /\ TableTypeOK' /\ pc' \in [Pid -> SigPlaces] /\ parent'[First] = Adopter
        /\ \A r \in Pid \ {First} : pc'[r] = Unborn
        /\ pc'[First] = "INT" /\ Running(First)'
    BY <1>3, <2>1, SigGoto DEF SigPlaces
  <2>3. SigTypes' BY <1>1, <2>1, <2>2 DEF SigInv, SigTypes
  <2>4. SigGuarded' BY <2>1, <2>2 DEF SigGuarded, SigPassed
  <2> QED BY <1>4, <2>2, <2>3, <2>4 DEF SigInv
<1>6. CASE Signals!Register(p)
  <2>1. /\ pc[First] \in {"INT", "USR1", "USR2", "PIPE"} /\ mask' = mask
        /\ disp' = [disp EXCEPT ![pc[First]] = IF pc[First] = "PIPE" THEN "ignore" ELSE "handler"]
        /\ Goto(First, Signals!Following[pc[First]])
    BY <1>3, <1>6, SigTable DEF Signals!Register, Signals!Following
  <2> DEFINE next == Signals!Following[pc[First]]
  <2>2. /\ pc[First] = "INT" => next = "USR1"
        /\ pc[First] = "USR1" => next = "USR2"
        /\ pc[First] = "USR2" => next = "PIPE"
        /\ pc[First] = "PIPE" => next = "pause"
    BY DEF Signals!Following
  <2> HIDE DEF next
  <2>3. /\ TableTypeOK' /\ pc' \in [Pid -> SigPlaces] /\ parent'[First] = Adopter
        /\ \A r \in Pid \ {First} : pc'[r] = Unborn
        /\ pc'[First] = next /\ Running(First)'
    <3>1. next \in SigPlaces \ {Unborn, Gone} BY <2>1, <2>2 DEF SigPlaces
    <3> QED BY <1>3, <2>1, <3>1, SigGoto DEF next
  <2>4. SigTypes'
    <3>1. disp' \in [Signals!Signal -> {"default", "handler", "ignore"}]
      BY <2>1 DEF SigInv, SigTypes
    <3> QED BY <1>1, <2>1, <2>3, <3>1 DEF SigInv, SigTypes
  <2>5. mask' = {"QUIT", "RTMIN"} /\ "PIPE" \notin pending'
    BY <1>1, <2>1 DEF SigInv, SigGuarded
  <2>6. \A s \in {"INT", "USR1", "USR2"} : SigPassed(s)' => disp'[s] = "handler"
    <3>1. ASSUME NEW s \in {"INT", "USR1", "USR2"}, SigPassed(s)' PROVE disp'[s] = "handler"
      <4>1. CASE pc[First] = s
        BY <2>1, <4>1 DEF SigInv, SigTypes
      <4>2. CASE pc[First] # s
        <5>1. SigPassed(s) BY <2>1, <2>2, <2>3, <3>1, <4>2 DEF SigPassed
        <5>2. disp'[s] = disp[s] BY <2>1, <4>2 DEF SigInv, SigTypes
        <5> QED BY <5>1, <5>2 DEF SigInv, SigGuarded
      <4> QED BY <4>1, <4>2
    <3> QED BY <3>1
  <2>7. pc'[First] = "pause" => disp'["PIPE"] = "ignore"
    <3>1. pc'[First] = "pause" => pc[First] = "PIPE" BY <2>1, <2>2, <2>3
    <3> QED BY <2>1, <3>1 DEF SigInv, SigTypes
  <2>8. SigGuarded' BY <2>5, <2>6, <2>7 DEF SigGuarded
  <2> QED BY <1>4, <2>3, <2>4, <2>8 DEF SigInv
<1> QED BY <1>5, <1>6

LEMMA SigSendInv ==
    ASSUME SigInv, NEW p \in Pid, NEW s \in Signals!Signal, Signals!Send(p, s) PROVE SigInv'
<1>1. /\ sent' = [sent EXCEPT ![s] = sent[s] + 1]
      /\ pending' = IF disp[s] = "ignore" THEN pending ELSE pending \cup {s}
      /\ UNCHANGED <<pc, parent, sigchld, exit, killed, mask, disp, stack, catched>>
  BY DEF Signals!Send, Signals!table
<1>2. SigTypes'
  <2>1. sent' \in [Signals!Signal -> Nat]
    <3>1. sent \in [Signals!Signal -> Nat] BY DEF SigInv, SigTypes
    <3> HIDE DEF Signals!Signal
    <3> QED BY <1>1, <3>1
  <2>2. TableTypeOK' /\ pending' \subseteq Signals!Signal
    BY <1>1 DEF SigInv, SigTypes, TableTypeOK
  <2> QED BY <1>1, <2>1, <2>2 DEF SigInv, SigTypes
<1>3. SigSent'
  <2> SUFFICES ASSUME NEW r \in Signals!Signal
               PROVE  /\ catched[r] <= sent'[r]
                      /\ Running(First) =>
                           /\ r \in pending' \/ Signals!InHandler(r) => catched[r] + 1 <= sent'[r]
                           /\ r \in pending' /\ Signals!InHandler(r) => catched[r] + 2 <= sent'[r]
    BY <1>1 DEF SigSent, Running, Signals!InHandler
  <2>1. catched[r] \in Nat /\ sent[r] \in Nat BY DEF SigInv, SigTypes
  <2>2. /\ catched[r] <= sent[r]
        /\ Running(First) =>
             /\ r \in pending \/ Signals!InHandler(r) => catched[r] + 1 <= sent[r]
             /\ r \in pending /\ Signals!InHandler(r) => catched[r] + 2 <= sent[r]
    BY DEF SigInv, SigSent
  <2>3. CASE r = s
    <3>1. sent'[r] = sent[r] + 1 BY <1>1, <2>3 DEF SigInv, SigTypes
    <3> QED BY <2>1, <2>2, <3>1
  <2>4. CASE r # s
    <3>1. sent'[r] = sent[r] /\ (r \in pending' <=> r \in pending)
      BY <1>1, <2>4 DEF SigInv, SigTypes
    <3> QED BY <2>2, <3>1
  <2> QED BY <2>3, <2>4
<1>4. SigGuarded' BY <1>1 DEF SigInv, SigGuarded, SigPassed
<1> QED BY <1>2, <1>3, <1>4 DEF SigInv

LEMMA SigPush ==
    ASSUME NEW S, NEW s \in S, NEW q \in Seq(S)
    PROVE  /\ <<s>> \o q \in Seq(S) /\ DOMAIN (<<s>> \o q) = 1..Len(q) + 1
           /\ (<<s>> \o q)[1] = s
           /\ \A n \in 1..Len(q) : (<<s>> \o q)[n + 1] = q[n]
           /\ \A n \in DOMAIN (<<s>> \o q) : n = 1 \/ (n - 1 \in 1..Len(q) /\ (<<s>> \o q)[n] = q[n - 1])
OBVIOUS

LEMMA SigDeliverInv ==
    ASSUME SigInv, NEW p \in Pid, NEW s \in Signals!Signal, Signals!Deliver(p, s) PROVE SigInv'
<1>1. Running(p) BY SigTable DEF Signals!Deliver
<1>2. p = First /\ Running(First) BY <1>1, SigFirst
<1>3. /\ s \in pending /\ s \notin mask /\ ~Signals!InHandler(s)
      /\ pending' = pending \ {s} /\ UNCHANGED <<mask, disp, sent, catched>>
  BY DEF Signals!Deliver, Signals!Deliverable
<1>4. \A r \in Signals!Signal : catched[r] \in Nat /\ sent[r] \in Nat BY DEF SigInv, SigTypes
<1>5. CASE stack' = <<s>> \o stack /\ UNCHANGED table
  <2>1. UNCHANGED <<sigchld, pc, parent, exit, killed>> BY <1>5 DEF table
  <2>2. stack \in Seq(Signals!Signal) /\ \A m, n \in DOMAIN stack : stack[m] = stack[n] => m = n
    BY DEF SigInv, SigTypes
  <2> HIDE DEF Signals!Signal
  <2>3. /\ stack' \in Seq(Signals!Signal) /\ DOMAIN stack' = 1..Len(stack) + 1 /\ stack'[1] = s
        /\ \A n \in 1..Len(stack) : stack'[n + 1] = stack[n]
        /\ \A n \in DOMAIN stack' : n = 1 \/ (n - 1 \in 1..Len(stack) /\ stack'[n] = stack[n - 1])
    BY <1>5, <2>2, SigPush
  <2>4. DOMAIN stack = 1..Len(stack) /\ Len(stack) \in Nat BY <2>2
  <2>5. \A n \in DOMAIN stack : stack[n] # s BY <1>3 DEF Signals!InHandler
  <2>6. ASSUME NEW m \in DOMAIN stack', NEW n \in DOMAIN stack', stack'[m] = stack'[n] PROVE m = n
    <3>1. CASE m = 1 \/ n = 1 BY <2>3, <2>4, <2>5, <2>6, <3>1
    <3>2. CASE m # 1 /\ n # 1
      <4>1. m - 1 \in DOMAIN stack /\ n - 1 \in DOMAIN stack /\ stack[m - 1] = stack[n - 1]
        BY <2>3, <2>4, <2>6, <3>2
      <4>2. m - 1 = n - 1 /\ m \in Nat /\ n \in Nat BY <2>2, <2>3, <2>4, <4>1
      <4> QED BY <4>2
    <3> QED BY <3>1, <3>2
  <2>7. \A r \in Signals!Signal : Signals!InHandler(r)' <=> r = s \/ Signals!InHandler(r)
    <3>1. ASSUME NEW r \in Signals!Signal, NEW n \in DOMAIN stack', stack'[n] = r
          PROVE  r = s \/ Signals!InHandler(r)
      BY <2>3, <2>4, <3>1 DEF Signals!InHandler
    <3>2. ASSUME NEW r \in Signals!Signal, NEW n \in DOMAIN stack, stack[n] = r
          PROVE  Signals!InHandler(r)'
      <4>1. n \in 1..Len(stack) BY <2>4
      <4>2. n + 1 \in DOMAIN stack' /\ stack'[n + 1] = r BY <2>3, <2>4, <3>2, <4>1
      <4> QED BY <4>2 DEF Signals!InHandler
    <3>3. 1 \in DOMAIN stack' BY <2>3, <2>4
    <3> QED BY <2>3, <3>1, <3>2, <3>3 DEF Signals!InHandler
  <2>8. SigTypes' BY <1>3, <2>1, <2>3, <2>6 DEF SigInv, SigTypes, TableTypeOK
  <2>9. SigSent'
    <3> SUFFICES ASSUME NEW r \in Signals!Signal
                 PROVE  /\ catched[r] <= sent[r]
                        /\ r \in pending' \/ Signals!InHandler(r)' => catched[r] + 1 <= sent[r]
                        /\ r \in pending' /\ Signals!InHandler(r)' => catched[r] + 2 <= sent[r]
      BY <1>3, <2>1 DEF SigSent
    <3>1. /\ catched[r] <= sent[r]
          /\ r \in pending \/ Signals!InHandler(r) => catched[r] + 1 <= sent[r]
          /\ r \in pending /\ Signals!InHandler(r) => catched[r] + 2 <= sent[r]
      BY <1>2 DEF SigInv, SigSent
    <3>2. CASE r = s BY <1>3, <3>1, <3>2
    <3>3. CASE r # s
      <4>1. (r \in pending' <=> r \in pending) /\ (Signals!InHandler(r)' <=> Signals!InHandler(r))
        BY <1>3, <2>7, <3>3
      <4> QED BY <3>1, <4>1
    <3> QED BY <3>2, <3>3
  <2>10. SigGuarded' BY <1>3, <2>1 DEF SigInv, SigGuarded, SigPassed
  <2> QED BY <2>8, <2>9, <2>10 DEF SigInv
<1>6. CASE Exit(First, "signal") /\ stack' = stack
  <2>1. /\ TableTypeOK' /\ pc' \in [Pid -> SigPlaces] /\ parent'[First] = Adopter
        /\ \A r \in Pid \ {First} : pc'[r] = Unborn
        /\ pc'[First] = Gone
    BY <1>2, <1>6, SigExit
  <2>2. SigTypes' BY <1>3, <1>6, <2>1 DEF SigInv, SigTypes
  <2>3. SigSent' BY <1>3, <2>1 DEF SigInv, SigSent, Running
  <2>4. SigGuarded' BY <2>1 DEF SigGuarded, SigPassed
  <2> QED BY <2>2, <2>3, <2>4 DEF SigInv
<1> QED BY <1>2, <1>5, <1>6, SigTable DEF Signals!Deliver, Signals!table, table

LEMMA SigHandlerInv == ASSUME SigInv, NEW p \in Pid, Signals!SigHandler(p) PROVE SigInv'
<1>1. Running(p) BY SigTable DEF Signals!SigHandler
<1>2. p = First /\ Running(First) BY <1>1, SigFirst
<1>3. stack # <<>> /\ UNCHANGED <<mask, disp, pending, sent>> BY DEF Signals!SigHandler
<1>4. /\ stack \in Seq(Signals!Signal) /\ \A m, n \in DOMAIN stack : stack[m] = stack[n] => m = n
      /\ catched \in [Signals!Signal -> Nat] /\ sent \in [Signals!Signal -> Nat]
  BY DEF SigInv, SigTypes
<1> HIDE DEF Signals!Signal
<1>5. PICK h \in Signals!Signal : h = Head(stack) BY <1>3, <1>4
<1>6. /\ DOMAIN stack = 1..Len(stack) /\ Len(stack) \in Nat /\ 1 \in DOMAIN stack /\ stack[1] = h
      /\ catched' = [catched EXCEPT ![h] = catched[h] + 1]
  BY <1>3, <1>4, <1>5 DEF Signals!SigHandler
<1>7. Signals!InHandler(h) BY <1>6 DEF Signals!InHandler
<1>8. catched[h] + 1 <= sent[h] BY <1>2, <1>6, <1>7 DEF SigInv, SigSent
<1>9. /\ catched' \in [Signals!Signal -> Nat] /\ catched'[h] = catched[h] + 1
      /\ \A r \in Signals!Signal \ {h} : catched'[r] = catched[r]
  BY <1>4, <1>6
<1>10. CASE Exit(First, "ok") /\ stack' = stack
  <2>1. /\ TableTypeOK' /\ pc' \in [Pid -> SigPlaces] /\ parent'[First] = Adopter
        /\ \A r \in Pid \ {First} : pc'[r] = Unborn
        /\ pc'[First] = Gone
    BY <1>2, <1>10, SigExit
  <2>2. SigTypes' BY <1>3, <1>9, <1>10, <2>1 DEF SigInv, SigTypes
  <2>3. \A r \in Signals!Signal : catched'[r] <= sent[r] BY <1>8, <1>9 DEF SigInv, SigSent
  <2>4. SigSent' BY <1>3, <2>1, <2>3 DEF SigSent, Running
  <2>5. SigGuarded' BY <2>1 DEF SigGuarded, SigPassed
  <2> QED BY <2>2, <2>4, <2>5 DEF SigInv
<1>11. CASE stack' = Tail(stack) /\ UNCHANGED table
  <2>1. UNCHANGED <<sigchld, pc, parent, exit, killed>> BY <1>11 DEF table
  <2>2. /\ stack' \in Seq(Signals!Signal) /\ DOMAIN stack' = 1..Len(stack) - 1
        /\ \A n \in DOMAIN stack' : n + 1 \in DOMAIN stack /\ stack'[n] = stack[n + 1]
    BY SMTT(20), <1>4, <1>6, <1>11
  <2>3. ASSUME NEW m \in DOMAIN stack', NEW n \in DOMAIN stack', stack'[m] = stack'[n] PROVE m = n
    <3>1. m + 1 \in DOMAIN stack /\ n + 1 \in DOMAIN stack /\ stack[m + 1] = stack[n + 1]
      BY <2>2, <2>3
    <3>2. m + 1 = n + 1 /\ m \in Int /\ n \in Int BY <1>4, <1>6, <2>2, <3>1
    <3> QED BY <3>2
  <2>4. \A r \in Signals!Signal : Signals!InHandler(r)' => Signals!InHandler(r)
    BY <2>2 DEF Signals!InHandler
  <2>5. ~Signals!InHandler(h)'
    <3>1. ASSUME NEW n \in DOMAIN stack', stack'[n] = h PROVE FALSE
      <4>1. n + 1 \in DOMAIN stack /\ stack[n + 1] = stack[1] BY <1>6, <2>2, <3>1
      <4>2. n + 1 = 1 /\ n \in 1..Len(stack) - 1 BY <1>4, <1>6, <2>2, <4>1
      <4> QED BY <1>6, <4>2
    <3> QED BY <3>1 DEF Signals!InHandler
  <2>6. SigTypes' BY <1>3, <1>9, <2>1, <2>2, <2>3 DEF SigInv, SigTypes, TableTypeOK
  <2>7. SigSent'
    <3> SUFFICES ASSUME NEW r \in Signals!Signal
                 PROVE  /\ catched'[r] <= sent[r]
                        /\ r \in pending \/ Signals!InHandler(r)' => catched'[r] + 1 <= sent[r]
                        /\ r \in pending /\ Signals!InHandler(r)' => catched'[r] + 2 <= sent[r]
      BY <1>3, <2>1 DEF SigSent
    <3>1. /\ catched[r] <= sent[r] /\ catched[r] \in Nat /\ sent[r] \in Nat
          /\ r \in pending \/ Signals!InHandler(r) => catched[r] + 1 <= sent[r]
          /\ r \in pending /\ Signals!InHandler(r) => catched[r] + 2 <= sent[r]
      BY <1>2, <1>4 DEF SigInv, SigSent
    <3>2. CASE r = h
      <4>1. r \in pending => catched[r] + 2 <= sent[r] BY <1>7, <3>1, <3>2
      <4> QED BY <1>7, <1>9, <2>5, <3>1, <3>2, <4>1
    <3>3. CASE r # h BY <1>9, <2>4, <3>1, <3>3
    <3> QED BY <3>2, <3>3
  <2>8. SigGuarded' BY <1>3, <2>1 DEF SigInv, SigGuarded, SigPassed
  <2> QED BY <2>6, <2>7, <2>8 DEF SigInv
<1>12. \/ Exit(First, "ok") /\ stack' = stack
       \/ stack' = Tail(stack) /\ UNCHANGED table
  BY <1>2, SigTable DEF Signals!SigHandler, Signals!table, table
<1> QED BY <1>10, <1>11, <1>12

LEMMA SigStep ==
    ASSUME SigInv, NEW p \in Pid,
           Signals!Step(p) \/ \E s \in Signals!Signal : Signals!Send(p, s)
    PROVE  SigInv'
BY SigMainInv, SigHandlerInv, SigDeliverInv, SigSendInv DEF Signals!Step

LEMMA SigFrame == ASSUME SigInv, UNCHANGED <<table, ofSignals>> PROVE SigInv'
BY SMTT(20) DEF table, ofSignals, SigInv, SigTypes, SigSent, SigGuarded, SigPassed, TableTypeOK, Running,
       Signals!InHandler

LEMMA SigInvImplies == ASSUME SigInv PROVE Signals!TypeOK
<1>1. stack \in Seq(Signals!Signal) BY DEF SigInv, SigTypes
<1>2. \A n \in DOMAIN stack : stack[n] \in Signals!Signal BY <1>1
<1>3. \A s \in Signals!Signal : catched[s] <= sent[s] BY DEF SigInv, SigSent
<1> QED BY <1>2, <1>3, SigTable DEF SigInv, SigTypes, SigPlaces, Signals!TypeOK

\* Who ends the process in pause().
LEMMA SigSurvives ==
    ASSUME SigInv, NEW p \in Pid,
           Signals!Step(p) \/ \E s \in Signals!Signal : Signals!Send(p, s)
    PROVE  Signals!Survival
<1> SUFFICES ASSUME NEW q \in Pid, pc[q] = "pause", ~Running(q)'
             PROVE  "TERM" \in pending \/ (stack # <<>> /\ Head(stack) = "INT")
  BY SigTable DEF Signals!Survival, Signals!Running, Running
<1>1. q = First /\ Running(q)
  <2>1. Running(q) BY DEF Running
  <2> QED BY <2>1, SigFirst
<1>2. pc' # pc BY <1>1 DEF Running
<1>3. CASE Signals!SigHandler(p)
  BY <1>2, <1>3 DEF Signals!SigHandler, Signals!table
<1>4. ASSUME NEW s \in Signals!Signal, Signals!Deliver(p, s) PROVE "TERM" \in pending
  <2>1. s \in pending /\ s \notin mask /\ disp[s] # "handler"
    BY <1>2, <1>4 DEF Signals!Deliver, Signals!Deliverable, Signals!table
  <2>2. s \notin {"QUIT", "RTMIN", "INT", "USR1", "USR2", "PIPE"}
    BY <1>1, <2>1 DEF SigInv, SigGuarded, SigPassed
  <2> QED BY <2>1, <2>2
<1>5. ASSUME NEW s \in Signals!Signal, Signals!Send(p, s) PROVE FALSE
  BY <1>2, <1>5 DEF Signals!Send, Signals!table
<1>6. CASE Signals!Block(p) \/ Signals!Register(p)
  <2>1. pc[p] \in {"block", "INT", "USR1", "USR2", "PIPE"}
    BY <1>6 DEF Signals!Block, Signals!Register, Signals!Following
  <2>2. p = First
    <3>1. Running(p) BY <2>1 DEF Running
    <3> QED BY <3>1, SigFirst
  <2> QED BY <1>1, <2>1, <2>2
<1> QED BY <1>3, <1>4, <1>5, <1>6 DEF Signals!Step

-----------------------------------------------------------------------------
(* daemon.c: any descriptors the shell leaves open, any limit.             *)

USE DEF Daemon!Unborn, Daemon!Zombie, Daemon!Gone, Daemon!First, Daemon!Adopter, Daemon!Status,
        Daemon!Infinity, Daemon!Closed

LEMMA DaeTable ==
    /\ \A r, l : Daemon!TableInit(r, l) <=> TableInit(r, l)
    /\ Daemon!TableTypeOK <=> TableTypeOK
    /\ \A p, l : Daemon!Goto(p, l) <=> Goto(p, l)
    /\ \A p, q, l, m : Daemon!ForkAs(p, q, l, m) <=> ForkAs(p, q, l, m)
    /\ \A p, c, l : Daemon!Fails(p, c, l) <=> Fails(p, c, l)
    /\ \A p, x : Daemon!Exit(p, x) <=> Exit(p, x)
    /\ \A p : Daemon!Kill(p) => Kill(p) /\ Running(p)
<1>1. \A r, l : Daemon!TableInit(r, l) <=> TableInit(r, l) BY DEF Daemon!TableInit, TableInit
<1>2. Daemon!TableTypeOK <=> TableTypeOK BY DEF Daemon!TableTypeOK, TableTypeOK
<1>3. /\ \A p, l : Daemon!Goto(p, l) <=> Goto(p, l)
      /\ \A p, q, l, m : Daemon!ForkAs(p, q, l, m) <=> ForkAs(p, q, l, m)
      /\ \A p, c, l : Daemon!Fails(p, c, l) <=> Fails(p, c, l)
  BY DEF Daemon!Goto, Goto, Daemon!ForkAs, ForkAs, Daemon!Fails, Fails
<1>4. \A p, x : Daemon!Exit(p, x) <=> Exit(p, x)
  BY DEF Daemon!Exit, Exit, Daemon!Ends, Ends
<1>5. \A p : Daemon!Kill(p) => Kill(p) /\ Running(p)
  BY DEF Daemon!Kill, Kill, Daemon!Ends, Ends, Daemon!Running, Running,
         Daemon!Cardinality, Cardinality
<1> QED BY <1>1, <1>2, <1>3, <1>4, <1>5

DaePlaces == Dead \cup {"fork", "return", "setsid", "sigaction", "close", "open", "loop"}

\* The descriptors below it are closed.
DaeLimit == IF rlim_max = -1 THEN Assumed ELSE rlim_max

DaeTypes ==
    /\ TableInv(DaePlaces)
    /\ rlim_max \in Limits
    /\ fds \in [Pid -> [Fd -> {"closed", "file", "null", "log"}]]
    /\ ctty \subseteq Pid /\ hup \subseteq Pid
    /\ opened \in Seq(Int) /\ Len(opened) <= 3

Acts(p) == pc[p] \in {"setsid", "sigaction", "close", "open", "loop"}

\* One process acts, the first one only after a fork() that has failed.
DaeOne ==
    /\ \A p \in Pid : pc[p] = "fork" => p = First /\ \A q \in Pid \ {First} : pc[q] = Unborn
    /\ \A p, q \in Pid : Acts(p) /\ Acts(q) => p = q
    /\ Acts(First) => failed # {}
    /\ \A p \in Pid : pc[p] \in {"fork", "setsid", "sigaction", "close"} => opened = <<>>

DaeTty ==
    \A p \in Pid : pc[p] \in {"sigaction", "close", "open", "loop"} /\ p \in ctty => failed # {}

DaeFiles ==
    \A p \in Pid : pc[p] \in {"open", "loop"} =>
      \A f \in Fd : f < DaeLimit => fds[p][f] # "file"

\* So far 0, 1 and 2 were found, in this order, if the limit allows for them.
DaeNull ==
    /\ \A p \in Pid : pc[p] = "open" /\ DaeLimit > 2 =>
         /\ \A j \in 1..Len(opened) : opened[j] = j - 1 /\ fds[p][j - 1] = "null"
         /\ \A f \in Len(opened)..2 : fds[p][f] = "closed"
    /\ rlim_max # -1 => \A j \in DOMAIN opened : opened[j] < rlim_max
    /\ \A p \in Pid : pc[p] = "loop" => \A f \in {0, 1, 2} : fds[p][f] = "null"
    /\ \A p \in Pid : exit[p] = "error" => rlim_max \in 0..2

DaeInv == DaeTypes /\ DaeOne /\ DaeTty /\ DaeFiles /\ DaeNull

LEMMA DaeBounds ==
    /\ First \in Pid /\ Assumed \in Nat /\ Assumed > 2 /\ {0, 1, 2} \subseteq Fd /\ Fd \subseteq Nat
    /\ Limits \subseteq Nat \cup {-1}
    /\ rlim_max \in Limits => DaeLimit \in Nat /\ (DaeLimit <= 2 => rlim_max \in 0..2)
<1>1. First \in Pid BY PidAssumption
<1>2. Assumed \in Nat /\ Assumed > 2 BY BoundsAssumption
<1>3. {0, 1, 2} \subseteq Fd /\ Fd \subseteq Nat /\ Limits \subseteq Nat \cup {-1} BY FdAssumption
<1>4. ASSUME rlim_max \in Limits PROVE DaeLimit \in Nat /\ (DaeLimit <= 2 => rlim_max \in 0..2)
  <2>1. CASE rlim_max = -1 BY <1>2, <2>1 DEF DaeLimit
  <2>2. CASE rlim_max # -1 /\ rlim_max \in Nat BY <2>2 DEF DaeLimit
  <2> QED BY <1>3, <1>4, <2>1, <2>2
<1> QED BY <1>1, <1>2, <1>3, <1>4

LEMMA Least ==
    ASSUME NEW T \in SUBSET Nat, T # {} PROVE \E x \in T : \A y \in T : x <= y
<1> DEFINE R == {ss \in Nat \X Nat : ss[1] < ss[2]}
<1>1. IsWellFoundedOn(R, Nat) BY NatLessThanWellFounded DEF OpToRel
<1>2. \A x, y \in Nat : y < x => <<y, x>> \in R OBVIOUS
<1> HIDE DEF R
<1>3. PICK x \in T : \A y \in T : ~(<<y, x>> \in R) BY <1>1, WFMin
<1>4. ASSUME NEW y \in T PROVE x <= y
  <2>1. ~(<<y, x>> \in R) BY <1>3
  <2>2. x \in Nat /\ y \in Nat OBVIOUS
  <2>3. ~(y < x) BY <1>2, <2>1, <2>2
  <2> QED BY <2>2, <2>3
<1> QED BY <1>4

\* What open() finds.
LEMMA DaeLowest ==
    ASSUME DaeInv, NEW p \in Pid
    PROVE  /\ \/ Daemon!Lowest(p) = -1 /\ \A g \in Fd : ~(fds[p][g] = "closed" /\ g < DaeLimit /\ rlim_max # -1)
              \/ /\ Daemon!Lowest(p) \in Fd /\ fds[p][Daemon!Lowest(p)] = "closed"
                 /\ \A g \in Fd : fds[p][g] = "closed" /\ (rlim_max = -1 \/ g < rlim_max) => Daemon!Lowest(p) <= g
                 /\ rlim_max # -1 => Daemon!Lowest(p) < rlim_max
           /\ Daemon!Lowest(p) = -1 => \A g \in Fd : ~(fds[p][g] = "closed" /\ rlim_max = -1)
<1> DEFINE free == {f \in Fd : fds[p][f] = "closed" /\ (rlim_max = -1 \/ f < rlim_max)}
           least == CHOOSE f \in free : \A g \in free : f <= g
<1>1. Daemon!Lowest(p) = IF free = {} THEN -1 ELSE least BY DEF Daemon!Lowest
<1>2. free \subseteq Nat BY DaeBounds
<1>3. free # {} => least \in free /\ \A g \in free : least <= g
  <2>1. free # {} => \E f \in free : \A g \in free : f <= g BY <1>2, Least
  <2> QED BY <2>1
<1> HIDE DEF least
<1>4. CASE free = {}
  BY <1>1, <1>4 DEF DaeLimit
<1>5. CASE free # {}
  <2>1. Daemon!Lowest(p) = least /\ least \in Nat BY <1>1, <1>2, <1>3, <1>5
  <2> QED BY <1>3, <1>5, <2>1
<1> QED BY <1>4, <1>5

LEMMA DaeInvInit == ASSUME Daemon!Init PROVE DaeInv
<1>1. /\ TableInit({First}, "fork") /\ sigchld = "default" /\ rlim_max \in Limits
      /\ ctty = {First} /\ hup = {} /\ opened = <<>>
  BY DaeTable DEF Daemon!Init
<1>2. TableInv({"fork", Unborn}) BY <1>1, TableInitInv
<1>3. /\ pc = [p \in Pid |-> IF p \in {First} THEN "fork" ELSE Unborn]
      /\ exit = [p \in Pid |-> "none"]
  BY <1>1 DEF TableInit
<1>4. fds \in [Pid -> [Fd -> {"closed", "file", "null", "log"}]]
  BY DEF Daemon!Init, Daemon!None
<1>5. DaeTypes BY <1>1, <1>2, <1>4, TableWider, PidAssumption DEF DaeTypes, DaePlaces, Dead
<1>6. DaeOne BY <1>1, <1>3, PidAssumption DEF DaeOne, Acts
<1>7. DaeTty /\ DaeFiles /\ DaeNull BY <1>1, <1>3 DEF DaeTty, DaeFiles, DaeNull
<1> QED BY <1>5, <1>6, <1>7 DEF DaeInv

\* Who ends has opened nothing.
LEMMA DaeEndInv ==
    ASSUME DaeInv, NEW p \in Pid, Running(p), NEW s \in Status \ {"none"},
           Exit(p, s) \/ (s = "signal" /\ Kill(p)), s = "error" => rlim_max \in 0..2,
           fds' = [fds EXCEPT ![p] = Daemon!None], UNCHANGED <<rlim_max, ctty, hup, opened>>
    PROVE  DaeInv'
<1> USE DEF DaePlaces, Dead
<1>1. /\ TableInv(DaePlaces)' /\ pc'[p] \in {Zombie, Gone}
      /\ \A q \in Pid \ {p} : pc'[q] = pc[q] \/ (pc[q] = Zombie /\ pc'[q] = Gone)
      /\ exit' = [exit EXCEPT ![p] = s] /\ UNCHANGED <<program, sigchld, failed>>
  <2>1. TableInv(DaePlaces) /\ {Zombie, Gone} \subseteq DaePlaces BY DEF DaeInv, DaeTypes
  <2> HIDE DEF DaePlaces, Dead
  <2> QED BY <2>1, EndsTable
<1>2. \A q \in Pid \ {p} : fds'[q] = fds[q] BY DEF DaeInv, DaeTypes
<1>3. exit'[p] = s /\ \A q \in Pid \ {p} : exit'[q] = exit[q]
  BY <1>1 DEF DaeInv, DaeTypes, TableInv, TableTypeOK
<1>4. DaeTypes'
  <2>1. Daemon!None \in [Fd -> {"closed", "file", "null", "log"}] BY DEF Daemon!None
  <2>2. fds' \in [Pid -> [Fd -> {"closed", "file", "null", "log"}]]
    BY <2>1 DEF DaeInv, DaeTypes
  <2> QED BY <1>1, <2>2 DEF DaeInv, DaeTypes
<1>5. \A q \in Pid : pc'[q] \in DaePlaces \ Dead => q # p /\ pc'[q] = pc[q] BY <1>1
<1>6. DaeOne'
  <2>1. \A q \in Pid : pc'[q] = "fork" => q = First /\ \A r \in Pid \ {First} : pc'[r] = Unborn
    BY <1>1, <1>5 DEF DaeInv, DaeOne, Running
  <2>2. \A q \in Pid : Acts(q)' => Acts(q) BY <1>5 DEF Acts
  <2> QED BY <1>1, <1>5, <2>1, <2>2, PidAssumption DEF DaeInv, DaeOne
<1>7. DaeTty' BY <1>1, <1>5 DEF DaeInv, DaeTty
<1>8. DaeLimit' = DaeLimit BY DEF DaeLimit
<1>9. DaeFiles' BY <1>2, <1>5, <1>8 DEF DaeInv, DaeFiles
<1>10. DaeNull' BY <1>2, <1>3, <1>5, <1>8 DEF DaeInv, DaeNull
<1> QED BY <1>4, <1>6, <1>7, <1>9, <1>10 DEF DaeInv

LEMMA DaeForkInv == ASSUME DaeInv, NEW p \in Pid, Daemon!Fork(p) PROVE DaeInv'
<1> USE DEF DaePlaces, Dead
<1>1. /\ pc[p] = "fork" /\ p = First /\ (\A q \in Pid \ {First} : pc[q] = Unborn)
      /\ opened = <<>> /\ UNCHANGED <<rlim_max, hup, opened>>
  BY DEF Daemon!Fork, DaeInv, DaeOne
<1>2. Running(p) /\ TableInv(DaePlaces) BY <1>1 DEF Running, DaeInv, DaeTypes
<1>3. CASE \E q \in Pid : /\ ForkAs(p, q, "return", "setsid")
                          /\ fds' = [fds EXCEPT ![q] = fds[p]]
                          /\ ctty' = IF p \in ctty THEN ctty \cup {q} ELSE ctty
  <2>1. PICK q \in Pid : /\ ForkAs(p, q, "return", "setsid")
                         /\ fds' = [fds EXCEPT ![q] = fds[p]]
                         /\ ctty' = IF p \in ctty THEN ctty \cup {q} ELSE ctty
    BY <1>3
  <2>2. /\ TableInv(DaePlaces)' /\ pc' = [pc EXCEPT ![p] = "return", ![q] = "setsid"]
        /\ q # p /\ UNCHANGED <<program, sigchld, exit, killed, failed>>
    BY <1>2, <2>1, ForkTable
  <2>3. /\ pc'[First] = "return" /\ pc'[q] = "setsid"
        /\ \A r \in Pid \ {First, q} : pc'[r] = Unborn
    BY <1>1, <2>2 DEF DaeInv, DaeTypes, TableInv
  <2>4. DaeTypes' BY <1>1, <2>1, <2>2 DEF DaeInv, DaeTypes
  <2>5. DaeOne' BY <1>1, <2>2, <2>3 DEF DaeOne, Acts
  <2>6. DaeTty' /\ DaeFiles' BY <2>3 DEF DaeTty, DaeFiles
  <2>7. DaeNull' BY ZenonT(30), <1>1, <2>2, <2>3 DEF DaeInv, DaeNull
  <2> QED BY <2>4, <2>5, <2>6, <2>7 DEF DaeInv
<1>4. CASE Fails(p, "fork", "setsid") /\ UNCHANGED <<fds, ctty>>
  <2>1. /\ TableInv(DaePlaces)' /\ pc' = [pc EXCEPT ![p] = "setsid"]
        /\ UNCHANGED <<program, sigchld, parent, exit, killed>>
    BY <1>2, <1>4, GotoTable
  <2>2. failed' # {} BY <1>4 DEF Fails
  <2>3. pc'[First] = "setsid" /\ \A r \in Pid \ {First} : pc'[r] = Unborn
    BY <1>1, <2>1 DEF DaeInv, DaeTypes, TableInv
  <2>4. DaeTypes' BY <1>1, <1>4, <2>1 DEF DaeInv, DaeTypes
  <2>5. DaeOne' BY <1>1, <2>2, <2>3 DEF DaeOne, Acts
  <2>6. DaeTty' /\ DaeFiles' BY <2>3 DEF DaeTty, DaeFiles
  <2>7. DaeNull' BY <1>1, <2>1, <2>3 DEF DaeInv, DaeNull
  <2> QED BY <2>4, <2>5, <2>6, <2>7 DEF DaeInv
<1> QED BY <1>3, <1>4, DaeTable DEF Daemon!Fork

\* The process that acts goes on.
LEMMA DaeMoves ==
    ASSUME DaeInv, NEW p \in Pid, Acts(p), NEW place \in {"sigaction", "close", "open", "loop"},
           Goto(p, place), opened' = opened, place \in {"sigaction", "close"} => opened = <<>>
    PROVE  /\ TableInv(DaePlaces)' /\ DaeOne' /\ pc'[p] = place
           /\ \A q \in Pid \ {p} : ~Acts(q) /\ pc'[q] = pc[q]
           /\ UNCHANGED <<exit, failed>>
<1>1. Running(p) BY DEF Acts, Running
<1>2. /\ TableInv(DaePlaces)' /\ pc' = [pc EXCEPT ![p] = place] /\ UNCHANGED <<exit, failed>>
  <2>1. TableInv(DaePlaces) /\ place \in DaePlaces \ Dead
    BY DEF DaeInv, DaeTypes, DaePlaces, Dead
  <2>2. failed' = failed BY DEF Goto
  <2> QED BY <1>1, <2>1, <2>2, GotoTable
<1>3. pc'[p] = place /\ \A q \in Pid \ {p} : ~Acts(q) /\ pc'[q] = pc[q]
  BY <1>2 DEF DaeInv, DaeTypes, DaeOne, TableInv
<1>4. \A q \in Pid : Acts(q)' => q = p BY <1>3 DEF Acts
<1>5. \A q \in Pid : pc[q] # "fork" BY DEF DaeInv, DaeOne, Acts
<1>6. \A q \in Pid : pc'[q] # "fork" BY <1>3, <1>5
<1>7. \A q \in Pid : pc'[q] \in {"setsid", "sigaction", "close"} => opened' = <<>>
  BY <1>3, <1>4 DEF Acts
<1>8. Acts(First)' => failed' # {}
  BY <1>2, <1>4, PidAssumption DEF DaeInv, DaeOne
<1>9. DaeOne' BY <1>4, <1>6, <1>7, <1>8 DEF DaeOne
<1> QED BY <1>2, <1>3, <1>9

LEMMA DaeEarlyInv ==
    ASSUME DaeInv, NEW p \in Pid, Daemon!Setsid(p) \/ Daemon!Sigaction(p) \/ Daemon!Close(p)
    PROVE  DaeInv'
<1>1. UNCHANGED <<rlim_max, opened>> /\ opened = <<>> /\ Acts(p)
  BY DEF Daemon!Setsid, Daemon!Sigaction, Daemon!Close, DaeInv, DaeOne, Acts
<1>2. DaeLimit' = DaeLimit BY <1>1 DEF DaeLimit
<1>3. CASE Daemon!Setsid(p)
  <2>1. /\ pc[p] = "setsid" /\ Goto(p, "sigaction") /\ UNCHANGED <<fds, hup>>
        /\ ctty' = IF p = First THEN ctty ELSE ctty \ {p}
    BY <1>3, DaeTable DEF Daemon!Setsid
  <2>2. /\ TableInv(DaePlaces)' /\ DaeOne' /\ pc'[p] = "sigaction"
        /\ \A q \in Pid \ {p} : ~Acts(q) /\ pc'[q] = pc[q]
        /\ UNCHANGED <<exit, failed>>
    BY <1>1, <2>1, DaeMoves
  <2>3. DaeTypes' BY <1>1, <2>1, <2>2 DEF DaeInv, DaeTypes
  <2>4. DaeTty' BY <1>1, <2>1, <2>2 DEF DaeInv, DaeOne, DaeTty, Acts
  <2>5. DaeFiles' BY <1>2, <2>1, <2>2 DEF DaeInv, DaeFiles
  <2>6. DaeNull' BY <1>1, <1>2, <2>1, <2>2 DEF DaeInv, DaeNull
  <2> QED BY <2>2, <2>3, <2>4, <2>5, <2>6 DEF DaeInv
<1>4. CASE Daemon!Sigaction(p)
  <2>1. /\ pc[p] = "sigaction" /\ Goto(p, "close") /\ UNCHANGED <<fds, ctty>> /\ hup' = hup \cup {p}
    BY <1>4, DaeTable DEF Daemon!Sigaction
  <2>2. /\ TableInv(DaePlaces)' /\ DaeOne' /\ pc'[p] = "close"
        /\ \A q \in Pid \ {p} : ~Acts(q) /\ pc'[q] = pc[q]
        /\ UNCHANGED <<exit, failed>>
    BY <1>1, <2>1, DaeMoves
  <2>3. DaeTypes' BY <1>1, <2>1, <2>2 DEF DaeInv, DaeTypes
  <2>4. DaeTty' BY <2>1, <2>2 DEF DaeInv, DaeTty
  <2>5. DaeFiles' BY <1>2, <2>1, <2>2 DEF DaeInv, DaeFiles
  <2>6. DaeNull' BY <1>1, <1>2, <2>1, <2>2 DEF DaeInv, DaeNull
  <2> QED BY <2>2, <2>3, <2>4, <2>5, <2>6 DEF DaeInv
<1>5. CASE Daemon!Close(p)
  <2>1. /\ pc[p] = "close" /\ Goto(p, "open") /\ UNCHANGED <<ctty, hup>>
        /\ fds' = [fds EXCEPT ![p] = [f \in Fd |-> IF f < DaeLimit THEN "closed" ELSE fds[p][f]]]
    BY <1>5, DaeTable DEF Daemon!Close, DaeLimit
  <2>2. /\ TableInv(DaePlaces)' /\ DaeOne' /\ pc'[p] = "open"
        /\ \A q \in Pid \ {p} : ~Acts(q) /\ pc'[q] = pc[q]
        /\ UNCHANGED <<exit, failed>>
    BY <1>1, <2>1, DaeMoves
  <2>3. /\ fds' \in [Pid -> [Fd -> {"closed", "file", "null", "log"}]]
        /\ \A f \in Fd : f < DaeLimit => fds'[p][f] = "closed"
        /\ \A q \in Pid \ {p} : fds'[q] = fds[q]
    BY <2>1 DEF DaeInv, DaeTypes
  <2>4. DaeTypes' BY <1>1, <2>1, <2>2, <2>3 DEF DaeInv, DaeTypes
  <2>5. DaeTty' BY <2>1, <2>2 DEF DaeInv, DaeTty
  <2>6. DaeFiles' BY <1>2, <2>2, <2>3 DEF DaeInv, DaeFiles
  <2>7. DaeLimit > 2 => \A f \in 0..2 : fds'[p][f] = "closed"
    BY <2>3, DaeBounds DEF DaeInv, DaeTypes
  <2>8. ASSUME NEW q \in Pid, pc'[q] = "open", DaeLimit > 2
        PROVE  /\ \A j \in 1..Len(opened) : opened[j] = j - 1 /\ fds'[q][j - 1] = "null"
               /\ \A f \in Len(opened)..2 : fds'[q][f] = "closed"
    <3>1. q = p BY <2>2, <2>8 DEF Acts
    <3> QED BY <1>1, <2>7, <2>8, <3>1
  <2>9. ASSUME NEW q \in Pid, pc'[q] = "loop" PROVE FALSE
    BY <2>2, <2>9 DEF Acts
  <2>10. DaeNull' BY <1>1, <1>2, <2>2, <2>8, <2>9 DEF DaeInv, DaeNull
  <2> QED BY <2>2, <2>4, <2>5, <2>6, <2>10 DEF DaeInv
<1> QED BY <1>3, <1>4, <1>5

\* What open() and dup() find while there are descriptors below the limit.
LEMMA DaeNext ==
    ASSUME DaeInv, NEW p \in Pid, pc[p] = "open", Len(opened) < 3, DaeLimit > 2
    PROVE  Daemon!Lowest(p) = Len(opened)
<1> DEFINE k == Len(opened)
<1>1. k \in 0..2 /\ k \in Fd
  <2>1. k \in Nat /\ k < 3 BY DEF DaeInv, DaeTypes
  <2> HIDE DEF k
  <2>2. k \in 0..2 BY <2>1
  <2> QED BY <2>2, DaeBounds
<1>2. fds[p][k] = "closed" /\ \A g \in Fd : g < k => fds[p][g] # "closed"
  <2>1. fds[p][k] = "closed" BY <1>1 DEF DaeInv, DaeNull
  <2>2. ASSUME NEW g \in Fd, g < k PROVE fds[p][g] = "null"
    <3>1. g + 1 \in 1..k /\ (g + 1) - 1 = g BY <1>1, <2>2, DaeBounds
    <3> QED BY <3>1 DEF DaeInv, DaeNull
  <2> QED BY <2>1, <2>2
<1>3. rlim_max = -1 \/ k < rlim_max
  <2>1. CASE rlim_max = -1 BY <2>1
  <2>2. CASE rlim_max # -1
    <3>1. rlim_max = DaeLimit /\ DaeLimit \in Nat BY <2>2, DaeBounds DEF DaeLimit, DaeInv, DaeTypes
    <3> QED BY <1>1, <3>1
  <2> QED BY <2>1, <2>2
<1>4. Daemon!Lowest(p) # -1
  <2>1. CASE rlim_max = -1 BY <1>1, <1>2, <2>1, DaeLowest
  <2>2. CASE rlim_max # -1
    <3>1. k < DaeLimit BY <1>3, <2>2 DEF DaeLimit
    <3> QED BY <1>1, <1>2, <2>2, <3>1, DaeLowest, DaeBounds
  <2> QED BY <2>1, <2>2
<1>5. PICK f \in Fd : f = Daemon!Lowest(p) /\ fds[p][f] = "closed" /\ f <= k
  BY <1>1, <1>2, <1>3, <1>4, DaeLowest
<1>6. ~(f < k) BY <1>2, <1>5
<1> QED BY <1>1, <1>5, <1>6, DaeBounds

LEMMA DaeOpenNullInv == ASSUME DaeInv, NEW p \in Pid, Daemon!OpenNull(p) PROVE DaeInv'
<1> DEFINE k == Len(opened)
<1>1. PICK f : f = Daemon!Lowest(p) OBVIOUS
<1>2. PICK x : x = IF opened = <<>> THEN "null" ELSE fds[p][0] OBVIOUS
<1>3. PICK y : y = IF opened # <<>> /\ fds[p][0] = "closed" THEN -1 ELSE f OBVIOUS
<1>4. /\ pc[p] = "open" /\ Len(opened) < 3 /\ opened' = Append(opened, y)
      /\ fds' = IF f = -1 THEN fds ELSE [fds EXCEPT ![p][f] = x]
      /\ UNCHANGED <<program, sigchld, pc, parent, exit, killed, failed, rlim_max, ctty, hup>>
  BY <1>1, <1>2, <1>3 DEF Daemon!OpenNull, Daemon!table
<1>5. /\ fds \in [Pid -> [Fd -> {"closed", "file", "null", "log"}]] /\ TableInv(DaePlaces)
      /\ opened \in Seq(Int) /\ k \in 0..2 /\ rlim_max \in Limits
  <2>1. opened \in Seq(Int) /\ k < 3 BY <1>4 DEF DaeInv, DaeTypes
  <2>2. k \in Nat BY <2>1
  <2> HIDE DEF k
  <2>3. k \in 0..2 BY <2>1, <2>2
  <2> QED BY <2>1, <2>3 DEF DaeInv, DaeTypes
<1>6. x \in {"closed", "file", "null", "log"} BY <1>2, <1>5, DaeBounds
<1>7. /\ f = -1 \/ (f \in Fd /\ fds[p][f] = "closed" /\ (rlim_max # -1 => f < rlim_max))
      /\ DaeLimit > 2 => f = k
  BY <1>1, <1>4, DaeLowest, DaeNext
<1>8. y \in Int /\ (rlim_max # -1 => y < rlim_max)
  BY <1>3, <1>5, <1>7, DaeBounds
<1>9. /\ opened' \in Seq(Int) /\ Len(opened') = k + 1 /\ opened'[k + 1] = y
      /\ \A j \in 1..k : opened'[j] = opened[j]
  BY <1>4, <1>5, <1>8
<1>10. /\ fds' \in [Pid -> [Fd -> {"closed", "file", "null", "log"}]]
       /\ \A q \in Pid \ {p} : fds'[q] = fds[q]
       /\ \A g \in Fd : fds'[p][g] = IF g = f /\ f # -1 THEN x ELSE fds[p][g]
  <2>1. CASE f = -1 BY <1>4, <1>5, <2>1
  <2>2. CASE f # -1
    <3>1. fds' = [fds EXCEPT ![p] = [fds[p] EXCEPT ![f] = x]] BY <1>4, <2>2
    <3> QED BY <1>5, <1>6, <2>2, <3>1
  <2> QED BY <2>1, <2>2
<1>11. DaeLimit' = DaeLimit BY <1>4 DEF DaeLimit
<1>12. TableInv(DaePlaces)' BY <1>4, <1>5 DEF TableInv, TableTypeOK, Family, Ended
<1>13. DaeTypes' BY <1>4, <1>5, <1>9, <1>10, <1>12 DEF DaeInv, DaeTypes
<1>14. \A q \in Pid : Acts(q) => q = p BY <1>4 DEF DaeInv, DaeOne, Acts
<1>15. \A q \in Pid : pc[q] # "fork" BY <1>4 DEF DaeInv, DaeOne
<1>16. DaeOne' BY <1>4, <1>14, <1>15 DEF DaeInv, DaeOne, Acts
<1>17. DaeTty' BY <1>4 DEF DaeInv, DaeTty
<1>18. DaeFiles'
  <2> SUFFICES ASSUME NEW q \in Pid, pc[q] \in {"open", "loop"}, NEW g \in Fd, g < DaeLimit
               PROVE  fds'[q][g] # "file"
    BY <1>4, <1>11 DEF DaeFiles
  <2>1. q = p /\ fds[p][g] # "file" BY <1>14 DEF Acts, DaeInv, DaeFiles
  <2>2. 0 < DaeLimit /\ 0 \in Fd BY DaeBounds, <1>5
  <2>3. x # "file" BY <1>2, <1>4, <2>2 DEF DaeInv, DaeFiles
  <2> QED BY <1>10, <2>1, <2>3
<1>19. ASSUME DaeLimit > 2
       PROVE  /\ \A j \in 1..Len(opened') : opened'[j] = j - 1 /\ fds'[p][j - 1] = "null"
              /\ \A g \in Len(opened')..2 : fds'[p][g] = "closed"
  <2>1. /\ \A j \in 1..k : opened[j] = j - 1 /\ fds[p][j - 1] = "null"
        /\ \A g \in k..2 : fds[p][g] = "closed"
    BY <1>4, <1>19 DEF DaeInv, DaeNull
  <2>2. f = k /\ k \in Fd /\ k # -1 BY <1>5, <1>7, <1>19, DaeBounds
  <2>3. k > 0 => fds[p][0] = "null"
    <3>1. k > 0 => 1 \in 1..k BY <1>5
    <3> QED BY <2>1, <3>1
  <2>4. opened = <<>> <=> k = 0 BY <1>5
  <2>5. x = "null" /\ y = k BY <1>2, <1>3, <1>5, <2>2, <2>3, <2>4
  <2>6. ASSUME NEW j \in 1..k + 1 PROVE opened'[j] = j - 1 /\ fds'[p][j - 1] = "null"
    <3>1. CASE j = k + 1
      <4>1. j - 1 = k BY <1>5, <3>1
      <4> QED BY <1>9, <1>10, <2>2, <2>5, <3>1, <4>1
    <3>2. CASE j # k + 1
      <4> HIDE DEF k
      <4>1. j \in 1..k /\ j - 1 \in 0..2 /\ j - 1 # k BY <1>5, <3>2
      <4>2. j - 1 \in Fd BY <4>1, DaeBounds
      <4> QED BY <1>9, <1>10, <2>1, <2>2, <4>1, <4>2
    <3> QED BY <3>1, <3>2
  <2>7. ASSUME NEW g \in k + 1..2 PROVE fds'[p][g] = "closed"
    <3>1. g \in k..2 /\ g # k /\ g \in 0..2 BY <1>5
    <3>2. g \in Fd BY <3>1, DaeBounds
    <3> QED BY <1>10, <2>1, <2>2, <3>1, <3>2
  <2> QED BY <1>9, <2>6, <2>7
<1>20. ASSUME rlim_max # -1, NEW j \in DOMAIN opened' PROVE opened'[j] < rlim_max
  <2>1. j \in 1..k + 1 BY <1>9
  <2>2. CASE j = k + 1 BY <1>8, <1>9, <1>20, <2>2
  <2>3. CASE j # k + 1
    <3>1. j \in 1..k BY <1>5, <2>1, <2>3
    <3>2. j \in DOMAIN opened BY <1>5, <3>1
    <3> QED BY <1>9, <1>20, <3>1, <3>2 DEF DaeInv, DaeNull
  <2> QED BY <2>2, <2>3
<1>21. \A q \in Pid : pc[q] # "loop" BY <1>4, <1>14 DEF Acts
<1>22. DaeNull' BY <1>4, <1>11, <1>14, <1>19, <1>20, <1>21 DEF DaeInv, DaeNull, Acts
<1> QED BY <1>13, <1>16, <1>17, <1>18, <1>22 DEF DaeInv

LEMMA DaeCheckInv == ASSUME DaeInv, NEW p \in Pid, Daemon!Check(p) PROVE DaeInv'
<1>1. /\ pc[p] = "open" /\ Len(opened) = 3 /\ UNCHANGED <<rlim_max, ctty, hup, opened>>
  BY DEF Daemon!Check
<1>2. Running(p) /\ Acts(p) BY <1>1 DEF Running, Acts
<1>3. rlim_max \in Limits /\ opened \in Seq(Int) BY DEF DaeInv, DaeTypes
<1>4. CASE opened = <<0, 1, 2>>
  <2>1. PICK f : f = Daemon!Lowest(p) OBVIOUS
  <2>2. /\ Goto(p, "loop")
        /\ fds' = IF f = -1 THEN fds ELSE [fds EXCEPT ![p][f] = "log"]
    BY <1>4, <2>1, DaeTable DEF Daemon!Check
  <2>3. /\ TableInv(DaePlaces)' /\ DaeOne' /\ pc'[p] = "loop"
        /\ \A q \in Pid \ {p} : ~Acts(q) /\ pc'[q] = pc[q]
        /\ UNCHANGED <<exit, failed>>
    BY <1>1, <1>2, <2>2, DaeMoves
  <2>4. DaeLimit > 2
    <3>1. rlim_max # -1 => rlim_max > 2
      <4>1. 3 \in DOMAIN opened /\ opened[3] = 2 BY <1>4
      <4> QED BY <1>3, <4>1, DaeBounds DEF DaeInv, DaeNull
    <3> QED BY <1>3, <3>1, DaeBounds DEF DaeLimit
  <2>5. \A g \in {0, 1, 2} : fds[p][g] = "null"
    <3>1. \A j \in 1..3 : fds[p][j - 1] = "null" BY <1>1, <2>4 DEF DaeInv, DaeNull
    <3>2. fds[p][1 - 1] = "null" /\ fds[p][2 - 1] = "null" /\ fds[p][3 - 1] = "null" BY <3>1
    <3> QED BY <3>2
  <2>6. f = -1 \/ (f \in Fd /\ fds[p][f] = "closed") BY <2>1, DaeLowest
  <2>7. f \notin {0, 1, 2} BY <2>5, <2>6
  <2>8. /\ fds' \in [Pid -> [Fd -> {"closed", "file", "null", "log"}]]
        /\ \A g \in Fd : fds'[p][g] = IF g = f /\ f # -1 THEN "log" ELSE fds[p][g]
    <3>1. fds \in [Pid -> [Fd -> {"closed", "file", "null", "log"}]] BY DEF DaeInv, DaeTypes
    <3>2. CASE f = -1
      <4>1. fds' = fds BY <2>2, <3>2
      <4> QED BY <3>1, <3>2, <4>1
    <3>3. CASE f # -1
      <4>1. fds' = [fds EXCEPT ![p] = [fds[p] EXCEPT ![f] = "log"]] BY <2>2, <3>3
      <4> QED BY <3>1, <3>3, <4>1
    <3> QED BY <3>2, <3>3
  <2>9. DaeTypes' BY <1>1, <2>3, <2>8 DEF DaeInv, DaeTypes
  <2>10. DaeTty' BY <1>1, <2>3 DEF DaeInv, DaeTty
  <2>11. DaeLimit' = DaeLimit BY <1>1 DEF DaeLimit
  <2>12. DaeFiles'
    <3> SUFFICES ASSUME NEW q \in Pid, pc'[q] \in {"open", "loop"}, NEW g \in Fd, g < DaeLimit
                 PROVE  fds'[q][g] # "file"
      BY <2>11 DEF DaeFiles
    <3>1. q = p BY <2>3 DEF Acts
    <3>2. fds[p][g] # "file" BY <1>1 DEF DaeInv, DaeFiles
    <3> QED BY <2>8, <3>1, <3>2
  <2>13. DaeNull'
    <3>1. \A q \in Pid : pc'[q] # "open" BY <2>3 DEF Acts
    <3>2. ASSUME NEW q \in Pid, pc'[q] = "loop", NEW g \in {0, 1, 2} PROVE fds'[q][g] = "null"
      <4>1. q = p BY <2>3, <3>2 DEF Acts
      <4>2. g \in Fd BY DaeBounds
      <4> QED BY <2>5, <2>7, <2>8, <4>1, <4>2
    <3> QED BY <1>1, <2>3, <3>1, <3>2 DEF DaeInv, DaeNull
  <2> QED BY <2>3, <2>9, <2>10, <2>12, <2>13 DEF DaeInv
<1>5. CASE opened # <<0, 1, 2>>
  <2>1. Exit(p, "error") /\ fds' = [fds EXCEPT ![p] = Daemon!None]
    BY <1>5, DaeTable DEF Daemon!Check
  <2>2. ~(DaeLimit > 2)
    <3>1. ASSUME DaeLimit > 2 PROVE FALSE
      <4>1. \A j \in 1..3 : opened[j] = j - 1 BY <1>1, <3>1 DEF DaeInv, DaeNull
      <4>2. opened[1] = 0 /\ opened[2] = 1 /\ opened[3] = 2 BY <4>1
      <4>3. opened = <<opened[1], opened[2], opened[3]>> BY <1>1, <1>3
      <4> QED BY <1>5, <4>2, <4>3
    <3> QED BY <3>1
  <2>3. rlim_max \in 0..2 BY <1>3, <2>2, DaeBounds
  <2> QED BY <1>1, <1>2, <2>1, <2>3, DaeEndInv
<1> QED BY <1>4, <1>5

LEMMA DaeStep ==
    ASSUME DaeInv, NEW p \in Pid, Daemon!Step(p) \/ Daemon!Hangup(p) PROVE DaeInv'
<1>1. CASE Daemon!Return(p)
  <2>1. /\ pc[p] = "return" /\ Exit(p, "ok") /\ fds' = [fds EXCEPT ![p] = Daemon!None]
        /\ UNCHANGED <<rlim_max, ctty, hup, opened>>
    BY <1>1, DaeTable DEF Daemon!Return
  <2>2. Running(p) BY <2>1 DEF Running
  <2> QED BY <2>1, <2>2, DaeEndInv
<1>2. CASE Daemon!Hangup(p)
  <2>1. /\ Kill(p) /\ Running(p) /\ fds' = [fds EXCEPT ![p] = Daemon!None]
        /\ UNCHANGED <<rlim_max, ctty, hup, opened>>
    BY <1>2, DaeTable DEF Daemon!Hangup
  <2> QED BY <2>1, DaeEndInv
<1> QED BY <1>1, <1>2, DaeForkInv, DaeEarlyInv, DaeOpenNullInv, DaeCheckInv DEF Daemon!Step

LEMMA DaeFrame == ASSUME DaeInv, UNCHANGED <<table, ofDaemon>> PROVE DaeInv'
<1>1. TableInv(DaePlaces)' BY TableFrame DEF DaeInv, DaeTypes
<1> QED BY <1>1 DEF table, ofDaemon, DaeInv, DaeTypes, DaeOne, DaeTty, DaeFiles, DaeNull, DaeLimit,
                    Acts

LEMMA DaeInvImplies == ASSUME DaeInv PROVE Daemon!TypeOK /\ Daemon!Detached
<1>1. Daemon!TypeOK
  BY DaeTable DEF DaeInv, DaeTypes, TableInv, DaePlaces, Dead, Daemon!TypeOK
<1>2. ASSUME NEW p \in Pid, pc[p] = "loop", NEW f \in Fd, fds[p][f] = "file"
      PROVE  f >= IF rlim_max = -1 THEN Assumed ELSE rlim_max
  <2>1. DaeLimit \in Nat /\ f \in Nat BY DaeBounds DEF DaeInv, DaeTypes
  <2>2. ~(f < DaeLimit) BY <1>2 DEF DaeInv, DaeFiles
  <2>3. f >= DaeLimit BY <2>1, <2>2
  <2> QED BY <2>3 DEF DaeLimit
<1>3. Daemon!Detached BY <1>2 DEF DaeInv, DaeTty, DaeNull, Daemon!Detached
<1> QED BY <1>1, <1>3

-----------------------------------------------------------------------------
(* fifo_server.c and fifo_client.c: any number of servers and of clients,  *)
(* any number of lines and of kills.                                       *)

USE DEF Fifo!Unborn, Fifo!Zombie, Fifo!Gone, Fifo!First, Fifo!Adopter, Fifo!Status

LEMMA FifoTable ==
    /\ \A r, l : Fifo!TableInit(r, l) <=> TableInit(r, l)
    /\ Fifo!TableTypeOK <=> TableTypeOK
    /\ \A p, l : Fifo!Goto(p, l) <=> Goto(p, l)
    /\ \A p, x : Fifo!Exit(p, x) <=> Exit(p, x)
    /\ \A p : Fifo!Kill(p) => Kill(p) /\ Running(p)
    /\ Fifo!table = table
<1>1. /\ \A r, l : Fifo!TableInit(r, l) <=> TableInit(r, l)
      /\ Fifo!TableTypeOK <=> TableTypeOK
      /\ \A p, l : Fifo!Goto(p, l) <=> Goto(p, l)
  BY DEF Fifo!TableInit, TableInit, Fifo!TableTypeOK, TableTypeOK, Fifo!Goto, Goto
<1>2. \A p, x : Fifo!Exit(p, x) <=> Exit(p, x)
  BY DEF Fifo!Exit, Exit, Fifo!Ends, Ends
<1>3. \A p : Fifo!Kill(p) => Kill(p) /\ Running(p)
  BY DEF Fifo!Kill, Kill, Fifo!Ends, Ends, Fifo!Running, Running, Fifo!Cardinality, Cardinality
<1> QED BY <1>1, <1>2, <1>3 DEF Fifo!table, table

FifoPlaces == {"off", "unlink", "mkfifo", "open", "opening", "read", "type", "close", Unborn, Gone}

\* Nobody forks, so nobody is a parent and nobody becomes a zombie.
FifoTypes ==
    /\ sigchld = "default" /\ parent = [p \in Pid |-> Adopter]
    /\ exit \in [Pid -> Status] /\ killed \subseteq Pid
    /\ pc \in [Pid -> FifoPlaces]
    /\ name \in Server \cup {0}
    /\ file \in [Pid -> Server \cup {0}]
    /\ met \subseteq Pid
    /\ buf \in [Server -> Seq(Client)]
    /\ typed \in [Pid -> 0..MaxLines]
    /\ late \subseteq Client

\* Which program a process runs, and when it has the FIFO open.
FifoRoles ==
    \A p \in Pid :
      /\ pc[p] \in {"unlink", "mkfifo", "read", "close"} => p \in Server
      /\ pc[p] = "type" => p \in Client
      /\ p \notin Server \cup Client => pc[p] = Unborn
      /\ file[p] # 0 <=> pc[p] \in {"opening", "read", "type", "close"}

\* Some server will read what is in f.
FifoReader(f) == \E s \in Server : file[s] = f /\ pc[s] \in {"opening", "read"}

\* The clients of a server that has read the end are late, and so are those
\* whose lines nobody will read.
FifoLines ==
    /\ \A s \in Server : pc[s] = "close" => \A c \in Client : file[c] = file[s] => c \in late
    /\ killed \cap Server = {} =>
         \A f \in Server : FifoReader(f) \/ \A n \in DOMAIN buf[f] : buf[f][n] \in late

FifoInv == FifoTypes /\ FifoRoles /\ FifoLines

LEMMA FifoProcesses ==
    /\ Server \subseteq Pid /\ Client \subseteq Pid /\ Server \cap Client = {}
    /\ 0 \notin Pid /\ 0 \notin Server /\ MaxLines \in Nat
BY RolesAssumption, PidAssumption, BoundsAssumption

LEMMA FifoInvInit == ASSUME Fifo!Init PROVE FifoInv
<1>1. /\ sigchld = "default" /\ name = 0 /\ file = [p \in Pid |-> 0] /\ met = {} /\ late = {}
      /\ buf = [s \in Server |-> <<>>] /\ typed = [p \in Pid |-> 0]
      /\ TableInit(Server \cup Client, "off")
  BY FifoTable DEF Fifo!Init
<1>2. /\ pc = [p \in Pid |-> IF p \in Server \cup Client THEN "off" ELSE Unborn]
      /\ parent = [p \in Pid |-> Adopter] /\ exit = [p \in Pid |-> "none"] /\ killed = {}
  BY <1>1 DEF TableInit
<1>3. FifoTypes BY <1>1, <1>2, FifoProcesses DEF FifoTypes, FifoPlaces
<1>4. FifoRoles BY <1>1, <1>2 DEF FifoRoles
<1>5. FifoLines BY <1>1, <1>2, FifoProcesses DEF FifoLines
<1> QED BY <1>3, <1>4, <1>5 DEF FifoInv

\* The end of a process, if it has nothing left to read, or was killed.
LEMMA FifoEndInv ==
    ASSUME FifoInv, NEW p \in Pid, Running(p), NEW s \in Status \ {"none"},
           Exit(p, s) \/ (s = "signal" /\ Kill(p)),
           p \in Server /\ pc[p] \in {"opening", "read"} => Kill(p),
           p \in Server \cup Client,
           file' = [file EXCEPT ![p] = 0], UNCHANGED <<name, met, buf, typed, late>>
    PROVE  FifoInv'
<1> USE FifoProcesses
<1>1. Ends(p, s) /\ killed \subseteq killed' /\ killed' \subseteq killed \cup {p}
  BY DEF Exit, Kill
<1>2. \A q \in Pid : parent[q] = Adopter /\ parent[q] # p BY DEF FifoInv, FifoTypes
<1>3. /\ pc' = [pc EXCEPT ![p] = Gone] /\ parent' = parent /\ exit' = [exit EXCEPT ![p] = s]
      /\ sigchld' = sigchld
  <2>1. pc' = [pc EXCEPT ![p] = Gone] BY <1>1, <1>2 DEF Ends, FifoInv, FifoTypes
  <2>2. parent' = parent BY <1>1, <1>2 DEF Ends, FifoInv, FifoTypes
  <2> QED BY <1>1, <2>1, <2>2 DEF Ends
<1>4. FifoTypes' BY <1>1, <1>3 DEF FifoInv, FifoTypes, FifoPlaces
<1>5. FifoRoles' BY <1>3 DEF FifoInv, FifoTypes, FifoRoles
<1>6. ASSUME NEW r \in Server, pc'[r] = "close", NEW c \in Client, file'[c] = file'[r] PROVE c \in late'
  <2>1. r # p /\ pc[r] = "close" /\ file'[r] = file[r] BY <1>3, <1>6 DEF FifoInv, FifoTypes
  <2>2. file'[r] # 0 BY <2>1 DEF FifoInv, FifoRoles
  <2>3. c # p /\ file[c] = file[r] BY <1>6, <2>1, <2>2 DEF FifoInv, FifoTypes
  <2> QED BY <2>1, <2>3 DEF FifoInv, FifoLines
<1>7. ASSUME killed' \cap Server = {}, NEW f \in Server, ~FifoReader(f)'
      PROVE  \A n \in DOMAIN buf[f] : buf[f][n] \in late
  <2>1. killed \cap Server = {} BY <1>1, <1>7
  <2>2. p \in Server => pc[p] \notin {"opening", "read"} BY <1>7 DEF Kill
  <2>3. ~FifoReader(f)
    <3>1. SUFFICES ASSUME NEW r \in Server, file[r] = f, pc[r] \in {"opening", "read"} PROVE FALSE
      BY DEF FifoReader
    <3>2. r # p BY <2>2, <3>1
    <3>3. file'[r] = f /\ pc'[r] = pc[r] BY <1>3, <3>1, <3>2 DEF FifoInv, FifoTypes
    <3> QED BY <1>7, <3>1, <3>3 DEF FifoReader
  <2> QED BY <2>1, <2>3 DEF FifoInv, FifoLines
<1>8. FifoLines' BY <1>6, <1>7 DEF FifoLines
<1> QED BY <1>4, <1>5, <1>8 DEF FifoInv

\* A move from one place to the next, when it closes nothing, and takes no
\* reader away but one that has found the end.
LEMMA FifoGotoInv ==
    ASSUME FifoInv, NEW p \in Pid, NEW place \in FifoPlaces \ {Unborn, Gone}, Goto(p, place),
           pc[p] # Unborn,
           place \in {"unlink", "mkfifo", "read", "close"} => p \in Server,
           place = "type" => p \in Client,
           file[p] # 0 <=> place \in {"opening", "read", "type", "close"},
           place = "close" => /\ \A c \in Client : file[c] # file[p]
                              /\ buf[file[p]] = <<>>,
           p \in Server /\ pc[p] \in {"opening", "read"} => place \in {"opening", "read", "close"},
           name' \in Server \cup {0}, UNCHANGED <<file, met, buf, typed, late>>
    PROVE  FifoInv'
<1> USE FifoProcesses
<1>1. pc' = [pc EXCEPT ![p] = place] /\ UNCHANGED <<sigchld, parent, exit, killed>> BY DEF Goto
<1>2. FifoTypes' BY <1>1 DEF FifoInv, FifoTypes
<1>3. FifoRoles' BY <1>1 DEF FifoInv, FifoTypes, FifoRoles
<1>4. ASSUME NEW r \in Server, pc'[r] = "close", NEW c \in Client, file[c] = file[r] PROVE c \in late
  <2>1. r # p BY <1>1, <1>4 DEF FifoInv, FifoTypes
  <2> QED BY <1>1, <1>4, <2>1 DEF FifoInv, FifoTypes, FifoLines
<1>5. ASSUME killed \cap Server = {}, NEW f \in Server, ~FifoReader(f)'
      PROVE  \A n \in DOMAIN buf[f] : buf[f][n] \in late
  <2>1. CASE FifoReader(f)
    <3>1. PICK r \in Server : file[r] = f /\ pc[r] \in {"opening", "read"} BY <2>1 DEF FifoReader
    <3>2. r = p /\ place = "close"
      <4>1. pc'[r] \notin {"opening", "read"} BY <1>5, <3>1 DEF FifoReader
      <4> QED BY <1>1, <3>1, <4>1 DEF FifoInv, FifoTypes
    <3>3. buf[f] = <<>> BY <3>1, <3>2
    <3> QED BY <3>3
  <2>2. CASE ~FifoReader(f) BY <1>5, <2>2 DEF FifoInv, FifoLines
  <2> QED BY <2>1, <2>2
<1>6. FifoLines' BY <1>1, <1>4, <1>5 DEF FifoLines
<1> QED BY <1>2, <1>3, <1>6 DEF FifoInv

LEMMA FifoOpenInv == ASSUME FifoInv, NEW p \in Pid, Fifo!Open(p) PROVE FifoInv'
<1> USE FifoProcesses
<1> DEFINE others == IF p \in Server THEN Fifo!Writers(name) ELSE Fifo!Readers(name)
<1>1. pc[p] = "open" /\ Running(p) /\ p \in Server \cup Client /\ file[p] = 0
  BY DEF Fifo!Open, Running, FifoInv, FifoRoles
<1>2. CASE name = 0
  <2>1. Exit(p, "error") /\ file' = [file EXCEPT ![p] = 0] /\ UNCHANGED <<name, met, buf, typed, late>>
    BY <1>2, FifoTable DEF Fifo!Open, Fifo!End
  <2> QED BY <1>1, <2>1, FifoEndInv
<1>3. CASE name # 0
  <2>1. /\ file' = [file EXCEPT ![p] = name] /\ Goto(p, "opening") /\ UNCHANGED <<name, typed>>
        /\ met' = (met \cup others) \cup (IF others # {} THEN {p} ELSE {})
        /\ late' = IF \E s \in others : pc[s] = "close" THEN late \cup {p} ELSE late
        /\ buf' = IF Fifo!Readers(name) \cup Fifo!Writers(name) = {} THEN [buf EXCEPT ![name] = <<>>] ELSE buf
    BY <1>3, FifoTable DEF Fifo!Open
  <2>2. others \subseteq Pid BY DEF Fifo!Readers, Fifo!Writers
  <2>3. name \in Server BY <1>3 DEF FifoInv, FifoTypes
  <2>4. pc' = [pc EXCEPT ![p] = "opening"] /\ UNCHANGED <<sigchld, parent, exit, killed>>
    BY <2>1 DEF Goto
  <2>5. (\E s \in others : pc[s] = "close") => p \in Client
    <3>1. CASE p \in Server
      <4>1. \A s \in others : s \in Client BY <3>1 DEF Fifo!Writers
      <4>2. \A s \in Client : pc[s] # "close" BY DEF FifoInv, FifoRoles
      <4> QED BY <4>1, <4>2
    <3> QED BY <1>1, <3>1
  <2>6. late' \subseteq Client /\ late \subseteq late' BY <2>1, <2>5 DEF FifoInv, FifoTypes
  <2>7. /\ buf' \in [Server -> Seq(Client)]
        /\ \A f \in Server : buf'[f] = buf[f] \/ buf'[f] = <<>>
    BY <2>1, <2>3 DEF FifoInv, FifoTypes
  <2>8. met' \subseteq Pid BY <2>1, <2>2 DEF FifoInv, FifoTypes
  <2>9. FifoTypes' BY <2>1, <2>3, <2>4, <2>6, <2>7, <2>8 DEF FifoInv, FifoTypes, FifoPlaces
  <2>10. FifoRoles' BY <1>1, <2>1, <2>3, <2>4 DEF FifoInv, FifoTypes, FifoRoles
  <2>11. ASSUME NEW r \in Server, pc'[r] = "close", NEW c \in Client, file'[c] = file'[r] PROVE c \in late'
    <3>1. r # p /\ pc[r] = "close" /\ file'[r] = file[r]
      BY <2>1, <2>4, <2>11 DEF FifoInv, FifoTypes
    <3>2. CASE c = p
      <4>1. file[r] = name BY <2>1, <2>11, <3>1, <3>2 DEF FifoInv, FifoTypes
      <4>2. p \notin Server BY <3>2
      <4>3. r \in others BY <4>1, <4>2 DEF Fifo!Readers
      <4> QED BY <2>1, <3>1, <3>2, <4>3
    <3>3. CASE c # p
      <4>1. file[c] = file[r] BY <2>1, <2>11, <3>1, <3>3 DEF FifoInv, FifoTypes
      <4>2. c \in late BY <3>1, <4>1 DEF FifoInv, FifoLines
      <4> QED BY <2>6, <4>2
    <3> QED BY <3>2, <3>3
  <2>12. ASSUME killed' \cap Server = {}, NEW f \in Server, ~FifoReader(f)'
         PROVE  \A n \in DOMAIN buf'[f] : buf'[f][n] \in late'
    <3>1. ~FifoReader(f)
      <4>1. SUFFICES ASSUME NEW r \in Server, file[r] = f, pc[r] \in {"opening", "read"} PROVE FALSE
        BY DEF FifoReader
      <4>2. r # p BY <1>1, <4>1
      <4>3. file'[r] = f /\ pc'[r] = pc[r] BY <2>1, <2>4, <4>1, <4>2 DEF FifoInv, FifoTypes
      <4> QED BY <2>12, <4>1, <4>3 DEF FifoReader
    <3>2. \A n \in DOMAIN buf[f] : buf[f][n] \in late BY <2>4, <2>12, <3>1 DEF FifoInv, FifoLines
    <3> QED BY <2>6, <2>7, <3>2
  <2>13. FifoLines' BY <2>11, <2>12 DEF FifoLines
  <2> QED BY <2>9, <2>10, <2>13 DEF FifoInv
<1> QED BY <1>2, <1>3

LEMMA FifoAppended ==
    ASSUME NEW b \in Seq(Client), NEW c \in Client
    PROVE  /\ Append(b, c) \in Seq(Client)
           /\ \A n \in DOMAIN Append(b, c) :
                Append(b, c)[n] = c \/ (n \in DOMAIN b /\ Append(b, c)[n] = b[n])
<1>1. Append(b, c) \in Seq(Client) /\ Len(Append(b, c)) = Len(b) + 1 /\ Len(b) \in Nat OBVIOUS
<1>2. \A n \in 1..Len(b) : Append(b, c)[n] = b[n] OBVIOUS
<1>3. Append(b, c)[Len(b) + 1] = c OBVIOUS
<1>4. DOMAIN Append(b, c) = 1..Len(b) + 1 /\ DOMAIN b = 1..Len(b) BY <1>1
<1> QED BY <1>1, <1>2, <1>3, <1>4

LEMMA FifoTypeInv == ASSUME FifoInv, NEW c \in Pid, Fifo!Type(c) PROVE FifoInv'
<1> USE FifoProcesses
<1>1. /\ pc[c] = "type" /\ Running(c) /\ c \in Client /\ c \notin Server /\ file[c] \in Server
      /\ typed[c] < MaxLines
  BY DEF Fifo!Type, Running, FifoInv, FifoRoles, FifoTypes
<1>2. CASE Fifo!Readers(file[c]) = {}
  <2>1. Exit(c, "signal") /\ file' = [file EXCEPT ![c] = 0] /\ UNCHANGED <<name, met, buf, typed, late>>
    BY <1>2, FifoTable DEF Fifo!Type, Fifo!End
  <2> QED BY <1>1, <2>1, FifoEndInv
<1>3. CASE Fifo!Readers(file[c]) # {}
  <2>1. /\ buf' = [buf EXCEPT ![file[c]] = Append(@, c)]
        /\ typed' = [typed EXCEPT ![c] = @ + 1]
        /\ UNCHANGED <<sigchld, pc, parent, exit, killed, name, file, met, late>>
    BY <1>3 DEF Fifo!Type, Fifo!table
  <2> DEFINE b == buf[file[c]]
  <2>2. b \in Seq(Client) BY <1>1 DEF FifoInv, FifoTypes
  <2>3. /\ buf'[file[c]] = Append(b, c) /\ \A f \in Server \ {file[c]} : buf'[f] = buf[f]
    BY <1>1, <2>1 DEF FifoInv, FifoTypes
  <2> HIDE DEF b
  <2>4. buf' \in [Server -> Seq(Client)]
    <3>1. Append(b, c) \in Seq(Client) BY <1>1, <2>2
    <3> QED BY <2>1, <3>1 DEF FifoInv, FifoTypes, b
  <2>5. typed' \in [Pid -> 0..MaxLines]
    <3>1. typed[c] + 1 \in 0..MaxLines BY <1>1 DEF FifoInv, FifoTypes
    <3> QED BY <2>1, <3>1 DEF FifoInv, FifoTypes
  <2>6. FifoTypes' BY <2>1, <2>4, <2>5 DEF FifoInv, FifoTypes
  <2>7. FifoRoles' BY <2>1 DEF FifoInv, FifoRoles
  <2>8. ASSUME killed \cap Server = {}, NEW f \in Server, ~FifoReader(f)
        PROVE  \A n \in DOMAIN buf'[f] : buf'[f][n] \in late
    <3>1. \A n \in DOMAIN buf[f] : buf[f][n] \in late BY <2>8 DEF FifoInv, FifoLines
    <3>2. CASE f = file[c]
      <4>1. PICK r \in Server : file[r] = f BY <1>3, <3>2 DEF Fifo!Readers
      <4>2. pc[r] = "close"
        <5>1. pc[r] \in {"opening", "read", "type", "close"} BY <4>1 DEF FifoInv, FifoRoles
        <5>2. pc[r] # "type" BY <4>1 DEF FifoInv, FifoRoles
        <5> QED BY <2>8, <4>1, <5>1, <5>2 DEF FifoReader
      <4>3. c \in late BY <1>1, <3>2, <4>1, <4>2 DEF FifoInv, FifoLines
      <4>4. b = buf[f] BY <3>2 DEF b
      <4>5. buf'[f] = Append(b, c) BY <2>3, <3>2
      <4>6. \A n \in DOMAIN Append(b, c) :
              Append(b, c)[n] = c \/ (n \in DOMAIN b /\ Append(b, c)[n] = b[n])
        BY <1>1, <2>2, FifoAppended
      <4>7. \A n \in DOMAIN b : b[n] \in late BY <3>1, <4>4
      <4>8. \A n \in DOMAIN Append(b, c) : Append(b, c)[n] \in late BY <4>3, <4>6, <4>7
      <4> QED BY <4>5, <4>8
    <3>3. CASE f # file[c] BY <2>3, <3>1, <3>3
    <3> QED BY <3>2, <3>3
  <2>9. \A f \in Server : FifoReader(f)' <=> FifoReader(f) BY <2>1 DEF FifoReader
  <2>10. \A s \in Server : pc[s] = "close" => \A d \in Client : file[d] = file[s] => d \in late
    BY DEF FifoInv, FifoLines
  <2>11. FifoLines' BY <2>1, <2>8, <2>9, <2>10 DEF FifoLines
  <2> QED BY <2>6, <2>7, <2>11 DEF FifoInv
<1> QED BY <1>2, <1>3

LEMMA FifoReadInv == ASSUME FifoInv, NEW s \in Pid, Fifo!Read(s) PROVE FifoInv'
<1> USE FifoProcesses
<1>1. pc[s] = "read" /\ s \in Server /\ s \notin Client /\ file[s] \in Server
  BY DEF Fifo!Read, FifoInv, FifoRoles, FifoTypes
<1>2. CASE buf[file[s]] # <<>>
  <2>1. /\ buf' = [buf EXCEPT ![file[s]] = <<>>]
        /\ UNCHANGED <<sigchld, pc, parent, exit, killed, name, file, met, typed, late>>
    BY <1>2 DEF Fifo!Read, Fifo!table
  <2>2. /\ buf' \in [Server -> Seq(Client)]
        /\ \A f \in Server : buf'[f] = buf[f] \/ buf'[f] = <<>>
    BY <1>1, <2>1 DEF FifoInv, FifoTypes
  <2>3. FifoTypes' BY <2>1, <2>2 DEF FifoInv, FifoTypes
  <2>4. FifoRoles' BY <2>1 DEF FifoInv, FifoRoles
  <2>5. FifoLines' BY <2>1, <2>2 DEF FifoInv, FifoLines, FifoReader
  <2> QED BY <2>3, <2>4, <2>5 DEF FifoInv
<1>3. CASE buf[file[s]] = <<>>
  <2>1. Fifo!Writers(file[s]) = {} /\ Goto(s, "close") /\ UNCHANGED <<buf, name, file, met, typed, late>>
    BY <1>3, FifoTable DEF Fifo!Read
  <2>2. \A c \in Client : file[c] # file[s] BY <2>1 DEF Fifo!Writers
  <2>3. name' \in Server \cup {0} /\ file[s] # 0 BY <1>1, <2>1 DEF FifoInv, FifoTypes
  <2>4. "close" \in FifoPlaces \ {Unborn, Gone} BY DEF FifoPlaces
  <2> QED BY <1>1, <1>3, <2>1, <2>2, <2>3, <2>4, FifoGotoInv
<1> QED BY <1>2, <1>3

LEMMA FifoStep ==
    ASSUME FifoInv, NEW p \in Pid, Fifo!Step(p) \/ Fifo!User(p) \/ Fifo!Killed(p)
    PROVE  FifoInv'
<1> USE FifoProcesses
<1>1. CASE Fifo!Start(p)
  <2>1. /\ pc[p] = "off" /\ Goto(p, IF p \in Server THEN "unlink" ELSE "open")
        /\ UNCHANGED <<name, file, met, buf, typed, late>>
    BY <1>1, FifoTable DEF Fifo!Start, Fifo!fifo
  <2>2. file[p] = 0 BY <2>1 DEF FifoInv, FifoRoles
  <2>3. name' \in Server \cup {0} BY <2>1 DEF FifoInv, FifoTypes
  <2>4. {"unlink", "open"} \subseteq FifoPlaces \ {Unborn, Gone} BY DEF FifoPlaces
  <2> QED BY <2>1, <2>2, <2>3, <2>4, FifoGotoInv
<1>2. CASE Fifo!Unlink(p)
  <2>1. pc[p] = "unlink" /\ name' = 0 /\ Goto(p, "mkfifo") /\ UNCHANGED <<file, met, buf, typed, late>>
    BY <1>2, FifoTable DEF Fifo!Unlink
  <2>2. file[p] = 0 /\ p \in Server BY <2>1 DEF FifoInv, FifoRoles
  <2>3. "mkfifo" \in FifoPlaces \ {Unborn, Gone} BY DEF FifoPlaces
  <2> QED BY <2>1, <2>2, <2>3, FifoGotoInv
<1>3. CASE Fifo!Mkfifo(p) /\ name = 0
  <2>1. pc[p] = "mkfifo" /\ name' = p /\ Goto(p, "open") /\ UNCHANGED <<file, met, buf, typed, late>>
    BY <1>3, FifoTable DEF Fifo!Mkfifo
  <2>2. file[p] = 0 /\ p \in Server BY <2>1 DEF FifoInv, FifoRoles
  <2>3. "open" \in FifoPlaces \ {Unborn, Gone} BY DEF FifoPlaces
  <2> QED BY <2>1, <2>2, <2>3, FifoGotoInv
<1>4. CASE Fifo!Opened(p)
  <2>1. /\ pc[p] = "opening" /\ Goto(p, IF p \in Server THEN "read" ELSE "type")
        /\ UNCHANGED <<name, file, met, buf, typed, late>>
    BY <1>4, FifoTable DEF Fifo!Opened, Fifo!fifo
  <2>2. file[p] # 0 /\ p \in Server \cup Client BY <2>1 DEF FifoInv, FifoRoles
  <2>3. name' \in Server \cup {0} BY <2>1 DEF FifoInv, FifoTypes
  <2>4. {"read", "type"} \subseteq FifoPlaces \ {Unborn, Gone} BY DEF FifoPlaces
  <2> QED BY <2>1, <2>2, <2>3, <2>4, FifoGotoInv
<1>5. CASE \/ Fifo!Mkfifo(p) /\ name # 0
           \/ Fifo!Close(p) \/ Fifo!Finish(p)
  <2>1. /\ \/ pc[p] \in {"mkfifo", "close"}
           \/ pc[p] = "type" /\ p \notin Server
        /\ \E s \in {"error", "ok"} : Exit(p, s)
        /\ file' = [file EXCEPT ![p] = 0] /\ UNCHANGED <<name, met, buf, typed, late>>
    BY <1>5, FifoTable DEF Fifo!Mkfifo, Fifo!Close, Fifo!Finish, Fifo!End, FifoInv, FifoRoles
  <2>2. Running(p) /\ p \in Server \cup Client BY <2>1 DEF Running, FifoInv, FifoRoles
  <2>3. PICK s \in {"error", "ok"} : Exit(p, s) BY <2>1
  <2>4. s \in Status \ {"none"} BY <2>3
  <2> QED BY <2>1, <2>2, <2>3, <2>4, FifoEndInv
<1>6. CASE Fifo!Killed(p)
  <2>1. /\ Kill(p) /\ Running(p)
        /\ file' = [file EXCEPT ![p] = 0] /\ UNCHANGED <<name, met, buf, typed, late>>
    BY <1>6, FifoTable DEF Fifo!Killed
  <2>2. p \in Server \cup Client BY <2>1 DEF Running, FifoInv, FifoRoles
  <2> QED BY <2>1, <2>2, FifoEndInv
<1> QED BY <1>1, <1>2, <1>3, <1>4, <1>5, <1>6, FifoOpenInv, FifoTypeInv, FifoReadInv
        DEF Fifo!Step, Fifo!User

LEMMA FifoFrame == ASSUME FifoInv, UNCHANGED <<table, ofFifo>> PROVE FifoInv'
BY DEF table, ofFifo, FifoInv, FifoTypes, FifoRoles, FifoLines, FifoReader

LEMMA FifoInvImplies == ASSUME FifoInv PROVE Fifo!TypeOK /\ Fifo!Delivered
<1>1. TableTypeOK BY DEF FifoInv, FifoTypes, TableTypeOK
<1>2. Fifo!TypeOK BY <1>1, FifoTable DEF FifoInv, FifoTypes, FifoPlaces, Fifo!TypeOK
<1>3. Fifo!Delivered
  BY DEF FifoInv, FifoLines, FifoReader, Fifo!Delivered, Fifo!Readers
<1> QED BY <1>2, <1>3

-----------------------------------------------------------------------------
(* fork.c, vfork.c and thread_mutex.c.  The process the user starts is 1,  *)
(* the child 2, and the threads are 2 and 3.                               *)

USE DEF Memory!Unborn, Memory!Zombie, Memory!Gone, Memory!First, Memory!Adopter, Memory!Status

LEMMA MemTable ==
    /\ \A r, l : Memory!TableInit(r, l) <=> TableInit(r, l)
    /\ Memory!TableTypeOK <=> TableTypeOK
    /\ \A p, l : Memory!Goto(p, l) <=> Goto(p, l)
    /\ \A p, q, l, m : Memory!ForkAs(p, q, l, m) <=> ForkAs(p, q, l, m)
    /\ \A p, c, l : Memory!Fails(p, c, l) <=> Fails(p, c, l)
    /\ \A p, x : Memory!Exit(p, x) <=> Exit(p, x)
    /\ \A p : Memory!Children(p) = Children(p)
<1>1. /\ \A r, l : Memory!TableInit(r, l) <=> TableInit(r, l)
      /\ Memory!TableTypeOK <=> TableTypeOK
  BY DEF Memory!TableInit, TableInit, Memory!TableTypeOK, TableTypeOK
<1>2. /\ \A p, l : Memory!Goto(p, l) <=> Goto(p, l)
      /\ \A p, q, l, m : Memory!ForkAs(p, q, l, m) <=> ForkAs(p, q, l, m)
      /\ \A p, c, l : Memory!Fails(p, c, l) <=> Fails(p, c, l)
  BY DEF Memory!Goto, Goto, Memory!ForkAs, ForkAs, Memory!Fails, Fails
<1>3. \A p, x : Memory!Exit(p, x) <=> Exit(p, x)
  BY DEF Memory!Exit, Exit, Memory!Ends, Ends
<1>4. \A p : Memory!Children(p) = Children(p) BY DEF Memory!Children, Children
<1> QED BY <1>1, <1>2, <1>3, <1>4

MemPlaces ==
    Dead \cup {"fork", "vfork", "child", "show", "end", "join", "lock", "store", "unlock"}

MemTypes ==
    /\ TableInv(MemPlaces) /\ sigchld = "default"
    /\ program \in {"fork", "vfork", "thread_mutex"}
    /\ space \in [Pid -> Pid]
    /\ g_var \in [Pid -> 0..2]
    /\ var \in [Pid -> {0, 88, 89, 92, 93}]
    /\ reg \in [Pid -> 0..2]
    /\ mid \in Pid \cup {0}
    /\ shown \in [Pid -> Seq(Nat)]

\* After fork() each works in its own memory, and the parent changes nothing.
MemFork ==
    /\ \A p \in Pid \ {1, 2} : pc[p] = Unborn
    /\ pc[1] \in {"fork", "show", "end", Zombie, Gone}
    /\ pc[2] \in Dead \cup {"child", "show", "end"}
    /\ pc[1] = "fork" => pc[2] = Unborn
    /\ \A p \in Pid : space[p] = p
    /\ g_var[1] = 1 /\ var[1] = 92
    /\ pc[2] = "child" => g_var[2] = 1 /\ var[2] = 92
    /\ pc[2] \in {"show", "end"} => g_var[2] = 2 /\ var[2] = 93
    /\ shown[1] = <<>> \/ shown[1] = <<1, 92>>
    /\ shown[2] = <<>> \/ shown[2] = <<2, 93>>

\* The child of vfork() works in its parent's memory, and while it runs the
\* parent does not.
MemVfork ==
    /\ \A p \in Pid \ {1, 2} : pc[p] = Unborn
    /\ pc[1] \in {"fork", "vfork", "show", "end", Zombie, Gone}
    /\ pc[2] \in Dead \cup {"child", "show", "end"}
    /\ pc[1] = "fork" => pc[2] = Unborn
    /\ pc[1] = "vfork" => parent[2] = 1 /\ pc[2] \notin {Unborn, Gone}
    /\ pc[2] \in {"child", "show", "end"} => pc[1] = "vfork"
    /\ failed = {} /\ pc[1] \in {"show", "end", Zombie, Gone} => pc[2] \in {Zombie, Gone}
    /\ space[1] = 1 /\ (pc[2] # Unborn => space[2] = 1)
    /\ pc[2] \in {Unborn, "child"} => g_var[1] = 1 /\ var[1] = 88
    /\ pc[2] \in {"show", "end", Zombie, Gone} => g_var[1] = 2 /\ var[1] = 89
    /\ pc[2] \in {Unborn, "child", "show"} => shown[2] = <<>>
    /\ pc[2] \in {"end", Zombie, Gone} => shown[2] = <<2, 89>>
    /\ pc[1] \in {"fork", "vfork", "show"} => shown[1] = <<>>
    /\ failed = {} => shown[1] = <<>> \/ shown[1] = <<2, 89>>

\* A thread that has stored its change.
Stored(q) == pc[q] \in {"unlock", "end", Zombie, Gone}

\* The mutex belongs to the thread between its load and its unlock, so that
\* g_var is what the changes that were stored make of 1.
MemThreads ==
    /\ \A p \in Pid \ {1, 2, 3} : pc[p] = Unborn
    /\ parent[1] = Adopter /\ pc[1] \in {"fork", "join", "end", Zombie, Gone}
    /\ \A q \in {2, 3} : pc[q] \in Dead \cup {"lock", "store", "unlock", "end"}
    /\ pc[1] = "fork" \/ pc[2] = Unborn => pc[3] = Unborn
    /\ pc[1] # "fork" => pc[2] # Unborn /\ pc[3] # Unborn
    /\ \A q \in {2, 3} :
         /\ pc[1] \in {"fork", "join"} /\ pc[q] # Unborn => parent[q] = 1 /\ pc[q] # Gone
         /\ pc[1] \in {"end", Zombie, Gone} => pc[q] \in {Zombie, Gone}
         /\ pc[q] # Unborn => space[q] = 1
         /\ mid = q <=> pc[q] \in {"store", "unlock"}
         /\ pc[q] = "store" => reg[q] = g_var[1]
         /\ pc[q] = "unlock" => g_var[1] = reg[q] + Memory!Change(q)
         /\ shown[q] # <<>> => shown[q][2] = shown[q][1] + Memory!Change(q)
    /\ mid \in {0, 2, 3}
    /\ g_var[1] = 1 + (IF Stored(2) THEN 1 ELSE 0) - (IF Stored(3) THEN 1 ELSE 0)

MemInv ==
    /\ MemTypes
    /\ program = "fork" => MemFork
    /\ program = "vfork" => MemVfork
    /\ program = "thread_mutex" => MemThreads

LEMMA MemThree == {1, 2, 3} \subseteq Pid /\ Pid \subseteq Nat \ {0}
BY ThreadsAssumption, PidAssumption

LEMMA MemInvInit == ASSUME Memory!Init PROVE MemInv
<1>1. /\ TableInit({First}, "fork") /\ sigchld = "default"
      /\ program \in {"fork", "vfork", "thread_mutex"}
      /\ space = [p \in Pid |-> p] /\ g_var = [p \in Pid |-> 1]
      /\ var = [p \in Pid |-> Memory!Start[program]]
      /\ reg = [p \in Pid |-> 0] /\ mid = 0 /\ shown = [p \in Pid |-> <<>>]
  BY MemTable DEF Memory!Init, Memory!Start
<1>2. TableInv({"fork", Unborn}) BY <1>1, TableInitInv
<1>3. TableInv(MemPlaces) BY <1>2, TableWider DEF MemPlaces, Dead
<1>4. pc = [p \in Pid |-> IF p = 1 THEN "fork" ELSE Unborn] BY <1>1 DEF TableInit
<1>5. /\ pc[1] = "fork" /\ \A p \in Pid \ {1} : pc[p] = Unborn
      /\ g_var[1] = 1 /\ \A p \in Pid : space[p] = p /\ shown[p] = <<>>
  BY <1>1, <1>4, MemThree
<1>6. /\ program = "fork" => var[1] = 92 /\ \A p \in Pid : var[p] = 92
      /\ program = "vfork" => var[1] = 88 /\ \A p \in Pid : var[p] = 88
      /\ program = "thread_mutex" => \A p \in Pid : var[p] = 0
  BY <1>1, MemThree DEF Memory!Start
<1>7. MemTypes
  <2>1. var \in [Pid -> {0, 88, 89, 92, 93}] BY <1>1, <1>6
  <2>2. shown \in [Pid -> Seq(Nat)] BY <1>1
  <2> QED BY <1>1, <1>3, <2>1, <2>2 DEF MemTypes
<1>8. program = "fork" => MemFork BY <1>5, <1>6, MemThree DEF MemFork, Dead
<1>9. program = "vfork" => MemVfork BY <1>5, <1>6, MemThree DEF MemVfork, Dead
<1>10. MemThreads BY <1>1, <1>5, MemThree DEF MemThreads, Stored, Dead, TableInit
<1> QED BY <1>7, <1>8, <1>9, <1>10 DEF MemInv

\* The child and the threads have the next numbers.
LEMMA MemNext ==
    ASSUME NEW p \in Pid, NEW q \in Pid, NEW here, NEW there, ForkAs(p, q, here, there),
           pc[1] # Unborn
    PROVE  /\ pc[2] = Unborn => q = 2
           /\ pc[2] # Unborn /\ pc[3] = Unborn => q = 3
<1>1. pc[q] = Unborn /\ \A r \in Pid : r < q => pc[r] # Unborn BY DEF ForkAs
<1> QED BY <1>1, MemThree

\* The process goes to another place, and nobody else does.
LEMMA MemGoto ==
    ASSUME MemInv, NEW p \in Pid, NEW place \in MemPlaces \ Dead, pc[p] \notin Dead,
           Goto(p, place) \/ Fails(p, "fork", place)
    PROVE  /\ TableInv(MemPlaces)' /\ pc'[p] = place
           /\ \A q \in Pid \ {p} : pc'[q] = pc[q]
           /\ UNCHANGED <<program, sigchld, parent>>
           /\ Goto(p, place) => failed' = failed
           /\ ~Goto(p, place) => failed' # {}
<1>1. Running(p) /\ TableInv(MemPlaces) BY DEF Running, Dead, MemInv, MemTypes
<1> HIDE DEF MemPlaces, Dead
<1>2. /\ TableInv(MemPlaces)' /\ pc' = [pc EXCEPT ![p] = place]
      /\ UNCHANGED <<program, sigchld, parent>>
  BY <1>1, GotoTable
<1>3. pc \in [Pid -> MemPlaces] BY <1>1 DEF TableInv
<1> QED BY <1>2, <1>3 DEF Goto, Fails

LEMMA MemChildInv == ASSUME MemInv, NEW p \in Pid, Memory!Child(p) PROVE MemInv'
<1> USE MemThree
<1>1. /\ pc[p] = "child" /\ Goto(p, "show") /\ UNCHANGED <<space, reg, mid, shown>>
      /\ g_var' = [g_var EXCEPT ![space[p]] = @ + 1]
      /\ var' = [var EXCEPT ![space[p]] = @ + 1]
  BY MemTable DEF Memory!Child
<1>2. p = 2 /\ (program = "fork" \/ program = "vfork")
  BY <1>1 DEF MemInv, MemTypes, MemFork, MemVfork, MemThreads, Dead
<1>3. /\ TableInv(MemPlaces)' /\ pc'[2] = "show" /\ \A q \in Pid \ {2} : pc'[q] = pc[q]
      /\ UNCHANGED <<program, sigchld, parent, failed>>
  <2>1. "show" \in MemPlaces \ Dead /\ pc[p] \notin Dead BY <1>1 DEF MemPlaces, Dead
  <2> QED BY <1>1, <1>2, <2>1, MemGoto
<1>4. CASE program = "fork"
  <2>1. MemFork BY <1>4 DEF MemInv
  <2>2. space[p] = 2 /\ g_var[2] = 1 /\ var[2] = 92 BY <1>1, <1>2, <2>1 DEF MemFork
  <2>3. /\ g_var' \in [Pid -> 0..2] /\ g_var'[2] = 2 /\ g_var'[1] = g_var[1]
        /\ var' \in [Pid -> {0, 88, 89, 92, 93}] /\ var'[2] = 93 /\ var'[1] = var[1]
    BY SMTT(20), <1>1, <2>2 DEF MemInv, MemTypes
  <2>4. MemFork' BY <1>1, <1>3, <2>1, <2>3 DEF MemFork, Dead
  <2>5. MemTypes' BY <1>1, <1>3, <2>3 DEF MemInv, MemTypes
  <2> QED BY <1>3, <1>4, <2>4, <2>5 DEF MemInv
<1>5. CASE program = "vfork"
  <2>1. MemVfork BY <1>5 DEF MemInv
  <2>2. space[p] = 1 /\ g_var[1] = 1 /\ var[1] = 88 BY <1>1, <1>2, <2>1 DEF MemVfork
  <2>3. /\ g_var' \in [Pid -> 0..2] /\ g_var'[1] = 2
        /\ var' \in [Pid -> {0, 88, 89, 92, 93}] /\ var'[1] = 89
    BY <1>1, <2>2 DEF MemInv, MemTypes
  <2>4. MemVfork' BY <1>1, <1>2, <1>3, <2>1, <2>3 DEF MemVfork, Dead
  <2>5. MemTypes' BY <1>1, <1>3, <2>3 DEF MemInv, MemTypes
  <2> QED BY <1>3, <1>5, <2>4, <2>5 DEF MemInv
<1> QED BY <1>2, <1>4, <1>5

LEMMA MemResumeInv == ASSUME MemInv, NEW p \in Pid, Memory!Resume(p) PROVE MemInv'
<1> USE MemThree
<1>1. /\ pc[p] = "vfork" /\ Goto(p, "show") /\ UNCHANGED <<space, g_var, var, reg, mid, shown>>
      /\ \A q \in Children(p) : pc[q] = Zombie
  BY MemTable DEF Memory!Resume, Memory!store
<1>2. p = 1 /\ program = "vfork" /\ MemVfork
  BY <1>1 DEF MemInv, MemTypes, MemFork, MemVfork, MemThreads, Dead
<1>3. /\ TableInv(MemPlaces)' /\ pc'[1] = "show" /\ \A q \in Pid \ {1} : pc'[q] = pc[q]
      /\ UNCHANGED <<program, sigchld, parent, failed>>
  <2>1. "show" \in MemPlaces \ Dead /\ pc[p] \notin Dead BY <1>1 DEF MemPlaces, Dead
  <2> QED BY <1>1, <1>2, <2>1, MemGoto
<1>4. 2 \in Children(p) BY <1>1, <1>2 DEF MemVfork, Children
<1>5. pc[2] = Zombie BY <1>1, <1>4
<1>6. MemVfork' BY <1>1, <1>2, <1>3, <1>5 DEF MemVfork, Dead
<1>7. MemTypes' BY <1>1, <1>3 DEF MemInv, MemTypes
<1> QED BY <1>2, <1>3, <1>6, <1>7 DEF MemInv

LEMMA MemShowInv == ASSUME MemInv, NEW p \in Pid, Memory!Show(p) PROVE MemInv'
<1> USE MemThree
<1> DEFINE pair == <<g_var[space[p]], var[space[p]]>>
<1>1. /\ pc[p] = "show" /\ Goto(p, "end") /\ UNCHANGED <<space, g_var, var, reg, mid>>
      /\ shown' = [shown EXCEPT ![p] = pair]
  BY MemTable DEF Memory!Show
<1>2. p \in {1, 2} /\ (program = "fork" \/ program = "vfork")
  BY <1>1 DEF MemInv, MemTypes, MemFork, MemVfork, MemThreads, Dead
<1>3. /\ TableInv(MemPlaces)' /\ pc'[p] = "end" /\ \A q \in Pid \ {p} : pc'[q] = pc[q]
      /\ UNCHANGED <<program, sigchld, parent, failed>>
  <2>1. "end" \in MemPlaces \ Dead /\ pc[p] \notin Dead BY <1>1 DEF MemPlaces, Dead
  <2> QED BY <1>1, <2>1, MemGoto
<1>4. /\ shown' \in [Pid -> Seq(Nat)] /\ shown'[p] = pair
      /\ \A q \in Pid \ {p} : shown'[q] = shown[q]
  <2>1. space[p] \in Pid BY DEF MemInv, MemTypes
  <2>2. g_var[space[p]] \in 0..2 /\ var[space[p]] \in {0, 88, 89, 92, 93}
    BY ZenonT(30), <2>1 DEF MemInv, MemTypes
  <2>3. g_var[space[p]] \in Nat /\ var[space[p]] \in Nat BY <2>2
  <2>4. pair \in Seq(Nat) BY <2>3
  <2> HIDE DEF pair
  <2> QED BY <1>1, <2>4 DEF MemInv, MemTypes
<1>5. MemTypes' BY <1>1, <1>3, <1>4 DEF MemInv, MemTypes
<1>6. CASE program = "fork"
  <2>1. MemFork BY <1>6 DEF MemInv
  <2>2. space[p] = p BY <2>1 DEF MemFork
  <2>3. /\ p = 1 => pair = <<1, 92>>
        /\ p = 2 => pair = <<2, 93>>
    BY <1>1, <2>1, <2>2 DEF MemFork
  <2> HIDE DEF pair
  <2>4. /\ shown'[1] = <<>> \/ shown'[1] = <<1, 92>>
        /\ shown'[2] = <<>> \/ shown'[2] = <<2, 93>>
    BY <1>2, <1>4, <2>1, <2>3 DEF MemFork
  <2>5. MemFork' BY <1>1, <1>2, <1>3, <2>1, <2>4 DEF MemFork, Dead
  <2> QED BY <1>3, <1>5, <1>6, <2>5 DEF MemInv
<1>7. CASE program = "vfork"
  <2>1. MemVfork BY <1>7 DEF MemInv
  <2>2. space[p] = 1 BY <1>1, <1>2, <2>1 DEF MemVfork
  <2>3. CASE p = 1
    <3>1. failed = {} => g_var[1] = 2 /\ var[1] = 89 BY <1>1, <2>1, <2>3 DEF MemVfork
    <3>2. failed = {} => pair = <<2, 89>> BY <2>2, <3>1
    <3> HIDE DEF pair
    <3>3. shown'[2] = shown[2] /\ shown'[1] = pair BY <1>4, <2>3
    <3>4. MemVfork' BY <1>1, <1>3, <2>1, <2>3, <3>2, <3>3 DEF MemVfork, Dead
    <3> QED BY <1>3, <1>5, <1>7, <3>4 DEF MemInv
  <2>4. CASE p = 2
    <3>1. g_var[1] = 2 /\ var[1] = 89 /\ pc[1] = "vfork" BY <1>1, <2>1, <2>4 DEF MemVfork
    <3>2. pair = <<2, 89>> BY <2>2, <3>1
    <3> HIDE DEF pair
    <3>3. shown'[2] = <<2, 89>> /\ shown'[1] = shown[1] BY <1>4, <2>4, <3>2
    <3>4. MemVfork' BY <1>1, <1>3, <2>1, <2>4, <3>1, <3>3 DEF MemVfork, Dead
    <3> QED BY <1>3, <1>5, <1>7, <3>4 DEF MemInv
  <2> QED BY <1>2, <2>3, <2>4
<1> QED BY <1>2, <1>6, <1>7

LEMMA MemForkInv == ASSUME MemInv, NEW p \in Pid, Memory!Fork(p) PROVE MemInv'
<1> USE MemThree
<1>1. /\ program # "thread_mutex" /\ pc[p] = "fork" /\ UNCHANGED <<reg, mid, shown>>
      /\ \/ \E q \in Pid :
              /\ ForkAs(p, q, IF program = "fork" THEN "show" ELSE "vfork", "child")
              /\ g_var' = [g_var EXCEPT ![q] = g_var[p]]
              /\ var' = [var EXCEPT ![q] = var[p]]
              /\ space' = IF program = "fork" THEN space ELSE [space EXCEPT ![q] = p]
         \/ Fails(p, "fork", "show") /\ UNCHANGED <<space, g_var, var>>
  BY MemTable DEF Memory!Fork
<1>2. p = 1 /\ pc[2] = Unborn /\ (program = "fork" \/ program = "vfork")
  BY <1>1 DEF MemInv, MemTypes, MemFork, MemVfork, Dead
<1>3. pc[p] \notin Dead /\ {"show", "vfork", "child"} \subseteq MemPlaces \ Dead
  BY <1>1 DEF MemPlaces, Dead
<1>4. TableInv(MemPlaces) /\ Running(p) BY <1>3 DEF MemInv, MemTypes, Running, Dead
<1>5. ASSUME NEW q \in Pid,
             ForkAs(p, q, IF program = "fork" THEN "show" ELSE "vfork", "child"),
             g_var' = [g_var EXCEPT ![q] = g_var[p]], var' = [var EXCEPT ![q] = var[p]],
             space' = IF program = "fork" THEN space ELSE [space EXCEPT ![q] = p]
      PROVE  MemInv'
  <2> DEFINE here == IF program = "fork" THEN "show" ELSE "vfork"
  <2>1. here \in MemPlaces \ Dead /\ "child" \in MemPlaces \ Dead BY <1>3
  <2>2. q = 2 BY <1>1, <1>2, <1>5, MemNext
  <2>3. /\ TableInv(MemPlaces)' /\ pc' = [pc EXCEPT ![p] = here, ![q] = "child"]
        /\ parent'[q] = p /\ UNCHANGED <<program, sigchld, failed>>
    <3> HIDE DEF MemPlaces, Dead
    <3> QED BY <1>4, <1>5, <2>1, ForkTable
  <2>4. pc'[1] = here /\ pc'[2] = "child" /\ \A r \in Pid \ {1, 2} : pc'[r] = pc[r]
    BY <1>2, <1>4, <2>2, <2>3 DEF TableInv
  <2>5. /\ g_var' \in [Pid -> 0..2] /\ g_var'[2] = g_var[1] /\ g_var'[1] = g_var[1]
        /\ var' \in [Pid -> {0, 88, 89, 92, 93}] /\ var'[2] = var[1] /\ var'[1] = var[1]
        /\ space' \in [Pid -> Pid]
    BY <1>2, <1>5, <2>2 DEF MemInv, MemTypes
  <2>6. MemTypes' BY <1>1, <2>3, <2>5 DEF MemInv, MemTypes
  <2>7. CASE program = "fork"
    <3>1. MemFork BY <2>7 DEF MemInv
    <3>2. MemFork' BY <1>1, <1>2, <1>5, <2>4, <2>5, <2>7, <3>1 DEF MemFork, Dead
    <3> QED BY <2>3, <2>6, <2>7, <3>2 DEF MemInv
  <2>8. CASE program = "vfork"
    <3>1. MemVfork BY <2>8 DEF MemInv
    <3>2. space'[1] = 1 /\ space'[2] = 1
      BY <1>2, <1>5, <2>2, <2>8, <3>1 DEF MemVfork, MemInv, MemTypes
    <3>3. parent'[2] = 1 BY <1>2, <2>2, <2>3
    <3>4. /\ pc'[1] = "vfork" /\ pc'[2] = "child" /\ \A r \in Pid \ {1, 2} : pc'[r] = pc[r]
          /\ g_var'[1] = g_var[1] /\ var'[1] = var[1] /\ failed' = failed
      BY <2>3, <2>4, <2>5, <2>8
    <3> HIDE DEF here
    <3>5. MemVfork' BY <1>1, <1>2, <3>1, <3>2, <3>3, <3>4 DEF MemVfork, Dead
    <3> QED BY <2>3, <2>6, <2>8, <3>5 DEF MemInv
  <2> QED BY <1>2, <2>7, <2>8
<1>6. CASE Fails(p, "fork", "show") /\ UNCHANGED <<space, g_var, var>>
  <2>1. /\ TableInv(MemPlaces)' /\ pc'[1] = "show" /\ \A q \in Pid \ {1} : pc'[q] = pc[q]
        /\ UNCHANGED <<program, sigchld, parent>>
    BY <1>2, <1>3, <1>6, MemGoto
  <2>2. failed' # {} BY <1>6 DEF Fails
  <2>3. MemTypes' BY <1>1, <1>6, <2>1 DEF MemInv, MemTypes
  <2>4. CASE program = "fork"
    <3>1. MemFork BY <2>4 DEF MemInv
    <3>2. MemFork' BY <1>1, <1>2, <1>6, <2>1, <3>1 DEF MemFork, Dead
    <3> QED BY <2>1, <2>3, <2>4, <3>2 DEF MemInv
  <2>5. CASE program = "vfork"
    <3>1. MemVfork BY <2>5 DEF MemInv
    <3>2. MemVfork' BY <1>1, <1>2, <1>6, <2>1, <2>2, <3>1 DEF MemVfork, Dead
    <3> QED BY <2>1, <2>3, <2>5, <3>2 DEF MemInv
  <2> QED BY <1>2, <2>4, <2>5
<1> QED BY <1>1, <1>5, <1>6

LEMMA MemCreateInv == ASSUME MemInv, NEW p \in Pid, Memory!Create(p) PROVE MemInv'
<1> USE MemThree
<1> DEFINE here == IF Children(p) = {} THEN "fork" ELSE "join"
<1>1. /\ program = "thread_mutex" /\ p = 1 /\ pc[p] = "fork"
      /\ \E q \in Pid : ForkAs(p, q, here, "lock") /\ space' = [space EXCEPT ![q] = p]
      /\ UNCHANGED <<g_var, var, reg, mid, shown>>
  BY MemTable DEF Memory!Create
<1>2. PICK q \in Pid : ForkAs(p, q, here, "lock") /\ space' = [space EXCEPT ![q] = p] BY <1>1
<1>3. MemThreads BY <1>1 DEF MemInv
<1>4. {"fork", "join", "lock"} \subseteq MemPlaces \ Dead BY DEF MemPlaces, Dead
<1>5. TableInv(MemPlaces) /\ Running(p) BY <1>1 DEF MemInv, MemTypes, Running
<1>6. /\ TableInv(MemPlaces)' /\ pc' = [pc EXCEPT ![p] = here, ![q] = "lock"]
      /\ q # p /\ pc[q] = Unborn /\ parent'[q] = p /\ UNCHANGED <<program, sigchld, failed>>
  <2>1. here \in MemPlaces \ Dead /\ "lock" \in MemPlaces \ Dead BY <1>4
  <2> HIDE DEF MemPlaces, Dead
  <2> QED BY <1>2, <1>5, <2>1, ForkTable
<1>7. parent' = [parent EXCEPT ![q] = p] BY <1>2 DEF ForkAs
<1>8. /\ pc'[q] = "lock" /\ pc'[1] = here /\ \A r \in Pid \ {1, q} : pc'[r] = pc[r]
      /\ \A r \in Pid \ {q} : parent'[r] = parent[r] /\ space'[r] = space[r]
      /\ space'[q] = 1 /\ space' \in [Pid -> Pid] /\ parent'[q] = 1
  BY <1>1, <1>2, <1>5, <1>6, <1>7 DEF MemInv, MemTypes, TableInv, TableTypeOK
<1>9. MemTypes' BY <1>1, <1>6, <1>8 DEF MemInv, MemTypes
<1>10. pc[3] = Unborn BY <1>1, <1>3 DEF MemThreads
<1>11. CASE pc[2] = Unborn
  <2>1. q = 2 BY <1>1, <1>2, <1>11, MemNext
  <2>2. Children(p) = {} BY <1>1, <1>3, <1>10, <1>11 DEF Children, MemThreads
  <2>3. pc'[1] = "fork" BY <1>8, <2>2
  <2> HIDE DEF here
  <2>4. ~Stored(2) /\ ~Stored(3) /\ ~Stored(2)' /\ ~Stored(3)'
    BY <1>1, <1>8, <1>10, <1>11, <2>1 DEF Stored
  <2>5. MemThreads' BY <1>1, <1>3, <1>8, <1>10, <1>11, <2>1, <2>3, <2>4
    DEF MemThreads, Dead, Memory!Change
  <2> QED BY <1>1, <1>6, <1>9, <2>5 DEF MemInv
<1>12. CASE pc[2] # Unborn
  <2>1. q = 3 BY <1>1, <1>2, <1>10, <1>12, MemNext
  <2>2. 2 \in Children(p) BY <1>1, <1>3, <1>12 DEF Children, MemThreads
  <2>3. pc'[1] = "join" BY <1>8, <2>2
  <2> HIDE DEF here
  <2>4. ~Stored(3) /\ ~Stored(3)' /\ (Stored(2)' <=> Stored(2))
    BY <1>1, <1>8, <1>10, <2>1 DEF Stored
  <2>5. MemThreads' BY <1>1, <1>3, <1>8, <1>10, <1>12, <2>1, <2>3, <2>4
    DEF MemThreads, Dead, Memory!Change
  <2> QED BY <1>1, <1>6, <1>9, <2>5 DEF MemInv
<1> QED BY <1>11, <1>12

\* Who is at a thread's place is one of the two, and the process waits.
LEMMA MemThread ==
    ASSUME MemInv, NEW q \in Pid, pc[q] \in {"lock", "store", "unlock"}
    PROVE  /\ program = "thread_mutex" /\ MemThreads /\ q \in {2, 3} /\ space[q] = 1
           /\ pc[1] \in {"fork", "join"}
           /\ Memory!Change(2) = 1 /\ Memory!Change(3) = -1
<1>1. program = "thread_mutex" /\ MemThreads
  BY SMTT(20), MemThree DEF MemInv, MemTypes, MemFork, MemVfork, Dead
<1>2. q \in {2, 3} /\ space[q] = 1 /\ pc[1] \in {"fork", "join"}
  BY <1>1 DEF MemThreads, Dead
<1> QED BY <1>1, <1>2 DEF Memory!Change

LEMMA MemLockInv == ASSUME MemInv, NEW q \in Pid, Memory!Lock(q) PROVE MemInv'
<1> USE MemThree
<1>1. /\ pc[q] = "lock" /\ mid = 0 /\ mid' = q /\ Goto(q, "store")
      /\ reg' = [reg EXCEPT ![q] = g_var[space[q]]]
      /\ UNCHANGED <<space, g_var, var, shown>>
  BY MemTable DEF Memory!Lock
<1>2. /\ program = "thread_mutex" /\ MemThreads /\ q \in {2, 3} /\ space[q] = 1
      /\ pc[1] \in {"fork", "join"}
  BY <1>1, MemThread
<1>3. /\ TableInv(MemPlaces)' /\ pc'[q] = "store" /\ \A r \in Pid \ {q} : pc'[r] = pc[r]
      /\ UNCHANGED <<program, sigchld, parent, failed>>
  <2>1. "store" \in MemPlaces \ Dead /\ pc[q] \notin Dead BY <1>1 DEF MemPlaces, Dead
  <2> QED BY <1>1, <2>1, MemGoto
<1>4. reg' \in [Pid -> 0..2] /\ reg'[q] = g_var[1] /\ \A r \in Pid \ {q} : reg'[r] = reg[r]
  BY <1>1, <1>2 DEF MemInv, MemTypes
<1>5. MemTypes' BY <1>1, <1>3, <1>4 DEF MemInv, MemTypes
<1>6. \A r \in {2, 3} : Stored(r)' <=> Stored(r) BY <1>1, <1>3 DEF Stored
<1>7. MemThreads' BY <1>1, <1>2, <1>3, <1>4, <1>6 DEF MemThreads, Dead
<1> QED BY <1>2, <1>3, <1>5, <1>7 DEF MemInv

LEMMA MemStoreInv == ASSUME MemInv, NEW q \in Pid, Memory!Store(q) PROVE MemInv'
<1> USE MemThree
<1>1. /\ pc[q] = "store" /\ Goto(q, "unlock")
      /\ g_var' = [g_var EXCEPT ![space[q]] = reg[q] + Memory!Change(q)]
      /\ UNCHANGED <<space, var, reg, mid, shown>>
  BY MemTable DEF Memory!Store
<1>2. /\ program = "thread_mutex" /\ MemThreads /\ q \in {2, 3} /\ space[q] = 1
      /\ pc[1] \in {"fork", "join"} /\ Memory!Change(2) = 1 /\ Memory!Change(3) = -1
  BY <1>1, MemThread
<1>3. /\ TableInv(MemPlaces)' /\ pc'[q] = "unlock" /\ \A r \in Pid \ {q} : pc'[r] = pc[r]
      /\ UNCHANGED <<program, sigchld, parent, failed>>
  <2>1. "unlock" \in MemPlaces \ Dead /\ pc[q] \notin Dead BY <1>1 DEF MemPlaces, Dead
  <2> QED BY <1>1, <2>1, MemGoto
<1>4. /\ reg[q] = g_var[1] /\ ~Stored(q)
      /\ g_var[1] = 1 + (IF Stored(2) THEN 1 ELSE 0) - (IF Stored(3) THEN 1 ELSE 0)
  BY <1>1, <1>2 DEF MemThreads, Stored
<1>5. Stored(q)' /\ \A r \in {2, 3} \ {q} : Stored(r)' <=> Stored(r) BY <1>1, <1>3 DEF Stored
<1>6. /\ g_var[1] + Memory!Change(q) \in 0..2
      /\ g_var[1] + Memory!Change(q) = 1 + (IF Stored(2)' THEN 1 ELSE 0) - (IF Stored(3)' THEN 1 ELSE 0)
  <2>1. CASE q = 2 BY <1>2, <1>4, <1>5, <2>1
  <2>2. CASE q = 3 BY <1>2, <1>4, <1>5, <2>2
  <2> QED BY <1>2, <2>1, <2>2
<1>7. g_var' \in [Pid -> 0..2] /\ g_var'[1] = g_var[1] + Memory!Change(q)
  BY <1>1, <1>2, <1>4, <1>6 DEF MemInv, MemTypes
<1>8. MemTypes' BY <1>1, <1>3, <1>7 DEF MemInv, MemTypes
<1>9. \A r \in {2, 3} \ {q} : pc[r] \notin {"store", "unlock"}
  BY <1>1, <1>2 DEF MemThreads
<1>10. g_var'[1] = 1 + (IF Stored(2)' THEN 1 ELSE 0) - (IF Stored(3)' THEN 1 ELSE 0)
  BY <1>6, <1>7
<1>11. g_var'[1] = reg'[q] + Memory!Change(q) BY <1>1, <1>4, <1>7
<1>12. MemThreads' BY <1>1, <1>2, <1>3, <1>9, <1>10, <1>11 DEF MemThreads, Memory!Change, Dead
<1> QED BY <1>2, <1>3, <1>8, <1>12 DEF MemInv

LEMMA MemUnlockInv == ASSUME MemInv, NEW q \in Pid, Memory!Unlock(q) PROVE MemInv'
<1> USE MemThree
<1> DEFINE pair == <<reg[q], g_var[space[q]]>>
<1>1. /\ pc[q] = "unlock" /\ Goto(q, "end") /\ mid' = 0
      /\ shown' = [shown EXCEPT ![q] = pair]
      /\ UNCHANGED <<space, g_var, var, reg>>
  BY MemTable DEF Memory!Unlock
<1>2. /\ program = "thread_mutex" /\ MemThreads /\ q \in {2, 3} /\ space[q] = 1
      /\ pc[1] \in {"fork", "join"}
  BY <1>1, MemThread
<1>3. /\ TableInv(MemPlaces)' /\ pc'[q] = "end" /\ \A r \in Pid \ {q} : pc'[r] = pc[r]
      /\ UNCHANGED <<program, sigchld, parent, failed>>
  <2>1. "end" \in MemPlaces \ Dead /\ pc[q] \notin Dead BY <1>1 DEF MemPlaces, Dead
  <2> QED BY <1>1, <2>1, MemGoto
<1>4. pair \in Seq(Nat) /\ pair[2] = pair[1] + Memory!Change(q)
  <2>1. reg[q] \in 0..2 /\ g_var[1] \in 0..2 BY DEF MemInv, MemTypes
  <2>2. reg[q] \in Nat /\ g_var[1] \in Nat BY <2>1
  <2>3. g_var[1] = reg[q] + Memory!Change(q) BY <1>1, <1>2 DEF MemThreads
  <2>4. pair[1] = reg[q] /\ pair[2] = g_var[1] BY <1>2
  <2> QED BY <1>2, <2>2, <2>3, <2>4
<1> HIDE DEF pair
<1>5. /\ shown' \in [Pid -> Seq(Nat)] /\ shown'[q] = pair
      /\ \A r \in Pid \ {q} : shown'[r] = shown[r]
  BY <1>1, <1>4 DEF MemInv, MemTypes
<1>6. MemTypes' BY <1>1, <1>3, <1>5 DEF MemInv, MemTypes
<1>7. \A r \in {2, 3} : Stored(r)' <=> Stored(r) BY <1>1, <1>3 DEF Stored
<1>8. mid = q BY <1>1, <1>2 DEF MemThreads
<1>9. \A r \in {2, 3} : shown'[r] # <<>> => shown'[r][2] = shown'[r][1] + Memory!Change(r)
  BY SMTT(20), <1>2, <1>4, <1>5 DEF MemThreads
<1>10. MemThreads' BY <1>1, <1>2, <1>3, <1>7, <1>8, <1>9 DEF MemThreads, Memory!Change, Dead
<1> QED BY <1>2, <1>3, <1>6, <1>10 DEF MemInv

LEMMA MemJoinInv == ASSUME MemInv, NEW p \in Pid, Memory!Join(p) PROVE MemInv'
<1> USE MemThree
<1>1. /\ pc[p] = "join" /\ Goto(p, "end") /\ UNCHANGED <<space, g_var, var, reg, mid, shown>>
      /\ \A q \in Children(p) : pc[q] = Zombie
  BY MemTable DEF Memory!Join, Memory!store
<1>2. program = "thread_mutex" /\ MemThreads
  BY <1>1 DEF MemInv, MemTypes, MemFork, MemVfork, Dead
<1>3. p = 1 BY <1>1, <1>2 DEF MemThreads, Dead
<1>4. /\ TableInv(MemPlaces)' /\ pc'[1] = "end" /\ \A q \in Pid \ {1} : pc'[q] = pc[q]
      /\ UNCHANGED <<program, sigchld, parent, failed>>
  <2>1. "end" \in MemPlaces \ Dead /\ pc[p] \notin Dead BY <1>1 DEF MemPlaces, Dead
  <2> QED BY <1>1, <1>3, <2>1, MemGoto
<1>5. {2, 3} \subseteq Children(p) BY <1>1, <1>2, <1>3 DEF MemThreads, Children
<1>6. pc[2] = Zombie /\ pc[3] = Zombie BY <1>1, <1>5
<1>7. MemTypes' BY <1>1, <1>4 DEF MemInv, MemTypes
<1>8. \A r \in {2, 3} : Stored(r)' <=> Stored(r) BY <1>4 DEF Stored
<1>9. MemThreads' BY <1>1, <1>2, <1>3, <1>4, <1>6, <1>8 DEF MemThreads, Memory!Change, Dead
<1> QED BY <1>2, <1>4, <1>7, <1>9 DEF MemInv

LEMMA MemReturnInv == ASSUME MemInv, NEW p \in Pid, Memory!Return(p) PROVE MemInv'
<1> USE MemThree
<1>1. /\ pc[p] = "end" /\ Exit(p, "ok") /\ UNCHANGED <<space, g_var, var, reg, mid, shown>>
  BY MemTable DEF Memory!Return, Memory!End, Memory!store
<1>2. TableInv(MemPlaces) /\ Running(p) /\ {Zombie, Gone} \subseteq MemPlaces /\ sigchld = "default"
  BY <1>1 DEF MemInv, MemTypes, Running, MemPlaces, Dead
<1>3. /\ TableInv(MemPlaces)' /\ pc'[p] \in {Zombie, Gone}
      /\ parent[p] # Adopter => pc'[p] = Zombie
      /\ \A q \in Pid \ {p} : pc'[q] = pc[q] \/ (pc[q] = Zombie /\ pc'[q] = Gone)
      /\ \A q \in Pid \ {p} : parent[q] # p => pc'[q] = pc[q] /\ parent'[q] = parent[q]
      /\ parent[p] # p => parent'[p] = parent[p]
      /\ UNCHANGED <<program, sigchld, failed>>
  <2> HIDE DEF MemPlaces, Dead
  <2> QED BY <1>1, <1>2, EndsTable
<1>4. MemTypes' BY <1>1, <1>3 DEF MemInv, MemTypes
<1>5. CASE program = "fork"
  <2>1. MemFork /\ p \in {1, 2} BY <1>1, <1>5 DEF MemInv, MemFork
  <2>2. MemFork' BY <1>1, <1>3, <2>1 DEF MemFork, Dead
  <2> QED BY <1>3, <1>4, <1>5, <2>2 DEF MemInv
<1>6. CASE program = "vfork"
  <2>1. MemVfork /\ p \in {1, 2} BY <1>1, <1>6 DEF MemInv, MemVfork
  <2>2. CASE p = 1
    <3>1. /\ pc'[1] \in {Zombie, Gone} /\ (pc'[2] = pc[2] \/ (pc[2] = Zombie /\ pc'[2] = Gone))
      BY <1>3, <2>2
    <3>2. MemVfork' BY <1>1, <1>3, <2>1, <2>2, <3>1 DEF MemVfork, Dead
    <3> QED BY <1>3, <1>4, <1>6, <3>2 DEF MemInv
  <2>3. CASE p = 2
    <3>1. pc[1] = "vfork" /\ parent[2] = 1 BY <1>1, <2>1, <2>3 DEF MemVfork
    <3>2. pc'[2] = Zombie /\ parent'[2] = 1 /\ pc'[1] = pc[1] BY <1>3, <2>3, <3>1
    <3>3. MemVfork' BY <1>1, <1>3, <2>1, <2>3, <3>1, <3>2 DEF MemVfork, Dead
    <3> QED BY <1>3, <1>4, <1>6, <3>3 DEF MemInv
  <2> QED BY <2>1, <2>2, <2>3
<1>7. CASE program = "thread_mutex"
  <2>1. MemThreads /\ p \in {1, 2, 3} BY <1>1, <1>7 DEF MemInv, MemThreads
  <2>2. \A q \in Pid : pc[q] \in {"store", "unlock"} => q # p BY <1>1
  <2>3. \A r \in {2, 3} : Stored(r)' <=> Stored(r) BY <1>1, <1>3 DEF Stored
  <2>4. CASE p = 1
    <3>1. \A q \in {2, 3} : pc[q] \in {Zombie, Gone} /\ pc'[q] \in {Zombie, Gone}
      BY <1>1, <1>3, <2>1, <2>4 DEF MemThreads
    <3>2. pc'[1] \in {Zombie, Gone} BY <1>3, <2>4
    <3>3. MemThreads' BY <1>1, <1>3, <2>1, <2>3, <2>4, <3>1, <3>2 DEF MemThreads, Memory!Change, Dead
    <3> QED BY <1>3, <1>4, <1>7, <3>3 DEF MemInv
  <2>5. CASE p \in {2, 3}
    <3>1. pc[1] \in {"fork", "join"} BY <1>1, <2>1, <2>5 DEF MemThreads
    <3>2. parent[p] = 1 /\ p # 1 BY <1>1, <2>1, <2>5, <3>1 DEF MemThreads
    <3>3. pc'[p] = Zombie /\ parent'[p] = 1 BY <1>3, <3>2
    <3>4. pc'[1] = pc[1] BY <1>3, <3>1, <3>2
    <3>5. \A q \in {2, 3} \ {p} : pc'[q] = pc[q] /\ (pc[q] # Unborn => parent'[q] = 1)
      <4> TAKE q \in {2, 3} \ {p}
      <4>1. CASE pc[q] = Unborn
        BY <1>3, <4>1
      <4>2. CASE pc[q] # Unborn
        <5>1. parent[q] = 1 BY <2>1, <3>1, <4>2 DEF MemThreads
        <5> QED BY <1>3, <3>2, <5>1
      <4> QED BY <4>1, <4>2
    <3>6. MemThreads'
      BY <1>1, <1>3, <2>1, <2>3, <2>5, <3>1, <3>3, <3>4, <3>5 DEF MemThreads, Memory!Change, Dead
    <3> QED BY <1>3, <1>4, <1>7, <3>6 DEF MemInv
  <2> QED BY <2>1, <2>4, <2>5
<1> QED BY <1>5, <1>6, <1>7 DEF MemInv, MemTypes

LEMMA MemStep == ASSUME MemInv, NEW p \in Pid, Memory!Step(p) PROVE MemInv'
BY MemForkInv, MemChildInv, MemResumeInv, MemShowInv, MemCreateInv, MemLockInv, MemStoreInv,
   MemUnlockInv, MemJoinInv, MemReturnInv DEF Memory!Step

LEMMA MemFrame == ASSUME MemInv, UNCHANGED <<table, ofMemory>> PROVE MemInv'
<1>1. TableInv(MemPlaces)' BY TableFrame DEF MemInv, MemTypes
<1>2. MemTypes' BY <1>1 DEF table, ofMemory, MemInv, MemTypes
<1> QED BY <1>2 DEF table, ofMemory, MemInv, MemFork, MemVfork, MemThreads, Stored, Memory!Change

LEMMA MemInvImplies == ASSUME MemInv PROVE Memory!TypeOK /\ Memory!OwnChanges
<1>1. Memory!TypeOK BY MemTable DEF MemInv, MemTypes, TableInv, Memory!TypeOK
<1>2. ASSUME program = "thread_mutex", pc[1] = "end" PROVE g_var[1] = 1
  <2>1. MemThreads BY <1>2 DEF MemInv
  <2>2. Stored(2) /\ Stored(3) BY <1>2, <2>1 DEF MemThreads, Stored
  <2> QED BY <2>1, <2>2 DEF MemThreads
<1>3. ASSUME program = "vfork", failed = {}, shown[1] # <<>> PROVE shown[2] = <<2, 89>>
  <2>1. MemVfork BY <1>3 DEF MemInv
  <2>2. pc[1] \in {"end", Zombie, Gone} BY <1>3, <2>1 DEF MemVfork
  <2>3. pc[2] \in {Zombie, Gone} BY <1>3, <2>1, <2>2 DEF MemVfork
  <2> QED BY <2>1, <2>3 DEF MemVfork
<1>4. ASSUME program = "vfork" PROVE shown[2] = <<>> \/ shown[2] = <<2, 89>>
  BY <1>4 DEF MemInv, MemVfork, Dead
<1>5. <<2, 89>> # <<>> OBVIOUS
<1>6. ASSUME program = "vfork", failed = {}
      PROVE  shown[1] = <<>> \/ shown[1] = <<2, 89>>
  BY <1>6 DEF MemInv, MemVfork
<1>7. ASSUME program = "fork"
      PROVE  (shown[1] = <<>> \/ shown[1] = <<1, 92>>) /\ (shown[2] = <<>> \/ shown[2] = <<2, 93>>)
  BY <1>7 DEF MemInv, MemFork
<1>8. ASSUME program = "thread_mutex", NEW q \in {2, 3}, shown[q] # <<>>
      PROVE  shown[q][2] = shown[q][1] + Memory!Change(q)
  BY <1>8 DEF MemInv, MemThreads
<1>9. Memory!OwnChanges
  <2>1. {First + 1, First + 2} = {2, 3} /\ First + 1 = 2 OBVIOUS
  <2> QED BY ZenonT(30), <1>2, <1>3, <1>4, <1>5, <1>6, <1>7, <1>8, <2>1 DEF Memory!OwnChanges
<1> QED BY <1>1, <1>9

-----------------------------------------------------------------------------
(* All of them.                                                            *)

Inv ==
    /\ program \in DOMAIN ModuleOf
    /\ ModuleOf[program] = "Commands" => CmdInv
    /\ ModuleOf[program] = "Pipes" => PipeInv
    /\ ModuleOf[program] = "SharedMemory" => ShmInv /\ ShmCount
    /\ ModuleOf[program] = "Fifo" => FifoInv
    /\ ModuleOf[program] = "Memory" => MemInv
    /\ ModuleOf[program] = "Signals" => SigInv
    /\ ModuleOf[program] = "Daemon" => DaeInv
    /\ ModuleOf[program] = "SysvSem" => SemInv

LEMMA InvInit == Init => Inv
BY CmdInvInit, PipeInvInit, ShmInvInit, ShmCountInit, FifoInvInit, MemInvInit, SigInvInit, DaeInvInit,
   SemInvInit DEF Init, Inv

\* Only the module of the program that was started takes steps.
LEMMA OneModule ==
    ASSUME NEW p \in Pid, Step(p) \/ Environment(p)
    PROVE  \E m \in {"Commands", "Pipes", "SharedMemory", "Fifo", "Memory", "Signals", "Daemon",
                     "SysvSem"} :
             /\ ModuleOf[program] = m /\ program' = program
             /\ m = "Commands" => Commands!Step(p) \/ Commands!Killed(p)
             /\ m = "Pipes" => Pipes!Step(p) \/ Pipes!Killed(p)
             /\ m = "SharedMemory" => SharedMemory!Step(p) \/ SharedMemory!Killed(p)
             /\ m = "Fifo" => Fifo!Step(p) \/ Fifo!User(p) \/ Fifo!Killed(p)
             /\ m = "Memory" => Memory!Step(p)
             /\ m = "Signals" => Signals!Step(p) \/ \E s \in Signals!Signal : Signals!Send(p, s)
             /\ m = "Daemon" => Daemon!Step(p) \/ Daemon!Hangup(p)
             /\ m = "SysvSem" => SysvSem!Start(p) \/ SysvSem!Step(p) \/ SysvSem!Killed(p)
BY DEF Step, Environment, Only

LEMMA InvNext == Inv /\ [Next]_vars => Inv'
<1> SUFFICES ASSUME Inv, [Next]_vars PROVE Inv'
  OBVIOUS
<1>1. CASE UNCHANGED vars
  <2>1. UNCHANGED <<program, table, ofCommands, ofPipes, ofShm, ofFifo, ofMemory, ofSignals, ofDaemon,
                  ofSem>>
    BY <1>1 DEF vars, table
  <2> QED BY <2>1, CmdFrame, PipeFrame, ShmFrame, ShmCountFrame, FifoFrame, MemFrame,
         SigFrame, DaeFrame, SemFrame DEF Inv
<1>2. ASSUME NEW p \in Pid, Step(p) \/ Environment(p) PROVE Inv'
  BY <1>2, OneModule, CmdStep, PipeStep, ShmStep, ShmCountStep, FifoStep, MemStep, SigStep,
     DaeStep, SemStep DEF Inv
<1> QED BY <1>1, <1>2 DEF Next

LEMMA InvAlways == Spec => []Inv
BY InvInit, InvNext, PTL DEF Spec

\* Whatever program is started, its variables and the process table have their
\* types: counters stay within the bounds of their loops, semaphores within
\* their limit, and no handler of handleSingal.c interrupts itself.
THEOREM TypeCorrect == Spec => []TypeOK
<1>1. Inv => TypeOK
  <2>1. program \in DOMAIN ModuleOf =>
          ModuleOf[program] \in {"Commands", "Pipes", "SharedMemory", "Fifo", "Memory", "Signals",
                                "Daemon", "SysvSem"}
    BY DEF ModuleOf
  <2> QED BY <2>1, CmdInvImplies, PipeInvImplies, ShmInvImplies, FifoInvImplies, MemInvImplies,
             SigInvImplies, DaeInvImplies, SemInvImplies DEF Inv, TypeOK
<1> QED BY <1>1, InvAlways, PTL

\* What the programs show is what was to be shown: the status of the command
\* that was run, the lines that were written or typed, the variables as fork(),
\* vfork() and the mutex keep them, the semaphore as it was before a kill.
THEOREM OutcomeCorrect == Spec => []Outcome
<1>1. Inv => Outcome
  BY CmdInvImplies, PipeInvImplies, FifoInvImplies, MemInvImplies, SemInvImplies DEF Inv, Outcome
<1> QED BY <1>1, InvAlways, PTL

\* shm.c: two processes in their loops count and show in one segment, however
\* the parent's shmget() and the child's, and either's removal, come about.
THEOREM SameMemoryCorrect == Spec => []SameMemory
<1>1. Inv => SameMemory
  BY ShmInvImplies DEF Inv, SameMemory, ModuleOf
<1> QED BY <1>1, InvAlways, PTL

\* Nothing stays in the system but what a kill, or a failed fork(), leaves: no
\* child of pipe.c, socketpair.c, system.c, spawn.c and IPC/pipe.c, no segment
\* of shm.c, no semaphore of sem.c, in whatever order the processes end.
THEOREM NothingLeftCorrect == Spec => []NothingLeft
<1>1. Inv => NothingLeft
  BY CmdInvImplies, PipeInvImplies, ShmInvImplies, SemInvImplies DEF Inv, NothingLeft, ModuleOf
<1> QED BY <1>1, InvAlways, PTL

\* handleSingal.c: in pause(), only SIGTERM and SIGINT's handler end the
\* process, whatever was sent before it was blocked, registered or ignored.
\* daemon.c: in its loop the daemon holds /dev/null three times, no terminal
\* unless fork() has failed, and of its parent's files those beyond the limit.
THEOREM ProtectedCorrect == Spec => Protected
<1>1. Inv => (program = "daemon" => Daemon!Detached)
  BY DaeInvImplies DEF Inv, ModuleOf
<1>2. ASSUME Inv, program = "signal", Next PROVE Signals!Survival
  <2>1. ModuleOf[program] = "Signals" BY <1>2 DEF ModuleOf
  <2>2. SigInv BY <1>2, <2>1 DEF Inv
  <2>3. PICK p \in Pid : Step(p) \/ Environment(p) BY <1>2 DEF Next
  <2>4. Signals!Step(p) \/ \E s \in Signals!Signal : Signals!Send(p, s)
    BY <2>1, <2>3, OneModule
  <2> QED BY <2>2, <2>4, SigSurvives
<1> DEFINE Keeps == /\ program = "signal" => Signals!Survival
                    /\ program = "daemon" => Daemon!Detached
<1>3. Inv /\ [Next]_vars => [Keeps]_vars BY <1>1, <1>2
<1>4. Protected <=> [][Keeps]_vars BY DEF Protected
<1> HIDE DEF Keeps
<1>5. Spec => [][Keeps]_vars BY <1>3, InvAlways, PTL DEF Spec
<1> QED BY <1>4, <1>5
=============================================================================
