-------------------------- MODULE SemaphoresProofs --------------------------
(***************************************************************************)
(* TypeOK, NotStuck and NothingLeft of Semaphores, for any number of turns *)
(* and any values to start from that leave thread.c's semaphore room for   *)
(* all but one turn of posix_sem.c.                                        *)
(***************************************************************************)
EXTENDS Semaphores, TLAPS

tsem == sem["thread"]
csem == sem["posix_sem"]

Posts == pi + (IF ppc = "load" \/ ppc = "store" THEN 1 ELSE 0)

\* What posix_sem has taken from its semaphore and not given back.
Taken == CASE pc["posix_sem"] = "v" -> cnt["posix_sem"] - 1
           [] pc["posix_sem"] = "p" -> cnt["posix_sem"] + 1
           [] OTHER -> cnt["posix_sem"]

Base(s) == IF owner[s] = "thread" THEN Value ELSE Limit

\* What is missing from semaphore s, the turns of thread.c counted in.
Drawn(s) == Base(s) + (IF tsem = s THEN Posts - vi ELSE 0) - val[s]

\* The kernel's objects, and who uses them.
Objects ==
    /\ used \in 0..MaxSem /\ name \in 0..used
    /\ val \in [1..MaxSem -> Nat]
    /\ owner \in [1..MaxSem -> Prog]
    /\ sem \in [Prog -> 0..used]
    /\ \A g \in Prog : sem[g] = 0 <=> pc[g] = "off"

\* Where posix_sem.c is, and its cnt there.
Counting ==
    /\ pc \in [Prog -> {"off", "test", "v", "p", "close", "join"}]
    /\ cnt \in [Prog -> Int]
    /\ dead \subseteq Prog
    /\ pc["posix_sem"] # "join"
    /\ cnt["posix_sem"] \in 0..Limit
    /\ pc["posix_sem"] = "off" => cnt["posix_sem"] = 0
    /\ pc["posix_sem"] = "v" => cnt["posix_sem"] > 0
    /\ pc["posix_sem"] \in {"p", "close"} => cnt["posix_sem"] = Limit - 1

\* Where thread.c is, and how many turns its threads have behind them.
Turns ==
    /\ pc["thread"] \in {"off", "join", "close"}
    /\ vpc \in {"load", "store", "wait", "done"} /\ vi \in 0..Rounds
    /\ ppc \in {"post", "load", "store", "done"} /\ pi \in 0..Rounds
    /\ pc["thread"] = "off" => vi = 0 /\ pi = 0 /\ vpc = "done" /\ ppc = "done"
    /\ vpc # "done" => vi < Rounds
    /\ ppc # "done" => pi < Rounds
    /\ pc["thread"] # "off" => /\ vpc = "done" => vi = Rounds
                               /\ ppc = "done" => pi = Rounds

\* The variable cnt of thread.c is at most the increments stored so far, and
\* at least minus the decrements, and so is what a thread has loaded of it.
Stored == vi + (IF vpc = "wait" THEN 1 ELSE 0)

Updates == vreg \in -pi..Stored /\ preg \in -pi..Stored /\ cnt["thread"] \in -pi..Stored

\* The semaphore that has the name is used by somebody, and nobody but those
\* who use it now has ever taken from it.
Named ==
    name # 0 => /\ name = tsem \/ name = csem
                /\ Drawn(name) = IF csem = name THEN Taken ELSE 0

\* What is missing from the semaphore of thread.c has been taken by
\* posix_sem.c, which keeps all but one turn when it is done.
Joined ==
    \A s \in 1..MaxSem :
        s = tsem => /\ csem = s => Drawn(s) = Taken
                    /\ csem # s => Drawn(s) <= Limit - 1

Books == dead = {} => Named /\ Joined

Inv == Objects /\ Counting /\ Turns /\ Updates /\ Books

USE BoundsAssumption, ValueAssumption

LEMMA InitInv == Init => Inv
<1> SUFFICES ASSUME Init PROVE Inv
  OBVIOUS
<1>1. Objects /\ Counting
  BY DEF Init, Objects, Counting, Prog
<1>2. Turns /\ Updates
  BY DEF Init, Turns, Updates, Stored, Prog
<1>3. Books
  BY DEF Init, Books, Named, Joined, tsem, csem, Prog
<1> QED BY <1>1, <1>2, <1>3 DEF Inv

\* What sem_open() leaves.
LEMMA Opened ==
    ASSUME Inv, NEW g \in Prog, NEW value \in Nat, Open(g, value), pc'[g] # "off",
           \A h \in Prog \ {g} : pc'[h] = pc[h]
    PROVE  /\ Objects'
           /\ sem' = [sem EXCEPT ![g] = name'] /\ name' # 0
           /\ \/ name' = name /\ UNCHANGED <<val, owner>>
              \/ /\ \A h \in Prog : sem[h] # name'
                 /\ val' = [val EXCEPT ![name'] = value]
                 /\ owner' = [owner EXCEPT ![name'] = g]
                 /\ name' \in 1..MaxSem
<1>1. CASE name # 0 /\ sem' = [sem EXCEPT ![g] = name] /\ UNCHANGED kernel
  BY <1>1 DEF Inv, Objects, kernel
<1>2. CASE name = 0 /\ used < MaxSem /\ used' = used + 1 /\ name' = used + 1
           /\ val' = [val EXCEPT ![used + 1] = value] /\ owner' = [owner EXCEPT ![used + 1] = g]
           /\ sem' = [sem EXCEPT ![g] = used + 1]
  <2>1. used + 1 \in 1..MaxSem /\ used \in Nat
    BY <1>2 DEF Inv, Objects
  <2>2. val' \in [1..MaxSem -> Nat] /\ owner' \in [1..MaxSem -> Prog]
    BY <1>2, <2>1 DEF Inv, Objects
  <2>3. sem' \in [Prog -> 0..used'] /\ sem'[g] # 0 /\ \A h \in Prog \ {g} : sem'[h] = sem[h]
    BY <1>2, <2>1 DEF Inv, Objects
  <2>4. \A h \in Prog : sem[h] # used + 1
    BY <2>1 DEF Inv, Objects
  <2>5. \A h \in Prog : sem'[h] = 0 <=> pc'[h] = "off"
    BY <2>3 DEF Inv, Objects
  <2> QED BY <1>2, <2>1, <2>2, <2>3, <2>4, <2>5 DEF Objects
<1> QED BY <1>1, <1>2 DEF Open

LEMMA StartCountInv == ASSUME Inv, StartCount PROVE Inv'
<1>1. /\ pc["posix_sem"] = "off" /\ pc' = [pc EXCEPT !["posix_sem"] = "test"]
      /\ Open("posix_sem", Limit) /\ UNCHANGED <<cnt, dead, vpc, vi, vreg, ppc, pi, preg>>
  BY DEF StartCount, Open, Goto, threads
<1>2. pc'["posix_sem"] = "test" /\ pc'["thread"] = pc["thread"] /\ cnt["posix_sem"] = 0 /\ csem = 0
  BY <1>1 DEF Inv, Counting, Objects, Prog, csem
<1>3. /\ Objects'
      /\ sem' = [sem EXCEPT !["posix_sem"] = name'] /\ name' # 0
      /\ \/ name' = name /\ UNCHANGED <<val, owner>>
         \/ /\ \A h \in Prog : sem[h] # name'
            /\ val' = [val EXCEPT ![name'] = Limit]
            /\ owner' = [owner EXCEPT ![name'] = "posix_sem"]
            /\ name' \in 1..MaxSem
  BY <1>1, <1>2, Opened DEF Prog
<1>4. Counting' /\ Turns' /\ Updates'
  BY <1>1, <1>2 DEF Inv, Counting, Turns, Updates, Stored
<1>5. csem' = name' /\ tsem' = tsem /\ Taken' = 0 /\ Posts' = Posts
  BY <1>1, <1>2, <1>3 DEF Inv, Objects, Prog, csem, tsem, Taken, Posts
<1>6. Books'
  <2>1. CASE name' = name /\ UNCHANGED <<val, owner>>
    BY <1>1, <1>2, <1>3, <1>5, <2>1 DEF Inv, Books, Named, Joined, Drawn, Base
  <2>2. CASE /\ \A h \in Prog : sem[h] # name'
             /\ val' = [val EXCEPT ![name'] = Limit]
             /\ owner' = [owner EXCEPT ![name'] = "posix_sem"]
             /\ name' \in 1..MaxSem
    <3>1. tsem # name' /\ (tsem # 0 => tsem \in 1..MaxSem)
      BY <2>2 DEF Inv, Objects, Prog, tsem
    <3>2. Base(name)' = Limit /\ val'[name'] = Limit
      BY <2>2 DEF Inv, Objects, Base
    <3>3. tsem # 0 => Drawn(tsem)' = Drawn(tsem)
      BY <1>1, <1>5, <2>2, <3>1 DEF Inv, Objects, Drawn, Base
    <3> QED BY <1>1, <1>2, <1>5, <3>1, <3>2, <3>3 DEF Inv, Books, Named, Joined, Drawn
  <2> QED BY <1>3, <2>1, <2>2
<1> QED BY <1>3, <1>4, <1>6 DEF Inv

LEMMA StartThreadsInv == ASSUME Inv, StartThreads PROVE Inv'
<1>1. /\ pc["thread"] = "off" /\ pc' = [pc EXCEPT !["thread"] = "join"]
      /\ Open("thread", Value) /\ UNCHANGED <<cnt, dead, vi, vreg, pi, preg>>
      /\ vpc' = "load" /\ ppc' = "post"
  BY DEF StartThreads, Open, Goto
<1>2. /\ pc'["thread"] = "join" /\ pc'["posix_sem"] = pc["posix_sem"]
      /\ vi = 0 /\ pi = 0 /\ vpc = "done" /\ tsem = 0
  BY <1>1 DEF Inv, Counting, Turns, Objects, Prog, tsem
<1>3. /\ Objects'
      /\ sem' = [sem EXCEPT !["thread"] = name'] /\ name' # 0
      /\ \/ name' = name /\ UNCHANGED <<val, owner>>
         \/ /\ \A h \in Prog : sem[h] # name'
            /\ val' = [val EXCEPT ![name'] = Value]
            /\ owner' = [owner EXCEPT ![name'] = "thread"]
            /\ name' \in 1..MaxSem
  BY <1>1, <1>2, Opened DEF Prog
<1>4. Counting' /\ Turns' /\ Updates'
  BY <1>1, <1>2 DEF Inv, Counting, Turns, Updates, Stored
<1>5. csem' = csem /\ tsem' = name' /\ Taken' = Taken /\ Posts' = 0 /\ vi' = 0
  BY <1>1, <1>2, <1>3 DEF Inv, Objects, Prog, csem, tsem, Taken, Posts
<1>6. Books'
  <2>1. CASE name' = name /\ UNCHANGED <<val, owner>>
    <3>1. Drawn(name)' = Drawn(name)
      BY <1>2, <1>3, <1>5, <2>1 DEF Inv, Objects, Drawn, Base
    <3> QED BY <1>1, <1>2, <1>3, <1>5, <2>1, <3>1 DEF Inv, Books, Named, Joined
  <2>2. CASE /\ \A h \in Prog : sem[h] # name'
             /\ val' = [val EXCEPT ![name'] = Value]
             /\ owner' = [owner EXCEPT ![name'] = "thread"]
             /\ name' \in 1..MaxSem
    <3>1. csem # name'
      BY <2>2 DEF Prog, csem
    <3>2. Base(name)' = Value /\ val'[name'] = Value
      BY <2>2 DEF Inv, Objects, Base
    <3> QED BY <1>5, <3>1, <3>2 DEF Books, Named, Joined, Drawn
  <2> QED BY <1>3, <2>1, <2>2
<1> QED BY <1>3, <1>4, <1>6 DEF Inv

\* A step of posix_sem.c at the semaphore or between two: what it has taken
\* is what is missing.
LEMMA CountInv == ASSUME Inv, Test \/ V \/ P PROVE Inv'
<1>1. /\ UNCHANGED <<name, used, owner, sem, threads, dead>>
      /\ pc["posix_sem"] # "off" /\ pc'["posix_sem"] # "off" /\ pc'["thread"] = pc["thread"]
  BY DEF Test, CountTo, V, P, Goto, kernel, Inv, Counting, Prog
<1>2. csem \in 1..MaxSem /\ tsem \in 0..MaxSem /\ name \in 0..MaxSem
  BY <1>1 DEF Inv, Objects, Prog, csem, tsem
<1>3. /\ Counting' /\ val' \in [1..MaxSem -> Nat]
      /\ Taken' - Taken = val[csem] - val'[csem] /\ Taken \in Int /\ Taken' \in Int
      /\ \A s \in 1..MaxSem \ {csem} : val'[s] = val[s]
      /\ cnt'["thread"] = cnt["thread"]
  <2> DEFINE place == pc["posix_sem"]
             n == cnt["posix_sem"]
  <2>1. /\ n \in 0..Limit /\ Limit \in Nat \ {0} /\ pc' \in [Prog -> {"off", "test", "v", "p", "close", "join"}]
        /\ val \in [1..MaxSem -> Nat] /\ dead' \subseteq Prog
    BY <1>1 DEF Test, CountTo, V, P, Goto, Inv, Objects, Counting, Prog
  <2>2. CASE Test
    <3>1. place = "test" /\ val' = val /\ Taken = n
      BY <2>2 DEF Test, CountTo, kernel, Taken
    <3>2. CASE n >= Limit
      <4>1. /\ pc'["posix_sem"] = "p" /\ cnt' = [cnt EXCEPT !["posix_sem"] = n - 1]
        BY <2>2, <3>2 DEF Test, CountTo, Goto, Inv, Counting, Prog
      <4>2. cnt' \in [Prog -> Int] /\ cnt'["posix_sem"] = Limit - 1 /\ cnt'["thread"] = cnt["thread"] /\ n = Limit
        BY <2>1, <3>2, <4>1 DEF Inv, Counting, Prog
      <4>3. Taken' = n
        BY <4>1, <4>2, <2>1 DEF Taken
      <4>4. Counting'
        BY <2>1, <4>1, <4>2 DEF Counting
      <4> QED BY <1>2, <2>1, <3>1, <4>2, <4>3, <4>4
    <3>3. CASE ~(n >= Limit)
      <4>1. /\ pc'["posix_sem"] = "v" /\ cnt' = [cnt EXCEPT !["posix_sem"] = n + 1]
        BY <2>2, <3>3 DEF Test, CountTo, Goto, Inv, Counting, Prog
      <4>2. cnt' \in [Prog -> Int] /\ cnt'["posix_sem"] = n + 1 /\ cnt'["thread"] = cnt["thread"] /\ n + 1 \in 1..Limit
        BY <2>1, <3>3, <4>1 DEF Inv, Counting, Prog
      <4>3. Taken' = n
        BY <4>1, <4>2, <2>1 DEF Taken
      <4>4. Counting'
        BY <2>1, <4>1, <4>2 DEF Counting
      <4> QED BY <1>2, <2>1, <3>1, <4>2, <4>3, <4>4
    <3> QED BY <3>2, <3>3
  <2>3. CASE V
    <3>1. /\ place = "v" /\ pc'["posix_sem"] = "test" /\ cnt' = cnt
          /\ val[csem] > 0 /\ val' = [val EXCEPT ![csem] = val[csem] - 1]
      BY <2>3 DEF V, Take, Goto, Inv, Counting, Prog, csem
    <3>2. val' \in [1..MaxSem -> Nat] /\ val'[csem] = val[csem] - 1 /\ \A s \in 1..MaxSem \ {csem} : val'[s] = val[s]
      BY <1>2, <2>1, <3>1
    <3>3. Taken = n - 1 /\ Taken' = n
      BY <3>1 DEF Taken
    <3>4. Counting'
      BY <2>1, <3>1 DEF Inv, Counting
    <3>5. val[csem] \in Nat
      BY <1>2, <2>1
    <3>6. Taken' - Taken = val[csem] - val'[csem] /\ Taken \in Int /\ Taken' \in Int
      <4>1. n \in Int BY <2>1
      <4> HIDE DEF n
      <4> QED BY <3>2, <3>3, <3>5, <4>1
    <3> QED BY <3>1, <3>2, <3>4, <3>6
  <2>4. CASE P
    <3>1. /\ place = "p" /\ pc'["posix_sem"] = "close" /\ cnt' = cnt
          /\ val' = [val EXCEPT ![csem] = val[csem] + 1]
      BY <2>4 DEF P, Give, Goto, Inv, Counting, Prog, csem
    <3>2. val' \in [1..MaxSem -> Nat] /\ val'[csem] = val[csem] + 1 /\ \A s \in 1..MaxSem \ {csem} : val'[s] = val[s]
      BY <1>2, <2>1, <3>1
    <3>3. Taken = n + 1 /\ Taken' = n
      BY <3>1 DEF Taken
    <3>4. Counting'
      BY <2>1, <3>1 DEF Inv, Counting
    <3>5. val[csem] \in Nat
      BY <1>2, <2>1
    <3>6. Taken' - Taken = val[csem] - val'[csem] /\ Taken \in Int /\ Taken' \in Int
      <4>1. n \in Int BY <2>1
      <4> HIDE DEF n
      <4> QED BY <3>2, <3>3, <3>5, <4>1
    <3> QED BY <3>1, <3>2, <3>4, <3>6
  <2> QED BY <2>2, <2>3, <2>4
<1>4. Turns' /\ Updates'
  BY <1>1, <1>3 DEF threads, Inv, Turns, Updates, Stored
<1>5. Objects'
  BY <1>1, <1>3 DEF Inv, Objects, Prog
<1>7. Books'
  <2>1. csem' = csem /\ tsem' = tsem /\ Posts' = Posts /\ vi' = vi /\ name' = name
    BY <1>1 DEF csem, tsem, Posts, threads
  <2>2. \A s \in 1..MaxSem : Base(s) \in Int /\ Base(s)' = Base(s) /\ val[s] \in Int /\ val'[s] \in Int
    BY <1>1, <1>3 DEF Inv, Objects, Base
  <2>3. Posts \in Int /\ vi \in Int
    BY DEF Inv, Turns, Posts
  <2>4. \A s \in 1..MaxSem : s # csem => Drawn(s)' = Drawn(s)
    BY <1>3, <2>1, <2>2, <2>3 DEF Drawn
  <2>4a. \A s \in 1..MaxSem : Drawn(s) \in Int
    BY <2>2, <2>3 DEF Drawn
  <2>5. \A s \in 1..MaxSem : s = csem => Drawn(s)' = Drawn(s) + (Taken' - Taken)
    <3> SUFFICES ASSUME NEW s \in 1..MaxSem, s = csem PROVE Drawn(s)' = Drawn(s) + (Taken' - Taken)
      OBVIOUS
    <3> DEFINE turns == IF tsem = s THEN Posts - vi ELSE 0
    <3>1. turns \in Int /\ Base(s) \in Int /\ val[s] \in Int /\ val'[s] \in Int
      BY <2>2, <2>3
    <3>2. Drawn(s) = Base(s) + turns - val[s]
      BY DEF Drawn
    <3>3. Drawn(s)' = Base(s) + turns - val'[s]
      BY <2>1, <2>2 DEF Drawn
    <3>4. Taken' - Taken = val[s] - val'[s] /\ Taken \in Int /\ Taken' \in Int
      BY <1>3
    <3> HIDE DEF turns
    <3> QED BY <3>1, <3>2, <3>3, <3>4
  <2>6. SUFFICES ASSUME dead = {} PROVE Named' /\ Joined'
    BY <1>1 DEF Books
  <2>7. Named'
    BY <1>2, <1>3, <2>4a, <2>1, <2>4, <2>5, <2>6 DEF Inv, Books, Named
  <2>8. Joined'
    <3>1. Joined
      BY <2>6 DEF Inv, Books
    <3>2. Taken \in Int /\ Taken' \in Int
      BY <1>3
    <3> SUFFICES ASSUME NEW s \in 1..MaxSem, s = tsem
                 PROVE  /\ csem = s => Drawn(s)' = Taken'
                        /\ csem # s => Drawn(s)' <= Limit - 1
      BY <2>1 DEF Joined
    <3>3. Drawn(s) \in Int
      BY <2>4a
    <3>4. CASE csem = s
      BY <2>5, <3>1, <3>2, <3>3, <3>4 DEF Joined
    <3>5. CASE csem # s
      BY <2>4, <3>1, <3>5 DEF Joined
    <3> QED BY <3>4, <3>5
  <2> QED BY <2>7, <2>8
<1> QED BY <1>3, <1>4, <1>5, <1>7 DEF Inv

\* A step of thread.c at the semaphore or between two.
LEMMA ThreadsInv == ASSUME Inv, ThreadV \/ ThreadP PROVE Inv'
<1>1. /\ UNCHANGED <<name, used, owner, sem, pc, dead>> /\ cnt'["posix_sem"] = cnt["posix_sem"]
      /\ pc["thread"] = "join"
  BY DEF ThreadV, ThreadP, PostTurns, Inv, Counting, Prog
<1>2. tsem \in 1..MaxSem /\ name \in 0..MaxSem /\ vi \in Int /\ Posts \in Int
  BY <1>1 DEF Inv, Objects, Turns, Prog, tsem, Posts
<1>3. cnt' \in [Prog -> Int] /\ cnt'["thread"] \in {cnt["thread"], vreg + 1, preg - 1}
  BY DEF ThreadV, ThreadP, PostTurns, Inv, Counting, Updates, Turns, Stored, Prog
<1>4. Counting'
  BY <1>1, <1>3 DEF Inv, Counting
<1>5. Turns'
  BY <1>1 DEF ThreadV, ThreadP, PostTurns, Inv, Turns
<1>6. Updates'
  <2>1. CASE ThreadV
    BY <2>1 DEF ThreadV, Inv, Counting, Turns, Updates, Stored, Prog
  <2>2. CASE ThreadP
    BY <2>2 DEF ThreadP, PostTurns, Inv, Counting, Turns, Updates, Stored, Prog
  <2> QED BY <2>1, <2>2
<1>7. /\ val' \in [1..MaxSem -> Nat]
      /\ (Posts' - vi') - (Posts - vi) = val'[tsem] - val[tsem]
      /\ \A s \in 1..MaxSem \ {tsem} : val'[s] = val[s]
  <2>1. val \in [1..MaxSem -> Nat] /\ pi \in Int /\ val[tsem] \in Nat
    BY <1>2 DEF Inv, Objects, Turns
  <2>2. CASE ThreadV
    <3>1. Posts' = Posts
      BY <2>2 DEF ThreadV, Posts
    <3>2. CASE vpc = "wait"
      <4>1. vi' = vi + 1 /\ val[tsem] > 0 /\ val' = [val EXCEPT ![tsem] = val[tsem] - 1]
        BY <2>2, <3>2 DEF ThreadV, Take, tsem
      <4>2. val' \in [1..MaxSem -> Nat] /\ val'[tsem] = val[tsem] - 1 /\ \A s \in 1..MaxSem \ {tsem} : val'[s] = val[s]
        BY <1>2, <2>1, <4>1
      <4> QED BY <1>2, <2>1, <3>1, <4>1, <4>2
    <3>3. CASE vpc # "wait"
      <4>1. vi' = vi /\ val' = val
        BY <2>2, <3>3 DEF ThreadV
      <4> QED BY <1>2, <2>1, <3>1, <4>1
    <3> QED BY <3>2, <3>3
  <2>3. CASE ThreadP
    <3>1. vi' = vi
      BY <2>3 DEF ThreadP, PostTurns
    <3>2. CASE ppc = "post"
      <4>1. Posts' = Posts + 1 /\ val' = [val EXCEPT ![tsem] = val[tsem] + 1]
        BY <2>1, <2>3, <3>2 DEF ThreadP, PostTurns, Give, Posts, tsem
      <4>2. val' \in [1..MaxSem -> Nat] /\ val'[tsem] = val[tsem] + 1 /\ \A s \in 1..MaxSem \ {tsem} : val'[s] = val[s]
        BY <1>2, <2>1, <4>1
      <4> QED BY <1>2, <2>1, <3>1, <4>1, <4>2
    <3>3. CASE ppc # "post"
      <4>1. Posts' = Posts /\ val' = val
        BY <2>1, <2>3, <3>3 DEF ThreadP, PostTurns, Posts
      <4> QED BY <1>2, <2>1, <3>1, <4>1
    <3> QED BY <3>2, <3>3
  <2> QED BY <2>2, <2>3
<1>8. Objects'
  BY <1>1, <1>7 DEF Inv, Objects
<1>9. Books'
  <2>1. csem' = csem /\ tsem' = tsem /\ Taken' = Taken /\ name' = name
    BY <1>1 DEF csem, tsem, Taken
  <2>2. vi' \in Int /\ Posts' \in Int
    BY <1>5 DEF Turns, Posts
  <2>3. \A s \in 1..MaxSem : Base(s) \in Int /\ Base(s)' = Base(s) /\ val[s] \in Int /\ val'[s] \in Int
    BY <1>1, <1>7 DEF Inv, Objects, Base
  <2>4. \A s \in 1..MaxSem : s # tsem => Drawn(s)' = Drawn(s)
    BY <1>7, <2>1, <2>3 DEF Drawn
  <2>5. \A s \in 1..MaxSem : s = tsem => Drawn(s)' = Drawn(s)
    <3> SUFFICES ASSUME NEW s \in 1..MaxSem, s = tsem PROVE Drawn(s)' = Drawn(s)
      OBVIOUS
    <3>1. Base(s) \in Int /\ val[s] \in Int /\ val'[s] \in Int
      BY <2>3
    <3>2. Drawn(s) = Base(s) + (Posts - vi) - val[s]
      BY DEF Drawn
    <3>3. Drawn(s)' = Base(s) + (Posts' - vi') - val'[s]
      BY <2>1, <2>3 DEF Drawn
    <3>4. (Posts' - vi') - (Posts - vi) = val'[s] - val[s]
      BY <1>7
    <3>5. vi \in Int /\ Posts \in Int /\ vi' \in Int /\ Posts' \in Int
      BY <1>2, <2>2
    <3> QED BY <3>1, <3>2, <3>3, <3>4, <3>5
  <2>6. SUFFICES ASSUME dead = {} PROVE Named' /\ Joined'
    BY <1>1 DEF Books
  <2>7. \A s \in 1..MaxSem : Drawn(s)' = Drawn(s)
    BY <2>4, <2>5
  <2>8. Named'
    BY <1>2, <2>1, <2>6, <2>7 DEF Inv, Books, Named
  <2>9. Joined'
    BY <2>1, <2>6, <2>7 DEF Inv, Books, Joined
  <2> QED BY <2>8, <2>9
<1> QED BY <1>4, <1>5, <1>6, <1>8, <1>9 DEF Inv

LEMMA JoinInv == ASSUME Inv, Join PROVE Inv'
<1>1. /\ UNCHANGED <<name, used, val, owner, sem, cnt, vpc, vi, vreg, ppc, pi, preg, dead>>
      /\ pc'["thread"] = "close" /\ pc["thread"] = "join" /\ pc'["posix_sem"] = pc["posix_sem"]
      /\ pc' \in [Prog -> {"off", "test", "v", "p", "close", "join"}]
  BY DEF Join, Goto, kernel, threads, Inv, Counting, Prog
<1>2. Objects' /\ Counting' /\ Turns' /\ Updates'
  BY <1>1 DEF Inv, Objects, Counting, Turns, Updates, Stored, Prog
<1>3. Books'
  BY <1>1 DEF Inv, Books, Named, Joined, Drawn, Base, Posts, Taken, tsem, csem
<1> QED BY <1>2, <1>3 DEF Inv

\* The end of a process, killed or not.
LEMMA Exited ==
    ASSUME Inv, NEW g \in Prog, Exit(g), UNCHANGED <<used, val, owner>>, name' \in {0, name}, dead' \subseteq Prog
    PROVE  /\ Objects' /\ Counting' /\ Turns' /\ Updates'
           /\ sem'[g] = 0 /\ \A h \in Prog \ {g} : sem'[h] = sem[h] /\ pc'[h] = pc[h] /\ cnt'[h] = cnt[h]
           /\ g # "thread" => UNCHANGED <<vpc, vi, vreg, ppc, pi, preg>>
<1>1. /\ sem' \in [Prog -> 0..used] /\ sem'[g] = 0 /\ \A h \in Prog \ {g} : sem'[h] = sem[h]
      /\ pc' \in [Prog -> {"off", "test", "v", "p", "close", "join"}]
      /\ pc'[g] = "off" /\ \A h \in Prog \ {g} : pc'[h] = pc[h]
      /\ cnt' \in [Prog -> Int] /\ cnt'[g] = 0 /\ \A h \in Prog \ {g} : cnt'[h] = cnt[h]
  <2>1. /\ pc' = [pc EXCEPT ![g] = "off"] /\ sem' = [sem EXCEPT ![g] = 0]
        /\ cnt' = [cnt EXCEPT ![g] = 0]
    BY DEF Exit, Goto
  <2>2. /\ sem \in [Prog -> 0..used] /\ used \in 0..MaxSem /\ cnt \in [Prog -> Int]
        /\ pc \in [Prog -> {"off", "test", "v", "p", "close", "join"}]
    BY DEF Inv, Objects, Counting
  <2>3. sem' \in [Prog -> 0..used] /\ sem'[g] = 0 /\ \A h \in Prog \ {g} : sem'[h] = sem[h]
    BY <2>1, <2>2
  <2>4. /\ pc' \in [Prog -> {"off", "test", "v", "p", "close", "join"}]
        /\ pc'[g] = "off" /\ \A h \in Prog \ {g} : pc'[h] = pc[h]
    BY <2>1, <2>2
  <2>5. cnt' \in [Prog -> Int] /\ cnt'[g] = 0 /\ \A h \in Prog \ {g} : cnt'[h] = cnt[h]
    BY <2>1, <2>2
  <2> QED BY <2>3, <2>4, <2>5
<1>2. Objects'
  <2>1. name' \in 0..used' /\ used' \in 0..MaxSem /\ val' = val /\ owner' = owner /\ sem' \in [Prog -> 0..used']
    BY <1>1 DEF Inv, Objects
  <2>2. \A h \in Prog : sem'[h] = 0 <=> pc'[h] = "off"
    BY <1>1 DEF Inv, Objects
  <2> QED BY <2>1, <2>2 DEF Inv, Objects
<1>3. Counting'
  BY <1>1 DEF Inv, Counting, Prog
<1>4. Turns' /\ Updates'
  <2>1. CASE g = "thread"
    BY <1>1, <2>1 DEF Exit, Turns, Updates, Stored
  <2>2. CASE g # "thread"
    BY <1>1, <2>2 DEF Exit, threads, Inv, Turns, Updates, Stored, Prog
  <2> QED BY <2>1, <2>2
<1> QED BY <1>1, <1>2, <1>3, <1>4 DEF Exit, threads

LEMMA CloseInv == ASSUME Inv, NEW g \in Prog, Close(g) PROVE Inv'
<1>1. pc[g] = "close" /\ Exit(g) /\ UNCHANGED <<used, val, owner, dead>> /\ name' = 0
  BY DEF Close
<1>2. /\ Objects' /\ Counting' /\ Turns' /\ Updates'
      /\ sem'[g] = 0 /\ \A h \in Prog \ {g} : sem'[h] = sem[h] /\ pc'[h] = pc[h] /\ cnt'[h] = cnt[h]
      /\ g # "thread" => UNCHANGED <<vpc, vi, vreg, ppc, pi, preg>>
  BY <1>1, Exited DEF Inv, Counting
<1>3. Books'
  <2>1. CASE g = "thread"
    BY <1>1, <1>2, <2>1 DEF Books, Named, Joined, tsem
  <2>2. CASE g = "posix_sem"
    <3>1. tsem' = tsem /\ csem' = 0 /\ (dead' = dead)
      BY <1>1, <1>2, <2>2 DEF tsem, csem, Prog
    <3>2. Taken = Limit - 1
      BY <1>1, <2>2 DEF Inv, Counting, Taken
    <3>3. Drawn(tsem)' = Drawn(tsem)
      BY <1>1, <1>2, <2>2, <3>1 DEF Drawn, Base, Posts
    <3> QED BY <1>1, <3>1, <3>2, <3>3 DEF Inv, Books, Named, Joined
  <2> QED BY <2>1, <2>2 DEF Prog
<1> QED BY <1>2, <1>3 DEF Inv

LEMMA KillInv == ASSUME Inv, NEW g \in Prog, Kill(g) PROVE Inv'
<1>1. Exit(g) /\ UNCHANGED <<name, used, val, owner>> /\ dead' = dead \cup {g}
  BY DEF Kill, kernel
<1>2. Objects' /\ Counting' /\ Turns' /\ Updates'
  BY <1>1, Exited DEF Inv, Counting
<1> QED BY <1>1, <1>2 DEF Inv, Books

LEMMA NextInv == ASSUME Inv, [Next]_vars PROVE Inv'
<1>1. CASE UNCHANGED vars
  <2>1. Objects' /\ Counting' BY <1>1 DEF Inv, Objects, Counting, vars, kernel
  <2>2. Turns' /\ Updates' BY <1>1 DEF Inv, Turns, Updates, Stored, vars, threads
  <2>3. Books'
    BY <1>1 DEF Inv, Books, Named, Joined, Drawn, Base, Posts, Taken, tsem, csem, vars, kernel, threads
  <2> QED BY <2>1, <2>2, <2>3 DEF Inv
<1> QED
  BY <1>1, StartCountInv, StartThreadsInv, CountInv, ThreadsInv, JoinInv, CloseInv, KillInv
     DEF Next, Count, Prog

LEMMA Invariance == Spec => []Inv
  BY InitInv, NextInv, PTL DEF Spec

\* Every variable keeps its type: lost updates never take cnt of thread.c
\* out of the range of its turns.
THEOREM TypeCorrect == Spec => []TypeOK
<1>1. Inv => TypeOK
  <2> SUFFICES ASSUME Inv PROVE TypeOK
    OBVIOUS
  <2>1. /\ cnt["thread"] \in -Rounds..Rounds /\ vreg \in -Rounds..Rounds /\ preg \in -Rounds..Rounds
    BY DEF Inv, Turns, Updates, Stored
  <2> QED BY <2>1 DEF Inv, Objects, Counting, Turns, TypeOK
<1> QED BY <1>1, Invariance, PTL

\* Unless a program is killed, ptheadV() of thread.c never waits for a
\* sem_post() that does not come, although posix_sem.c may take from the same
\* semaphore.
THEOREM NotStuckCorrect == Spec => []NotStuck
<1>1. Inv => NotStuck
  <2> SUFFICES ASSUME Inv, dead = {}, pc["thread"] = "join", vpc = "wait", val[sem["thread"]] = 0,
                      ppc # "post", ~(ppc # "done" /\ pi + 1 < Rounds)
               PROVE  /\ sem["posix_sem"] = sem["thread"]
                      /\ \/ pc["posix_sem"] = "p"
                         \/ pc["posix_sem"] = "test" /\ cnt["posix_sem"] = Limit
    BY DEF NotStuck
  <2>1. Posts = Rounds /\ vi < Rounds /\ vi \in Nat
    BY DEF Inv, Turns, Posts
  <2>2. tsem \in 1..MaxSem /\ tsem # 0
    BY DEF Inv, Objects, Prog, tsem
  <2>3. Drawn(tsem) >= Limit
    BY <2>1, <2>2 DEF Inv, Objects, Drawn, Base, tsem
  <2>4. Drawn(tsem) \in Int /\ csem = tsem /\ Taken = Drawn(tsem)
    <3>1. val[tsem] \in Nat /\ Base(tsem) \in Int
      BY <2>2 DEF Inv, Objects, Base
    <3>2. Drawn(tsem) \in Int
      BY <2>1, <3>1 DEF Drawn
    <3> QED BY <2>2, <2>3, <3>2 DEF Inv, Books, Joined
  <2>5. pc["posix_sem"] \in {"off", "test", "v", "p", "close"} /\ cnt["posix_sem"] \in 0..Limit
    BY DEF Inv, Counting, Prog
  <2>6. Taken >= Limit /\ pc["posix_sem"] # "off"
    BY <2>2, <2>3, <2>4 DEF Inv, Objects, csem, Prog
  <2>7. CASE pc["posix_sem"] = "p"
    BY <2>4, <2>7 DEF csem, tsem
  <2>8. CASE pc["posix_sem"] = "test"
    BY <2>4, <2>5, <2>6, <2>8 DEF csem, tsem, Taken
  <2>9. CASE pc["posix_sem"] \in {"v", "close"}
    BY <2>5, <2>6, <2>9 DEF Inv, Counting, Taken
  <2> QED BY <2>5, <2>6, <2>7, <2>8, <2>9
<1> QED BY <1>1, Invariance, PTL

\* Programs that have not been killed leave no semaphore behind, whichever of
\* them removed the name of which semaphore.
THEOREM NothingLeftCorrect == Spec => []NothingLeft
<1>1. Inv => NothingLeft
  BY DEF Inv, Objects, Books, Named, NothingLeft, tsem, csem, Prog
<1> QED BY <1>1, Invariance, PTL
=============================================================================
