--------------------------- MODULE MsgQueueProofs ---------------------------
(***************************************************************************)
(* Proofs about MsgQueue: its types and limits, that a text gets lost only *)
(* to the end of another client or to the death of a server, that a queue  *)
(* which has the key or name is served, and that both kinds of queue       *)
(* implement MessageService, for any number of servers and of clients.     *)
(***************************************************************************)
EXTENDS MsgQueue, SequenceTheorems, FiniteSetTheorems, TLAPS

-----------------------------------------------------------------------------
(* The inductive invariant.                                                *)

\* A message of client c and of a kind, in a queue and in a server's hand.
Is(m, c, kind)       == m[1] = c /\ m[2] = kind
Holds(q, c, kind)    == \E i \in DOMAIN queue[q] : Is(queue[q][i], c, kind)
Handles(s, c, kind)  == spc[s] = "handle" /\ Is(buf[s], c, kind)

\* Each server creates one queue at most.
Started == {s \in Server : spc[s] # "idle"}

Types ==
    /\ api \in {"sysv", "posix"}
    /\ used \in Nat /\ used <= Cardinality(Started) /\ name \in 0..used
    /\ queue \in [QueueId -> Seq(Message)]
    /\ spc \in [Server -> {"idle", "recv", "handle", "unlink", "done"}]
    /\ sid \in [Server -> 0..used] /\ buf \in [Server -> Message \cup {None}]
    /\ cpc \in [Client -> {"idle", "text", "end", "done"}] /\ cid \in [Client -> 0..used]
    /\ sent \subseteq Client /\ shown \subseteq sent /\ ended \subseteq sent
    /\ killed \subseteq Server \cup Client

Limits ==
    \A q \in QueueId : IF api = "sysv" THEN Bytes(q) <= MaxBytes ELSE Len(queue[q]) <= MaxMsg

\* What a server has in its hand was sent, and who unlinks the queue has been
\* told to by an end.  The System V queue that is served is the server's own,
\* and there while the server handles a message.
Servers ==
    \A s \in Server :
      /\ spc[s] \in {"recv", "handle", "unlink"} => sid[s] \in 1..used
      /\ spc[s] = "handle" => buf[s] \in Message /\ buf[s][1] \in sent
      /\ spc[s] = "unlink" => ended # {}
      /\ api = "sysv" =>
           /\ spc[s] # "unlink"
           /\ spc[s] = "handle" => sid[s] = name
           /\ \A t \in Server : sid[t] = sid[s] /\ sid[s] # 0 => t = s

\* A client has sent its text before its end.
Clients ==
    \A c \in Client :
      /\ cpc[c] \in {"idle", "text"} => c \notin sent
      /\ cpc[c] = "end" /\ cid[c] # 0 => c \in sent
      /\ api = "sysv" /\ cpc[c] \in Kind => cid[c] # 0

\* A client's messages are in the queue it has opened, the text first, and of
\* a System V queue that is gone nothing is left.
Queues ==
    \A q \in QueueId :
      /\ \A i \in DOMAIN queue[q] : queue[q][i][1] \in sent /\ cid[queue[q][i][1]] = q
      /\ \A c \in Client, i, j \in DOMAIN queue[q] :
           Is(queue[q][i], c, "end") /\ Is(queue[q][j], c, "text") => j < i
      /\ api = "sysv" /\ q # name => queue[q] = <<>>
      /\ q <= used /\ q # name => ended # {}

\* Once an end was received, the text of that client is in no queue.
EndOut(c) == c \in ended \/ \E s \in Server : Handles(s, c, "end")

Order == \A c \in Client : EndOut(c) => \A q \in QueueId : ~Holds(q, c, "text")

\* Where a text is that was sent, or why it is nowhere.
Served(q) == q = name \/ \E s \in Server : Reads(s, q)

Kept(c) ==
    \/ c \in shown
    \/ \E s \in Server : Handles(s, c, "text")
    \/ \E q \in QueueId : Holds(q, c, "text") /\ Served(q)
    \/ killed \cap Server # {}
    \/ \E d \in Client \ {c} : d \in ended

Texts == \A c \in sent : Kept(c)

Named ==
    name # 0 /\ killed \cap Server = {} =>
      \E s \in Server : sid[s] = name /\ spc[s] \in {"recv", "handle", "unlink"}

Inv ==
    /\ Types /\ Limits
    /\ Servers /\ Clients /\ Queues /\ Order /\ Texts /\ Named

-----------------------------------------------------------------------------
(* Sequences of messages, and how many servers have started.               *)

LEMMA CountEmpty == \A kind : Count(<<>>, kind) = 0
BY FS_EmptySet DEF Count

LEMMA CountNat ==
    ASSUME NEW s \in Seq(Message), NEW kind
    PROVE  Count(s, kind) \in Nat /\ IsFiniteSet({i \in DOMAIN s : s[i][2] = kind})
<1>1. IsFiniteSet(1..Len(s)) BY FS_Interval
<1>2. {i \in DOMAIN s : s[i][2] = kind} \subseteq 1..Len(s) OBVIOUS
<1>3. IsFiniteSet({i \in DOMAIN s : s[i][2] = kind}) BY <1>1, <1>2, FS_Subset
<1> QED BY <1>3, FS_CardinalityType DEF Count

LEMMA CountAppend ==
    ASSUME NEW s \in Seq(Message), NEW m \in Message, NEW kind
    PROVE  /\ Append(s, m) \in Seq(Message) /\ Len(Append(s, m)) = Len(s) + 1
           /\ \A i \in DOMAIN s : i \in DOMAIN Append(s, m) /\ Append(s, m)[i] = s[i]
           /\ Append(s, m)[Len(s) + 1] = m
           /\ \A i \in DOMAIN Append(s, m) : i \in DOMAIN s \/ i = Len(s) + 1
           /\ Count(Append(s, m), kind) = Count(s, kind) + IF m[2] = kind THEN 1 ELSE 0
<1> DEFINE t == Append(s, m)
           A == {i \in DOMAIN s : s[i][2] = kind}
           B == {i \in DOMAIN t : t[i][2] = kind}
<1>1. /\ t \in Seq(Message) /\ Len(t) = Len(s) + 1 /\ Len(s) \in Nat
      /\ \A i \in 1..Len(s) : t[i] = s[i]
      /\ t[Len(s) + 1] = m
  OBVIOUS
<1>2. DOMAIN t = 1..Len(s) + 1 /\ DOMAIN s = 1..Len(s) BY <1>1
<1>3. IsFiniteSet(A) BY CountNat
<1>4. Len(s) + 1 \notin A BY <1>1, <1>2
<1>5. B = IF m[2] = kind THEN A \cup {Len(s) + 1} ELSE A
  <2> HIDE DEF t
  <2> QED BY <1>1, <1>2
<1>6. Cardinality(B) = Cardinality(A) + IF m[2] = kind THEN 1 ELSE 0
  <2> HIDE DEF A, B
  <2>1. Cardinality(A) \in Nat BY <1>3, FS_CardinalityType
  <2>2. Cardinality(A \cup {Len(s) + 1}) = Cardinality(A) + 1 BY <1>3, <1>4, FS_AddElement
  <2> QED BY <1>5, <2>1, <2>2
<1>7. Count(t, kind) = Cardinality(B) /\ Count(s, kind) = Cardinality(A) BY DEF Count
<1>8. Count(t, kind) = Count(s, kind) + IF m[2] = kind THEN 1 ELSE 0 BY <1>6, <1>7
<1> HIDE DEF t
<1>9. /\ \A i \in DOMAIN s : i \in DOMAIN t /\ t[i] = s[i]
      /\ \A i \in DOMAIN t : i \in DOMAIN s \/ i = Len(s) + 1
  BY <1>1, <1>2
<1> QED BY <1>1, <1>8, <1>9 DEF t

LEMMA CountTail ==
    ASSUME NEW s \in Seq(Message), s # <<>>, NEW kind
    PROVE  /\ RemoveAt(s, 1) \in Seq(Message) /\ Len(RemoveAt(s, 1)) = Len(s) - 1
           /\ s[1] \in Message /\ 1 \in DOMAIN s
           /\ \A i \in DOMAIN RemoveAt(s, 1) : i + 1 \in DOMAIN s /\ RemoveAt(s, 1)[i] = s[i + 1]
           /\ \A i \in DOMAIN s \ {1} : i - 1 \in DOMAIN RemoveAt(s, 1)
           /\ Count(RemoveAt(s, 1), kind) <= Count(s, kind)
<1> DEFINE t == RemoveAt(s, 1)
           A == {i \in DOMAIN s : s[i][2] = kind}
           B == {i \in DOMAIN t : t[i][2] = kind}
           f == [i \in B |-> i + 1]
<1>1. t = Tail(s) BY DEF RemoveAt
<1>2. /\ t \in Seq(Message) /\ Len(t) = Len(s) - 1 /\ Len(s) \in Nat \ {0} /\ s[1] \in Message
      /\ \A i \in 1..Len(t) : t[i] = s[i + 1]
  BY <1>1
<1> HIDE DEF t
<1>3. DOMAIN t = 1..Len(s) - 1 /\ DOMAIN s = 1..Len(s) BY <1>2
<1>4. f \in Injection(B, A)
  <2>1. \A i \in B : i + 1 \in A BY <1>2, <1>3
  <2>2. \A i, j \in B : i + 1 = j + 1 => i = j BY <1>3
  <2> HIDE DEF A, B
  <2> QED BY <2>1, <2>2 DEF Injection, IsInjective
<1>5. IsFiniteSet(A) BY CountNat
<1>6. Cardinality(B) <= Cardinality(A)
  <2> HIDE DEF A, B, f
  <2> QED BY <1>4, <1>5, FS_Injection
<1> QED BY <1>2, <1>3, <1>6 DEF Count, t

LEMMA Bounds ==
    ASSUME Types
    PROVE  /\ Started \subseteq Server /\ IsFiniteSet(Started)
           /\ Cardinality(Server) \in Nat /\ Cardinality(Started) \in Nat
           /\ used <= Cardinality(Server) /\ 1..used \subseteq QueueId /\ 0 \notin QueueId
           /\ QueueId \subseteq Nat /\ MaxBytes \in Nat /\ MaxMsg \in Nat
<1>1. Started \subseteq Server BY DEF Started
<1>2. /\ IsFiniteSet(Started) /\ Cardinality(Started) <= Cardinality(Server)
  BY <1>1, BoundsAssumption, FS_Subset
<1>3. Cardinality(Server) \in Nat /\ Cardinality(Started) \in Nat
  BY <1>2, BoundsAssumption, FS_CardinalityType
<1>4. used <= Cardinality(Server) /\ used \in Nat BY <1>2, <1>3 DEF Types
<1> QED BY <1>1, <1>2, <1>3, <1>4, BoundsAssumption DEF QueueId

\* A server that starts is one more.
LEMMA StartedGrows ==
    ASSUME Types, NEW s \in Server, NEW place \in {"recv", "handle", "unlink", "done"},
           spc' = [spc EXCEPT ![s] = place]
    PROVE  /\ Cardinality(Started) <= Cardinality(Started') /\ Cardinality(Started') \in Nat
           /\ spc[s] = "idle" => Cardinality(Started') = Cardinality(Started) + 1
<1>1. Started' = Started \cup {s} BY DEF Types, Started
<1>2. IsFiniteSet(Started) /\ Cardinality(Started) \in Nat BY Bounds
<1>3. Cardinality(Started') = IF s \in Started THEN Cardinality(Started) ELSE Cardinality(Started) + 1
  BY <1>1, <1>2, FS_AddElement
<1>4. spc[s] = "idle" => s \notin Started BY DEF Started
<1> QED BY <1>2, <1>3, <1>4

LEMMA InitInv == ASSUME Init PROVE Inv
<1>1. Started = {} BY DEF Init, Started
<1>2. Cardinality(Server) \in Nat BY BoundsAssumption, FS_CardinalityType
<1>3. Cardinality(Started) = 0 BY <1>1, FS_EmptySet
<1>4. Types BY <1>3 DEF Init, Types
<1>5. Limits
  <2>1. \A q \in QueueId : queue[q] = <<>> BY DEF Init
  <2>2. \A q \in QueueId : Bytes(q) = 0 BY <2>1, CountEmpty DEF Bytes, Size
  <2> QED BY <2>1, <2>2, BoundsAssumption DEF Limits
<1>6. Servers /\ Clients /\ Texts /\ Named BY DEF Init, Servers, Clients, Texts, Named, Kind
<1>7. \A q \in QueueId : ~(q <= 0) BY <1>2 DEF QueueId
<1>8. Queues BY <1>7 DEF Init, Queues
<1>9. Order BY DEF Init, Order, EndOut, Handles, Holds
<1> QED BY <1>4, <1>5, <1>6, <1>8, <1>9 DEF Inv

\* What a queue holds before and after a step.
LEMMA BytesOf ==
    ASSUME NEW q
    PROVE  /\ Bytes(q) = Count(queue[q], "text") * 13 + Count(queue[q], "end") * 8192
           /\ Bytes(q)' = Count(queue'[q], "text") * 13 + Count(queue'[q], "end") * 8192
<1>1. Bytes(q) = Count(queue[q], "text") * 13 + Count(queue[q], "end") * 8192 BY DEF Bytes, Size
<1>2. Bytes(q)' = Count(queue'[q], "text") * 13 + Count(queue'[q], "end") * 8192
  BY DEF Bytes, Size, Count
<1> QED BY <1>1, <1>2

\* Fewer messages are fewer bytes.
LEMMA FewerBytes ==
    ASSUME NEW a \in Nat, NEW b \in Nat, NEW m \in Nat, NEW n \in Nat, a <= m, b <= n
    PROVE  /\ a * 13 + b * 8192 \in Nat /\ m * 13 + n * 8192 \in Nat
           /\ a * 13 + b * 8192 <= m * 13 + n * 8192
OBVIOUS

\* As long as the queues stay as they are, so do their limits.
LEMMA LimitsFrame == ASSUME Limits, UNCHANGED <<api, queue>> PROVE Limits'
BY DEF Limits, Bytes, Count

-----------------------------------------------------------------------------
(* The servers.                                                            *)

\* A server creates a queue: there is none of that name, and no System V queue
\* at all.
LEMMA CreateInv == ASSUME Inv, NEW s \in Server, Create(s) PROVE Inv'
<1> USE DEF Inv
<1>1. /\ spc[s] = "idle" /\ name = 0 /\ used' = used + 1 /\ name' = used + 1
      /\ sid' = [sid EXCEPT ![s] = used + 1] /\ spc' = [spc EXCEPT ![s] = "recv"]
      /\ UNCHANGED <<api, queue, buf, cpc, cid, sent, shown, ended, killed>>
  BY DEF Create, clients
<1>2. used \in Nat /\ 0 \notin QueueId /\ 1..used \subseteq QueueId /\ QueueId \subseteq Nat BY Bounds DEF Types
<1>3. Types'
  <2>1. used' <= Cardinality(Started')
    <3>1. "recv" \in {"recv", "handle", "unlink", "done"} OBVIOUS
    <3>2. Cardinality(Started') = Cardinality(Started) + 1 BY <1>1, <3>1, StartedGrows
    <3> QED BY <1>1, <3>2, Bounds DEF Types
  <2>2. used' \in Nat /\ name' \in 0..used' /\ 0..used \subseteq 0..used' BY <1>1, <1>2
  <2>3. sid' \in [Server -> 0..used'] /\ cid' \in [Client -> 0..used']
    BY <1>1, <2>2 DEF Types
  <2> QED BY <1>1, <2>1, <2>2, <2>3 DEF Types
<1>4. Limits' BY <1>1, LimitsFrame
<1>5. /\ spc'[s] = "recv" /\ sid'[s] = used + 1
      /\ \A t \in Server \ {s} : spc'[t] = spc[t] /\ sid'[t] = sid[t] /\ sid[t] \in 0..used
  BY <1>1 DEF Types
<1>6. Servers'
  <2>1. api = "sysv" => \A t \in Server : spc[t] # "handle" BY <1>1, <1>2 DEF Servers
  <2>2. \A t \in Server \ {s} : sid'[t] # sid'[s] BY <1>2, <1>5
  <2> QED BY <1>1, <1>2, <1>5, <2>1, <2>2 DEF Servers
<1>7. Clients' BY <1>1 DEF Clients
<1>8. Queues'
  <2>1. \A q \in QueueId : q # name BY <1>1, <1>2
  <2>2. \A q \in QueueId : q <= used' /\ q # name' => q <= used BY <1>1, <1>2
  <2> QED BY <1>1, <2>1, <2>2 DEF Queues, Is
<1>9. \A t \in Server, c \in Client, k \in Kind : Handles(t, c, k)' <=> Handles(t, c, k)
  BY <1>1, <1>5 DEF Handles, Is
<1>10. Order'
  <2>1. \A c \in Client : EndOut(c)' <=> EndOut(c) BY <1>1, <1>9 DEF EndOut, Kind
  <2> QED BY <1>1, <2>1 DEF Order, Holds, Is
<1>11. Texts'
  <2>1. \A q \in QueueId : Served(q) => Served(q)'
    BY <1>1, <1>2, <1>5 DEF Served, Reads
  <2>2. \A q \in QueueId, c \in Client : Holds(q, c, "text")' <=> Holds(q, c, "text")
    BY <1>1 DEF Holds, Is
  <2>3. sent \subseteq Client BY DEF Types
  <2> QED BY <1>1, <1>9, <2>1, <2>2, <2>3 DEF Texts, Kept, Kind
<1>12. Named' BY <1>1, <1>5 DEF Named
<1> QED BY <1>3, <1>4, <1>6, <1>7, <1>8, <1>10, <1>11, <1>12

\* What a server does that leaves the kernel alone: it shows a text, learns
\* that its queue is gone, stops, or opens the queue there is.
LEMMA ServerMoves ==
    ASSUME Inv, NEW s \in Server, NEW place \in {"recv", "unlink", "done"},
           spc' = [spc EXCEPT ![s] = place], sid' = [sid EXCEPT ![s] = sid'[s]],
           sid'[s] = sid[s] \/ (spc[s] = "idle" /\ sid'[s] = name /\ api = "posix"),
           place \in {"recv", "unlink"} => sid'[s] \in 1..used,
           place = "unlink" => api = "posix" /\ ended' # {},
           UNCHANGED <<api, name, used, queue, buf, cpc, cid, sent>>,
           shown \subseteq shown' /\ shown' \subseteq sent,
           ended \subseteq ended' /\ ended' \subseteq sent,
           killed \subseteq killed' /\ killed' \subseteq killed \cup {s}
    PROVE  /\ Types' /\ Limits' /\ Servers' /\ Clients' /\ Queues'
           /\ spc'[s] = place
           /\ \A t \in Server \ {s} : spc'[t] = spc[t] /\ sid'[t] = sid[t]
           /\ \A t \in Server : \A c, k : Handles(t, c, k)' <=> Handles(t, c, k) /\ t # s
           /\ \A q, c, k : Holds(q, c, k)' <=> Holds(q, c, k)
<1> USE DEF Inv
<1>1. spc'[s] = place /\ \A t \in Server \ {s} : spc'[t] = spc[t] /\ sid'[t] = sid[t]
  BY DEF Types
<1>2. Types'
  <2>1. used <= Cardinality(Started')
    <3>1. Cardinality(Started) <= Cardinality(Started') /\ Cardinality(Started') \in Nat
      BY StartedGrows
    <3> QED BY <3>1, Bounds DEF Types
  <2>2. sid' \in [Server -> 0..used] BY DEF Types
  <2>3. spc' \in [Server -> {"idle", "recv", "handle", "unlink", "done"}] BY DEF Types
  <2>4. killed' \subseteq Server \cup Client BY DEF Types
  <2> QED BY <2>1, <2>2, <2>3, <2>4 DEF Types
<1>3. Limits' BY LimitsFrame
<1>4. Servers'
  <2>1. \A t \in Server : spc'[t] = "handle" => spc[t] = "handle" /\ t # s BY <1>1
  <2>2. \A t \in Server \ {s} : spc[t] = "unlink" => ended' # {} BY DEF Servers
  <2>3. api = "sysv" => sid' = sid BY DEF Types
  <2>4. \A t \in Server : spc'[t] \in {"recv", "handle", "unlink"} => sid'[t] \in 1..used
    BY <1>1 DEF Servers
  <2> QED BY <1>1, <2>1, <2>2, <2>3, <2>4 DEF Servers
<1>5. Clients' BY DEF Clients
<1>6. Queues' BY DEF Queues, Is
<1>7. \A t \in Server : \A c, k : Handles(t, c, k)' <=> Handles(t, c, k) /\ t # s
  BY <1>1 DEF Handles, Is
<1>8. \A q, c, k : Holds(q, c, k)' <=> Holds(q, c, k) BY DEF Holds, Is
<1> QED BY <1>1, <1>2, <1>3, <1>4, <1>5, <1>6, <1>7, <1>8

\* msgget() of a queue that is there, or mq_open() of it.
LEMMA OpenInv ==
    ASSUME Inv, NEW s \in Server, SysvOpen(s) \/ PosixOpen(s) PROVE Inv'
<1> USE DEF Inv
<1>1. CASE Create(s) BY <1>1, CreateInv
<1>2. CASE ~Create(s)
  <2> DEFINE place == IF api = "sysv" THEN "done" ELSE "recv"
  <2>1. /\ spc[s] = "idle" /\ name # 0 /\ spc' = [spc EXCEPT ![s] = place]
        /\ sid' = (IF api = "sysv" THEN sid ELSE [sid EXCEPT ![s] = name])
        /\ UNCHANGED <<api, name, used, queue, buf, cpc, cid, sent, shown, ended, killed>>
    BY <1>2 DEF SysvOpen, PosixOpen, kernel, clients
  <2>2. /\ place \in {"recv", "unlink", "done"} /\ place # "unlink"
        /\ sid' = [sid EXCEPT ![s] = sid'[s]]
        /\ sid'[s] = sid[s] \/ (spc[s] = "idle" /\ sid'[s] = name /\ api = "posix")
        /\ place = "recv" => sid'[s] \in 1..used
        /\ shown \subseteq sent /\ ended \subseteq sent
    <3>1. CASE api = "sysv"
      <4>1. sid' = sid /\ place = "done" BY <2>1, <3>1
      <4> QED BY <4>1 DEF Types
    <3>2. CASE api # "sysv"
      <4>1. sid' = [sid EXCEPT ![s] = name] /\ place = "recv" /\ api = "posix" BY <2>1, <3>2 DEF Types
      <4>2. sid'[s] = name BY <4>1 DEF Types
      <4>3. name \in 1..used BY <2>1 DEF Types
      <4> QED BY <2>1, <4>1, <4>2, <4>3 DEF Types
    <3> QED BY <3>1, <3>2
  <2> HIDE DEF place
  <2>3. /\ Types' /\ Limits' /\ Servers' /\ Clients' /\ Queues'
        /\ \A t \in Server \ {s} : spc'[t] = spc[t] /\ sid'[t] = sid[t]
        /\ \A t \in Server : \A c, k : Handles(t, c, k)' <=> Handles(t, c, k) /\ t # s
        /\ \A q, c, k : Holds(q, c, k)' <=> Holds(q, c, k)
    BY <2>1, <2>2, ServerMoves
  <2>4. \A t \in Server : \A c, k : Handles(t, c, k)' <=> Handles(t, c, k) BY <2>1, <2>3 DEF Handles
  <2>5. Order' BY <2>1, <2>3, <2>4 DEF Order, EndOut
  <2>6. Texts'
    <3>1. \A q : Served(q) => Served(q)' BY <2>1, <2>3 DEF Served, Reads
    <3> QED BY <2>1, <2>3, <2>4, <3>1 DEF Texts, Kept
  <2>7. Named' BY <2>1, <2>3 DEF Named
  <2> QED BY <2>3, <2>5, <2>6, <2>7
<1> QED BY <1>1, <1>2

\* The message the server has in its hand is the first of its queue, which
\* has what comes after.
LEMMA ReceiveInv == ASSUME Inv, NEW s \in Server, Receive(s) PROVE Inv'
<1> USE DEF Inv
<1> DEFINE q == sid[s]
           m == queue[q][1]
           rest == RemoveAt(queue[q], 1)
<1>1. /\ spc[s] = "recv" /\ Exists(q) /\ queue[q] # <<>>
      /\ buf' = [buf EXCEPT ![s] = m] /\ queue' = [queue EXCEPT ![q] = rest]
      /\ spc' = [spc EXCEPT ![s] = "handle"]
      /\ UNCHANGED <<api, name, used, sid, cpc, cid, sent, shown, ended, killed>>
  BY DEF Receive, ReceiveAt, clients
<1>2. q \in 1..used /\ q \in QueueId /\ queue[q] \in Seq(Message) BY <1>1, Bounds DEF Types, Servers
<1>3. /\ rest \in Seq(Message) /\ Len(rest) = Len(queue[q]) - 1
      /\ m \in Message /\ 1 \in DOMAIN queue[q]
      /\ \A i \in DOMAIN rest : i + 1 \in DOMAIN queue[q] /\ rest[i] = queue[q][i + 1]
      /\ \A i \in DOMAIN queue[q] \ {1} : i - 1 \in DOMAIN rest
      /\ \A k : Count(rest, k) <= Count(queue[q], k)
      /\ \A k : Count(rest, k) \in Nat /\ Count(queue[q], k) \in Nat
  BY <1>1, <1>2, CountTail, CountNat
<1>4. queue'[q] = rest /\ \A r \in QueueId \ {q} : queue'[r] = queue[r] BY <1>1, <1>2 DEF Types
<1>5. /\ spc'[s] = "handle" /\ buf'[s] = m
      /\ \A t \in Server \ {s} : spc'[t] = spc[t] /\ buf'[t] = buf[t]
  BY <1>1 DEF Types
<1>6. m[1] \in sent /\ cid[m[1]] = q BY <1>2, <1>3 DEF Queues
<1> HIDE DEF m, rest
<1>7. Types'
  <2>1. used <= Cardinality(Started')
    <3>1. "handle" \in {"recv", "handle", "unlink", "done"} OBVIOUS
    <3>2. Cardinality(Started) <= Cardinality(Started') /\ Cardinality(Started') \in Nat
      BY <1>1, <3>1, StartedGrows
    <3> QED BY <3>2, Bounds DEF Types
  <2>2. queue' \in [QueueId -> Seq(Message)] BY <1>1, <1>3 DEF Types
  <2>3. buf' \in [Server -> Message \cup {None}] BY <1>1, <1>3 DEF Types
  <2> QED BY <1>1, <2>1, <2>2, <2>3 DEF Types
<1>8. Limits'
  <2>1. ASSUME NEW r \in QueueId
        PROVE  IF api = "sysv" THEN Bytes(r)' <= MaxBytes ELSE Len(queue'[r]) <= MaxMsg
    <3>1. CASE r # q
      <4>1. queue'[r] = queue[r] BY <1>4, <3>1
      <4>2. Bytes(r)' = Bytes(r) BY <4>1, BytesOf
      <4> QED BY <4>1, <4>2 DEF Limits
    <3>2. CASE r = q
      <4>1. Bytes(r)' = Count(rest, "text") * 13 + Count(rest, "end") * 8192
        BY <1>4, <3>2, BytesOf
      <4>2. Bytes(r) = Count(queue[q], "text") * 13 + Count(queue[q], "end") * 8192
        BY <3>2, BytesOf
      <4>3. Bytes(r)' <= Bytes(r) /\ Bytes(r) \in Nat /\ Bytes(r)' \in Nat
        <5> DEFINE a == Count(rest, "text")
                   b == Count(rest, "end")
                   m1 == Count(queue[q], "text")
                   n1 == Count(queue[q], "end")
        <5>1. a \in Nat /\ b \in Nat /\ m1 \in Nat /\ n1 \in Nat /\ a <= m1 /\ b <= n1 BY <1>3
        <5>2. Bytes(r)' = a * 13 + b * 8192 /\ Bytes(r) = m1 * 13 + n1 * 8192 BY <4>1, <4>2
        <5> HIDE DEF a, b, m1, n1
        <5>3. /\ a * 13 + b * 8192 \in Nat /\ m1 * 13 + n1 * 8192 \in Nat
              /\ a * 13 + b * 8192 <= m1 * 13 + n1 * 8192
          BY <5>1, FewerBytes
        <5> QED BY <5>2, <5>3
      <4>4. Len(queue'[r]) <= Len(queue[r]) /\ Len(queue[r]) \in Nat /\ Len(queue'[r]) \in Nat
        BY <1>2, <1>3, <1>4, <3>2
      <4> QED BY <4>3, <4>4, Bounds DEF Limits
    <3> QED BY <3>1, <3>2
  <2> QED BY <1>1, <2>1 DEF Limits
<1>9. Servers'
  <2>1. api = "sysv" => sid[s] = name BY <1>1 DEF Exists
  <2> QED BY <1>1, <1>3, <1>5, <1>6, <2>1 DEF Servers
<1>10. Clients' BY <1>1 DEF Clients
\* Where what is in the queues now was before.
<1>11. ASSUME NEW r \in QueueId, NEW i \in DOMAIN queue'[r]
       PROVE  \E n \in DOMAIN queue[r] : /\ queue'[r][i] = queue[r][n]
                                         /\ n = IF r = q THEN i + 1 ELSE i
  BY <1>3, <1>4
<1>12. Queues'
  <2>1. ASSUME NEW r \in QueueId, NEW i \in DOMAIN queue'[r]
        PROVE  queue'[r][i][1] \in sent /\ cid[queue'[r][i][1]] = r
    BY <1>11, <2>1 DEF Queues
  <2>2. ASSUME NEW r \in QueueId, NEW c \in Client, NEW i \in DOMAIN queue'[r], NEW j \in DOMAIN queue'[r],
               Is(queue'[r][i], c, "end"), Is(queue'[r][j], c, "text")
        PROVE  j < i
    <3>1. PICK a \in DOMAIN queue[r] : queue'[r][i] = queue[r][a] /\ a = IF r = q THEN i + 1 ELSE i
      BY <1>11
    <3>2. PICK b \in DOMAIN queue[r] : queue'[r][j] = queue[r][b] /\ b = IF r = q THEN j + 1 ELSE j
      BY <1>11
    <3>3. b < a BY <2>2, <3>1, <3>2 DEF Queues
    <3>4. i \in Nat /\ j \in Nat
      <4>1. queue'[r] \in Seq(Message) BY <1>7 DEF Types
      <4> QED BY <4>1
    <3> QED BY <3>1, <3>2, <3>3, <3>4
  <2>3. \A r \in QueueId : queue[r] = <<>> => queue'[r] = <<>> BY <1>1, <1>4
  <2>4. \A r \in QueueId : api = "sysv" /\ r # name => queue'[r] = <<>> BY <2>3 DEF Queues
  <2>5. \A r \in QueueId : r <= used /\ r # name => ended # {} BY DEF Queues
  <2>6. \A r \in QueueId : \A c \in Client, i, j \in DOMAIN queue'[r] :
          Is(queue'[r][i], c, "end") /\ Is(queue'[r][j], c, "text") => j < i
    BY <2>2
  <2> HIDE DEF q
  <2> QED BY <1>1, <2>1, <2>4, <2>5, <2>6 DEF Queues, Is
<1>13. \A r \in QueueId : \A c, k : Holds(r, c, k)' => Holds(r, c, k) BY <1>11 DEF Holds, Is
<1>14. \A t \in Server \ {s} : \A c, k : Handles(t, c, k)' <=> Handles(t, c, k)
  BY <1>5 DEF Handles, Is
<1>15. Order'
  <2>1. ASSUME NEW c \in Client, EndOut(c)', NEW r \in QueueId, Holds(r, c, "text")' PROVE FALSE
    <3>1. CASE EndOut(c) BY <1>13, <2>1, <3>1 DEF Order
    <3>2. CASE ~EndOut(c)
      <4>1. Handles(s, c, "end")' BY <1>1, <1>14, <2>1, <3>2 DEF EndOut
      <4>2. Is(m, c, "end") BY <1>5, <4>1 DEF Handles, Is
      <4>3. PICK i \in DOMAIN queue'[r] : Is(queue'[r][i], c, "text") BY <2>1 DEF Holds, Is
      <4>4. PICK n \in DOMAIN queue[r] : queue'[r][i] = queue[r][n] /\ n = IF r = q THEN i + 1 ELSE i
        BY <1>11
      <4>5. r = q
        <5>1. cid[c] = q BY <1>6, <4>2 DEF Is
        <5>2. cid[c] = r BY <4>3, <4>4 DEF Queues, Is
        <5> QED BY <5>1, <5>2
      <4>6. n < 1 BY <1>2, <1>3, <4>2, <4>3, <4>4, <4>5 DEF Queues, m
      <4>7. n \in Nat \ {0} BY <1>2, <4>5
      <4> QED BY <4>6, <4>7
    <3> QED BY <3>1, <3>2
  <2> QED BY <2>1 DEF Order
<1>16. Texts'
  <2>1. \A r : Served(r)' <=> Served(r) BY <1>1, <1>5 DEF Served, Reads
  <2>2. ASSUME NEW r \in QueueId, NEW c \in Client, Holds(r, c, "text")
        PROVE  Holds(r, c, "text")' \/ Handles(s, c, "text")'
    <3>1. PICK i \in DOMAIN queue[r] : Is(queue[r][i], c, "text") BY <2>2 DEF Holds
    <3>2. CASE r # q BY <1>4, <3>1, <3>2 DEF Holds, Is
    <3>3. CASE r = q /\ i = 1 BY <1>5, <3>1, <3>3 DEF Handles, Is, m
    <3>4. CASE r = q /\ i # 1
      <4>1. i - 1 \in DOMAIN rest BY <1>3, <3>1, <3>4
      <4>2. i \in Nat BY <1>2, <3>4
      <4>3. rest[i - 1] = queue[q][i] BY <1>3, <4>1, <4>2
      <4> QED BY <1>4, <3>1, <3>4, <4>1, <4>3 DEF Holds, Is
    <3> QED BY <3>2, <3>3, <3>4
  <2>3. ASSUME NEW c \in sent PROVE Kept(c)'
    <3>1. c \in Client /\ Kept(c) BY DEF Types, Texts
    <3>2. CASE \E t \in Server : Handles(t, c, "text")
      <4>1. PICK t \in Server : Handles(t, c, "text") BY <3>2
      <4>2. t # s BY <1>1, <4>1 DEF Handles
      <4> QED BY <1>14, <4>1, <4>2 DEF Kept
    <3>3. CASE \E r \in QueueId : Holds(r, c, "text") /\ Served(r)
      <4>1. PICK r \in QueueId : Holds(r, c, "text") /\ Served(r) BY <3>3
      <4>2. Holds(r, c, "text")' \/ Handles(s, c, "text")' BY <2>2, <3>1, <4>1
      <4> QED BY <2>1, <4>1, <4>2 DEF Kept, QueueId
    <3> QED BY <1>1, <3>1, <3>2, <3>3 DEF Kept
  <2> QED BY <1>1, <2>3 DEF Texts
<1>17. Named' BY <1>1, <1>5 DEF Named
<1> QED BY <1>7, <1>8, <1>9, <1>10, <1>12, <1>15, <1>16, <1>17

\* The text in the server's hand is shown.
LEMMA ShowInv == ASSUME Inv, NEW s \in Server, Show(s) PROVE Inv'
<1> USE DEF Inv
<1>1. /\ spc[s] = "handle" /\ shown' = shown \cup {buf[s][1]} /\ spc' = [spc EXCEPT ![s] = "recv"]
      /\ UNCHANGED <<api, name, used, queue, sid, buf, cpc, cid, sent, ended, killed>>
  BY DEF Show, kernel, clients
<1>2. sid[s] \in 1..used /\ buf[s][1] \in sent /\ sid' = [sid EXCEPT ![s] = sid'[s]]
  BY <1>1 DEF Servers, Types
<1>3. "recv" \in {"recv", "unlink", "done"} OBVIOUS
<1>4. shown' \subseteq sent /\ ended \subseteq sent BY <1>1, <1>2 DEF Types
<1>5. /\ Types' /\ Limits' /\ Servers' /\ Clients' /\ Queues' /\ spc'[s] = "recv"
      /\ \A t \in Server \ {s} : spc'[t] = spc[t] /\ sid'[t] = sid[t]
      /\ \A t \in Server : \A c, k : Handles(t, c, k)' <=> Handles(t, c, k) /\ t # s
      /\ \A q, c, k : Holds(q, c, k)' <=> Holds(q, c, k)
  BY <1>1, <1>2, <1>3, <1>4, ServerMoves
<1>6. Order' BY <1>1, <1>5 DEF Order, EndOut
<1>7. Texts'
  <2>1. \A q : Served(q) => Served(q)' BY <1>1, <1>5 DEF Served, Reads
  <2>2. \A c : Handles(s, c, "text") => c \in shown' BY <1>1 DEF Handles, Is
  <2>3. ASSUME NEW c \in sent PROVE Kept(c)'
    <3>1. Kept(c) BY DEF Texts
    <3>2. CASE \E t \in Server : Handles(t, c, "text") BY <1>5, <2>2, <3>2 DEF Kept
    <3>3. CASE ~\E t \in Server : Handles(t, c, "text") BY <1>1, <1>5, <2>1, <3>1, <3>3 DEF Kept
    <3> QED BY <3>2, <3>3
  <2> QED BY <1>1, <2>3 DEF Texts
<1>8. Named' BY <1>1, <1>5 DEF Named
<1> QED BY <1>5, <1>6, <1>7, <1>8

\* The queue of the server is gone, and it was empty at that.
LEMMA ReceiveNothingInv == ASSUME Inv, NEW s \in Server, ReceiveNothing(s) PROVE Inv'
<1> USE DEF Inv
<1>1. /\ spc[s] = "recv" /\ ~Exists(sid[s]) /\ spc' = [spc EXCEPT ![s] = "done"]
      /\ UNCHANGED <<api, name, used, queue, sid, buf, cpc, cid, sent, shown, ended, killed>>
  BY DEF ReceiveNothing, kernel, clients
<1>2. /\ sid[s] \in 1..used /\ sid' = [sid EXCEPT ![s] = sid'[s]] /\ 0 \notin 1..used
      /\ shown \subseteq sent /\ ended \subseteq sent
  BY <1>1 DEF Servers, Types
<1>3. "done" \in {"recv", "unlink", "done"} OBVIOUS
<1>4. /\ Types' /\ Limits' /\ Servers' /\ Clients' /\ Queues' /\ spc'[s] = "done"
      /\ \A t \in Server \ {s} : spc'[t] = spc[t] /\ sid'[t] = sid[t]
      /\ \A t \in Server : \A c, k : Handles(t, c, k)' <=> Handles(t, c, k) /\ t # s
      /\ \A q, c, k : Holds(q, c, k)' <=> Holds(q, c, k)
  BY <1>1, <1>2, <1>3, ServerMoves
<1>5. \A t \in Server : \A c, k : Handles(t, c, k)' <=> Handles(t, c, k) BY <1>1, <1>4 DEF Handles
<1>6. Order' BY <1>1, <1>4, <1>5 DEF Order, EndOut
<1>7. api = "sysv" /\ sid[s] # name BY <1>1, <1>2 DEF Exists, Types
<1>8. queue[sid[s]] = <<>> BY <1>2, <1>7, Bounds DEF Queues
<1>9. Texts'
  <2>1. \A q : Served(q) /\ q # sid[s] => Served(q)' BY <1>1, <1>4 DEF Served, Reads
  <2>2. \A c : ~Holds(sid[s], c, "text") BY <1>8 DEF Holds
  <2> QED BY <1>1, <1>4, <1>5, <2>1, <2>2 DEF Texts, Kept
<1>10. Named' BY <1>1, <1>4, <1>7 DEF Named
<1> QED BY <1>4, <1>6, <1>9, <1>10

\* The end removes the System V queue with all that is in it.
LEMMA RmidInv == ASSUME Inv, NEW s \in Server, Rmid(s) PROVE Inv'
<1> USE DEF Inv
<1> DEFINE q == sid[s]
           d == buf[s][1]
<1>1. /\ api = "sysv" /\ spc[s] = "handle" /\ buf[s][2] = "end" /\ ended' = ended \cup {d}
      /\ name' = 0 /\ queue' = [queue EXCEPT ![q] = <<>>] /\ spc' = [spc EXCEPT ![s] = "recv"]
      /\ UNCHANGED <<api, used, sid, buf, cpc, cid, sent, shown, killed>>
  BY DEF Rmid, Ended, clients
<1>2. q \in 1..used /\ q = name /\ q \in QueueId /\ d \in sent /\ used \in Nat
  BY <1>1, Bounds DEF Servers, Types
<1>3. \A t \in Server : spc[t] = "handle" => t = s BY <1>1, <1>2 DEF Servers
<1>4. /\ spc'[s] = "recv" /\ \A t \in Server \ {s} : spc'[t] = spc[t]
      /\ \A t \in Server : spc'[t] # "handle"
  BY <1>1, <1>3 DEF Types
<1>5. \A r \in QueueId : queue'[r] = <<>> BY <1>1, <1>2 DEF Types, Queues
<1>6. EndOut(d) /\ Handles(s, d, "end") BY <1>1 DEF EndOut, Handles, Is
<1> HIDE DEF q, d
<1>7. Types'
  <2>1. used <= Cardinality(Started')
    <3>1. "recv" \in {"recv", "handle", "unlink", "done"} OBVIOUS
    <3>2. Cardinality(Started) <= Cardinality(Started') /\ Cardinality(Started') \in Nat
      BY <1>1, <3>1, StartedGrows
    <3> QED BY <3>2, Bounds DEF Types
  <2>2. <<>> \in Seq(Message) OBVIOUS
  <2>3. queue' \in [QueueId -> Seq(Message)] BY <1>1, <2>2 DEF Types
  <2>4. ended' \subseteq sent BY <1>1, <1>2 DEF Types
  <2> QED BY <1>1, <1>2, <2>1, <2>3, <2>4 DEF Types
<1>8. Limits'
  <2>1. \A r \in QueueId : Bytes(r)' = 0 BY <1>5, BytesOf, CountEmpty
  <2> QED BY <1>1, <2>1, Bounds DEF Limits
<1>9. Servers' BY <1>1, <1>2, <1>4 DEF Servers
<1>10. Clients' BY <1>1 DEF Clients
<1>11. Queues' BY <1>1, <1>5 DEF Queues
<1>12. \A r \in QueueId : \A c, k : ~Holds(r, c, k)' BY <1>5 DEF Holds
<1>13. Order' BY <1>12 DEF Order
<1>14. Texts'
  <2>1. ASSUME NEW c \in sent PROVE Kept(c)'
    <3>1. CASE c # d
      <4>1. d \in ended' \ {c} BY <1>1, <3>1
      <4>2. d \in Client BY <1>2 DEF Types
      <4> QED BY <3>1, <4>1, <4>2 DEF Kept
    <3>2. CASE c = d
      <4>1. Kept(c) BY DEF Texts
      <4>2. c \in Client BY DEF Types
      <4>3. \A r \in QueueId : ~Holds(r, c, "text") BY <1>6, <3>2, <4>2 DEF Order
      <4>4. \A t \in Server : ~Handles(t, c, "text") BY <1>1, <1>3 DEF Handles, Is
      <4> QED BY <1>1, <4>1, <4>3, <4>4 DEF Kept
    <3> QED BY <3>1, <3>2
  <2> QED BY <1>1, <2>1 DEF Texts
<1>15. Named' BY <1>1 DEF Named
<1> QED BY <1>7, <1>8, <1>9, <1>10, <1>11, <1>13, <1>14, <1>15

\* The end makes a POSIX server leave its loop.
LEMMA QuitInv == ASSUME Inv, NEW s \in Server, Quit(s) PROVE Inv'
<1> USE DEF Inv
<1> DEFINE d == buf[s][1]
<1>1. /\ api = "posix" /\ spc[s] = "handle" /\ buf[s][2] = "end" /\ ended' = ended \cup {d}
      /\ spc' = [spc EXCEPT ![s] = "unlink"]
      /\ UNCHANGED <<api, name, used, queue, sid, buf, cpc, cid, sent, shown, killed>>
  BY DEF Quit, Ended, clients
<1>2. /\ sid[s] \in 1..used /\ d \in sent /\ sid' = [sid EXCEPT ![s] = sid'[s]]
      /\ shown \subseteq sent
  BY <1>1 DEF Servers, Types
<1>3. EndOut(d) /\ Handles(s, d, "end") BY <1>1 DEF EndOut, Handles, Is
<1>4. d \in Client BY <1>2 DEF Types
<1> HIDE DEF d
<1>5. "unlink" \in {"recv", "unlink", "done"} OBVIOUS
<1>6. ended' \subseteq sent /\ ended \subseteq ended' /\ ended' # {} BY <1>1, <1>2 DEF Types
<1>7. /\ Types' /\ Limits' /\ Servers' /\ Clients' /\ Queues' /\ spc'[s] = "unlink"
      /\ \A t \in Server \ {s} : spc'[t] = spc[t] /\ sid'[t] = sid[t]
      /\ \A t \in Server : \A c, k : Handles(t, c, k)' <=> Handles(t, c, k) /\ t # s
      /\ \A r, c, k : Holds(r, c, k)' <=> Holds(r, c, k)
  BY <1>1, <1>2, <1>5, <1>6, ServerMoves
<1>8. Order'
  <2>1. \A c \in Client : EndOut(c)' => EndOut(c) BY <1>1, <1>3, <1>7 DEF EndOut
  <2> QED BY <1>7, <2>1 DEF Order
<1>9. Texts'
  <2>1. ASSUME NEW c \in sent PROVE Kept(c)'
    <3>1. CASE c # d BY <1>1, <1>4, <3>1 DEF Kept
    <3>2. CASE c = d
      <4>1. Kept(c) BY DEF Texts
      <4>2. \A r \in QueueId : ~Holds(r, c, "text") BY <1>3, <1>4, <3>2 DEF Order
      <4>3. ~Handles(s, c, "text") BY <1>1 DEF Handles, Is
      <4> QED BY <1>1, <1>7, <4>1, <4>2, <4>3 DEF Kept
    <3> QED BY <3>1, <3>2
  <2> QED BY <1>1, <2>1 DEF Texts
<1>10. Named' BY <1>1, <1>7 DEF Named
<1> QED BY <1>7, <1>8, <1>9, <1>10

\* The queue that has the name loses it, whoever reads that queue: what gets
\* lost so, gets lost to the end that told the server to stop.
LEMMA UnlinkInv == ASSUME Inv, NEW s \in Server, Unlink(s) PROVE Inv'
<1> USE DEF Inv
<1>1. /\ spc[s] = "unlink" /\ name' = 0 /\ spc' = [spc EXCEPT ![s] = "done"]
      /\ UNCHANGED <<api, used, queue, sid, buf, cpc, cid, sent, shown, ended, killed>>
  BY DEF Unlink, clients
<1>2. api = "posix" /\ ended # {} /\ used \in Nat BY <1>1 DEF Servers, Types
<1>3. spc'[s] = "done" /\ \A t \in Server \ {s} : spc'[t] = spc[t] BY <1>1 DEF Types
<1>4. Types'
  <2>1. used <= Cardinality(Started')
    <3>1. "done" \in {"recv", "handle", "unlink", "done"} OBVIOUS
    <3>2. Cardinality(Started) <= Cardinality(Started') /\ Cardinality(Started') \in Nat
      BY <1>1, <3>1, StartedGrows
    <3> QED BY <3>2, Bounds DEF Types
  <2> QED BY <1>1, <1>2, <2>1 DEF Types
<1>5. Limits' BY <1>1, LimitsFrame
<1>6. Servers'
  <2>1. \A t \in Server : spc'[t] \in {"recv", "handle", "unlink"} => spc[t] = spc'[t] BY <1>3
  <2> QED BY <1>1, <1>2, <2>1 DEF Servers
<1>7. Clients' BY <1>1 DEF Clients
<1>8. Queues' BY <1>1, <1>2 DEF Queues, Is
<1>9. \A t \in Server : \A c, k : Handles(t, c, k)' <=> Handles(t, c, k) BY <1>1, <1>3 DEF Handles, Is
<1>10. \A q, c, k : Holds(q, c, k)' <=> Holds(q, c, k) BY <1>1 DEF Holds, Is
<1>11. Order' BY <1>1, <1>9, <1>10 DEF Order, EndOut
<1>12. Texts'
  <2>1. ASSUME NEW c \in sent PROVE Kept(c)'
    <3>1. PICK e \in ended : TRUE BY <1>2
    <3>2. e \in Client /\ c \in Client BY DEF Types
    <3>3. CASE c # e BY <1>1, <3>2, <3>3 DEF Kept
    <3>4. CASE c = e
      <4>1. Kept(c) BY DEF Texts
      <4>2. \A q \in QueueId : ~Holds(q, c, "text") BY <3>2, <3>4 DEF Order, EndOut
      <4> QED BY <1>1, <1>9, <4>1, <4>2 DEF Kept
    <3> QED BY <3>3, <3>4
  <2> QED BY <1>1, <2>1 DEF Texts
<1>13. Named' BY <1>1 DEF Named
<1> QED BY <1>4, <1>5, <1>6, <1>7, <1>8, <1>11, <1>12, <1>13

LEMMA KillServerInv == ASSUME Inv, NEW s \in Server, KillServer(s) PROVE Inv'
<1> USE DEF Inv
<1>1. /\ spc' = [spc EXCEPT ![s] = "done"] /\ killed' = killed \cup {s}
      /\ UNCHANGED <<api, name, used, queue, sid, buf, cpc, cid, sent, shown, ended>>
  BY DEF KillServer, kernel, clients
<1>2. /\ sid' = [sid EXCEPT ![s] = sid'[s]] /\ shown \subseteq sent /\ ended \subseteq sent
      /\ killed' \subseteq killed \cup {s} /\ killed \subseteq killed'
  BY <1>1 DEF Types
<1>3. "done" \in {"recv", "unlink", "done"} OBVIOUS
<1>4. /\ Types' /\ Limits' /\ Servers' /\ Clients' /\ Queues'
      /\ \A t \in Server : \A c, k : Handles(t, c, k)' <=> Handles(t, c, k) /\ t # s
      /\ \A q, c, k : Holds(q, c, k)' <=> Holds(q, c, k)
  BY <1>1, <1>2, <1>3, ServerMoves
<1>5. Order' BY <1>1, <1>4 DEF Order, EndOut
<1>6. killed' \cap Server # {} BY <1>1
<1> QED BY <1>4, <1>5, <1>6 DEF Texts, Kept, Named

-----------------------------------------------------------------------------
(* The clients.                                                            *)

\* What a client does that leaves the queues alone.
LEMMA ClientMoves ==
    ASSUME Inv, NEW c \in Client, NEW place \in {"text", "end", "done"},
           cpc' = [cpc EXCEPT ![c] = place], cid' = [cid EXCEPT ![c] = cid'[c]],
           cid'[c] = cid[c] \/ (c \notin sent /\ cid'[c] = name),
           place = "text" => c \notin sent,
           place = "end" /\ cid'[c] # 0 => c \in sent,
           api = "sysv" /\ place \in Kind => cid'[c] # 0,
           UNCHANGED <<api, name, used, queue, spc, sid, buf, sent, shown, ended>>,
           killed \subseteq killed' /\ killed' \subseteq killed \cup {c}
    PROVE  Inv'
<1> USE DEF Inv
<1>1. /\ cpc'[c] = place
      /\ \A d \in Client \ {c} : cpc'[d] = cpc[d] /\ cid'[d] = cid[d]
  BY DEF Types
<1>2. Types'
  <2>1. Started' = Started BY DEF Started
  <2>2. cid' \in [Client -> 0..used] BY DEF Types
  <2>3. cpc' \in [Client -> {"idle", "text", "end", "done"}] BY DEF Types
  <2>4. killed' \subseteq Server \cup Client BY DEF Types
  <2> QED BY <2>1, <2>2, <2>3, <2>4 DEF Types
<1>3. Limits' BY LimitsFrame
<1>4. Servers' BY DEF Servers
<1>5. Clients' BY <1>1 DEF Clients
<1>6. \A d \in sent : cid'[d] = cid[d] BY <1>1 DEF Types
<1>7. Queues' BY <1>6 DEF Queues, Is
<1>8. \A t \in Server : \A d, k : Handles(t, d, k)' <=> Handles(t, d, k) BY DEF Handles, Is
<1>9. \A q, d, k : Holds(q, d, k)' <=> Holds(q, d, k) BY DEF Holds, Is
<1>10. Order' BY <1>8, <1>9 DEF Order, EndOut
<1>11. \A q : Served(q)' <=> Served(q) BY DEF Served, Reads
<1>12. killed \cap Server # {} => killed' \cap Server # {} OBVIOUS
<1>13. Texts' BY <1>8, <1>9, <1>11, <1>12 DEF Texts, Kept
<1>14. Named' BY <1>12 DEF Named
<1> QED BY <1>2, <1>3, <1>4, <1>5, <1>7, <1>10, <1>13, <1>14

\* msgget() or mq_open() of a client.
LEMMA AttachInv ==
    ASSUME Inv, NEW c \in Client, SysvAttach(c) \/ PosixAttach(c) PROVE Inv'
<1> USE DEF Inv
<1> DEFINE place == IF api = "sysv" /\ name = 0 THEN "done" ELSE "text"
<1>1. /\ cpc[c] = "idle" /\ cid' = [cid EXCEPT ![c] = name] /\ cpc' = [cpc EXCEPT ![c] = place]
      /\ UNCHANGED <<api, name, used, queue, spc, sid, buf, sent, shown, ended, killed>>
  BY DEF SysvAttach, PosixAttach, kernel, servers
<1>2. /\ place \in {"text", "end", "done"} /\ place # "end"
      /\ api = "sysv" /\ place \in Kind => name # 0
  BY DEF Kind
<1> HIDE DEF place
<1>3. cid'[c] = name /\ cid' = [cid EXCEPT ![c] = cid'[c]] BY <1>1 DEF Types
<1>4. c \notin sent BY <1>1 DEF Clients
<1> QED BY <1>1, <1>2, <1>3, <1>4, ClientMoves

\* msgsnd() or mq_send() that fails.
LEMMA FailInv == ASSUME Inv, NEW c \in Client, SysvFail(c) \/ PosixFail(c) PROVE Inv'
<1> USE DEF Inv
<1> DEFINE place == IF api = "sysv" THEN "done" ELSE After[cpc[c]]
<1>1. /\ cpc[c] \in Kind /\ ~Exists(cid[c]) /\ cpc' = [cpc EXCEPT ![c] = place]
      /\ UNCHANGED <<api, name, used, queue, spc, sid, buf, cid, sent, shown, ended, killed>>
  BY DEF SysvFail, PosixFail, FailTo, kernel, servers
<1>2. place \in {"end", "done"} BY <1>1 DEF Kind, After
<1>3. place = "end" => cid[c] = 0
  <2>1. api # "sysv" => cid[c] = 0 BY <1>1 DEF Exists
  <2> QED BY <2>1
<1>4. api = "sysv" => place \notin Kind BY DEF Kind
<1> HIDE DEF place
<1>5. cid' = [cid EXCEPT ![c] = cid'[c]] BY <1>1 DEF Types
<1> QED BY <1>1, <1>2, <1>3, <1>4, <1>5, ClientMoves

LEMMA KillClientInv == ASSUME Inv, NEW c \in Client, KillClient(c) PROVE Inv'
<1> USE DEF Inv
<1>1. /\ cpc' = [cpc EXCEPT ![c] = "done"] /\ killed' = killed \cup {c}
      /\ UNCHANGED <<api, name, used, queue, spc, sid, buf, cid, sent, shown, ended>>
  BY DEF KillClient, kernel, servers
<1>2. "done" \in {"text", "end", "done"} /\ "done" \notin Kind BY DEF Kind
<1>3. cid' = [cid EXCEPT ![c] = cid'[c]] BY <1>1 DEF Types
<1> QED BY <1>1, <1>2, <1>3, ClientMoves

\* A message comes after all that is in the queue.  A text that is put into a
\* queue without a name and without a server is lost to the end of a client
\* that has sent before.
LEMMA PutInv == ASSUME Inv, NEW c \in Client, Put(c) PROVE Inv'
<1> USE DEF Inv
<1>0. PICK q, k : q = cid[c] /\ k = cpc[c] OBVIOUS
<1> DEFINE m == <<c, k>>
           more == Append(queue[q], m)
           last == Len(queue[q]) + 1
<1>1. /\ k \in Kind /\ Exists(q) /\ Room(q, k) /\ queue' = [queue EXCEPT ![q] = more]
      /\ sent' = sent \cup {c} /\ cpc' = [cpc EXCEPT ![c] = After[k]]
      /\ UNCHANGED <<api, name, used, spc, sid, buf, cid, shown, ended, killed>>
  BY <1>0 DEF Put, servers
<1>2. /\ q \in 1..used /\ q \in QueueId /\ queue[q] \in Seq(Message) /\ m \in Message
      /\ m[1] = c /\ m[2] = k
      /\ api = "sysv" => q = name
  <2>1. q \in 0..used /\ used \in Nat BY <1>0 DEF Types
  <2>2. q # 0 /\ (api = "sysv" => q = name) BY <1>0, <1>1 DEF Exists, Clients
  <2>3. q \in 1..used BY <2>1, <2>2
  <2>4. m \in Message BY <1>1 DEF Message
  <2> QED BY <2>2, <2>3, <2>4, Bounds DEF Types
<1>3. /\ After[k] \in {"end", "done"} /\ (After[k] = "end" <=> k = "text") /\ k \in {"text", "end"}
  BY <1>1 DEF Kind, After
<1>4. /\ k = "text" => c \notin sent
      /\ k = "end" => c \in sent
  BY <1>0, <1>2, <1>3 DEF Clients
<1>m. \A d, kind : Is(m, d, kind) <=> d = c /\ kind = k BY DEF Is
<1> HIDE DEF m
<1>5. /\ more \in Seq(Message) /\ Len(more) = Len(queue[q]) + 1
      /\ \A i \in DOMAIN queue[q] : i \in DOMAIN more /\ more[i] = queue[q][i]
      /\ more[last] = m /\ last \in DOMAIN more
      /\ \A i \in DOMAIN more : i \in DOMAIN queue[q] \/ i = last
      /\ \A kind : Count(more, kind) = Count(queue[q], kind) + IF k = kind THEN 1 ELSE 0
  <2>1. /\ more \in Seq(Message) /\ Len(more) = Len(queue[q]) + 1
        /\ \A i \in DOMAIN queue[q] : i \in DOMAIN more /\ more[i] = queue[q][i]
        /\ more[last] = m
        /\ \A i \in DOMAIN more : i \in DOMAIN queue[q] \/ i = last
    BY <1>2, CountAppend
  <2>2. \A kind : Count(more, kind) = Count(queue[q], kind) + IF k = kind THEN 1 ELSE 0
    <3>1. ASSUME NEW kind
          PROVE  Count(more, kind) = Count(queue[q], kind) + IF m[2] = kind THEN 1 ELSE 0
      BY <1>2, CountAppend
    <3> HIDE DEF more
    <3> QED BY <1>2, <3>1
  <2>3. last \in DOMAIN more
    <3>1. Len(queue[q]) \in Nat BY <1>2
    <3> HIDE DEF more
    <3> QED BY <2>1, <3>1
  <2> QED BY <2>1, <2>2, <2>3
<1>6. \A i \in DOMAIN queue[q] : i \in Nat /\ i < last BY <1>2
<1> HIDE DEF more, last
<1>7. queue'[q] = more /\ \A r \in QueueId \ {q} : queue'[r] = queue[r] BY <1>1, <1>2 DEF Types
<1>8. /\ cpc'[c] = After[k] /\ \A d \in Client \ {c} : cpc'[d] = cpc[d]
      /\ sent \subseteq sent' /\ c \in sent' /\ \A d \in sent' : d = c \/ d \in sent
  BY <1>1 DEF Types
<1>9. Types'
  <2>1. Started' = Started BY <1>1 DEF Started
  <2>2. queue' \in [QueueId -> Seq(Message)] BY <1>1, <1>5 DEF Types
  <2>3. cpc' \in [Client -> {"idle", "text", "end", "done"}] BY <1>1, <1>3 DEF Types
  <2> QED BY <1>1, <2>1, <2>2, <2>3 DEF Types
<1>10. Limits'
  <2>1. ASSUME NEW r \in QueueId
        PROVE  IF api = "sysv" THEN Bytes(r)' <= MaxBytes ELSE Len(queue'[r]) <= MaxMsg
    <3>1. CASE r # q
      <4>1. queue'[r] = queue[r] BY <1>7, <3>1
      <4>2. Bytes(r)' = Bytes(r) BY <4>1, BytesOf
      <4> QED BY <4>1, <4>2 DEF Limits
    <3>2. CASE r = q
      <4>1. Bytes(q)' = Bytes(q) + Size(k)
        <5>1. /\ Bytes(q)' = Count(more, "text") * 13 + Count(more, "end") * 8192
              /\ Bytes(q) = Count(queue[q], "text") * 13 + Count(queue[q], "end") * 8192
          BY <1>7, BytesOf
        <5>2. Count(queue[q], "text") \in Nat /\ Count(queue[q], "end") \in Nat BY <1>2, CountNat
        <5>3. CASE k = "text"
          <6>1. Count(more, "text") = Count(queue[q], "text") + 1 /\ Count(more, "end") = Count(queue[q], "end")
            BY <1>5, <5>2, <5>3
          <6> QED BY <5>1, <5>2, <5>3, <6>1 DEF Size
        <5>4. CASE k = "end"
          <6>1. Count(more, "end") = Count(queue[q], "end") + 1 /\ Count(more, "text") = Count(queue[q], "text")
            BY <1>5, <5>2, <5>4
          <6> QED BY <5>1, <5>2, <5>4, <6>1 DEF Size
        <5> QED BY <1>3, <5>3, <5>4
      <4>2. Len(queue'[q]) = Len(queue[q]) + 1 /\ Len(queue[q]) \in Nat BY <1>2, <1>5, <1>7
      <4> QED BY <1>1, <3>2, <4>1, <4>2, Bounds DEF Room
    <3> QED BY <3>1, <3>2
  <2> QED BY <1>1, <2>1 DEF Limits
<1>11. Servers' BY <1>1, <1>8 DEF Servers
<1>12. Clients'
  <2>1. 0 \notin 1..used OBVIOUS
  <2> QED BY <1>0, <1>1, <1>2, <1>3, <1>8, <2>1 DEF Clients
\* Where what is in the queues now comes from.
<1>13. ASSUME NEW r \in QueueId, NEW i \in DOMAIN queue'[r]
       PROVE  \/ i \in DOMAIN queue[r] /\ queue'[r][i] = queue[r][i]
              \/ r = q /\ i = last /\ queue'[r][i] = m
  BY <1>5, <1>7
<1>14. Queues'
  <2>1. ASSUME NEW r \in QueueId, NEW i \in DOMAIN queue'[r]
        PROVE  queue'[r][i][1] \in sent' /\ cid[queue'[r][i][1]] = r
    <3>1. CASE i \in DOMAIN queue[r] /\ queue'[r][i] = queue[r][i] BY <1>8, <3>1 DEF Queues
    <3>2. CASE r = q /\ queue'[r][i] = m BY <1>0, <1>2, <1>8, <3>2
    <3> QED BY <1>13, <3>1, <3>2
  <2>2. ASSUME NEW r \in QueueId, NEW d \in Client, NEW i \in DOMAIN queue'[r], NEW j \in DOMAIN queue'[r],
               Is(queue'[r][i], d, "end"), Is(queue'[r][j], d, "text")
        PROVE  j < i
    <3>1. CASE i \in DOMAIN queue[r] /\ queue'[r][i] = queue[r][i]
      <4>1. d \in sent BY <2>2, <3>1 DEF Queues, Is
      <4>2. ~(r = q /\ j = last /\ queue'[r][j] = m) BY <1>m, <1>4, <2>2, <4>1
      <4>3. j \in DOMAIN queue[r] /\ queue'[r][j] = queue[r][j] BY <1>13, <4>2
      <4> QED BY <2>2, <3>1, <4>3 DEF Queues
    <3>2. CASE r = q /\ i = last /\ queue'[r][i] = m
      <4>1. queue'[r][j] # m BY <2>2, <3>2 DEF Is
      <4>2. j \in DOMAIN queue[r] BY <1>13, <4>1
      <4> QED BY <1>6, <3>2, <4>2
    <3> QED BY <1>13, <3>1, <3>2
  <2>3. \A r \in QueueId : api = "sysv" /\ r # name => queue'[r] = <<>>
    <3>1. \A r \in QueueId : api = "sysv" /\ r # name => queue[r] = <<>> /\ r # q
      BY <1>2 DEF Queues
    <3> QED BY <1>7, <3>1
  <2>4. \A r \in QueueId : r <= used /\ r # name => ended # {} BY DEF Queues
  <2>5. \A r \in QueueId : \A d \in Client, i, j \in DOMAIN queue'[r] :
          Is(queue'[r][i], d, "end") /\ Is(queue'[r][j], d, "text") => j < i
    BY <2>2
  <2> QED BY <1>1, <2>1, <2>3, <2>4, <2>5 DEF Queues, Is
<1>15. \A t \in Server : \A d, kind : Handles(t, d, kind)' <=> Handles(t, d, kind)
  BY <1>1 DEF Handles, Is
<1>16. \A d : EndOut(d)' <=> EndOut(d) BY <1>1, <1>15 DEF EndOut
<1>17. Order'
  <2>1. ASSUME NEW d \in Client, EndOut(d), NEW r \in QueueId, Holds(r, d, "text")' PROVE FALSE
    <3>1. d \in sent BY <2>1 DEF EndOut, Handles, Is, Servers, Types
    <3>2. PICK i \in DOMAIN queue'[r] : Is(queue'[r][i], d, "text") BY <2>1 DEF Holds, Is
    <3>3. queue'[r][i] # m BY <1>m, <1>4, <3>1, <3>2
    <3>4. i \in DOMAIN queue[r] /\ queue'[r][i] = queue[r][i] BY <1>13, <3>3
    <3> QED BY <2>1, <3>2, <3>4 DEF Order, Holds
  <2> QED BY <1>16, <2>1 DEF Order
<1>18. Texts'
  <2>1. \A r : Served(r)' <=> Served(r) BY <1>1 DEF Served, Reads
  <2>2. \A r \in QueueId : \A d : Holds(r, d, "text") => Holds(r, d, "text")'
    BY <1>5, <1>7 DEF Holds, Is
  <2>3. ASSUME NEW d \in sent PROVE Kept(d)'
    <3>1. Kept(d) BY DEF Texts
    <3> QED BY <1>1, <1>15, <2>1, <2>2, <3>1 DEF Kept, QueueId
  <2>4. ASSUME c \notin sent PROVE Kept(c)'
    <3>1. Holds(q, c, "text")'
      <4>1. Is(m, c, "text") BY <1>m, <1>3, <1>4, <2>4
      <4>2. last \in DOMAIN queue'[q] /\ queue'[q][last] = m BY <1>5, <1>7
      <4> QED BY <4>1, <4>2 DEF Holds, Is
    <3>2. CASE q = name BY <1>2, <2>1, <3>1, <3>2 DEF Kept, Served, QueueId
    <3>3. CASE q # name
      <4>1. ended # {} BY <1>2, <3>3 DEF Queues
      <4>2. PICK e \in ended : TRUE BY <4>1
      <4>3. e \in Client \ {c} /\ e \in ended' BY <1>1, <2>4 DEF Types
      <4> QED BY <4>3 DEF Kept
    <3> QED BY <3>2, <3>3
  <2> QED BY <1>8, <2>3, <2>4 DEF Texts
<1>19. Named' BY <1>1 DEF Named
<1> QED BY <1>9, <1>10, <1>11, <1>12, <1>14, <1>17, <1>18, <1>19

-----------------------------------------------------------------------------
(* All of them.                                                            *)

LEMMA StutterInv == ASSUME Inv, UNCHANGED vars PROVE Inv'
<1> USE DEF Inv
<1>1. UNCHANGED <<api, name, used, queue, spc, sid, buf, cpc, cid, sent, shown, ended, killed>>
  BY DEF vars, kernel, servers, clients
<1>2. Types' BY <1>1 DEF Types, Started
<1>3. Limits' BY <1>1, LimitsFrame
<1>4. Servers' /\ Clients' /\ Named' BY <1>1 DEF Servers, Clients, Named
<1>5. Queues' BY <1>1 DEF Queues, Is
<1>6. Order' BY <1>1 DEF Order, EndOut, Handles, Holds, Is
<1>7. Texts' BY <1>1 DEF Texts, Kept, Served, Reads, Handles, Holds, Is
<1> QED BY <1>2, <1>3, <1>4, <1>5, <1>6, <1>7

LEMMA InvNext == ASSUME Inv, [Next]_vars PROVE Inv'
<1>1. ASSUME NEW s \in Server, SysvOpen(s) \/ PosixOpen(s) \/ Serve(s) \/ KillServer(s) PROVE Inv'
  <2>1. CASE SysvOpen(s) \/ PosixOpen(s) BY <2>1, OpenInv
  <2>2. CASE Receive(s) BY <2>2, ReceiveInv
  <2>3. CASE ReceiveNothing(s) BY <2>3, ReceiveNothingInv
  <2>4. CASE Show(s) BY <2>4, ShowInv
  <2>5. CASE Rmid(s) BY <2>5, RmidInv
  <2>6. CASE Quit(s) BY <2>6, QuitInv
  <2>7. CASE Unlink(s) BY <2>7, UnlinkInv
  <2>8. CASE KillServer(s) BY <2>8, KillServerInv
  <2> QED BY <1>1, <2>1, <2>2, <2>3, <2>4, <2>5, <2>6, <2>7, <2>8 DEF Serve
<1>2. ASSUME NEW c \in Client, SysvAttach(c) \/ PosixAttach(c) \/ Write(c) \/ KillClient(c) PROVE Inv'
  <2>1. CASE SysvAttach(c) \/ PosixAttach(c) BY <2>1, AttachInv
  <2>2. CASE Put(c) BY <2>2, PutInv
  <2>3. CASE SysvFail(c) \/ PosixFail(c) BY <2>3, FailInv
  <2>4. CASE KillClient(c) BY <2>4, KillClientInv
  <2> QED BY <1>2, <2>1, <2>2, <2>3, <2>4 DEF Write
<1>3. CASE UNCHANGED vars BY <1>3, StutterInv
<1> QED BY <1>1, <1>2, <1>3 DEF Next

LEMMA InvAlways == Spec => []Inv
<1>1. Inv /\ [Next]_vars => Inv' BY InvNext
<1> QED BY <1>1, InitInv, PTL DEF Spec

\* A message is a client and a kind.
LEMMA MessageParts ==
    ASSUME NEW m \in Message, NEW c, NEW kind
    PROVE  m = <<c, kind>> <=> Is(m, c, kind)
<1>1. PICK d \in Client, k \in Kind : m = <<d, k>> BY DEF Message
<1> QED BY <1>1 DEF Is

\* Every variable has its type, and no queue is over its limit: however many
\* servers and clients share the queue of msg_server.c or posix_msg_server.c,
\* what is in it stays within msg_qbytes or mq_maxmsg.
THEOREM TypeCorrect == Spec => []TypeOK
<1>1. Inv => TypeOK
  <2> SUFFICES ASSUME Inv PROVE TypeOK OBVIOUS
  <2>1. Types /\ Limits BY DEF Inv
  <2>2. used \in 0..Cardinality(Server) BY <2>1, Bounds DEF Types
  <2> QED BY <2>1, <2>2 DEF Types, Limits, TypeOK
<1> QED BY <1>1, InvAlways, PTL

\* A text that the kernel has taken gets lost only to the end of another
\* client, whose server removes the queue of msg_server.c with all that is in
\* it or leaves that of posix_msg_server.c, or to the death of a server.
THEOREM LostToOthersCorrect == Spec => []LostToOthers
<1>1. Inv => LostToOthers
  <2> SUFFICES ASSUME Inv, NEW c \in Client, Lost(c)
               PROVE  killed \cap Server # {} \/ \E d \in Client \ {c} : d \in ended
    BY DEF LostToOthers
  <2>1. Types /\ Servers /\ Texts BY DEF Inv
  <2>2. c \in sent /\ c \notin shown BY DEF Lost
  <2>3. ~\E s \in Server : Handles(s, c, "text")
    <3>1. \A s \in Server : Handles(s, c, "text") => buf[s] = <<c, "text">>
      BY <2>1, MessageParts DEF Handles, Servers
    <3> QED BY <3>1 DEF Lost, Handles
  <2>4. ~\E q \in QueueId : Holds(q, c, "text") /\ Served(q)
    <3>1. ASSUME NEW q \in QueueId, Holds(q, c, "text") PROVE Contains(queue[q], <<c, "text">>)
      <4>1. PICK i \in DOMAIN queue[q] : Is(queue[q][i], c, "text") BY <3>1 DEF Holds
      <4>2. queue[q] \in Seq(Message) BY <2>1 DEF Types
      <4>3. queue[q][i] \in Message BY <4>2
      <4>4. queue[q][i] = <<c, "text">> BY <4>1, <4>3, MessageParts
      <4>5. i \in 1..Len(queue[q]) BY <4>2
      <4> QED BY <4>4, <4>5 DEF Contains
    <3> QED BY <3>1 DEF Lost, Served
  <2> QED BY <2>1, <2>2, <2>3, <2>4 DEF Texts, Kept
<1> QED BY <1>1, InvAlways, PTL

\* Nothing is left: a queue that has the key or name has a server that reads
\* it or is about to unlink it, unless a server was killed.
THEOREM NothingLeftCorrect == Spec => []NothingLeft
<1>1. Inv => NothingLeft BY DEF Inv, Named, NothingLeft, Running
<1> QED BY <1>1, InvAlways, PTL

-----------------------------------------------------------------------------
(* Both kinds of queue implement the service.                              *)

\* A client is past a message that it has sent.
Past(m) == cpc[m[1]] = "done" \/ (m[2] = "text" /\ cpc[m[1]] = "end")

\* No message is at two places: not twice in a queue, not in the hands of two
\* servers, and not in a hand and in a queue.
Once ==
    /\ \A q \in QueueId : \A i \in DOMAIN queue[q] :
         /\ Past(queue[q][i])
         /\ \A j \in DOMAIN queue[q] : queue[q][i] = queue[q][j] => i = j
    /\ \A s \in Server : spc[s] = "handle" =>
         /\ Past(buf[s])
         /\ \A q \in QueueId : \A i \in DOMAIN queue[q] : queue[q][i] # buf[s]
         /\ \A t \in Server : spc[t] = "handle" /\ buf[s] = buf[t] => t = s

\* Steps that send and take nothing: messages are only given up.
LEMMA OnceKept ==
    ASSUME Inv, Once, UNCHANGED buf,
           \A q \in QueueId : queue'[q] \in {queue[q], <<>>},
           \A t \in Server : spc'[t] = "handle" => spc[t] = "handle",
           \A m \in Message : Past(m) => Past(m)'
    PROVE  Once'
<1>1. \A q \in QueueId : \A i \in DOMAIN queue'[q] : i \in DOMAIN queue[q] /\ queue'[q] = queue[q]
  OBVIOUS
<1>2. \A q \in QueueId : \A i \in DOMAIN queue[q] : queue[q][i] \in Message
  <2>1. \A q \in QueueId : queue[q] \in Seq(Message) BY DEF Inv, Types
  <2> QED BY <2>1
<1>3. \A t \in Server : spc[t] = "handle" => buf[t] \in Message BY DEF Inv, Servers
<1>4. \A q \in QueueId : \A i \in DOMAIN queue'[q] :
        /\ Past(queue[q][i])'
        /\ \A j \in DOMAIN queue'[q] : queue'[q][i] = queue'[q][j] => i = j
  BY <1>1, <1>2 DEF Once, Past
<1>5. \A s \in Server : spc'[s] = "handle" =>
         /\ Past(buf[s])'
         /\ \A q \in QueueId : \A i \in DOMAIN queue'[q] : queue'[q][i] # buf[s]
         /\ \A t \in Server : spc'[t] = "handle" /\ buf[s] = buf[t] => t = s
  BY <1>1, <1>3 DEF Once, Past
<1> QED BY <1>4, <1>5 DEF Once, Past

\* A server puts down what it has in its hand, if anything.
LEMMA HandsAfter ==
    ASSUME Inv, Once, NEW s \in Server, NEW place, place # "handle",
           spc' = [spc EXCEPT ![s] = place], UNCHANGED buf
    PROVE  InHands' = IF spc[s] = "handle" THEN InHands \ {buf[s]} ELSE InHands
<1>1. /\ spc'[s] # "handle" /\ \A t \in Server \ {s} : spc'[t] = spc[t]
  BY DEF Inv, Types
<1>2. CASE spc[s] = "handle"
  <2>1. \A m \in Message : (\E t \in Server : spc'[t] = "handle" /\ buf[t] = m)
                             <=> (\E t \in Server : spc[t] = "handle" /\ buf[t] = m) /\ m # buf[s]
    BY <1>1, <1>2 DEF Once
  <2> QED BY <1>2, <2>1 DEF InHands
<1>3. CASE spc[s] # "handle"
  <2>1. \A m \in Message : (\E t \in Server : spc'[t] = "handle" /\ buf[t] = m)
                             <=> (\E t \in Server : spc[t] = "handle" /\ buf[t] = m)
    BY <1>1, <1>3
  <2> QED BY <1>3, <2>1 DEF InHands
<1> QED BY <1>2, <1>3

\* Who has a message in the hand has it in the service, too.
LEMMA InHand ==
    ASSUME Inv, NEW s \in Server, spc[s] = "handle"
    PROVE  buf[s] \in Message /\ buf[s] \in InHands /\ buf[s] = <<buf[s][1], buf[s][2]>>
<1>1. buf[s] \in Message BY DEF Inv, Servers
<1> QED BY <1>1 DEF InHands, Message

LEMMA SameQueues == ASSUME UNCHANGED queue PROVE UNCHANGED InQueues
BY DEF InQueues

LEMMA SameTurn == ASSUME UNCHANGED <<cpc, cid>> PROVE UNCHANGED Turn
BY DEF Turn

LEMMA SameActed == ASSUME UNCHANGED <<shown, ended>> PROVE UNCHANGED Acted
BY DEF Acted

LEMMA SameHands == ASSUME UNCHANGED <<spc, buf>> PROVE UNCHANGED InHands
BY DEF InHands

-----------------------------------------------------------------------------
\* A server that opens a queue, finds it gone, or unlinks it, does nothing
\* that the service knows of.
LEMMA QuietRefines ==
    ASSUME Inv, Once, NEW s \in Server,
           \/ SysvOpen(s) \/ PosixOpen(s) \/ ReceiveNothing(s) \/ Unlink(s)
    PROVE  Once' /\ UNCHANGED Service!vars
<1>1. PICK place \in {"recv", "done"} : spc' = [spc EXCEPT ![s] = place]
  BY DEF SysvOpen, PosixOpen, Create, ReceiveNothing, Unlink
<1>2. spc[s] # "handle" BY DEF SysvOpen, PosixOpen, Create, ReceiveNothing, Unlink
<1>3. UNCHANGED <<queue, buf, cpc, cid, shown, ended>>
  BY DEF SysvOpen, PosixOpen, Create, ReceiveNothing, Unlink, kernel, clients
<1>4. InHands' = InHands BY <1>1, <1>2, <1>3, HandsAfter
<1>5. \A t \in Server : spc'[t] = "handle" => spc[t] = "handle" BY <1>1 DEF Inv, Types
<1>6. \A m \in Message : Past(m) => Past(m)' BY <1>3 DEF Past
<1>7. Once' BY <1>3, <1>5, <1>6, OnceKept
<1> QED BY <1>3, <1>4, <1>7, SameQueues, SameTurn, SameActed DEF Service!vars

LEMMA ShowRefines ==
    ASSUME Inv, Once, NEW s \in Server, Show(s)
    PROVE  Once' /\ Service!Show(buf[s])
<1>1. /\ spc[s] = "handle" /\ buf[s][2] = "text" /\ shown' = shown \cup {buf[s][1]}
      /\ spc' = [spc EXCEPT ![s] = "recv"]
      /\ UNCHANGED <<queue, buf, cpc, cid, ended>>
  BY DEF Show, kernel, clients
<1>2. buf[s] \in Message /\ buf[s] \in InHands /\ buf[s] = <<buf[s][1], "text">> BY <1>1, InHand
<1>3. InHands' = InHands \ {buf[s]} BY <1>1, HandsAfter
<1>4. Acted' = Acted \cup {buf[s]} BY <1>1, <1>2 DEF Acted
<1>5. \A t \in Server : spc'[t] = "handle" => spc[t] = "handle" BY <1>1 DEF Inv, Types
<1>6. \A m \in Message : Past(m) => Past(m)' BY <1>1 DEF Past
<1>7. Once' BY <1>1, <1>5, <1>6, OnceKept
<1> QED BY <1>1, <1>2, <1>3, <1>4, <1>7, SameQueues, SameTurn DEF Service!Show, Service!Handle

\* The end removes the System V queue, and leaves the POSIX one as it is.
LEMMA EndRefines ==
    ASSUME Inv, Once, NEW s \in Server, Rmid(s) \/ Quit(s)
    PROVE  Once' /\ Service!Stop(buf[s])
<1>1. /\ spc[s] = "handle" /\ buf[s][2] = "end" /\ ended' = ended \cup {buf[s][1]}
      /\ UNCHANGED <<sid, buf, cpc, cid, shown>>
  BY DEF Rmid, Quit, Ended, clients
<1>2. PICK place \in {"recv", "unlink"} : spc' = [spc EXCEPT ![s] = place] BY DEF Rmid, Quit
<1>3. \A q \in QueueId : queue'[q] \in {queue[q], <<>>} BY DEF Rmid, Quit, Inv, Types
<1>4. buf[s] \in Message /\ buf[s] \in InHands /\ buf[s] = <<buf[s][1], "end">> BY <1>1, InHand
<1>5. InHands' = InHands \ {buf[s]} BY <1>1, <1>2, HandsAfter
<1>6. Acted' = Acted \cup {buf[s]} BY <1>1, <1>4 DEF Acted
<1>7. InQueues' \subseteq InQueues BY <1>3 DEF InQueues
<1>8. \A t \in Server : spc'[t] = "handle" => spc[t] = "handle" BY <1>2 DEF Inv, Types
<1>9. \A m \in Message : Past(m) => Past(m)' BY <1>1 DEF Past
<1>10. Once' BY <1>1, <1>3, <1>8, <1>9, OnceKept
<1> QED BY <1>1, <1>4, <1>5, <1>6, <1>7, <1>10, SameTurn DEF Service!Stop, Service!Handle

\* What a killed server had in its hand is lost, and nothing else.
LEMMA KillServerRefines ==
    ASSUME Inv, Once, NEW s \in Server, KillServer(s)
    PROVE  Once' /\ ((buf[s] \in Message /\ Service!Die(buf[s])) \/ UNCHANGED Service!vars)
<1>1. /\ spc' = [spc EXCEPT ![s] = "done"]
      /\ UNCHANGED <<queue, buf, cpc, cid, shown, ended>>
  BY DEF KillServer, kernel, clients
<1>2. InHands' = IF spc[s] = "handle" THEN InHands \ {buf[s]} ELSE InHands BY <1>1, HandsAfter
<1>3. \A t \in Server : spc'[t] = "handle" => spc[t] = "handle" BY <1>1 DEF Inv, Types
<1>4. \A m \in Message : Past(m) => Past(m)' BY <1>1 DEF Past
<1>5. Once' BY <1>1, <1>3, <1>4, OnceKept
<1>6. UNCHANGED <<Turn, InQueues, Acted>> BY <1>1, SameQueues, SameTurn, SameActed
<1> QED BY <1>2, <1>5, <1>6, InHand DEF Service!Die, Service!vars

-----------------------------------------------------------------------------
\* A client goes from its place to the next one.
LEMMA TurnAfter ==
    ASSUME Inv, NEW c \in Client, NEW place \in {"text", "end", "done"}, NEW q,
           cpc' = [cpc EXCEPT ![c] = place], cid' = [cid EXCEPT ![c] = q]
    PROVE  Turn' = [Turn EXCEPT ![c] = IF q = 0 THEN "done" ELSE place]
<1>1. cpc'[c] = place /\ cid'[c] = q BY DEF Inv, Types
<1>2. \A d \in Client \ {c} : cpc'[d] = cpc[d] /\ cid'[d] = cid[d] BY DEF Inv, Types
<1>3. \A d \in Client : Turn'[d] = IF d = c THEN IF q = 0 THEN "done" ELSE place ELSE Turn[d]
  BY <1>1, <1>2 DEF Turn
<1>4. Turn = [d \in Client |-> Turn[d]] /\ Turn' = [d \in Client |-> Turn'[d]] BY DEF Turn
<1> QED BY <1>3, <1>4

\* A client that gets no queue, an error or a signal gives up.
LEMMA GiveUpRefines ==
    ASSUME Inv, Once, NEW c \in Client,
           SysvAttach(c) \/ PosixAttach(c) \/ SysvFail(c) \/ PosixFail(c) \/ KillClient(c)
    PROVE  Once' /\ (Service!GiveUp(c) \/ UNCHANGED Service!vars)
<1>1. UNCHANGED <<api, queue, spc, buf, shown, ended>>
  BY DEF SysvAttach, PosixAttach, SysvFail, PosixFail, FailTo, KillClient, kernel, servers
<1>2. UNCHANGED <<InQueues, InHands, Acted>> BY <1>1, SameQueues, SameHands, SameActed
<1>3. /\ cpc[c] \in {"idle", "text", "end"}
      /\ cpc' = [cpc EXCEPT ![c] = cpc'[c]] /\ cid' = [cid EXCEPT ![c] = cid'[c]]
  BY DEF SysvAttach, PosixAttach, SysvFail, PosixFail, FailTo, KillClient, Kind, Inv, Types
<1>4. /\ cpc'[c] \in {"text", "end", "done"}
      /\ cpc[c] = "end" => cpc'[c] = "done"
      /\ cpc[c] # "idle" => cid'[c] = cid[c]
  BY DEF SysvAttach, PosixAttach, SysvFail, PosixFail, FailTo, KillClient, Kind, After, Inv, Types
<1>5. Turn' = [Turn EXCEPT ![c] = IF cid'[c] = 0 THEN "done" ELSE cpc'[c]]
  BY <1>3, <1>4, TurnAfter
<1>6. \A m \in Message : Past(m) => Past(m)'
  <2>1. \A d \in Client \ {c} : cpc'[d] = cpc[d] BY <1>3 DEF Inv, Types
  <2>2. \A m \in Message : m[1] \in Client BY DEF Message
  <2> QED BY <1>3, <1>4, <2>1, <2>2 DEF Past
<1>7. Once' BY <1>1, <1>6, OnceKept
<1>8. Turn[c] \in Service!Kind => IF cid'[c] = 0 THEN TRUE ELSE cpc'[c] \in {Turn[c], "done"}
  BY DEF SysvAttach, PosixAttach, SysvFail, PosixFail, FailTo, KillClient, Kind, After, Turn, Service!Kind,
         Exists, Inv, Types
<1>9. Turn \in [Client -> {"text", "end", "done"}] BY DEF Turn, Inv, Types
<1>10. Turn[c] \notin Service!Kind => cid'[c] = 0
  BY <1>3, <1>4, <1>9 DEF Turn, Service!Kind, Inv, Types
<1>11. CASE Turn' = Turn BY <1>2, <1>7, <1>11 DEF Service!vars
<1>12. CASE Turn' # Turn
  <2>1. Turn[c] \in Service!Kind
    <3>1. SUFFICES ASSUME Turn[c] \notin Service!Kind PROVE Turn' = Turn BY <1>12
    <3>2. Turn[c] = "done" BY <1>9, <3>1 DEF Service!Kind
    <3> QED BY <1>5, <1>9, <1>10, <3>1, <3>2
  <2>2. Turn' = [Turn EXCEPT ![c] = "done"]
    <3>1. (IF cid'[c] = 0 THEN "done" ELSE cpc'[c]) \in {Turn[c], "done"} BY <1>8, <2>1
    <3> QED BY <1>5, <1>9, <1>12, <3>1
  <2> QED BY <1>2, <1>7, <2>1, <2>2 DEF Service!GiveUp
<1> QED BY <1>11, <1>12

\* The first message of a queue is in no other place, and its client's text
\* does not come after it.
LEMMA ReceiveRefines ==
    ASSUME Inv, Once, NEW s \in Server, Receive(s)
    PROVE  Once' /\ \E m \in Message : Service!Take(m)
<1> DEFINE q == sid[s]
           m == queue[q][1]
           rest == RemoveAt(queue[q], 1)
<1>1. /\ spc[s] = "recv" /\ queue[q] # <<>>
      /\ buf' = [buf EXCEPT ![s] = m] /\ queue' = [queue EXCEPT ![q] = rest]
      /\ spc' = [spc EXCEPT ![s] = "handle"]
      /\ UNCHANGED <<cpc, cid, shown, ended>>
  BY DEF Receive, ReceiveAt, clients
<1>2. q \in QueueId /\ queue[q] \in Seq(Message) BY <1>1, Bounds DEF Inv, Types, Servers
<1>3. /\ rest \in Seq(Message) /\ m \in Message /\ 1 \in DOMAIN queue[q]
      /\ \A i \in DOMAIN rest : i + 1 \in DOMAIN queue[q] /\ rest[i] = queue[q][i + 1] /\ i + 1 # 1
      /\ \A i \in DOMAIN queue[q] \ {1} : i - 1 \in DOMAIN rest /\ rest[i - 1] = queue[q][i]
  <2>1. /\ rest \in Seq(Message) /\ m \in Message /\ 1 \in DOMAIN queue[q]
        /\ \A i \in DOMAIN rest : i + 1 \in DOMAIN queue[q] /\ rest[i] = queue[q][i + 1]
        /\ \A i \in DOMAIN queue[q] \ {1} : i - 1 \in DOMAIN rest
    BY <1>1, <1>2, CountTail
  <2>2. DOMAIN rest \subseteq Nat \ {0} /\ DOMAIN queue[q] \subseteq Nat BY <1>2, <2>1
  <2>3. \A i \in DOMAIN rest : i + 1 # 1 BY <2>2
  <2>4. \A i \in DOMAIN queue[q] \ {1} : rest[i - 1] = queue[q][i]
    <3>1. TAKE i \in DOMAIN queue[q] \ {1}
    <3>2. rest[i - 1] = queue[q][i - 1 + 1] BY <2>1
    <3>3. i - 1 + 1 = i BY <2>2
    <3> QED BY <3>2, <3>3
  <2> QED BY <2>1, <2>3, <2>4
<1>4. queue'[q] = rest /\ \A r \in QueueId \ {q} : queue'[r] = queue[r]
  BY <1>1, <1>2 DEF Inv, Types
<1>5. /\ spc'[s] = "handle" /\ buf'[s] = m
      /\ \A t \in Server \ {s} : spc'[t] = spc[t] /\ buf'[t] = buf[t]
  BY <1>1 DEF Inv, Types
<1>6. \A r \in QueueId : \A i \in DOMAIN queue[r] : cid[queue[r][i][1]] = r BY DEF Inv, Queues
<1>7. /\ cid[m[1]] = q
      /\ \A r \in QueueId : \A i \in DOMAIN queue[r] : queue[r][i] = m => r = q /\ i = 1
  <2>1. cid[m[1]] = q BY <1>2, <1>3, <1>6
  <2>2. \A i \in DOMAIN queue[q] : queue[q][i] = m => i = 1 BY <1>2, <1>3 DEF Once
  <2> HIDE DEF m, q
  <2>3. \A r \in QueueId : \A i \in DOMAIN queue[r] : queue[r][i] = m => r = q BY <1>6, <2>1
  <2> QED BY <2>1, <2>2, <2>3
<1>8. m[2] = "end" => <<m[1], "text">> \notin InQueues
  <2>1. SUFFICES ASSUME m[2] = "end", NEW r \in QueueId, NEW i \in DOMAIN queue[r],
                        queue[r][i] = <<m[1], "text">>
                 PROVE  FALSE
    BY DEF InQueues
  <2>2. r = q
    <3>1. cid[queue[r][i][1]] = r BY <1>6, <2>1
    <3>2. queue[r][i][1] = m[1] BY <2>1
    <3> HIDE DEF m, q
    <3> QED BY <1>7, <3>1, <3>2
  <2>3. m[1] \in Client BY <1>3 DEF Message
  <2>4. Is(queue[q][1], m[1], "end") /\ Is(queue[q][i], m[1], "text") BY <2>1, <2>2 DEF Is
  <2>5. i < 1 BY <1>2, <1>3, <2>1, <2>2, <2>3, <2>4 DEF Inv, Queues
  <2> QED BY <1>2, <2>1, <2>2, <2>5
<1> HIDE DEF q, m, rest
\* Where what is in the queues now was before.
<1>9. \A r \in QueueId : \A i \in DOMAIN queue'[r] :
        \E n \in DOMAIN queue[r] : /\ queue'[r][i] = queue[r][n] /\ queue[r][n] # m
                                   /\ n = IF r = q THEN i + 1 ELSE i
  BY <1>3, <1>4, <1>7
<1>10. InQueues' = InQueues \ {m}
  <2>1. \A x \in Message : x \in InQueues' => x \in InQueues /\ x # m BY <1>9 DEF InQueues
  <2>2. ASSUME NEW x \in Message, x \in InQueues, x # m PROVE x \in InQueues'
    <3>1. PICK r \in QueueId : \E i \in DOMAIN queue[r] : queue[r][i] = x BY <2>2 DEF InQueues
    <3>2. PICK i \in DOMAIN queue[r] : queue[r][i] = x BY <3>1
    <3>3. CASE r # q BY <1>4, <3>2, <3>3 DEF InQueues
    <3>4. CASE r = q
      <4>1. i # 1 BY <2>2, <3>2, <3>4 DEF m
      <4>2. i - 1 \in DOMAIN queue'[r] /\ queue'[r][i - 1] = x BY <1>3, <1>4, <3>2, <3>4, <4>1
      <4> QED BY <4>2 DEF InQueues
    <3> QED BY <3>3, <3>4
  <2> QED BY <2>1, <2>2 DEF InQueues
<1>11. InHands' = InHands \cup {m}
  <2>1. \A x \in Message : x \in InHands' <=> x \in InHands \/ x = m BY <1>1, <1>5 DEF InHands
  <2> QED BY <1>3, <2>1 DEF InHands
<1>12. m \in InQueues BY <1>2, <1>3 DEF InQueues, m
<1>13. Service!Take(m) BY <1>1, <1>8, <1>10, <1>11, <1>12, SameTurn, SameActed DEF Service!Take
<1>14. \A x : Past(x)' <=> Past(x) BY <1>1 DEF Past
<1>15. ASSUME NEW r \in QueueId, NEW i \in DOMAIN queue'[r]
       PROVE  /\ Past(queue[r][i])'
              /\ \A j \in DOMAIN queue'[r] : queue'[r][i] = queue'[r][j] => i = j
  <2>1. PICK n \in DOMAIN queue[r] : /\ queue'[r][i] = queue[r][n]
                                     /\ n = IF r = q THEN i + 1 ELSE i
    BY <1>9
  <2>2. Past(queue[r][i])' BY <1>1, <2>1 DEF Once, Past
  <2>3. ASSUME NEW j \in DOMAIN queue'[r], queue'[r][i] = queue'[r][j] PROVE i = j
    <3>1. PICK k \in DOMAIN queue[r] : /\ queue'[r][j] = queue[r][k]
                                       /\ k = IF r = q THEN j + 1 ELSE j
      BY <1>9
    <3>2. n = k BY <2>1, <2>3, <3>1 DEF Once
    <3>3. r = q => i \in Nat /\ j \in Nat BY <1>3, <1>4
    <3> QED BY <2>1, <3>1, <3>2, <3>3
  <2> QED BY <2>2, <2>3
<1>16. ASSUME NEW t \in Server, spc'[t] = "handle"
       PROVE  /\ Past(buf[t])'
              /\ \A r \in QueueId : \A i \in DOMAIN queue'[r] : queue'[r][i] # buf'[t]
              /\ \A u \in Server : spc'[u] = "handle" /\ buf'[t] = buf'[u] => u = t
  <2>1. CASE t = s
    <3>1. Past(buf[t])' BY <1>1, <1>2, <1>3, <1>5, <2>1 DEF Once, Past, m
    <3>2. \A u \in Server \ {s} : spc[u] = "handle" => buf[u] # m BY <1>2, <1>3 DEF Once, m
    <3> QED BY <1>5, <1>9, <2>1, <3>1, <3>2
  <2>2. CASE t # s
    <3>1. spc[t] = "handle" /\ buf'[t] = buf[t] BY <1>5, <1>16, <2>2
    <3>2. Past(buf[t])' BY <1>1, <3>1 DEF Once, Past
    <3>3. \A r \in QueueId : \A i \in DOMAIN queue'[r] : queue'[r][i] # buf'[t] BY <1>9, <3>1 DEF Once
    <3>4. buf[t] # m BY <1>2, <1>3, <3>1 DEF Once, m
    <3> QED BY <1>5, <3>1, <3>2, <3>3, <3>4 DEF Once
  <2> QED BY <2>1, <2>2
<1>17. Once' BY <1>15, <1>16 DEF Once
<1> QED BY <1>3, <1>13, <1>17

\* A message that a client sends has been nowhere before.
LEMMA PutRefines ==
    ASSUME Inv, Once, NEW c \in Client, Put(c)
    PROVE  Once' /\ Service!Send(c)
<1>0. PICK q, k : q = cid[c] /\ k = cpc[c] OBVIOUS
<1> DEFINE m == <<c, k>>
           last == Len(queue[q]) + 1
<1>1. /\ k \in Kind /\ Exists(q) /\ queue' = [queue EXCEPT ![q] = Append(queue[q], m)]
      /\ cpc' = [cpc EXCEPT ![c] = After[k]]
      /\ UNCHANGED <<spc, buf, cid, shown, ended>>
  BY <1>0 DEF Put, servers
<1>2. /\ q # 0 /\ q \in QueueId /\ queue[q] \in Seq(Message)
  <2>1. q \in 0..used /\ used \in Nat BY <1>0 DEF Inv, Types
  <2>2. q # 0 BY <1>0, <1>1 DEF Exists, Inv, Clients
  <2>3. q \in 1..used BY <2>1, <2>2
  <2> QED BY <2>2, <2>3, Bounds DEF Inv, Types
<1>3. m \in Message BY <1>1 DEF Message
<1>4. /\ \A i \in DOMAIN queue[q] : i \in DOMAIN queue'[q] /\ queue'[q][i] = queue[q][i]
      /\ queue'[q][last] = m /\ last \in DOMAIN queue'[q]
      /\ \A i \in DOMAIN queue'[q] : i \in DOMAIN queue[q] \/ i = last
      /\ \A r \in QueueId \ {q} : queue'[r] = queue[r]
  <2>1. queue'[q] = Append(queue[q], m) /\ \A r \in QueueId \ {q} : queue'[r] = queue[r]
    BY <1>1, <1>2 DEF Inv, Types
  <2>2. /\ \A i \in DOMAIN queue[q] : i \in DOMAIN Append(queue[q], m)
                                      /\ Append(queue[q], m)[i] = queue[q][i]
        /\ Append(queue[q], m)[last] = m
        /\ \A i \in DOMAIN Append(queue[q], m) : i \in DOMAIN queue[q] \/ i = last
    BY <1>2, <1>3, CountAppend
  <2>3. last \in DOMAIN Append(queue[q], m) BY <1>2, <1>3
  <2> QED BY <2>1, <2>2, <2>3
<1>5. /\ ~Past(m) /\ Past(m)'
      /\ \A x \in Message : Past(x) => Past(x)'
  <2>1. cpc'[c] = After[k] /\ \A d \in Client \ {c} : cpc'[d] = cpc[d] BY <1>1 DEF Inv, Types
  <2>2. \A x \in Message : x[1] \in Client BY DEF Message
  <2> QED BY <1>0, <1>1, <2>1, <2>2 DEF Past, Kind, After
<1>6. /\ \A r \in QueueId : \A i \in DOMAIN queue[r] : queue[r][i] # m /\ queue[r][i] \in Message
      /\ \A t \in Server : spc[t] = "handle" => buf[t] # m /\ buf[t] \in Message
  <2>1. \A r \in QueueId : \A i \in DOMAIN queue[r] : queue[r][i] \in Message
    <3>1. \A r \in QueueId : queue[r] \in Seq(Message) BY DEF Inv, Types
    <3> QED BY <3>1
  <2>2. \A t \in Server : spc[t] = "handle" => buf[t] \in Message BY DEF Inv, Servers
  <2>3. \A r \in QueueId : \A i \in DOMAIN queue[r] : Past(queue[r][i]) BY DEF Once
  <2>4. \A t \in Server : spc[t] = "handle" => Past(buf[t]) BY DEF Once
  <2> HIDE DEF m
  <2> QED BY <1>5, <2>1, <2>2, <2>3, <2>4
<1>7. Turn[c] = k /\ Turn[c] \in Service!Kind BY <1>0, <1>1, <1>2 DEF Turn, Kind, Service!Kind
<1>8. Turn' = [Turn EXCEPT ![c] = Service!Following[Turn[c]]]
  <2>1. After[k] = Service!Following[Turn[c]] /\ After[k] \in {"text", "end", "done"}
    BY <1>1, <1>7 DEF After, Service!Following, Kind
  <2>2. cid' = [cid EXCEPT ![c] = q] BY <1>0, <1>1 DEF Inv, Types
  <2>3. Turn' = [Turn EXCEPT ![c] = After[k]] BY <1>1, <1>2, <2>1, <2>2, TurnAfter
  <2> QED BY <2>1, <2>3
<1> HIDE DEF m, last
<1>9. InQueues' = InQueues \cup {m}
  <2>1. \A x \in Message : x \in InQueues' => x \in InQueues \/ x = m
    <3>1. \A r \in QueueId : \A i \in DOMAIN queue'[r] :
            queue'[r][i] = m \/ (i \in DOMAIN queue[r] /\ queue'[r][i] = queue[r][i])
      BY <1>4
    <3> QED BY <3>1 DEF InQueues
  <2>2. \A x \in Message : x \in InQueues => x \in InQueues' BY <1>4 DEF InQueues
  <2>3. m \in InQueues' BY <1>2, <1>3, <1>4 DEF InQueues
  <2> QED BY <2>1, <2>2, <2>3 DEF InQueues
<1>10. Service!Send(c)
  <2>1. m = <<c, Turn[c]>> BY <1>7 DEF m
  <2> QED BY <1>1, <1>7, <1>8, <1>9, <2>1, SameHands, SameActed DEF Service!Send
<1>11. ASSUME NEW r \in QueueId, NEW i \in DOMAIN queue'[r]
       PROVE  /\ Past(queue[r][i])'
              /\ \A j \in DOMAIN queue'[r] : queue'[r][i] = queue'[r][j] => i = j
  <2>1. \A j \in DOMAIN queue'[r] :
          \/ j \in DOMAIN queue[r] /\ queue'[r][j] = queue[r][j] /\ queue[r][j] # m
          \/ r = q /\ j = last /\ queue'[r][j] = m
    BY <1>4, <1>6
  <2>2. Past(queue[r][i])'
    <3>1. CASE i \in DOMAIN queue[r] /\ queue'[r][i] = queue[r][i]
      <4>1. Past(queue[r][i]) BY <3>1 DEF Once
      <4> QED BY <1>5, <1>6, <3>1, <4>1 DEF Past
    <3>2. CASE queue'[r][i] = m BY <1>5, <3>2 DEF Past, m
    <3> QED BY <2>1, <3>1, <3>2
  <2>3. \A j \in DOMAIN queue'[r] : queue'[r][i] = queue'[r][j] => i = j BY <2>1 DEF Once
  <2> QED BY <2>2, <2>3
<1>12. ASSUME NEW t \in Server, spc'[t] = "handle"
       PROVE  /\ Past(buf[t])'
              /\ \A r \in QueueId : \A i \in DOMAIN queue'[r] : queue'[r][i] # buf'[t]
              /\ \A u \in Server : spc'[u] = "handle" /\ buf'[t] = buf'[u] => u = t
  <2>1. spc[t] = "handle" /\ buf[t] # m /\ buf[t] \in Message BY <1>1, <1>6, <1>12
  <2>2. Past(buf[t])' BY <1>1, <1>5, <2>1 DEF Once, Past
  <2>3. \A r \in QueueId : \A i \in DOMAIN queue'[r] :
          queue'[r][i] = m \/ (i \in DOMAIN queue[r] /\ queue'[r][i] = queue[r][i])
    BY <1>4
  <2> QED BY <1>1, <2>1, <2>2, <2>3 DEF Once
<1>13. Once' BY <1>11, <1>12 DEF Once
<1> QED BY <1>10, <1>13

LEMMA InitRefines == ASSUME Init PROVE Once /\ Service!Init
<1>1. Once BY DEF Init, Once
<1>2. Turn = [c \in Client |-> "text"] BY DEF Init, Turn
<1>3. InQueues = {} /\ InHands = {} /\ Acted = {} BY DEF Init, InQueues, InHands, Acted
<1> QED BY <1>1, <1>2, <1>3 DEF Service!Init

LEMMA StutterRefines == ASSUME Once, UNCHANGED vars PROVE Once' /\ UNCHANGED Service!vars
<1>1. UNCHANGED <<queue, spc, buf, cpc, cid, shown, ended>>
  BY DEF vars, kernel, servers, clients
<1>2. Once' BY <1>1 DEF Once, Past
<1> QED BY <1>1, <1>2, SameQueues, SameHands, SameTurn, SameActed DEF Service!vars

LEMMA NextRefines ==
    ASSUME Inv, Once, [Next]_vars
    PROVE  Once' /\ [Service!Next]_(Service!vars)
<1> DEFINE Goal == Once' /\ [Service!Next]_(Service!vars)
<1>m. Message = Service!Message BY DEF Message, Service!Message, Kind, Service!Kind
<1>1. ASSUME NEW s \in Server, SysvOpen(s) \/ PosixOpen(s) \/ Serve(s) \/ KillServer(s) PROVE Goal
  <2>1. CASE SysvOpen(s) \/ PosixOpen(s) \/ ReceiveNothing(s) \/ Unlink(s) BY <2>1, QuietRefines
  <2>2. CASE Receive(s) BY <1>m, <2>2, ReceiveRefines DEF Service!Next
  <2>3. CASE Show(s)
    <3>1. buf[s] \in Service!Message BY <1>m, <2>3, InHand DEF Show
    <3> QED BY <2>3, <3>1, ShowRefines DEF Service!Next
  <2>4. CASE Rmid(s) \/ Quit(s)
    <3>1. buf[s] \in Service!Message BY <1>m, <2>4, InHand DEF Rmid, Quit, Ended
    <3> QED BY <2>4, <3>1, EndRefines DEF Service!Next
  <2>5. CASE KillServer(s) BY <1>m, <2>5, KillServerRefines DEF Service!Next
  <2> QED BY <1>1, <2>1, <2>2, <2>3, <2>4, <2>5 DEF Serve
<1>2. ASSUME NEW c \in Client, SysvAttach(c) \/ PosixAttach(c) \/ Write(c) \/ KillClient(c) PROVE Goal
  <2>1. CASE Put(c) BY <2>1, PutRefines DEF Service!Next
  <2>2. CASE SysvAttach(c) \/ PosixAttach(c) \/ SysvFail(c) \/ PosixFail(c) \/ KillClient(c)
    BY <2>2, GiveUpRefines DEF Service!Next
  <2> QED BY <1>2, <2>1, <2>2 DEF Write
<1>3. CASE UNCHANGED vars BY <1>3, StutterRefines
<1> QED BY <1>1, <1>2, <1>3 DEF Next

\* Both kinds of queue implement the service: whatever msg_server.c and
\* posix_msg_server.c remove, unlink, take over or leave behind, a message is
\* taken by one server at most, after the one its client has sent before, and
\* gets lost only to an end or with the server that has taken it.
THEOREM ImplementsCorrect == Spec => Implements
<1>1. Init => Once /\ Service!Init BY InitRefines
<1>2. Inv /\ Once /\ [Next]_vars => Once' /\ [Service!Next]_(Service!vars) BY NextRefines
<1> QED BY <1>1, <1>2, InvAlways, PTL DEF Spec, Implements, Service!Spec
=============================================================================
