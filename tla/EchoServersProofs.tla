------------------------- MODULE EchoServersProofs -------------------------
(***************************************************************************)
(* Proofs about EchoServers, for any set of clients and descriptors, any   *)
(* number of lines and any number of faults: the types, what               *)
(* select_server.c and epoll_server.c count, that each of the three TCP    *)
(* servers implements EchoService, and what keeps a client of udp_server.c *)
(* in step.  First come the steps of EchoConn, which are those of the TCP  *)
(* servers, then each server.                                              *)
(***************************************************************************)
EXTENDS EchoServers, SequenceTheorems, FiniteSetTheorems, TLAPS

\* The descriptors that are connections.
Used == {f \in Fd : fds[f] # Free}

\* A connection is in the queue once or under one descriptor, and nothing has
\* been sent to a client whose connection the server has not closed.
Line ==
    \A k \in 1..Len(queue) :
      /\ cst[queue[k]] = "queued"
      /\ \A j \in 1..Len(queue) : queue[k] = queue[j] => j = k

Table ==
    /\ IsFiniteSet(Used)
    /\ \A f \in Used : /\ cst[fds[f]] = "accepted"
                       /\ \A g \in Fd : fds[g] = fds[f] => g = f

Waiting == Up => \A c \in Client : cst[c] # "accepted" \/ Open(c) => got[c] = "none"

\* The server is about to write what it has read.
Serving == spc \in {"echo", "write"}

\* One client is read at a time, and while it is open mesg holds its text; a
\* client whose connection was closed on it has received something.
Heard ==
    /\ \A c \in Client : taken[c] <= sent[c] /\ (cst[c] # "accepted" => taken[c] = 0)
    /\ \A f \in Used : taken[fds[f]] > 0 => Serving /\ mesg = fds[f]
    /\ Up => \A c \in Client : cst[c] = "accepted" /\ c \notin left => Open(c) \/ got[c] # "none"

NetInv == ConnTypeOK /\ Line /\ Table /\ Waiting /\ Heard

\* mesg begins with a q only if it holds the text of a client.
QuitRead == mesg # "q" /\ (mesg \in Client => taken[mesg] > 0)

\* What a client may receive.
Gift == Client \cup Filler \cup {"none", "lost"}

-----------------------------------------------------------------------------
(* The client's steps.                                                     *)

LEMMA PeerFrame ==
    ASSUME NEW c \in Client, Peer(c)
    PROVE  UNCHANGED <<text, taken, fds, mesg, spc>> /\ left \subseteq left'
BY DEF Peer, Connect, Send, Leave

\* A reset of c reaches nobody else, and is the loss of c's connection.
LEMMA ResetOne ==
    ASSUME ConnTypeOK, NEW c \in Client, Reset(c)
    PROVE  /\ got' \in [Client -> Gift] /\ got'[c] # "none"
           /\ \A d \in Client \ {c} : got'[d] = got[d]
           /\ got' = got \/ Echo!Lost({c})
<1>1. got \in [Client -> Gift] BY DEF ConnTypeOK, Gift
<1>2. PICK g \in {got[c], "lost"} \ {"none"} : got' = [got EXCEPT ![c] = g]
  BY DEF Reset
<1>3. CASE g = got[c] BY <1>1, <1>2, <1>3
<1>4. CASE g = "lost"
  <2>1. got' = [d \in Client |-> IF d \in {c} THEN "lost" ELSE got[d]]
    BY <1>1, <1>2, <1>4
  <2> QED BY <1>1, <1>2, <1>4, <2>1 DEF Echo!Lost, Gift
<1> QED BY <1>2, <1>3, <1>4

LEMMA ConnectNet == ASSUME NetInv, NEW c \in Client, Connect(c) PROVE NetInv'
<1>1. /\ cst[c] = "idle" /\ cst' = [cst EXCEPT ![c] = "queued"] /\ queue' = Append(queue, c)
      /\ UNCHANGED <<text, sent, taken, left, got, fds, mesg, spc>>
  BY DEF Connect
<1>2. ConnTypeOK BY DEF NetInv
<1>3. ConnTypeOK' BY <1>1, <1>2, AppendProperties DEF ConnTypeOK
<1>4. Line'
  <2>1. /\ Len(queue') = Len(queue) + 1 /\ Len(queue) \in Nat
        /\ \A k \in 1..Len(queue) : queue'[k] = queue[k] /\ queue[k] \in Client
        /\ queue'[Len(queue) + 1] = c
    BY <1>1, <1>2, AppendProperties DEF ConnTypeOK
  <2>2. \A k \in 1..Len(queue) : queue'[k] # c /\ cst[queue'[k]] = "queued"
    BY <1>1, <2>1 DEF NetInv, Line
  <2>3. \A k \in 1..Len(queue') : k \in 1..Len(queue) \/ k = Len(queue) + 1
    BY <2>1
  <2>4. \A k \in 1..Len(queue') : cst'[queue'[k]] = "queued"
    BY <1>1, <1>2, <2>1, <2>2, <2>3 DEF ConnTypeOK
  <2>5. ASSUME NEW k \in 1..Len(queue'), NEW j \in 1..Len(queue'), queue'[k] = queue'[j]
        PROVE  j = k
    <3>1. CASE k \in 1..Len(queue) /\ j \in 1..Len(queue)
      BY <2>1, <2>5, <3>1 DEF NetInv, Line
    <3>2. CASE k = Len(queue) + 1 \/ j = Len(queue) + 1
      BY <2>1, <2>2, <2>3, <2>5, <3>2
    <3> QED BY <2>3, <3>1, <3>2
  <2> QED BY <2>4, <2>5 DEF Line
<1>5. Table' BY <1>1, <1>2 DEF NetInv, Table, Used, ConnTypeOK
<1>6. Waiting' BY <1>1, <1>2 DEF NetInv, Waiting, Open, Up, ConnTypeOK
<1>7. Heard'
  <2>1. \A d \in Client : cst'[d] = cst[d] \/ (d = c /\ cst'[d] = "queued") BY <1>1, <1>2 DEF ConnTypeOK
  <2>2. Used' = Used BY <1>1 DEF Used
  <2> QED BY <1>1, <2>1, <2>2 DEF NetInv, Heard, Serving, Open, Up
<1> QED BY <1>3, <1>4, <1>5, <1>6, <1>7 DEF NetInv

LEMMA SendNet == ASSUME NetInv, NEW c \in Client, Send(c) PROVE NetInv'
<1>1. /\ sent[c] < 2 /\ sent' = [sent EXCEPT ![c] = @ + 1]
      /\ IF ~Up \/ (cst[c] = "accepted" /\ ~Open(c)) THEN Reset(c) ELSE UNCHANGED got
      /\ UNCHANGED <<text, cst, queue, taken, left, fds, mesg, spc>>
  BY DEF Send
<1>2. ConnTypeOK BY DEF NetInv
<1>3. sent' \in [Client -> 0..2]
  <2>1. sent \in [Client -> 0..2] BY <1>2 DEF ConnTypeOK
  <2> QED BY <1>1, <2>1
<1>4. /\ got' \in [Client -> Gift]
      /\ \A d \in Client : Up /\ (cst[d] # "accepted" \/ Open(d)) => got'[d] = got[d]
      /\ \A d \in Client : got[d] # "none" => got'[d] # "none"
  <2>1. got \in [Client -> Gift] BY <1>2 DEF ConnTypeOK, Gift
  <2> QED BY <1>1, <1>2, <2>1, ResetOne
<1>5. ConnTypeOK' BY <1>1, <1>2, <1>3, <1>4 DEF ConnTypeOK, Gift
<1>6. Waiting' BY <1>1, <1>4 DEF NetInv, Waiting, Open, Up
<1>7. Heard'
  <2>1. \A d \in Client : taken[d] <= sent'[d]
    <3>1. \A d \in Client : taken[d] <= sent[d] /\ taken[d] \in 0..2 /\ sent[d] \in 0..2
      BY <1>2 DEF NetInv, Heard, ConnTypeOK
    <3>2. sent'[c] = sent[c] + 1 /\ \A d \in Client \ {c} : sent'[d] = sent[d]
      BY <1>1, <1>2 DEF ConnTypeOK
    <3> QED BY <3>1, <3>2
  <2>2. Used' = Used BY <1>1 DEF Used
  <2> QED BY <1>1, <1>4, <2>1, <2>2 DEF NetInv, Heard, Serving, Open, Up
<1> QED BY <1>1, <1>5, <1>6, <1>7 DEF NetInv, Line, Table, Used

LEMMA LeaveNet == ASSUME NetInv, NEW c \in Client, Leave(c) PROVE NetInv'
BY DEF Leave, NetInv, ConnTypeOK, Line, Table, Used, Waiting, Heard, Serving, Open, Up

\* Each of them is a step of the service, or one it does not see.
LEMMA PeerEcho ==
    ASSUME NetInv, NEW c \in Client, Peer(c) PROVE [Echo!Next]_(Echo!vars)
<1>1. ConnTypeOK BY DEF NetInv
<1>2. CASE Connect(c) \/ Leave(c) BY <1>2 DEF Connect, Leave, Echo!vars, Up
<1>3. CASE Send(c)
  <2>1. /\ UNCHANGED <<text, taken, spc>> /\ sent[c] < 2 /\ sent' = [sent EXCEPT ![c] = @ + 1]
        /\ c \notin left
        /\ \/ got' = got
           \/ (~Up \/ (cst[c] = "accepted" /\ ~Open(c))) /\ Reset(c)
    BY <1>3 DEF Send
  <2>2. got' = got \/ ((got[c] # "none" \/ ~Up) /\ Echo!Lost({c}))
    BY <1>1, <2>1, ResetOne DEF NetInv, Heard
  <2>3. Echo!Say(c) BY <2>1, <2>2 DEF Echo!Say, Up
  <2> QED BY <2>3 DEF Echo!Next
<1> QED BY <1>2, <1>3 DEF Peer

-----------------------------------------------------------------------------
(* The servers' calls.                                                     *)

\* accept() gives a descriptor to a client that has none.
LEMMA AcceptNet ==
    ASSUME NetInv, Up, Up', ~Serving, NEW f \in Fd, AcceptAs(f)
    PROVE  /\ NetInv' /\ QuitRead' /\ UNCHANGED <<text, taken, left>>
           /\ f \notin Used /\ Used' = Used \cup {f}
           /\ \E c \in Client : ~Open(c)
<1>1. /\ queue # <<>> /\ fds[f] = Free
      /\ fds' = [fds EXCEPT ![f] = Head(queue)] /\ queue' = Tail(queue)
      /\ cst' = [cst EXCEPT ![Head(queue)] = "accepted"] /\ mesg' = "address"
      /\ UNCHANGED <<text, sent, taken, left, got>>
  BY DEF AcceptAs, Lowest
<1>2. ConnTypeOK BY DEF NetInv
<1>3. /\ Head(queue) \in Client /\ Head(queue) = queue[1] /\ 1 \in 1..Len(queue)
      /\ Tail(queue) \in Seq(Client)
      /\ Len(Tail(queue)) = Len(queue) - 1 /\ Len(queue) \in Nat
      /\ \A k \in 1..Len(Tail(queue)) : Tail(queue)[k] = queue[k + 1]
  BY <1>1, <1>2, HeadTailProperties DEF ConnTypeOK
<1>4. cst[Head(queue)] = "queued" /\ got[Head(queue)] = "none"
  BY <1>3 DEF NetInv, Line, Waiting
<1>5. ~Open(Head(queue))
  BY <1>3, <1>4, FreeAssumption DEF NetInv, Table, Used, Open
<1>6. ConnTypeOK' BY <1>1, <1>2, <1>3 DEF ConnTypeOK, Filler
<1>7. Used' = Used \cup {f} /\ f \notin Used
  BY <1>1, <1>2, <1>3, FreeAssumption DEF Used, ConnTypeOK
<1>8. Line'
  <2>1. \A k \in 1..Len(queue') : k + 1 \in 1..Len(queue) /\ k + 1 # 1 /\ queue'[k] = queue[k + 1]
    BY <1>1, <1>3
  <2>2. \A k \in 1..Len(queue') : queue'[k] # Head(queue) /\ cst'[queue'[k]] = "queued"
    BY <1>1, <1>2, <1>3, <2>1 DEF NetInv, Line, ConnTypeOK
  <2>3. \A j, k \in 1..Len(queue') : queue'[k] = queue'[j] => j = k
    BY <2>1 DEF NetInv, Line
  <2> QED BY <2>2, <2>3 DEF Line
<1>9. Table'
  <2>1. IsFiniteSet(Used') BY <1>7, FS_AddElement DEF NetInv, Table
  <2>2. \A g \in Used : g # f /\ fds'[g] = fds[g] /\ fds[g] # Head(queue) /\ cst'[fds[g]] = "accepted"
    BY <1>1, <1>2, <1>5, <1>7 DEF Used, Open, NetInv, Table, ConnTypeOK
  <2>3. fds'[f] = Head(queue) /\ cst'[Head(queue)] = "accepted"
    BY <1>1, <1>2, <1>3 DEF ConnTypeOK
  <2>4. \A g \in Used', h \in Fd : fds'[h] = fds'[g] => h = g
    <3> TAKE g \in Used', h \in Fd
    <3> HAVE fds'[h] = fds'[g]
    <3>1. h \in Used' BY FreeAssumption, <1>6 DEF Used
    <3> QED BY <1>7, <2>2, <2>3, <3>1 DEF NetInv, Table, Used
  <2> QED BY <1>7, <2>1, <2>2, <2>3, <2>4 DEF Table, Used
<1>10. Waiting'
  <2> SUFFICES ASSUME NEW c \in Client, cst'[c] # "accepted" \/ Open(c)' PROVE got[c] = "none"
    BY <1>1 DEF Waiting
  <2>1. c = Head(queue) \/ cst[c] # "accepted" \/ Open(c)
    BY <1>1, <1>2, <1>3 DEF Open, ConnTypeOK
  <2> QED BY <1>4, <2>1 DEF NetInv, Waiting
<1>11. Heard'
  <2>1. fds'[f] = Head(queue) /\ taken[Head(queue)] = 0
    BY <1>1, <1>2, <1>3, <1>4 DEF NetInv, Heard, ConnTypeOK
  <2>2. \A g \in Fd : g # f => fds'[g] = fds[g] BY <1>1, <1>2 DEF ConnTypeOK
  <2>3. \A d \in Client : d = Head(queue) \/ cst'[d] = cst[d] BY <1>1, <1>2, <1>3 DEF ConnTypeOK
  <2>4. \A g \in Used' : ~(taken[fds'[g]] > 0)
    BY <1>7, <2>1, <2>2 DEF NetInv, Heard, Used
  <2>5. \A d \in Client : Open(d) => Open(d)'
    BY <1>1, <2>2, FreeAssumption DEF Open
  <2>6. \A d \in Client : d = Head(queue) => Open(d)' BY <2>1 DEF Open
  <2>7. \A d \in Client : taken[d] <= sent[d] /\ (cst'[d] # "accepted" => taken[d] = 0)
    BY <2>1, <2>3 DEF NetInv, Heard
  <2>8. \A d \in Client : cst'[d] = "accepted" /\ d \notin left => Open(d)' \/ got[d] # "none"
    BY <2>3, <2>5, <2>6 DEF NetInv, Heard
  <2> QED BY <1>1, <2>4, <2>7, <2>8 DEF Heard
<1>12. QuitRead' BY <1>1, TextAssumption DEF QuitRead, Filler
<1> QED BY <1>1, <1>3, <1>5, <1>6, <1>7, <1>8, <1>9, <1>10, <1>11, <1>12 DEF NetInv

\* The service does not see it.
LEMMA AcceptEcho == ASSUME Up, Up', NEW f \in Fd, AcceptAs(f) PROVE UNCHANGED Echo!vars
BY DEF AcceptAs, Echo!vars

\* read() takes the first bytes that have arrived, and mesg is the client's text.
LEMMA ReadNet ==
    ASSUME NetInv, Up, Up', ~Serving, Serving', NEW f \in Fd, ReadFrom(f)
    PROVE  /\ NetInv' /\ QuitRead' /\ UNCHANGED <<text, left, fds>>
           /\ f \in Used /\ taken'[fds[f]] > 0
           /\ [Echo!Next]_(Echo!vars)
<1> DEFINE x == fds[f]
<1>1. /\ x # Free /\ taken[x] < sent[x]
      /\ mesg' = (IF taken[x] = 0 THEN x ELSE "other")
      /\ taken' = [taken EXCEPT ![x] = sent[x]]
      /\ UNCHANGED <<text, cst, queue, sent, left, got, fds>>
  BY DEF ReadFrom, Unread
<1>2. ConnTypeOK BY DEF NetInv
<1>3. x \in Client /\ taken[x] \in 0..2 /\ sent[x] \in 0..2 /\ f \in Used
  BY <1>1, <1>2 DEF ConnTypeOK, Used
<1>4. taken[x] = 0 /\ mesg' = x /\ cst[x] = "accepted"
  BY <1>1, <1>3 DEF NetInv, Heard, Table
<1>5. /\ taken'[x] = sent[x] /\ sent[x] > 0 /\ \A c \in Client \ {x} : taken'[c] = taken[c]
      /\ \A g \in Used \ {f} : fds[g] # x
  <2>1. \A g \in Used \ {f} : fds[g] # x BY DEF NetInv, Table, Used
  <2> QED BY <1>1, <1>2, <1>3, <1>4, <2>1 DEF ConnTypeOK
<1>6. Heard'
  <2>1. Used' = Used /\ \A g \in Used : fds[g] \in Client BY <1>1, <1>2 DEF Used, ConnTypeOK
  <2>2. \A g \in Used' : taken'[fds[g]] > 0 => mesg' = fds[g]
    BY <1>4, <1>5, <2>1 DEF NetInv, Heard, x
  <2>3. \A c \in Client : taken'[c] <= sent[c] /\ (cst[c] # "accepted" => taken'[c] = 0)
    BY <1>3, <1>4, <1>5 DEF NetInv, Heard
  <2> QED BY <1>1, <2>2, <2>3 DEF NetInv, Heard, Open, Up
<1> HIDE DEF x
<1>7. ConnTypeOK' BY <1>1, <1>2, <1>3, <1>4 DEF ConnTypeOK
<1>8. NetInv' BY <1>1, <1>6, <1>7 DEF NetInv, Line, Table, Used, Waiting, Open, Up
<1>9. QuitRead' BY <1>3, <1>4, <1>5, TextAssumption DEF QuitRead, Filler
<1>10. [Echo!Next]_(Echo!vars)
  <2>1. PICK c \in Client : c = x BY <1>3
  <2>2. Echo!Hear(c) BY <1>1, <1>4, <1>5, <2>1 DEF Echo!Hear
  <2> QED BY <2>2 DEF Echo!Next
<1> QED BY <1>1, <1>3, <1>5, <1>8, <1>9, <1>10 DEF x

\* write() and close(): the client has its echo, unless it has gone or is
\* reset by the close, and nobody has the descriptor any more.
LEMMA EchoNet ==
    ASSUME NetInv, Up, Up', ~Serving', UNCHANGED mesg, NEW f \in Fd, EchoAndClose(f),
           f \in Used => fds[f] \in left \/ taken[fds[f]] > 0,
           \A g \in Used : taken[fds[g]] > 0 => g = f
    PROVE  /\ NetInv' /\ (QuitRead => QuitRead') /\ Used' = Used \ {f} /\ UNCHANGED <<text, left, taken>>
           /\ [Echo!Next]_(Echo!vars)
<1> DEFINE x == fds[f]
<1>1. fds' = [fds EXCEPT ![f] = Free] /\ UNCHANGED <<text, cst, queue, sent, taken, left>>
  BY DEF EchoAndClose
<1>2. ConnTypeOK BY DEF NetInv
<1>3. x = Free \/ x \in Client BY <1>2 DEF ConnTypeOK
<1>4. \/ got' = got /\ (x = Free \/ x \in left)
      \/ /\ x \in Client \ left /\ taken[x] > 0 /\ mesg = x /\ f \in Used
         /\ \/ got' = [got EXCEPT ![x] = x]
            \/ got' = [got EXCEPT ![x] = "lost"] /\ taken[x] < sent[x]
  <2>1. CASE x = Free \/ x \in left BY <2>1 DEF EchoAndClose
  <2>2. CASE x # Free /\ x \notin left
    <3>1. f \in Used /\ x \in Client /\ taken[x] > 0 /\ mesg = x
      BY <1>3, <2>2 DEF Used, NetInv, Heard
    <3> QED BY <2>2, <3>1 DEF EchoAndClose, Written, Unread
  <2> QED BY <2>1, <2>2
<1>5. Used' = Used \ {f} BY <1>1, <1>2 DEF Used, ConnTypeOK
<1>6. ConnTypeOK'
  <2> DEFINE G == Client \cup Filler \cup {"none", "lost"}
  <2>1. got \in [Client -> G] /\ Client \subseteq G /\ "lost" \in G BY <1>2 DEF ConnTypeOK
  <2> HIDE DEF G
  <2>2. got' \in [Client -> G] BY <1>4, <2>1
  <2> QED BY <1>1, <1>2, <2>2 DEF ConnTypeOK, G
<1>7. Table'
  <2>1. IsFiniteSet(Used') BY <1>5, FS_RemoveElement DEF NetInv, Table
  <2>2. \A g \in Fd \ {f} : fds'[g] = fds[g] BY <1>1, <1>2 DEF ConnTypeOK
  <2>3. fds'[f] = Free BY <1>1, <1>2 DEF ConnTypeOK
  <2> QED BY <1>1, <1>5, <2>1, <2>2, <2>3 DEF NetInv, Table, Used
<1>8. Waiting'
  <2> SUFFICES ASSUME NEW c \in Client, cst[c] # "accepted" \/ Open(c)' PROVE got'[c] = "none"
    BY <1>1 DEF Waiting
  <2>1. cst[c] # "accepted" \/ (Open(c) /\ c # x)
    BY <1>1, <1>2, FreeAssumption DEF Open, NetInv, Table, Used, ConnTypeOK
  <2>2. cst[c] # "accepted" => c # x
    BY FreeAssumption DEF NetInv, Table, Used
  <2>3. got'[c] = got[c] BY <1>2, <1>4, <2>1, <2>2 DEF ConnTypeOK
  <2> QED BY <2>1, <2>3 DEF NetInv, Waiting
<1>9. Heard'
  <2>1. \A g \in Used' : fds'[g] = fds[g] /\ ~(taken[fds[g]] > 0)
    BY <1>1, <1>2, <1>5 DEF ConnTypeOK, Used
  <2>2. \A c \in Client : got[c] # "none" => got'[c] # "none"
    BY <1>2, <1>4, TextAssumption DEF ConnTypeOK
  <2>3. x \in Client \ left => got'[x] # "none"
    BY <1>2, <1>4, FreeAssumption, TextAssumption DEF ConnTypeOK
  <2>4. \A c \in Client : Open(c) => c = x \/ Open(c)'
    BY <1>1, <1>2 DEF Open, ConnTypeOK
  <2>5. \A c \in Client : cst[c] = "accepted" /\ c \notin left => Open(c)' \/ got'[c] # "none"
    BY <2>2, <2>3, <2>4 DEF NetInv, Heard
  <2>6. \A c \in Client : taken[c] <= sent[c] /\ (cst[c] # "accepted" => taken[c] = 0)
    BY DEF NetInv, Heard
  <2> QED BY <1>1, <2>1, <2>5, <2>6 DEF Heard
<1>10. NetInv' /\ (QuitRead => QuitRead') BY <1>1, <1>6, <1>7, <1>8, <1>9 DEF NetInv, Line, QuitRead
<1>11. [Echo!Next]_(Echo!vars)
  <2>1. CASE got' = got BY <1>1, <2>1 DEF Echo!vars
  <2>2. CASE got' # got
    <3>1. /\ x \in Client /\ x # Free /\ taken[x] > 0 /\ got[x] = "none"
          /\ \/ got' = [got EXCEPT ![x] = x]
             \/ got' = [got EXCEPT ![x] = "lost"] /\ taken[x] < sent[x]
      BY <1>4, <2>2, FreeAssumption DEF NetInv, Waiting, Open, Used
    <3>2. PICK c \in Client : c = x BY <3>1
    <3>3. got' = [got EXCEPT ![c] = c] \/ (taken[c] < sent[c] /\ Echo!Lost({c}))
      <4>1. CASE got' = [got EXCEPT ![c] = "lost"] /\ taken[c] < sent[c]
        <5>1. got' = [d \in Client |-> IF d \in {c} THEN "lost" ELSE got[d]]
          BY <1>2, <4>1 DEF ConnTypeOK
        <5> QED BY <4>1, <5>1 DEF Echo!Lost
      <4> QED BY <3>1, <3>2, <4>1
    <3>4. Echo!Answer(c) BY <1>1, <3>1, <3>2, <3>3 DEF Echo!Answer
    <3> QED BY <3>4 DEF Echo!Next
  <2> QED BY <2>1, <2>2
<1> QED BY <1>1, <1>5, <1>10, <1>11

\* The end of the loop: the server goes on, or stops because of a q.
LEMMA LoopEndNet ==
    ASSUME NetInv, Up, ~Serving, NEW next, next \notin {"stopped", "echo", "write"}, LoopEnd(next)
    PROVE  /\ NetInv' /\ UNCHANGED <<taken, left>>
           /\ spc' \in {next, "stopped"} /\ (spc' = next => UNCHANGED fds)
           /\ QuitRead => QuitRead' /\ [Echo!Next]_(Echo!vars)
<1>1. CASE ~SaysQuit
  <2>1. spc' = next /\ UNCHANGED <<net, mesg>> BY <1>1 DEF LoopEnd
  <2> QED
    BY <2>1 DEF net, NetInv, QuitRead, ConnTypeOK, Line, Table, Used, Waiting, Heard, Serving, Open, Up, Echo!vars
<1>2. CASE SaysQuit
  <2> DEFINE L == {c \in Client : cst[c] = "queued" \/ (Open(c) /\ Unread(c))}
  <2>1. /\ spc' = "stopped" /\ fds' = [f \in Fd |-> Free]
        /\ got' = [c \in Client |-> IF c \in L THEN "lost" ELSE got[c]]
        /\ UNCHANGED <<text, cst, queue, sent, taken, left, mesg>>
    BY <1>2 DEF LoopEnd, Exit
  <2>2. L \subseteq {c \in Client : taken[c] = 0}
    <3>1. ASSUME NEW c \in L PROVE taken[c] = 0
      <4>1. c \in Client /\ taken[c] \in 0..2 BY DEF NetInv, ConnTypeOK
      <4>2. CASE Open(c) /\ Unread(c)
        <5>1. PICK f \in Fd : fds[f] = c BY <4>2 DEF Open
        <5>2. f \in Used BY <4>1, <5>1, FreeAssumption DEF Used
        <5> QED BY <4>1, <5>1, <5>2 DEF NetInv, Heard
      <4> QED BY <4>1, <4>2 DEF NetInv, Heard
    <3> QED BY <3>1
  <2> HIDE DEF L
  <2>3. ConnTypeOK' BY <2>1 DEF NetInv, ConnTypeOK
  <2>4. Used' = {} BY <2>1 DEF Used
  <2>5. Table' BY <2>4, FS_EmptySet DEF Table
  <2>6. Heard' BY <2>1, <2>4 DEF NetInv, Heard, Up
  <2>7. NetInv' /\ (QuitRead => QuitRead')
    BY <2>1, <2>3, <2>5, <2>6 DEF NetInv, Line, Waiting, Up, QuitRead
  <2>8. QuitRead => Echo!Stop
    <3> SUFFICES ASSUME QuitRead PROVE Echo!Stop OBVIOUS
    <3>1. \E c \in Client : taken[c] > 0 /\ text[c] = "q" BY <1>2 DEF QuitRead, SaysQuit
    <3>2. Echo!Lost(L) BY <2>1 DEF Echo!Lost
    <3> QED BY <2>1, <2>2, <3>1, <3>2 DEF Echo!Stop, Up
  <2> QED BY <2>1, <2>7, <2>8 DEF Echo!Next
<1> QED BY <1>1, <1>2

\* A step of the server that leaves the connections alone.
LEMMA IdleNet ==
    ASSUME NetInv, Up, Up', ~Serving, UNCHANGED net, mesg' \in {mesg, "empty"}
    PROVE  NetInv' /\ (QuitRead => QuitRead') /\ UNCHANGED Echo!vars
<1>1. ConnTypeOK' BY DEF net, NetInv, ConnTypeOK, Filler
<1>2. Heard' BY DEF net, NetInv, Heard, Used, Open, Up
<1>3. QuitRead => QuitRead' BY TextAssumption DEF net, QuitRead, Filler
<1> QED BY <1>1, <1>2, <1>3 DEF net, NetInv, Line, Table, Used, Waiting, Open, Up, Echo!vars

LEMMA PeerNet ==
    ASSUME NetInv, NEW c \in Client, Peer(c)
    PROVE  /\ NetInv' /\ (QuitRead => QuitRead') /\ Used' = Used /\ (Up <=> Up')
           /\ [Echo!Next]_(Echo!vars)
<1>1. NetInv' BY ConnectNet, SendNet, LeaveNet DEF Peer
<1>2. UNCHANGED <<text, taken, fds, mesg, spc>> BY PeerFrame
<1> QED BY <1>1, <1>2, PeerEcho DEF QuitRead, Used, Up

\* There are no more open connections than clients, and fewer while a client
\* has none.
LEMMA UsedBound ==
    ASSUME NetInv
    PROVE  /\ Cardinality(Client) \in Nat
           /\ Cardinality(Used) \in 0..Cardinality(Client)
           /\ (\E c \in Client : ~Open(c)) => Cardinality(Used) < Cardinality(Client)
<1> DEFINE owner == [f \in Used |-> fds[f]]
<1>1. /\ \A f \in Used : fds[f] \in Client
      /\ \A f, g \in Used : fds[f] = fds[g] => f = g
  BY DEF NetInv, Table, Used, ConnTypeOK
<1>2. Cardinality(Client) \in Nat /\ Cardinality(Used) \in Nat
  BY ClientAssumption, FS_CardinalityType DEF NetInv, Table
<1>3. Cardinality(Used) <= Cardinality(Client)
  <2>1. owner \in Injection(Used, Client) BY <1>1 DEF Injection, IsInjective
  <2> QED BY <2>1, ClientAssumption, FS_Injection
<1>4. ASSUME NEW c \in Client, ~Open(c) PROVE Cardinality(Used) < Cardinality(Client)
  <2>1. \A f \in Used : fds[f] # c BY <1>4 DEF Open, Used
  <2>2. owner \in Injection(Used, Client \ {c}) BY <1>1, <2>1 DEF Injection, IsInjective
  <2>3. IsFiniteSet(Client \ {c}) /\ Cardinality(Client \ {c}) = Cardinality(Client) - 1
    BY ClientAssumption, FS_RemoveElement
  <2> HIDE DEF owner
  <2>4. Cardinality(Used) <= Cardinality(Client \ {c}) BY <2>2, <2>3, FS_Injection
  <2> QED BY <1>2, <2>3, <2>4
<1> QED BY <1>2, <1>3, <1>4

\* Opening or closing one connection changes their number by one.
LEMMA UsedCount ==
    ASSUME NetInv, NEW f
    PROVE  /\ f \notin Used => Cardinality(Used \cup {f}) = Cardinality(Used) + 1
           /\ f \in Used => Cardinality(Used \ {f}) = Cardinality(Used) - 1
BY FS_AddElement, FS_RemoveElement DEF NetInv, Table

LEMMA InitNet ==
    ASSUME ConnInit, Up, mesg \in {"q", "other", "empty"}
    PROVE  NetInv /\ Used = {} /\ Echo!Init
<1>1. Used = {} BY DEF ConnInit, Used
<1>2. IsFiniteSet(Used) BY <1>1, FS_EmptySet
<1>3. ConnTypeOK BY DEF ConnInit, ConnTypeOK, Filler
<1>4. Line /\ Table /\ Waiting /\ Heard BY <1>1, <1>2 DEF ConnInit, Line, Table, Waiting, Heard
<1>5. Echo!Init BY DEF ConnInit, Echo!Init
<1> QED BY <1>1, <1>3, <1>4, <1>5 DEF NetInv

-----------------------------------------------------------------------------
(* tcp_server.c.                                                           *)

\* The module's copies of the operators of EchoConn.
LEMMA TcpNet ==
    /\ Tcp!ConnInit <=> ConnInit
    /\ Tcp!ConnTypeOK <=> ConnTypeOK
    /\ \A c : Tcp!Peer(c) <=> Peer(c)
    /\ \A f : Tcp!AcceptAs(f) <=> AcceptAs(f)
    /\ \A f : Tcp!ReadFrom(f) <=> ReadFrom(f)
    /\ \A f : Tcp!EchoAndClose(f) <=> EchoAndClose(f)
    /\ \A next : Tcp!LoopEnd(next) <=> LoopEnd(next)
BY DEF Tcp!ConnInit, ConnInit, Tcp!ConnTypeOK, ConnTypeOK,
       Tcp!Peer, Peer, Tcp!Connect, Connect, Tcp!Send, Send, Tcp!Leave, Leave,
       Tcp!AcceptAs, AcceptAs, Tcp!Lowest, Lowest, Tcp!ReadFrom, ReadFrom,
       Tcp!EchoAndClose, EchoAndClose, Tcp!LoopEnd, LoopEnd, Tcp!Exit, Exit,
       Tcp!net, net, Tcp!Unread, Unread, Tcp!Filler, Filler,
       Tcp!Written, Written, Tcp!SaysQuit, SaysQuit, Tcp!Reset, Reset, Tcp!Up, Up, Tcp!Open, Open

\* What is written has been read, unless the client has gone.
TcpInv ==
    /\ spc \in {"accept", "read", "write", "test", "stopped"}
    /\ csock \in IF spc = "read" \/ spc = "write" THEN Fd ELSE Fd \cup {0}
    /\ spc = "write" =>
         /\ csock \in Used => fds[csock] \in left \/ taken[fds[csock]] > 0
         /\ \A f \in Used : taken[fds[f]] > 0 => f = csock

LEMMA TcpServerStep ==
    ASSUME NetInv, TcpInv, Tcp!Server
    PROVE  /\ NetInv' /\ TcpInv'
           /\ QuitRead => QuitRead' /\ [Echo!Next]_(Echo!vars)
<1>1. CASE Tcp!Accept
  <2>1. PICK f \in Fd : AcceptAs(f) /\ csock' = f BY <1>1, TcpNet DEF Tcp!Accept
  <2>2. spc = "accept" /\ spc' = "read" BY <1>1 DEF Tcp!Accept
  <2>3. NetInv' /\ QuitRead' /\ UNCHANGED Echo!vars
    BY <2>1, <2>2, AcceptNet, AcceptEcho DEF Up, Serving
  <2> QED BY <2>1, <2>2, <2>3 DEF TcpInv
<1>2. CASE Tcp!Read
  <2>1. spc = "read" /\ spc' = "write" /\ csock' = csock BY <1>2 DEF Tcp!Read
  <2>2. PICK f \in Fd : f = csock BY <2>1 DEF TcpInv
  <2>3. ReadFrom(f) BY <1>2, <2>2 DEF Tcp!Read, Tcp!ReadFrom, ReadFrom, Tcp!Unread, Unread
  <2>4. /\ NetInv' /\ QuitRead' /\ UNCHANGED fds /\ taken'[fds[f]] > 0
        /\ [Echo!Next]_(Echo!vars)
    BY <2>1, <2>3, ReadNet DEF Up, Serving
  <2>5. \A g \in Used : taken'[fds[g]] > 0 => g = f
    <3>1. Used' = Used /\ f \in Used BY <2>1, <2>3, <2>4, ReadNet DEF Used, Up, Serving
    <3>2. \A g \in Used' : taken'[fds'[g]] > 0 => mesg' = fds'[g] BY <2>4 DEF NetInv, Heard
    <3>3. \A g \in Used : taken'[fds[g]] > 0 => fds[g] = fds[f] BY <2>4, <3>1, <3>2
    <3> QED BY <3>3 DEF NetInv, Table, Used
  <2> QED BY <2>1, <2>2, <2>4, <2>5 DEF TcpInv, Used
<1>3. CASE Tcp!ReadNothing
  <2>1. /\ spc = "read" /\ spc' = "write" /\ fds[csock] \in left
        /\ UNCHANGED <<net, mesg, csock>>
    BY <1>3 DEF Tcp!ReadNothing, Tcp!net, net
  <2>2. NetInv' /\ (QuitRead => QuitRead') /\ UNCHANGED Echo!vars BY <2>1, IdleNet DEF Up, Serving
  <2> QED BY <2>1, <2>2 DEF TcpInv, net, Used, NetInv, Heard, Serving
<1>4. CASE Tcp!WriteAndClose
  <2>1. spc = "write" /\ spc' = "test" /\ UNCHANGED <<mesg, csock>>
    BY <1>4 DEF Tcp!WriteAndClose
  <2>2. PICK f \in Fd : f = csock BY <2>1 DEF TcpInv
  <2>3. EchoAndClose(f)
    BY <1>4, <2>2 DEF Tcp!WriteAndClose, Tcp!EchoAndClose, EchoAndClose, Tcp!Unread, Unread, Tcp!Written, Written
  <2>4. NetInv' /\ (QuitRead => QuitRead') /\ [Echo!Next]_(Echo!vars)
    BY <2>1, <2>2, <2>3, EchoNet DEF Up, Serving, TcpInv
  <2> QED BY <2>1, <2>2, <2>4 DEF TcpInv
<1>5. CASE Tcp!Test
  <2>1. spc = "test" /\ LoopEnd("accept") /\ UNCHANGED csock BY <1>5, TcpNet DEF Tcp!Test
  <2>2. /\ NetInv' /\ spc' \in {"accept", "stopped"}
        /\ QuitRead => QuitRead' /\ [Echo!Next]_(Echo!vars)
    BY <2>1, LoopEndNet DEF Up, Serving
  <2> QED BY <2>1, <2>2 DEF TcpInv
<1> QED BY <1>1, <1>2, <1>3, <1>4, <1>5 DEF Tcp!Server

LEMMA TcpPeerStep ==
    ASSUME NetInv, TcpInv, NEW c \in Client, Tcp!Environment(c)
    PROVE  /\ NetInv' /\ TcpInv'
           /\ QuitRead => QuitRead' /\ [Echo!Next]_(Echo!vars)
<1>1. Peer(c) /\ UNCHANGED csock BY TcpNet DEF Tcp!Environment
<1> QED BY <1>1, PeerNet, PeerFrame DEF TcpInv

-----------------------------------------------------------------------------
(* select_server.c.                                                        *)

LEMMA SelectNet ==
    /\ Select!ConnInit <=> ConnInit
    /\ Select!ConnTypeOK <=> ConnTypeOK
    /\ \A c : Select!Peer(c) <=> Peer(c)
    /\ \A f : Select!AcceptAs(f) <=> AcceptAs(f)
    /\ \A f : Select!ReadFrom(f) <=> ReadFrom(f)
    /\ \A f : Select!EchoAndClose(f) <=> EchoAndClose(f)
    /\ \A next : Select!LoopEnd(next) <=> LoopEnd(next)
    /\ \A S : Select!Cardinality(S) = Cardinality(S)
BY DEF Select!ConnInit, ConnInit, Select!ConnTypeOK, ConnTypeOK, Select!Cardinality, Cardinality,
       Select!Peer, Peer, Select!Connect, Connect, Select!Send, Send, Select!Leave, Leave,
       Select!AcceptAs, AcceptAs, Select!Lowest, Lowest, Select!ReadFrom, ReadFrom,
       Select!EchoAndClose, EchoAndClose, Select!LoopEnd, LoopEnd, Select!Exit, Exit,
       Select!net, net, Select!Unread, Unread, Select!Filler, Filler,
       Select!Written, Written, Select!SaysQuit, SaysQuit, Select!Reset, Reset, Select!Up, Up,
       Select!Open, Open

\* client_index counts the open connections, the cells below it are
\* descriptors, and what is echoed has been read from an open one.
SelectInv ==
    /\ spc \in {"select", "accept", "scan", "echo", "test", "stopped"}
    /\ client_fd \in [0..Cardinality(Client) -> Fd \cup {0}]
    /\ client_index \in 0..Cardinality(Client)
    /\ readfd \subseteq Fd \cup {Ssock}
    /\ start_index \in 0..Cardinality(Client)
    /\ \A k \in 0..client_index-1 : client_fd[k] \in Fd
    /\ Up => client_index = Cardinality(Used)
    /\ spc = "echo" => /\ start_index < client_index
                       /\ client_fd[start_index] \in Used
                       /\ taken[fds[client_fd[start_index]]] > 0

LEMMA SelectAccept ==
    ASSUME NetInv, SelectInv, Select!Accept
    PROVE  /\ NetInv' /\ SelectInv'
           /\ QuitRead => QuitRead' /\ [Echo!Next]_(Echo!vars)
<1>1. PICK f \in Fd : /\ AcceptAs(f) /\ readfd' = readfd \cup {f}
                      /\ client_fd' = [client_fd EXCEPT ![client_index] = f]
  BY SelectNet DEF Select!Accept
<1>2. /\ spc = "accept" /\ spc' = "test"
      /\ client_index' = client_index + 1 /\ start_index' = start_index
  BY DEF Select!Accept
<1>3. /\ NetInv' /\ QuitRead' /\ UNCHANGED Echo!vars
      /\ f \notin Used /\ Used' = Used \cup {f} /\ \E c \in Client : ~Open(c)
  BY <1>1, <1>2, AcceptNet, AcceptEcho DEF Up, Serving
<1>4. /\ client_index = Cardinality(Used) /\ Cardinality(Used') = Cardinality(Used) + 1
      /\ Cardinality(Client) \in Nat /\ Cardinality(Used) < Cardinality(Client)
  BY <1>2, <1>3, UsedBound, UsedCount DEF SelectInv, Up
<1>5. client_index' \in 0..Cardinality(Client) BY <1>2, <1>4 DEF SelectInv
<1>6. client_fd' \in [0..Cardinality(Client) -> Fd \cup {0}] BY <1>1, <1>4 DEF SelectInv
<1>7. \A k \in 0..client_index'-1 : client_fd'[k] \in Fd
  BY <1>1, <1>2, <1>4 DEF SelectInv
<1> QED BY <1>1, <1>2, <1>3, <1>4, <1>5, <1>6, <1>7 DEF SelectInv

LEMMA SelectScan ==
    ASSUME NetInv, SelectInv, Select!Scan
    PROVE  /\ NetInv' /\ SelectInv'
           /\ QuitRead => QuitRead' /\ [Echo!Next]_(Echo!vars)
<1>1. /\ spc = "scan" /\ start_index < client_index
      /\ UNCHANGED <<client_fd, client_index, readfd>>
  BY DEF Select!Scan
<1>2. /\ Cardinality(Client) \in Nat
      /\ start_index \in 0..Cardinality(Client) /\ client_index \in 0..Cardinality(Client)
  BY UsedBound DEF SelectInv
<1>3. PICK f \in Fd : f = client_fd[start_index] BY <1>1, <1>2 DEF SelectInv
<1>4. CASE f \in readfd /\ Unread(fds[f])
  <2>1. ReadFrom(f) /\ spc' = "echo" /\ start_index' = start_index
    BY <1>3, <1>4 DEF Select!Scan, Select!ReadFrom, ReadFrom, Select!Unread, Unread
  <2>2. /\ NetInv' /\ QuitRead' /\ UNCHANGED fds
        /\ f \in Used /\ taken'[fds[f]] > 0 /\ [Echo!Next]_(Echo!vars)
    BY <1>1, <2>1, ReadNet DEF Up, Serving
  <2> QED BY <1>1, <1>3, <2>1, <2>2 DEF SelectInv, Up, Used
<1>5. CASE ~(f \in readfd /\ Unread(fds[f]))
  <2>1. /\ mesg' \in {mesg, "empty"} /\ start_index' = start_index + 1
        /\ UNCHANGED <<net, spc>>
    BY <1>3, <1>5 DEF Select!Scan, Select!Unread, Unread, Select!net, net
  <2>2. NetInv' /\ (QuitRead => QuitRead') /\ UNCHANGED Echo!vars
    BY <1>1, <2>1, IdleNet DEF Up, Serving
  <2>3. start_index' \in 0..Cardinality(Client) BY <1>1, <1>2, <2>1
  <2> QED BY <1>1, <2>1, <2>2, <2>3 DEF SelectInv, Up, Used, net
<1> QED BY <1>4, <1>5

LEMMA SelectEchoBack ==
    ASSUME NetInv, SelectInv, Select!EchoBack
    PROVE  /\ NetInv' /\ SelectInv'
           /\ QuitRead => QuitRead' /\ [Echo!Next]_(Echo!vars)
<1>1. /\ spc = "echo" /\ spc' = "scan" /\ UNCHANGED <<mesg, client_fd>>
      /\ client_index' = client_index - 1 /\ start_index' = start_index + 1
  BY DEF Select!EchoBack
<1>2. /\ client_fd[start_index] \in Used /\ taken[fds[client_fd[start_index]]] > 0
      /\ start_index < client_index
  BY <1>1 DEF SelectInv
<1>3. PICK f \in Fd : f = client_fd[start_index] BY <1>2 DEF Used
<1>4. EchoAndClose(f) /\ readfd' = readfd \ {f}
  BY <1>3 DEF Select!EchoBack, Select!EchoAndClose, EchoAndClose, Select!Unread, Unread, Select!Written, Written
<1>5. /\ NetInv' /\ (QuitRead => QuitRead') /\ Used' = Used \ {f}
      /\ [Echo!Next]_(Echo!vars)
  <2>1. \A g \in Used : taken[fds[g]] > 0 => g = f
    BY <1>2, <1>3 DEF NetInv, Heard, Table, Used
  <2> QED BY <1>1, <1>2, <1>3, <1>4, <2>1, EchoNet DEF Up, Serving
<1>6. /\ client_index = Cardinality(Used) /\ Cardinality(Used') = Cardinality(Used) - 1
      /\ Cardinality(Client) \in Nat
  BY <1>1, <1>2, <1>3, <1>5, UsedBound, UsedCount DEF SelectInv, Up
<1>7. /\ start_index \in 0..Cardinality(Client) /\ client_index \in 0..Cardinality(Client)
      /\ client_index' \in 0..Cardinality(Client) /\ start_index' \in 0..Cardinality(Client)
  BY <1>1, <1>2, <1>6 DEF SelectInv
<1>8. \A k \in 0..client_index'-1 : client_fd'[k] \in Fd BY <1>1, <1>7 DEF SelectInv
<1> QED BY <1>1, <1>4, <1>5, <1>6, <1>7, <1>8 DEF SelectInv

LEMMA SelectServerStep ==
    ASSUME NetInv, SelectInv, Select!Server
    PROVE  /\ NetInv' /\ SelectInv'
           /\ QuitRead => QuitRead' /\ [Echo!Next]_(Echo!vars)
<1>1. CASE Select!Select
  <2>1. /\ spc = "select" /\ spc' \in {"accept", "scan"} /\ start_index' = 0
        /\ UNCHANGED <<net, mesg, client_fd, client_index>>
    BY <1>1 DEF Select!Select, Select!net, net
  <2>2. readfd' \subseteq Fd \cup {Ssock}
    <3>1. Select!Watched \subseteq Fd \cup {Ssock} BY DEF SelectInv, Select!Watched
    <3> QED BY <1>1, <3>1 DEF Select!Select
  <2>3. NetInv' /\ (QuitRead => QuitRead') /\ UNCHANGED Echo!vars BY <2>1, IdleNet DEF Up, Serving
  <2>4. start_index' \in 0..Cardinality(Client) BY <2>1, UsedBound
  <2> QED BY <2>1, <2>2, <2>3, <2>4 DEF SelectInv, Up, Used, net
<1>2. CASE Select!Accept BY <1>2, SelectAccept
<1>3. CASE Select!Scan BY <1>3, SelectScan
<1>4. CASE Select!EchoBack BY <1>4, SelectEchoBack
<1>5. CASE Select!ScanEnd
  <2>1. /\ spc = "scan" /\ spc' = "test"
        /\ UNCHANGED <<net, mesg, client_fd, client_index, readfd, start_index>>
    BY <1>5 DEF Select!ScanEnd, Select!net, net
  <2>2. NetInv' /\ (QuitRead => QuitRead') /\ UNCHANGED Echo!vars BY <2>1, IdleNet DEF Up, Serving
  <2> QED BY <2>1, <2>2 DEF SelectInv, Up, Used, net
<1>6. CASE Select!Test
  <2>1. /\ spc = "test" /\ LoopEnd("select")
        /\ UNCHANGED <<client_fd, client_index, readfd, start_index>>
    BY <1>6, SelectNet DEF Select!Test
  <2>2. /\ NetInv' /\ spc' \in {"select", "stopped"} /\ (spc' = "select" => UNCHANGED fds)
        /\ QuitRead => QuitRead' /\ [Echo!Next]_(Echo!vars)
    BY <2>1, LoopEndNet DEF Up, Serving
  <2> QED BY <2>1, <2>2 DEF SelectInv, Up, Used
<1> QED BY <1>1, <1>2, <1>3, <1>4, <1>5, <1>6 DEF Select!Server

LEMMA SelectPeerStep ==
    ASSUME NetInv, SelectInv, NEW c \in Client, Select!Environment(c)
    PROVE  /\ NetInv' /\ SelectInv'
           /\ QuitRead => QuitRead' /\ [Echo!Next]_(Echo!vars)
<1>1. Peer(c) /\ UNCHANGED <<client_fd, client_index, readfd, start_index>>
  BY SelectNet DEF Select!Environment
<1> QED BY <1>1, PeerNet, PeerFrame DEF SelectInv, Up

-----------------------------------------------------------------------------
(* epoll_server.c.                                                         *)

LEMMA EpollNet ==
    /\ Epoll!ConnInit <=> ConnInit
    /\ Epoll!ConnTypeOK <=> ConnTypeOK
    /\ \A c : Epoll!Connect(c) <=> Connect(c)
    /\ \A c : Epoll!Send(c) \/ Epoll!Leave(c) <=> Send(c) \/ Leave(c)
    /\ \A f : Epoll!AcceptAs(f) <=> AcceptAs(f)
    /\ \A f : Epoll!ReadFrom(f) <=> ReadFrom(f)
    /\ \A f : Epoll!EchoAndClose(f) <=> EchoAndClose(f)
    /\ \A next : Epoll!LoopEnd(next) <=> LoopEnd(next)
    /\ \A S : Epoll!Cardinality(S) = Cardinality(S)
BY DEF Epoll!ConnInit, ConnInit, Epoll!ConnTypeOK, ConnTypeOK, Epoll!Cardinality, Cardinality,
       Epoll!Connect, Connect, Epoll!Send, Send, Epoll!Leave, Leave,
       Epoll!AcceptAs, AcceptAs, Epoll!Lowest, Lowest, Epoll!ReadFrom, ReadFrom,
       Epoll!EchoAndClose, EchoAndClose, Epoll!LoopEnd, LoopEnd, Epoll!Exit, Exit,
       Epoll!net, net, Epoll!Unread, Unread, Epoll!Filler, Filler,
       Epoll!Written, Written, Epoll!SaysQuit, SaysQuit, Epoll!Reset, Reset, Epoll!Up, Up,
       Epoll!Open, Open

\* nfds counts the listening socket and the open connections, and what is
\* echoed has been read from an open one.
EpollInv ==
    /\ spc \in {"wait", "loop", "echo", "stopped"}
    /\ nfds \in 1..Cardinality(Client) + 1
    /\ events \in [0..Cardinality(Client) -> Fd \cup {Ssock, Epoll!Junk}]
    /\ rdl \in Seq(Fd)
    /\ i \in 0..Cardinality(Client) + 1
    /\ Up => nfds = 1 + Cardinality(Used)
    /\ spc = "echo" => /\ i < nfds
                       /\ events[i] \in Used
                       /\ taken[fds[events[i]]] > 0

LEMMA EpollWaitStep ==
    ASSUME NetInv, EpollInv, Epoll!EpollWait
    PROVE  /\ NetInv' /\ EpollInv'
           /\ QuitRead => QuitRead' /\ [Echo!Next]_(Echo!vars)
<1>1. /\ spc = "wait" /\ spc' = "loop" /\ rdl' = <<>> /\ i' = 0
      /\ UNCHANGED <<net, mesg, nfds>>
  BY DEF Epoll!EpollWait, Epoll!net, net
<1>2. PICK r \in Epoll!Reported :
        events' = [k \in DOMAIN events |-> IF k < Len(r) THEN r[k + 1] ELSE events[k]]
  BY DEF Epoll!EpollWait
<1>3. r \in Seq(Fd \cup {Ssock})
  <2>1. rdl \in Seq(Fd \cup {Ssock}) BY DEF EpollInv
  <2>2. CASE queue = <<>> BY <1>2, <2>1, <2>2 DEF Epoll!Reported
  <2>3. CASE queue # <<>>
    <3>1. PICK k \in 0..Len(rdl) :
            r = SubSeq(rdl, 1, k) \o <<Ssock>> \o SubSeq(rdl, k + 1, Len(rdl))
      BY <1>2, <2>3 DEF Epoll!Reported
    <3>2. Len(rdl) \in Nat /\ \A n \in 1..Len(rdl) : rdl[n] \in Fd \cup {Ssock}
      BY <2>1
    <3>3. /\ SubSeq(rdl, 1, k) \in Seq(Fd \cup {Ssock})
          /\ SubSeq(rdl, k + 1, Len(rdl)) \in Seq(Fd \cup {Ssock})
      BY <3>2, SubSeqProperties
    <3>4. <<Ssock>> \in Seq(Fd \cup {Ssock}) OBVIOUS
    <3> QED BY <3>1, <3>3, <3>4, ConcatProperties
  <2> QED BY <2>2, <2>3
<1>4. events' \in [0..Cardinality(Client) -> Fd \cup {Ssock, Epoll!Junk}]
  <2>1. Len(r) \in Nat /\ \A n \in 1..Len(r) : r[n] \in Fd \cup {Ssock} BY <1>3
  <2>2. Cardinality(Client) \in Nat BY UsedBound
  <2>3. \A k \in 0..Cardinality(Client) : k < Len(r) => r[k + 1] \in Fd \cup {Ssock}
    BY <2>1, <2>2
  <2> QED BY <1>2, <2>3 DEF EpollInv
<1>5. NetInv' /\ (QuitRead => QuitRead') /\ UNCHANGED Echo!vars BY <1>1, IdleNet DEF Up, Serving
<1>6. i' \in 0..Cardinality(Client) + 1 BY <1>1, UsedBound
<1> QED BY <1>1, <1>4, <1>5, <1>6 DEF EpollInv, Up, Used, net

LEMMA EpollAccept ==
    ASSUME NetInv, EpollInv, Epoll!Accept
    PROVE  /\ NetInv' /\ EpollInv'
           /\ QuitRead => QuitRead' /\ [Echo!Next]_(Echo!vars)
<1>1. PICK f \in Fd : AcceptAs(f) /\ rdl' \in {rdl, Append(rdl, f)}
  BY EpollNet DEF Epoll!Accept
<1>2. /\ spc = "loop" /\ i < nfds /\ nfds' = nfds + 1 /\ i' = i + 1
      /\ UNCHANGED <<spc, events>>
  BY DEF Epoll!Accept, Epoll!Turn
<1>3. /\ NetInv' /\ QuitRead' /\ UNCHANGED Echo!vars
      /\ f \notin Used /\ Used' = Used \cup {f} /\ \E c \in Client : ~Open(c)
  BY <1>1, <1>2, AcceptNet, AcceptEcho DEF Up, Serving
<1>4. /\ nfds = 1 + Cardinality(Used) /\ Cardinality(Used') = Cardinality(Used) + 1
      /\ Cardinality(Client) \in Nat /\ Cardinality(Used) \in Nat
      /\ Cardinality(Used) < Cardinality(Client)
  BY <1>2, <1>3, UsedBound, UsedCount DEF EpollInv, Up
<1>5. i \in 0..Cardinality(Client) + 1 BY DEF EpollInv
<1>6. /\ nfds' \in 1..Cardinality(Client) + 1 /\ i' \in 0..Cardinality(Client) + 1
      /\ nfds' = 1 + Cardinality(Used')
  BY <1>2, <1>4, <1>5
<1>7. rdl' \in Seq(Fd) BY <1>1, AppendProperties DEF EpollInv
<1> QED BY <1>2, <1>3, <1>6, <1>7 DEF EpollInv

LEMMA EpollRead ==
    ASSUME NetInv, EpollInv, Epoll!Read
    PROVE  /\ NetInv' /\ EpollInv'
           /\ QuitRead => QuitRead' /\ [Echo!Next]_(Echo!vars)
<1>1. /\ spc = "loop" /\ i < nfds /\ spc' = "echo" /\ UNCHANGED <<nfds, events, rdl, i>>
  BY DEF Epoll!Read, Epoll!Turn
<1>2. PICK f \in Fd : f = events[i] BY DEF Epoll!Read
<1>3. ReadFrom(f) BY <1>2 DEF Epoll!Read, Epoll!ReadFrom, ReadFrom, Epoll!Unread, Unread
<1>4. /\ NetInv' /\ QuitRead' /\ UNCHANGED fds
      /\ f \in Used /\ taken'[fds[f]] > 0 /\ [Echo!Next]_(Echo!vars)
  BY <1>1, <1>3, ReadNet DEF Up, Serving
<1> QED BY <1>1, <1>2, <1>4 DEF EpollInv, Up, Used

LEMMA EpollEchoBack ==
    ASSUME NetInv, EpollInv, Epoll!EchoBack
    PROVE  /\ NetInv' /\ EpollInv'
           /\ QuitRead => QuitRead' /\ [Echo!Next]_(Echo!vars)
<1>1. /\ spc = "echo" /\ spc' = "loop" /\ UNCHANGED <<mesg, events>>
      /\ nfds' = nfds - 1 /\ i' = i + 1
  BY DEF Epoll!EchoBack
<1>2. /\ events[i] \in Used /\ taken[fds[events[i]]] > 0 /\ i < nfds
  BY <1>1 DEF EpollInv
<1>3. PICK f \in Fd : f = events[i] BY <1>2 DEF Used
<1>4. EchoAndClose(f)
  BY <1>3 DEF Epoll!EchoBack, Epoll!EchoAndClose, EchoAndClose, Epoll!Unread, Unread, Epoll!Written, Written
<1>5. /\ NetInv' /\ (QuitRead => QuitRead') /\ Used' = Used \ {f}
      /\ [Echo!Next]_(Echo!vars)
  <2>1. \A g \in Used : taken[fds[g]] > 0 => g = f
    BY <1>2, <1>3 DEF NetInv, Heard, Table, Used
  <2> QED BY <1>1, <1>2, <1>3, <1>4, <2>1, EchoNet DEF Up, Serving
<1>6. /\ nfds = 1 + Cardinality(Used) /\ Cardinality(Used') = Cardinality(Used) - 1
      /\ Cardinality(Client) \in Nat /\ Cardinality(Used) \in Nat
      /\ Cardinality(Used') \in Nat
  <2>1. nfds = 1 + Cardinality(Used) BY <1>1 DEF EpollInv, Up
  <2>2. Cardinality(Client) \in Nat /\ Cardinality(Used) \in Nat BY UsedBound
  <2>3. Cardinality(Used') = Cardinality(Used) - 1 BY <1>2, <1>3, <1>5, UsedCount
  <2>4. Cardinality(Used') \in Nat
    <3>1. Used' \subseteq Used /\ IsFiniteSet(Used) BY <1>5 DEF NetInv, Table
    <3> QED BY <3>1, FS_Subset, FS_CardinalityType
  <2> QED BY <2>1, <2>2, <2>3, <2>4
<1>7. nfds \in 1..Cardinality(Client) + 1 /\ i \in 0..Cardinality(Client) + 1
  BY DEF EpollInv
<1>8. /\ nfds' \in 1..Cardinality(Client) + 1 /\ i' \in 0..Cardinality(Client) + 1
      /\ nfds' = 1 + Cardinality(Used')
  BY <1>1, <1>2, <1>6, <1>7
<1>9. rdl' \in Seq(Fd)
  <2>1. CASE rdl' = rdl BY <2>1 DEF EpollInv
  <2>2. CASE rdl' # rdl
    <3>1. PICK k \in DOMAIN rdl : rdl' = SubSeq(rdl, 1, k - 1) \o SubSeq(rdl, k + 1, Len(rdl))
      BY <2>2 DEF Epoll!EchoBack
    <3>2. Len(rdl) \in Nat /\ k \in 1..Len(rdl) /\ \A n \in 1..Len(rdl) : rdl[n] \in Fd
      BY DEF EpollInv
    <3>3. SubSeq(rdl, 1, k - 1) \in Seq(Fd) /\ SubSeq(rdl, k + 1, Len(rdl)) \in Seq(Fd)
      BY <3>2, SubSeqProperties
    <3> QED BY <3>1, <3>3, ConcatProperties
  <2> QED BY <2>1, <2>2
<1> QED BY <1>1, <1>5, <1>8, <1>9 DEF EpollInv

LEMMA EpollServerStep ==
    ASSUME NetInv, EpollInv, Epoll!Server
    PROVE  /\ NetInv' /\ EpollInv'
           /\ QuitRead => QuitRead' /\ [Echo!Next]_(Echo!vars)
<1>1. CASE Epoll!EpollWait BY <1>1, EpollWaitStep
<1>2. CASE Epoll!Accept BY <1>2, EpollAccept
<1>3. CASE Epoll!Skip
  <2>1. /\ spc = "loop" /\ i < nfds /\ mesg' \in {mesg, "empty"} /\ i' = i + 1
        /\ UNCHANGED <<net, spc, nfds, events, rdl>>
    BY <1>3 DEF Epoll!Skip, Epoll!Turn, Epoll!net, net
  <2>2. NetInv' /\ (QuitRead => QuitRead') /\ UNCHANGED Echo!vars BY <2>1, IdleNet DEF Up, Serving
  <2>3. /\ nfds \in 1..Cardinality(Client) + 1 /\ i \in 0..Cardinality(Client) + 1
        /\ Cardinality(Client) \in Nat
    BY UsedBound DEF EpollInv
  <2>4. i' \in 0..Cardinality(Client) + 1 BY <2>1, <2>3
  <2> QED BY <2>1, <2>2, <2>4 DEF EpollInv, Up, Used, net
<1>4. CASE Epoll!Read BY <1>4, EpollRead
<1>5. CASE Epoll!EchoBack BY <1>5, EpollEchoBack
<1>6. CASE Epoll!LoopDone
  <2>1. spc = "loop" /\ LoopEnd("wait") /\ UNCHANGED <<nfds, events, rdl, i>>
    BY <1>6, EpollNet DEF Epoll!LoopDone
  <2>2. /\ NetInv' /\ spc' \in {"wait", "stopped"} /\ (spc' = "wait" => UNCHANGED fds)
        /\ QuitRead => QuitRead' /\ [Echo!Next]_(Echo!vars)
    BY <2>1, LoopEndNet DEF Up, Serving
  <2> QED BY <2>1, <2>2 DEF EpollInv, Up, Used
<1> QED BY <1>1, <1>2, <1>3, <1>4, <1>5, <1>6 DEF Epoll!Server

LEMMA EpollPeerStep ==
    ASSUME NetInv, EpollInv, NEW c \in Client, Epoll!Environment(c)
    PROVE  /\ NetInv' /\ EpollInv'
           /\ QuitRead => QuitRead' /\ [Echo!Next]_(Echo!vars)
<1>1. Peer(c) /\ UNCHANGED <<nfds, events, i>>
  BY EpollNet DEF Epoll!Environment, Epoll!Arrival, Peer
<1>2. rdl' \in Seq(Fd)
  <2>1. rdl \in Seq(Fd) BY DEF EpollInv
  <2>2. CASE \E f \in Fd : fds[f] = c
    <3>1. (CHOOSE f \in Fd : fds[f] = c) \in Fd BY <2>2
    <3> QED BY <2>1, <3>1, AppendProperties DEF Epoll!Environment, Epoll!Arrival
  <2>3. CASE ~\E f \in Fd : fds[f] = c
    BY <2>1, <2>3 DEF Epoll!Environment, Epoll!Arrival
  <2> QED BY <2>2, <2>3
<1> QED BY <1>1, <1>2, PeerNet, PeerFrame DEF EpollInv, Up

-----------------------------------------------------------------------------
(* udp_server.c.                                                           *)

\* What the server has received and not sent back yet.
Held == IF upc = "send" THEN {datagram} ELSE {}

\* What the server is about to send back is a datagram that was typed.
Holds == upc = "send" => datagram \in Udp!Datagram /\ datagram.n <= typed[datagram.from]

\* A datagram with a q was typed as one.
Quits == \A d \in requests \cup Held \cup answers : d.text = "q" => d.from \in quitters

\* A client waits for each datagram that is under way, and has typed nothing
\* since.
Awaited ==
    \A d \in requests \cup Held \cup answers : cpc[d.from] = "wait" /\ d.n = typed[d.from]

\* There are never two datagrams of one client.
Single ==
    /\ \A d, e \in requests : d.from = e.from => d = e
    /\ \A d, e \in answers : d.from = e.from => d = e
    /\ \A d \in requests, e \in Held \cup answers : d.from # e.from
    /\ \A d \in Held, e \in answers : d.from # e.from

Once == repeated = 0 => Awaited /\ Single

\* A client that has not been started has typed and seen nothing.
Unopened == \A c \in Client : cpc[c] = "off" => typed[c] = 0 /\ shown[c] = 0

UdpInv == Udp!TypeOK /\ Holds /\ Quits /\ Udp!OwnQuit /\ Once /\ Udp!InStep /\ Unopened

USE BoundsAssumption

LEMMA UdpInit == Udp!Init => UdpInv
<1> SUFFICES ASSUME Udp!Init PROVE UdpInv
  OBVIOUS
<1>1. Udp!TypeOK
  BY DEF Udp!Init, Udp!TypeOK
<1>2. Holds /\ Quits /\ Udp!OwnQuit /\ Once /\ Udp!InStep /\ Unopened
  BY DEF Udp!Init, Unopened, Holds, Quits, Udp!OwnQuit, Once, Udp!InStep, Awaited, Single, Held
<1> QED BY <1>1, <1>2 DEF UdpInv

\* Datagrams only get fewer: by a loss, or with the server.
LEMMA UdpFewer ==
    ASSUME UdpInv, requests' \subseteq requests, answers' \subseteq answers, UNCHANGED <<Udp!client, repeated>>,
           \/ UNCHANGED Udp!server
           \/ upc' \in {"off", "recv"} /\ datagram' \in {datagram, Udp!Nothing},
           lost' \in Nat
    PROVE  UdpInv'
<1>1. Held' \subseteq Held /\ UNCHANGED <<cpc, typed, shown, quitters, repeated>>
  BY DEF Held, Udp!server, Udp!client
<1>2. Udp!TypeOK'
  BY <1>1 DEF UdpInv, Udp!TypeOK, Udp!server
<1>3. Holds'
  BY <1>1 DEF UdpInv, Holds, Udp!server
<1>4. Quits'
  BY <1>1 DEF UdpInv, Quits
<1>5. Udp!OwnQuit' /\ Udp!InStep' /\ Unopened'
  BY <1>1 DEF UdpInv, Udp!OwnQuit, Udp!InStep, Unopened
<1>6. Once'
  BY <1>1 DEF UdpInv, Once, Awaited, Single
<1> QED BY <1>2, <1>3, <1>4, <1>5, <1>6 DEF UdpInv

LEMMA UdpOutside == ASSUME UdpInv, Udp!Lose \/ Udp!Refuse \/ Udp!Start \/ Udp!Kill PROVE UdpInv'
<1>1. lost \in Nat
  BY DEF UdpInv, Udp!TypeOK
<1>2. CASE Udp!Lose
  BY <1>1, <1>2, UdpFewer DEF Udp!Lose
<1>3. CASE Udp!Refuse
  BY <1>1, <1>3, UdpFewer DEF Udp!Refuse
<1>4. CASE Udp!Start
  BY <1>1, <1>4, UdpFewer DEF Udp!Start, Udp!network
<1>5. CASE Udp!Kill
  BY <1>1, <1>5, UdpFewer DEF Udp!Kill, Udp!network
<1> QED BY <1>2, <1>3, <1>4, <1>5

LEMMA UdpReceive == ASSUME UdpInv, Udp!Receive PROVE UdpInv'
<1> PICK d \in requests : datagram' = d /\ Udp!Taken(requests, d)
  BY DEF Udp!Receive
<1>1. /\ upc = "recv" /\ upc' = "send" /\ UNCHANGED <<answers, cpc, typed, shown, quitters, lost>>
      /\ datagram' = d /\ Held' = {d} /\ Held = {}
  BY DEF Udp!Receive, Udp!client, Held
<1>2. \/ requests' = requests \ {d} /\ repeated' = repeated
      \/ requests' = requests /\ repeated' = repeated + 1 /\ repeated + 1 \in 1..Faults
  BY DEF Udp!Taken, UdpInv, Udp!TypeOK
<1>3. d \in Udp!Datagram /\ d.n <= typed[d.from]
  BY DEF UdpInv, Udp!TypeOK
<1>4. Udp!TypeOK' /\ Holds'
  BY <1>1, <1>2, <1>3 DEF UdpInv, Udp!TypeOK, Holds
<1>5. Quits' /\ Udp!OwnQuit' /\ Udp!InStep' /\ Unopened'
  BY <1>1, <1>2 DEF UdpInv, Udp!TypeOK, Quits, Udp!OwnQuit, Udp!InStep, Unopened
<1>6. Once'
  <2> SUFFICES ASSUME repeated' = 0 PROVE Awaited' /\ Single'
    BY DEF Once
  <2>1. requests' = requests \ {d} /\ Awaited /\ Single
    BY <1>2 DEF UdpInv, Udp!TypeOK, Once
  <2> QED BY <1>1, <2>1 DEF Awaited, Single
<1> QED BY <1>4, <1>5, <1>6 DEF UdpInv

LEMMA UdpEchoes == ASSUME UdpInv, Udp!Echo PROVE UdpInv'
<1>1. /\ upc = "send" /\ Held = {datagram} /\ datagram \in Udp!Datagram /\ datagram.n <= typed[datagram.from]
      /\ UNCHANGED <<requests, cpc, typed, shown, quitters, lost, repeated>>
  BY DEF Udp!Echo, Udp!EchoTo, Udp!client, Held, UdpInv, Holds
<1>2. [datagram EXCEPT !.from = datagram.from] = datagram
  BY <1>1 DEF Udp!Datagram
<1>3. answers' = answers \cup {datagram}
  BY <1>2 DEF Udp!Echo, Udp!EchoTo
<1>4. upc' \in {"off", "recv"} /\ datagram' \in {datagram, Udp!Nothing} /\ Held' = {}
  BY DEF Udp!Echo, Udp!EchoTo, Held
<1>5. Udp!TypeOK' /\ Holds'
  BY <1>1, <1>3, <1>4 DEF UdpInv, Udp!TypeOK, Holds
<1>6. Quits' /\ Udp!OwnQuit' /\ Udp!InStep' /\ Unopened'
  BY <1>1, <1>3, <1>4 DEF UdpInv, Quits, Udp!OwnQuit, Udp!InStep, Unopened
<1>7. Once'
  BY <1>1, <1>3, <1>4 DEF UdpInv, Once, Awaited, Single
<1> QED BY <1>5, <1>6, <1>7 DEF UdpInv

LEMMA UdpOpen == ASSUME UdpInv, NEW c \in Client, Udp!Open(c) PROVE UdpInv'
<1>1. /\ cpc[c] = "off" /\ cpc' = [cpc EXCEPT ![c] = "type"]
      /\ UNCHANGED <<requests, answers, upc, datagram, typed, shown, quitters, lost, repeated>>
  BY DEF Udp!Open, Udp!network, Udp!server
<1>2. Udp!TypeOK' /\ Holds' /\ Quits'
  BY <1>1 DEF UdpInv, Udp!TypeOK, Holds, Quits, Held
<1>3. Udp!OwnQuit'
  BY <1>1 DEF UdpInv, Udp!TypeOK, Udp!OwnQuit
<1>4. Udp!InStep' /\ Unopened'
  BY <1>1 DEF UdpInv, Udp!TypeOK, Udp!InStep, Unopened
<1>5. Once'
  <2> SUFFICES ASSUME repeated = 0 PROVE Awaited' /\ Single'
    BY <1>1 DEF Once
  <2>1. Awaited /\ Single /\ Held' = Held
    BY <1>1 DEF UdpInv, Once, Held
  <2>2. \A b \in Client : cpc[b] = "wait" => cpc'[b] = "wait"
    BY <1>1 DEF UdpInv, Udp!TypeOK
  <2>3. \A d \in requests \cup Held \cup answers : d.from \in Client
    BY DEF UdpInv, Udp!TypeOK, Holds, Held, Udp!Datagram
  <2>4. Awaited'
    BY <1>1, <2>1, <2>2, <2>3 DEF Awaited
  <2>5. Single'
    BY <1>1, <2>1 DEF Single
  <2> QED BY <2>4, <2>5
<1> QED BY <1>2, <1>3, <1>4, <1>5 DEF UdpInv

LEMMA UdpType == ASSUME UdpInv, NEW c \in Client, NEW t \in Udp!Text, Udp!Type(c, t) PROVE UdpInv'
<1> DEFINE d == [from |-> c, n |-> typed[c] + 1, text |-> t]
<1>1. /\ cpc[c] = "type" /\ typed[c] < Lines /\ typed' = [typed EXCEPT ![c] = @ + 1]
      /\ requests' = requests \cup {d} /\ cpc' = [cpc EXCEPT ![c] = "wait"]
      /\ quitters' = IF t = "q" THEN quitters \cup {c} ELSE quitters
      /\ UNCHANGED <<answers, upc, datagram, shown, lost, repeated>>
  BY DEF Udp!Type, Udp!server
<1>2. /\ typed' \in [Client -> 0..Lines] /\ typed'[c] = typed[c] + 1 /\ cpc'[c] = "wait"
      /\ \A b \in Client \ {c} : typed'[b] = typed[b] /\ cpc'[b] = cpc[b]
      /\ cpc' \in [Client -> {"off", "type", "wait", "done"}]
      /\ \A b \in Client : typed[b] \in Nat /\ typed'[b] \in Nat /\ typed[b] <= typed'[b]
  BY <1>1 DEF UdpInv, Udp!TypeOK
<1>3. d \in Udp!Datagram /\ d.from = c /\ d.n = typed'[c] /\ d.text = t
  BY <1>1, <1>2 DEF UdpInv, Udp!TypeOK, Udp!Datagram
<1> HIDE DEF d
<1>4. Udp!TypeOK' /\ Holds'
  <2>1. \A e \in Udp!Datagram : e.n \in Nat /\ e.from \in Client
    BY DEF Udp!Datagram
  <2>2. \A e \in requests' \cup answers' : e \in Udp!Datagram /\ e.n <= typed'[e.from]
    BY <1>1, <1>2, <1>3, <2>1 DEF UdpInv, Udp!TypeOK
  <2>3. Holds'
    BY <1>1, <1>2, <2>1 DEF UdpInv, Holds
  <2> QED BY <1>1, <1>2, <2>2, <2>3 DEF UdpInv, Udp!TypeOK
<1>5. Quits'
  BY <1>1, <1>3 DEF UdpInv, Quits, Held
<1>6. Udp!OwnQuit' /\ Udp!InStep' /\ Unopened'
  BY <1>1, <1>2 DEF UdpInv, Udp!TypeOK, Udp!OwnQuit, Udp!InStep, Unopened
<1>7. Once'
  <2> SUFFICES ASSUME repeated' = 0 PROVE Awaited' /\ Single'
    BY DEF Once
  <2>1. Awaited /\ Single /\ Held' = Held /\ answers' = answers /\ requests' = requests \cup {d}
    BY <1>1 DEF UdpInv, Once, Held
  <2>2. \A e \in requests \cup Held \cup answers : e.from \in Client \ {c}
    <3>1. \A e \in requests \cup Held \cup answers : e \in Udp!Datagram
      BY DEF UdpInv, Udp!TypeOK, Holds, Held
    <3> QED BY <1>1, <2>1, <3>1 DEF Awaited, Udp!Datagram
  <2>3. Awaited'
    BY <1>2, <1>3, <2>1, <2>2 DEF Awaited
  <2>4. Single'
    BY <1>3, <2>1, <2>2 DEF Single
  <2> QED BY <2>3, <2>4
<1> QED BY <1>4, <1>5, <1>6, <1>7 DEF UdpInv

LEMMA UdpShow == ASSUME UdpInv, NEW c \in Client, Udp!Show(c) PROVE UdpInv'
<1> PICK d \in answers : /\ d.from = c
                         /\ shown' = [shown EXCEPT ![c] = d.n]
                         /\ cpc' = [cpc EXCEPT ![c] = IF d.text = "q" THEN "done" ELSE "type"]
                         /\ Udp!Taken(answers, d)
  BY DEF Udp!Show
<1>1. cpc[c] = "wait" /\ UNCHANGED <<requests, upc, datagram, typed, quitters, lost>> /\ Held' = Held
  BY DEF Udp!Show, Udp!server, Held
<1>2. \/ answers' = answers \ {d} /\ repeated' = repeated
      \/ answers' = answers /\ repeated' = repeated + 1 /\ repeated + 1 \in 1..Faults
  BY DEF Udp!Taken, UdpInv, Udp!TypeOK
<1>3. d \in Udp!Datagram /\ d.n \in 1..Lines /\ (d.text = "q" => c \in quitters)
  BY DEF UdpInv, Udp!TypeOK, Udp!Datagram, Quits
<1>4. /\ shown' \in [Client -> 0..Lines] /\ shown'[c] = d.n
      /\ cpc' \in [Client -> {"off", "type", "wait", "done"}]
      /\ cpc'[c] = IF d.text = "q" THEN "done" ELSE "type"
      /\ \A b \in Client \ {c} : shown'[b] = shown[b] /\ cpc'[b] = cpc[b]
  BY <1>3 DEF UdpInv, Udp!TypeOK
<1>5. Udp!TypeOK' /\ Holds' /\ Quits'
  BY <1>1, <1>2, <1>4 DEF UdpInv, Udp!TypeOK, Holds, Quits
<1>6. Udp!OwnQuit' /\ Unopened'
  BY <1>1, <1>3, <1>4 DEF UdpInv, Udp!OwnQuit, Unopened
<1>7. Udp!InStep' /\ Once'
  <2> SUFFICES ASSUME repeated' = 0 PROVE Udp!InStep' /\ Awaited' /\ Single'
    BY DEF Once, Udp!InStep
  <2>1. answers' = answers \ {d} /\ repeated = 0 /\ Awaited /\ Single
    BY <1>2 DEF UdpInv, Udp!TypeOK, Once
  <2>2. d.n = typed[c]
    BY <2>1 DEF Awaited
  <2>3. Udp!InStep'
    BY <1>1, <1>4, <2>1, <2>2 DEF UdpInv, Udp!InStep
  <2>4. \A e \in requests' \cup Held' \cup answers' : e.from \in Client \ {c}
    <3>1. \A e \in requests \cup Held \cup answers : e \in Udp!Datagram
      BY DEF UdpInv, Udp!TypeOK, Holds, Held
    <3> QED BY <1>1, <2>1, <3>1 DEF Single, Udp!Datagram
  <2>5. Awaited'
    BY <1>1, <1>4, <2>1, <2>4 DEF Awaited
  <2>6. Single'
    BY <1>1, <2>1 DEF Single
  <2> QED BY <2>3, <2>5, <2>6
<1> QED BY <1>5, <1>6, <1>7 DEF UdpInv

-----------------------------------------------------------------------------
(* All together.                                                           *)

Inv ==
    /\ program \in {"tcp", "select", "epoll", "udp"}
    /\ NetInv
    /\ program = "tcp"    => TcpInv
    /\ program = "select" => SelectInv
    /\ program = "epoll"  => EpollInv
    /\ program = "udp"    => UdpInv

LEMMA InvInit == ASSUME Init PROVE Inv /\ Echo!Init /\ ("q" \notin Stack => QuitRead)
<1> USE TextAssumption DEF Filler
<1>1. Cardinality(Client) \in Nat /\ Cardinality({}) = 0
  BY ClientAssumption, FS_CardinalityType, FS_EmptySet
<1>2. CASE program = "tcp" /\ Tcp!Init
  <2>1. NetInv /\ Echo!Init BY <1>2, TcpNet, InitNet DEF Tcp!Init, Up
  <2> QED BY <1>2, <2>1 DEF Inv, TcpInv, Tcp!Init, QuitRead
<1>3. CASE program = "select" /\ Select!Init
  <2>1. NetInv /\ Echo!Init /\ Used = {} BY <1>3, SelectNet, InitNet DEF Select!Init, Up
  <2> QED BY <1>1, <1>3, <2>1, SelectNet DEF Inv, SelectInv, Select!Init, QuitRead
<1>4. CASE program = "epoll" /\ Epoll!Init
  <2>1. NetInv /\ Echo!Init /\ Used = {}
    BY <1>4, EpollNet, InitNet, StackAssumption DEF Epoll!Init, Up
  <2>2. rdl \in Seq(Fd) BY <1>4 DEF Epoll!Init
  <2>3. "q" \notin Stack => QuitRead
    BY <1>4, <2>1, StackAssumption DEF Epoll!Init, QuitRead
  <2> QED BY <1>1, <1>4, <2>1, <2>2, <2>3, EpollNet DEF Inv, EpollInv, Epoll!Init
<1>5. CASE program = "udp" /\ Udp!Init /\ ConnOff
  <2>1. NetInv /\ Echo!Init BY <1>5, InitNet DEF ConnOff, Up
  <2> QED BY <1>5, <2>1, UdpInit DEF Inv, ConnOff, QuitRead
<1> QED BY <1>2, <1>3, <1>4, <1>5 DEF Init

\* The steps of the UDP programs leave the connections alone.
LEMMA UdpFrame ==
    ASSUME NetInv, UNCHANGED conn
    PROVE  NetInv' /\ (QuitRead => QuitRead') /\ UNCHANGED Echo!vars
BY DEF conn, net, NetInv, ConnTypeOK, Line, Table, Used, Waiting, Heard, Serving, Open, Up, QuitRead, Echo!vars

LEMMA InvNext ==
    ASSUME Inv, [Next]_vars
    PROVE  Inv' /\ (QuitRead => QuitRead' /\ [Echo!Next]_(Echo!vars))
<1>1. CASE Server
  <2>1. CASE TcpRuns /\ Tcp!Server BY <2>1, TcpServerStep DEF Inv, TcpRuns
  <2>2. CASE SelectRuns /\ Select!Server BY <2>2, SelectServerStep DEF Inv, SelectRuns
  <2>3. CASE EpollRuns /\ Epoll!Server BY <2>3, EpollServerStep DEF Inv, EpollRuns
  <2>4. CASE UdpRuns /\ Udp!Server
    <3>1. UdpInv' BY <2>4, UdpReceive, UdpEchoes DEF Inv, UdpRuns, Udp!Server
    <3> QED BY <2>4, <3>1, UdpFrame DEF Inv, UdpRuns
  <2> QED BY <1>1, <2>1, <2>2, <2>3, <2>4 DEF Server
<1>2. ASSUME NEW c \in Client, Environment(c)
      PROVE  Inv' /\ (QuitRead => QuitRead' /\ [Echo!Next]_(Echo!vars))
  <2>1. CASE TcpRuns /\ Tcp!Environment(c) BY <2>1, TcpPeerStep DEF Inv, TcpRuns
  <2>2. CASE SelectRuns /\ Select!Environment(c) BY <2>2, SelectPeerStep DEF Inv, SelectRuns
  <2>3. CASE EpollRuns /\ Epoll!Environment(c) BY <2>3, EpollPeerStep DEF Inv, EpollRuns
  <2>4. CASE UdpRuns /\ Udp!Environment(c)
    <3>1. UdpInv' BY <2>4, UdpOpen, UdpType, UdpShow DEF Inv, UdpRuns, Udp!Environment
    <3> QED BY <2>4, <3>1, UdpFrame DEF Inv, UdpRuns
  <2> QED BY <1>2, <2>1, <2>2, <2>3, <2>4 DEF Environment
<1>3. CASE Outside
  <2>1. UdpInv' BY <1>3, UdpOutside DEF Inv, Outside, UdpRuns, Udp!Outside
  <2> QED BY <1>3, <2>1, UdpFrame DEF Inv, Outside, UdpRuns
<1>4. CASE UNCHANGED vars
  <2>1. NetInv' /\ (QuitRead => QuitRead') /\ UNCHANGED Echo!vars
    BY <1>4, UdpFrame DEF Inv, vars
  <2>2. UdpInv => UdpInv'
    BY <1>4, UdpFewer DEF vars, ofUdp, Udp!client, Udp!server, UdpInv, Udp!TypeOK
  <2> QED BY <1>4, <2>1, <2>2
          DEF vars, conn, net, ofTcp, ofSelect, ofEpoll, Inv, Used, Up, TcpInv, SelectInv, EpollInv
<1> QED BY <1>1, <1>2, <1>3, <1>4 DEF Next

LEMMA InvAlways == Spec => []Inv
BY InvInit, InvNext, PTL DEF Spec

\* Types: whichever server runs, its counters, arrays and descriptors keep to
\* their ranges; client_index and nfds never pass the number of clients,
\* however the clients come and go; no datagram is of a line nobody typed.
THEOREM TypeCorrect == Spec => []TypeOK
<1>1. Inv => TypeOK
  <2> SUFFICES ASSUME Inv PROVE TypeOK OBVIOUS
  <2>1. CASE program = "tcp"
    BY <2>1, TcpNet DEF Inv, NetInv, TcpInv, TypeOK, Tcp!TypeOK
  <2>2. CASE program = "select"
    BY <2>2, SelectNet DEF Inv, NetInv, SelectInv, TypeOK, Select!TypeOK
  <2>3. CASE program = "epoll"
    BY <2>3, EpollNet DEF Inv, NetInv, EpollInv, TypeOK, Epoll!TypeOK
  <2>4. CASE program = "udp"
    BY <2>4 DEF Inv, UdpInv, TypeOK
  <2> QED BY <2>1, <2>2, <2>3, <2>4 DEF Inv
<1> QED BY <1>1, InvAlways, PTL

\* client_index and nfds count the open connections of select_server.c and
\* epoll_server.c, for any number of clients, although the arrays lose track
\* of which they are.
THEOREM CountsCorrect == Spec => []Counts
<1>1. Inv => Counts
  BY SelectNet, EpollNet
  DEF Inv, SelectInv, EpollInv, Counts, Select!IndexCounts, Epoll!NfdsCounts, Used,
      Up, Select!Up, Epoll!Up
<1> QED BY <1>1, InvAlways, PTL

\* Each server implements EchoService, if what epoll_server.c finds in mesg
\* before the first message does not begin with q: it would stop for that.
THEOREM ImplementsCorrect ==
    ASSUME "q" \notin Stack PROVE Spec => Implements
<1>1. Init => Inv /\ QuitRead /\ Echo!Init BY InvInit
<1>2. Inv /\ QuitRead /\ [Next]_vars => Inv' /\ QuitRead' /\ [Echo!Next]_(Echo!vars)
  BY InvNext
<1> QED BY <1>1, <1>2, PTL DEF Spec, Implements, Echo!Spec

\* Whatever is lost or reordered, a client of udp_client.c that goes on has been
\* shown the line it has typed last, as long as no datagram is repeated.
THEOREM InStepCorrect == Spec => []InStep
<1>1. Inv => InStep
  BY DEF Inv, UdpInv, InStep
<1> QED BY <1>1, InvAlways, PTL

\* Only a q of its own ends a client of udp_client.c, even if datagrams are repeated.
THEOREM OwnQuitCorrect == Spec => []OwnQuit
<1>1. Inv => OwnQuit
  BY DEF Inv, UdpInv, OwnQuit
<1> QED BY <1>1, InvAlways, PTL
=============================================================================
