--------------------------- MODULE HttpConnProofs ---------------------------
(***************************************************************************)
(* Every step of HttpConn keeps the types of its variables.  The lemmas are*)
(* for the servers built on it.                                            *)
(***************************************************************************)
EXTENDS HttpConn, SequenceTheorems, TLAPS

\* The browser's steps keep the types.
LEMMA BrowserType ==
    ASSUME ConnTypeOK, NEW c \in Client, Browser(c)
    PROVE  ConnTypeOK'
<1>1. CASE Connect(c)
  BY <1>1 DEF Connect, ConnTypeOK, PeerTypeOK, ThreadTypeOK, thread
<1>2. CASE Send(c)
  <2>1. sent' \in [Client -> 0..2]
    <3>1. sent \in [Client -> 0..2] /\ sent[c] < 2 /\ sent' = [sent EXCEPT ![c] = @ + 1]
      BY <1>2 DEF Send, ConnTypeOK, PeerTypeOK
    <3> QED BY <3>1
  <2>2. out' \in [Client -> Seq(Piece)] /\ reset' \subseteq Client
    <3>1. out \in [Client -> Seq(Piece)] /\ reset \subseteq Client
      BY DEF ConnTypeOK, PeerTypeOK
    <3>2. Reset(c) \/ UNCHANGED <<out, reset>>
      BY <1>2 DEF Send
    <3>3. CASE Reset(c)
      <4>1. PICK kept \in {out[c], <<>>} : out' = [out EXCEPT ![c] = kept]
        BY <3>3 DEF Reset
      <4>2. kept \in Seq(Piece)
        BY <3>1, EmptySeq
      <4>3. out' \in [Client -> Seq(Piece)]
        BY <3>1, <4>1, <4>2
      <4> QED BY <3>1, <3>3, <4>3 DEF Reset
    <3> QED BY <3>1, <3>2, <3>3
  <2>3. UNCHANGED <<kind, cst, left, backlog, taken, fds, csock, cur, thread, proc>>
    BY <1>2 DEF Send
  <2> QED BY <2>1, <2>2, <2>3 DEF ConnTypeOK, PeerTypeOK, ThreadTypeOK, thread
<1>3. CASE Leave(c)
  BY <1>3 DEF Leave, ConnTypeOK, PeerTypeOK, ThreadTypeOK, thread
<1> QED BY <1>1, <1>2, <1>3 DEF Browser

\* The accept loop's steps keep the types.
LEMMA AcceptType ==
    ASSUME ConnTypeOK, Accept
    PROVE  ConnTypeOK'
<1>1. Head(backlog) \in Client /\ Tail(backlog) \in Seq(Client)
  BY HeadTailProperties DEF ConnTypeOK, PeerTypeOK, Accept
<1>2. PeerTypeOK'
  BY <1>1 DEF Accept, ConnTypeOK, PeerTypeOK
<1>3. ThreadTypeOK'
  BY <1>1 DEF Accept, ConnTypeOK, ThreadTypeOK, thread
<1> QED BY <1>2, <1>3 DEF ConnTypeOK

LEMMA CreateType ==
    ASSUME ConnTypeOK, Create
    PROVE  ConnTypeOK'
BY DEF Create, ConnTypeOK, PeerTypeOK, ThreadTypeOK, Place, client

\* So does the death of the process.
LEMMA DieType ==
    ASSUME ConnTypeOK, Die
    PROVE  ConnTypeOK'
BY DEF Die, ConnTypeOK, PeerTypeOK, ThreadTypeOK, client, thread

\* close() keeps the types when the stream's last reply was well-typed.
LEMMA CloseType ==
    ASSUME ConnTypeOK, NEW f \in Fd, NEW text \in [Client -> Seq(Piece)], Close(f, text)
    PROVE  /\ fds' \in [Fd -> Client \cup System \cup {Free}]
           /\ out' \in [Client -> Seq(Piece)]
           /\ reset' \subseteq Client
<1>1. fds \in [Fd -> Client \cup System \cup {Free}] /\ reset \subseteq Client
  BY DEF ConnTypeOK, PeerTypeOK, ThreadTypeOK
<1>2. fds' = [fds EXCEPT ![f] = Free]
  BY DEF Close
<1>3. fds' \in [Fd -> Client \cup System \cup {Free}]
  BY <1>1, <1>2
<1>4. CASE out' = text /\ UNCHANGED reset
  BY <1>1, <1>3, <1>4
<1>5. CASE ~(out' = text /\ UNCHANGED reset)
  <2>1. fds[f] \in Client /\ reset' = reset \cup {fds[f]}
    BY <1>5 DEF Close
  <2>2. PICK kept \in {text[fds[f]], <<>>} : out' = [text EXCEPT ![fds[f]] = kept]
    BY <1>5 DEF Close
  <2>3. kept \in Seq(Piece)
    BY <2>1, EmptySeq
  <2>4. out' \in [Client -> Seq(Piece)]
    BY <2>1, <2>2, <2>3
  <2> QED BY <1>1, <1>3, <2>1, <2>4
<1> QED BY <1>4, <1>5

\* The thread's steps keep the types, given that clnt_read's descriptor has
\* been set before it is used.
LEMMA LoadType ==
    ASSUME ConnTypeOK, NEW h \in Client, Load(h)
    PROVE  ConnTypeOK'
BY DEF Load, Goto, ConnTypeOK, PeerTypeOK, ThreadTypeOK, Place, client

LEMMA OpenReadType ==
    ASSUME ConnTypeOK, NEW h \in Client, OpenRead(h)
    PROVE  ConnTypeOK'
<1>1. CASE Die
  BY <1>1, DieType
<1>2. CASE ~Die
  BY <1>2 DEF OpenRead, Goto, ConnTypeOK, PeerTypeOK, ThreadTypeOK, Place, client
<1> QED BY <1>1, <1>2

LEMMA OpenWriteType ==
    ASSUME ConnTypeOK, NEW h \in Client, rfd[h] \in Fd, OpenWrite(h)
    PROVE  ConnTypeOK'
<1>1. CASE Die
  BY <1>1, DieType
<1>2. CASE ~Die
  <2>1. fds[rfd[h]] \in Client \cup System \cup {Free}
    BY DEF ConnTypeOK, ThreadTypeOK
  <2>2. PICK f \in Fd : fds' = [fds EXCEPT ![f] = fds[rfd[h]]] /\ wfd' = [wfd EXCEPT ![h] = f]
    BY <1>2 DEF OpenWrite
  <2>3. UNCHANGED <<kind, client, backlog, taken, out, reset, csock, cur, rfd, full, method, proc>>
    BY <1>2 DEF OpenWrite
  <2>4. hpc' = [hpc EXCEPT ![h] = "line"]
    BY <1>2 DEF OpenWrite, Goto
  <2> QED BY <2>1, <2>2, <2>3, <2>4 DEF ConnTypeOK, PeerTypeOK, ThreadTypeOK, Place, client
<1> QED BY <1>1, <1>2

LEMMA ReadLineType ==
    ASSUME ConnTypeOK, NEW h \in Client, ReadLine(h)
    PROVE  ConnTypeOK'
<1>1. /\ UNCHANGED <<kind, client, backlog, out, reset, fds, csock, cur, rfd, wfd, proc>>
      /\ hpc' = [hpc EXCEPT ![h] = "dispatch"]
  BY DEF ReadLine, Goto
<1>2. /\ taken' \in [Client -> 0..2]
      /\ full' \in [Client -> BOOLEAN]
      /\ method' \in [Client -> Method]
  <2> DEFINE x == fds[rfd[h]]
  <2>1. /\ taken \in [Client -> 0..2] /\ sent \in [Client -> 0..2]
        /\ full \in [Client -> BOOLEAN] /\ method \in [Client -> Method]
    BY DEF ConnTypeOK, PeerTypeOK, ThreadTypeOK
  <2>2. CASE x \in Client /\ taken[x] < sent[x]
    <3>1. /\ taken' = [taken EXCEPT ![x] = sent[x]]
          /\ full' = [full EXCEPT ![h] = (sent[x] = 2)]
          /\ method' = [method EXCEPT ![h] = IF taken[x] = 0 THEN MethodOf(kind[x]) ELSE "other"]
      BY <2>2 DEF ReadLine
    <3>2. MethodOf(kind[x]) \in Method
      BY DEF MethodOf, Method
    <3>3. (IF taken[x] = 0 THEN MethodOf(kind[x]) ELSE "other") \in Method
      BY <3>2 DEF Method
    <3> QED BY <2>1, <2>2, <3>1, <3>3
  <2>3. CASE ~(x \in Client /\ taken[x] < sent[x])
    BY <2>1, <2>3 DEF ReadLine
  <2> QED BY <2>2, <2>3
<1> QED BY <1>1, <1>2 DEF ConnTypeOK, PeerTypeOK, ThreadTypeOK, Place, client

\* A reply of the right type keeps out's type.
LEMMA DeliverType ==
    ASSUME ConnTypeOK, NEW h \in Client, NEW r \in Piece, Deliver(h, r)
    PROVE  out' \in [Client -> Seq(Piece)]
<1>1. out \in [Client -> Seq(Piece)]
  BY DEF ConnTypeOK, PeerTypeOK
<1>2. \A x \in Client : Append(out[x], r) \in Seq(Piece)
  BY <1>1, AppendProperties
<1> QED BY <1>1, <1>2 DEF Deliver

LEMMA DispatchType ==
    ASSUME ConnTypeOK, NEW h \in Client, Dispatch(h)
    PROVE  ConnTypeOK'
<1>1. UNCHANGED <<kind, client, backlog, taken, reset, fds, csock, cur, rfd, wfd, full, method, proc>>
  BY DEF Dispatch, DispatchWith
<1>2. hpc' = [hpc EXCEPT ![h] = "headers"] \/ hpc' = [hpc EXCEPT ![h] = "close_r"]
  BY DEF Dispatch, DispatchWith, Goto
<1>3. out' \in [Client -> Seq(Piece)]
  <2>1. CASE method[h] = "get"
    BY <2>1 DEF Dispatch, DispatchWith, ConnTypeOK, PeerTypeOK
  <2>2. CASE method[h] # "get"
    <3>1. Deliver(h, "200") \/ Deliver(h, "400")
      BY <2>2 DEF Dispatch, DispatchWith
    <3>2. "200" \in Piece /\ "400" \in Piece
      BY DEF Piece
    <3> QED BY <3>1, <3>2, DeliverType
  <2> QED BY <2>1, <2>2
<1> QED BY <1>1, <1>2, <1>3 DEF ConnTypeOK, PeerTypeOK, ThreadTypeOK, Place, client

LEMMA ReadHeadersType ==
    ASSUME ConnTypeOK, NEW h \in Client, ReadHeaders(h)
    PROVE  ConnTypeOK'
<1>1. taken' \in [Client -> 0..2] /\ full' \in [Client -> BOOLEAN]
  BY DEF ReadHeaders, ConnTypeOK, PeerTypeOK, ThreadTypeOK
<1>2. /\ UNCHANGED <<kind, client, backlog, out, reset, fds, csock, cur, rfd, wfd, method, proc>>
      /\ hpc' = [hpc EXCEPT ![h] = "data"]
  BY DEF ReadHeaders, Goto
<1> QED BY <1>1, <1>2 DEF ConnTypeOK, PeerTypeOK, ThreadTypeOK, Place, client

LEMMA CloseReadType ==
    ASSUME ConnTypeOK, NEW h \in Client, rfd[h] \in Fd, CloseRead(h)
    PROVE  ConnTypeOK'
<1>1. /\ UNCHANGED <<kind, client, backlog, taken, csock, cur, rfd, wfd, full, method, proc>>
      /\ hpc' = [hpc EXCEPT ![h] = "close_w"]
      /\ Close(rfd[h], out)
  BY DEF CloseRead, Goto
<1>2. out \in [Client -> Seq(Piece)]
  BY DEF ConnTypeOK, PeerTypeOK
<1>3. /\ fds' \in [Fd -> Client \cup System \cup {Free}]
      /\ out' \in [Client -> Seq(Piece)]
      /\ reset' \subseteq Client
  BY <1>1, <1>2, CloseType
<1> QED BY <1>1, <1>3 DEF ConnTypeOK, PeerTypeOK, ThreadTypeOK, Place, client
=============================================================================
