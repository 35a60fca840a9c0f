-------------------------- MODULE WebServerProofs --------------------------
(***************************************************************************)
(* Proofs about WebServer, for every set of browsers, requests and         *)
(* descriptors: the typing invariant, and the descriptor table's books,    *)
(* from which it follows that a thread only ever touches the connection it *)
(* was created for and that no descriptor leaks.                           *)
(***************************************************************************)
EXTENDS WebServer, HttpConnProofs

\* Typing and the ledger are inductive together: the typing of a step that
\* dups a descriptor needs the ledger to know that it is one.
Inv == TypeOK /\ Ledger

\* Nothing is open at the start.
LEMMA InitInv == Init => Inv
BY DEF Init, ConnInit, Inv, TypeOK, ConnTypeOK, PeerTypeOK, ThreadTypeOK, Place,
       Ledger, Holds, Reading, Writing, NoFd, Method, Gets

\* The only thread that can be running is that of the last connection, and
\* the descriptors its place calls for are real ones.
LEMMA Running ==
    ASSUME Inv, proc = "up", NEW h \in Client, hpc[h] \notin {"none", "done"}
    PROVE  /\ h = cur /\ mpc = "join"
           /\ hpc[h] = "load" => csock \in Fd
           /\ hpc[h] \in {"open_r"} \cup Reading => rfd[h] \in Fd
           /\ hpc[h] \in Writing => wfd[h] \in Fd
BY DEF Inv, Ledger, Holds, Reading, Writing

-----------------------------------------------------------------------------
(* Typing.                                                                 *)

\* What sendData writes is made of pieces.
LEMMA WrittenType ==
    ASSUME NEW k, NEW text \in Written(k)
    PROVE  text \in Seq(Piece)
<1>1. /\ <<"200", "all">> \in Seq(Piece) /\ <<"200", "all", "junk">> \in Seq(Piece)
      /\ <<"200", "first", "last", "junk">> \in Seq(Piece)
      /\ <<"200", "first", "junk", "last", "junk">> \in Seq(Piece)
      /\ <<"200">> \in Seq(Piece) /\ <<"200", "junk">> \in Seq(Piece)
  BY DEF Piece
<1> QED BY <1>1 DEF Written

\* fclose(clnt_write) keeps the types: what it sends is made of pieces.
LEMMA CloseWriteType ==
    ASSUME TypeOK, NEW h \in Client, wfd[h] \in Fd, CloseWrite(h), UNCHANGED mpc
    PROVE  TypeOK'
<1>1. /\ ConnTypeOK /\ mpc' \in {"accept", "create", "join"}
      /\ file' \in [Client -> Kind \cup Gets]
      /\ stream \in [Client -> Seq(Piece)] /\ stream' \in [Client -> Seq(Piece)]
  <2>1. <<>> \in Seq(Piece)
    OBVIOUS
  <2> QED BY <2>1 DEF TypeOK, CloseWrite
<1>2. CASE Die
  BY <1>1, <1>2, DieType DEF TypeOK
<1>3. CASE ~Die
  <2> DEFINE x == fds[wfd[h]]
             text == IF x \in Client \ left THEN [out EXCEPT ![x] = @ \o stream[h]] ELSE out
  <2>1. Close(wfd[h], text)
    BY <1>3 DEF CloseWrite
  <2>2. out \in [Client -> Seq(Piece)]
    BY <1>1 DEF ConnTypeOK, PeerTypeOK
  <2>3. \A y \in Client : out[y] \o stream[h] \in Seq(Piece)
    BY <1>1, <2>2, ConcatProperties
  <2>4. text \in [Client -> Seq(Piece)]
    BY <2>2, <2>3
  <2>5. /\ UNCHANGED <<kind, client, backlog, taken, csock, cur, rfd, wfd, full, method, proc>>
        /\ hpc' = [hpc EXCEPT ![h] = "done"]
    BY <1>3 DEF CloseWrite, Goto
  <2> HIDE DEF text
  <2>6. /\ fds' \in [Fd -> Client \cup System \cup {Free}]
        /\ out' \in [Client -> Seq(Piece)]
        /\ reset' \subseteq Client
    BY <1>1, <2>1, <2>4, CloseType
  <2>7. ConnTypeOK'
    BY <1>1, <2>5, <2>6 DEF ConnTypeOK, PeerTypeOK, ThreadTypeOK, Place, client
  <2> QED BY <1>1, <2>7 DEF TypeOK
<1> QED BY <1>2, <1>3

LEMMA SendDataType ==
    ASSUME TypeOK, NEW h \in Client, SendData(h), UNCHANGED mpc
    PROVE  TypeOK'
<1>1. ConnTypeOK'
  BY DEF SendData, Goto, TypeOK, ConnTypeOK, PeerTypeOK, ThreadTypeOK, Place, client
<1>2. stream' \in [Client -> Seq(Piece)]
  BY WrittenType DEF SendData, TypeOK
<1> QED BY <1>1, <1>2 DEF SendData, TypeOK

LEMMA GetLineType ==
    ASSUME TypeOK, NEW h \in Client, GetLine(h), UNCHANGED mpc
    PROVE  TypeOK'
<1>1. ConnTypeOK'
  BY ReadLineType DEF GetLine, TypeOK
<1>2. kind \in [Client -> Kind]
  BY DEF TypeOK, ConnTypeOK, PeerTypeOK
<1>3. file' \in [Client -> Kind \cup Gets]
  BY <1>2 DEF GetLine, TypeOK
<1> QED BY <1>1, <1>3 DEF GetLine, TypeOK

\* Every step of a handler thread keeps the types.
LEMMA HandlerType ==
    ASSUME Inv, NEW h \in Client, Handler(h)
    PROVE  TypeOK'
<1>1. ConnTypeOK /\ TypeOK /\ UNCHANGED mpc
  BY DEF Inv, TypeOK, Handler
<1>2. CASE UNCHANGED data /\ Spin(h)
  BY <1>1, <1>2 DEF Spin, data, conn, client, thread, TypeOK, ConnTypeOK, PeerTypeOK, ThreadTypeOK
<1>3. CASE UNCHANGED data /\ OpenWrite(h)
  <2>1. rfd[h] \in Fd
    BY <1>3, Running DEF OpenWrite, At, Reading
  <2> QED BY <1>1, <1>3, <2>1, OpenWriteType DEF TypeOK, data
<1>4. CASE UNCHANGED data /\ CloseRead(h)
  <2>1. rfd[h] \in Fd
    BY <1>4, Running DEF CloseRead, At, Reading
  <2> QED BY <1>1, <1>4, <2>1, CloseReadType DEF TypeOK, data
<1>5. CASE CloseWrite(h)
  <2>1. wfd[h] \in Fd
    BY <1>5, Running DEF CloseWrite, At, Writing
  <2> QED BY <1>1, <1>5, <2>1, CloseWriteType
<1>6. CASE UNCHANGED data /\ (Load(h) \/ OpenRead(h) \/ Dispatch(h) \/ ReadHeaders(h))
  BY <1>1, <1>6, LoadType, OpenReadType, DispatchType, ReadHeadersType DEF TypeOK, data
<1>7. CASE GetLine(h) \/ SendData(h)
  BY <1>1, <1>7, GetLineType, SendDataType
<1> QED BY <1>2, <1>3, <1>4, <1>5, <1>6, <1>7 DEF Handler

\* So does every other step.
LEMMA TypeStep ==
    ASSUME Inv, [Next]_vars
    PROVE  TypeOK'
<1>1. ConnTypeOK /\ TypeOK
  BY DEF Inv, TypeOK
<1>2. CASE Main
  BY <1>1, <1>2, AcceptType, CreateType
     DEF Main, AcceptStep, CreateStep, Join, data, conn, client, thread, TypeOK, ConnTypeOK, PeerTypeOK, ThreadTypeOK
<1>3. ASSUME NEW c \in Client, Handler(c) PROVE TypeOK'
  BY <1>3, HandlerType
<1>4. ASSUME NEW c \in Client, Environment(c) PROVE TypeOK'
  BY <1>1, <1>4, BrowserType DEF Environment, TypeOK, data
<1>5. CASE UNCHANGED vars
  BY <1>1, <1>5 DEF vars, data, conn, client, thread, TypeOK, ConnTypeOK, PeerTypeOK, ThreadTypeOK
<1> QED BY <1>2, <1>3, <1>4, <1>5 DEF Next

-----------------------------------------------------------------------------
(* The books.                                                              *)

\* A step that leaves the table and everybody's place alone keeps them.
LEMMA LedgerFrame ==
    ASSUME Ledger, UNCHANGED <<fds, csock, cur, rfd, wfd, hpc, proc, mpc>>
    PROVE  Ledger'
BY DEF Ledger, Holds, Reading, Writing

LEMMA BrowserLedger ==
    ASSUME Ledger, NEW c \in Client, Environment(c)
    PROVE  Ledger'
BY LedgerFrame DEF Environment, Browser, Connect, Send, Leave, thread

\* main() opens csock when nothing is open, hands it to the thread it
\* creates, and goes on when that thread has closed what it had.
LEMMA MainLedger ==
    ASSUME Inv, Main
    PROVE  Ledger'
<1>1. CASE AcceptStep
  <2>1. Head(backlog) \in Client
    BY <1>1, HeadTailProperties DEF AcceptStep, Accept, Inv, TypeOK, ConnTypeOK, PeerTypeOK
  <2>2. fds \in [Fd -> Client \cup System \cup {Free}]
    BY DEF Inv, TypeOK, ConnTypeOK, ThreadTypeOK
  <2>3. proc = "up" /\ mpc = "accept" /\ mpc' = "create" /\ UNCHANGED <<hpc, proc>>
    BY <1>1 DEF AcceptStep, Accept, thread
  <2>4. \A h \in Client : hpc[h] \in {"none", "done"}
    BY <2>3 DEF Inv, Ledger
  <2>5. PICK f \in Fd : fds' = [fds EXCEPT ![f] = Head(backlog)] /\ csock' = f
    BY <1>1 DEF AcceptStep, Accept
  <2>6. cur' = Head(backlog)
    BY <1>1 DEF AcceptStep, Accept
  <2>7. Holds({csock}, cur)'
    BY <2>1, <2>2, <2>3, <2>5, <2>6 DEF Inv, Ledger, Holds
  <2> QED BY <2>1, <2>3, <2>4, <2>6, <2>7 DEF Ledger, Reading, Writing
<1>2. CASE CreateStep
  <2>1. /\ proc = "up" /\ mpc = "create" /\ mpc' = "join"
        /\ hpc' = [hpc EXCEPT ![cur] = "load"]
        /\ UNCHANGED <<fds, csock, cur>>
    BY <1>2 DEF CreateStep, Create
  <2>2. hpc \in [Client -> Place] /\ cur \in Client
    BY DEF Inv, TypeOK, ConnTypeOK, ThreadTypeOK
  <2> QED BY <2>1, <2>2 DEF Inv, Ledger, Holds, Reading, Writing
<1>3. CASE Join
  BY <1>3 DEF Join, At, conn, thread, Inv, Ledger, Holds, Reading, Writing
<1> QED BY <1>1, <1>2, <1>3 DEF Main

\* The death of the process empties the books.
LEMMA DieLedger == ASSUME Die PROVE Ledger'
BY DEF Die, Ledger

\* The steps of the one thread that can be running.
LEMMA HandlerLedger ==
    ASSUME Inv, NEW h \in Client, Handler(h)
    PROVE  Ledger'
<1> USE DEF Holds, Reading, Writing
<1>1. /\ fds \in [Fd -> Client \cup System \cup {Free}]
      /\ hpc \in [Client -> Place]
      /\ rfd \in [Client -> Fd \cup {NoFd}]
      /\ wfd \in [Client -> Fd \cup {NoFd}]
      /\ Ledger /\ UNCHANGED mpc
  BY DEF Inv, TypeOK, ConnTypeOK, ThreadTypeOK, Handler
<1>2. CASE Die
  BY <1>2, DieLedger
<1>3. CASE Load(h)
  <2>1. h = cur /\ mpc = "join" /\ csock \in Fd
    BY <1>3, Running DEF Load, At
  <2> QED BY <1>1, <1>3, <2>1 DEF Load, At, Goto, Ledger
<1>4. CASE OpenRead(h) /\ ~Die
  <2>1. h = cur /\ mpc = "join"
    BY <1>4, Running DEF OpenRead, At
  <2> QED BY <1>1, <1>4, <2>1 DEF OpenRead, At, Goto, Ledger
<1>5. CASE OpenWrite(h) /\ ~Die
  <2>1. h = cur /\ mpc = "join" /\ rfd[h] \in Fd
    BY <1>5, Running DEF OpenWrite, At
  <2>2. PICK f \in Fd : /\ fds[f] = Free
                        /\ fds' = [fds EXCEPT ![f] = fds[rfd[h]]]
                        /\ wfd' = [wfd EXCEPT ![h] = f]
    BY <1>5 DEF OpenWrite, Lowest
  <2>3. /\ proc = "up" /\ hpc[h] = "open_w" /\ hpc' = [hpc EXCEPT ![h] = "line"]
        /\ UNCHANGED <<csock, cur, rfd, proc>> /\ fds[rfd[h]] # Free
    BY <1>5 DEF OpenWrite, At, Goto
  <2> QED BY <1>1, <2>1, <2>2, <2>3 DEF Ledger
<1>6. CASE GetLine(h) \/ Dispatch(h) \/ ReadHeaders(h) \/ SendData(h)
  <2>1. /\ proc = "up" /\ hpc[h] \in {"line", "dispatch", "headers", "data"}
        /\ \E pc \in {"dispatch", "headers", "data", "close_r"} : hpc' = [hpc EXCEPT ![h] = pc]
        /\ UNCHANGED <<fds, csock, cur, rfd, wfd, proc>>
    BY <1>6 DEF GetLine, ReadLine, Dispatch, DispatchWith, ReadHeaders, SendData, At, Goto
  <2>2. h = cur /\ mpc = "join"
    BY <2>1, Running
  <2> QED BY <1>1, <2>1, <2>2 DEF Ledger
<1>7. CASE Spin(h)
  BY <1>1, <1>7, LedgerFrame DEF Spin, conn, thread
<1>8. CASE CloseRead(h)
  <2>1. h = cur /\ mpc = "join" /\ rfd[h] \in Fd
    BY <1>8, Running DEF CloseRead, At
  <2>2. /\ proc = "up" /\ hpc[h] = "close_r" /\ hpc' = [hpc EXCEPT ![h] = "close_w"]
        /\ fds' = [fds EXCEPT ![rfd[h]] = Free]
        /\ UNCHANGED <<csock, cur, rfd, wfd, proc>>
    BY <1>8 DEF CloseRead, Close, At, Goto
  <2> QED BY <1>1, <2>1, <2>2 DEF Ledger
<1>9. CASE CloseWrite(h) /\ ~Die
  <2>1. h = cur /\ mpc = "join" /\ wfd[h] \in Fd
    BY <1>9, Running DEF CloseWrite, At
  <2>2. /\ proc = "up" /\ hpc[h] = "close_w" /\ hpc' = [hpc EXCEPT ![h] = "done"]
        /\ fds' = [fds EXCEPT ![wfd[h]] = Free]
        /\ UNCHANGED <<csock, cur, rfd, wfd, proc>>
    BY <1>9 DEF CloseWrite, Close, At, Goto
  <2> QED BY <1>1, <2>1, <2>2 DEF Ledger
<1> QED BY <1>2, <1>3, <1>4, <1>5, <1>6, <1>7, <1>8, <1>9 DEF Handler

\* The invariant is inductive.
LEMMA NextInv ==
    ASSUME Inv, [Next]_vars
    PROVE  Inv'
<1>1. TypeOK'
  BY TypeStep
<1>2. Ledger'
  <2>1. CASE Main
    BY <2>1, MainLedger
  <2>2. ASSUME NEW c \in Client, Handler(c) PROVE Ledger'
    BY <2>2, HandlerLedger
  <2>3. ASSUME NEW c \in Client, Environment(c) PROVE Ledger'
    BY <2>3, BrowserLedger DEF Inv
  <2>4. CASE UNCHANGED vars
    BY <2>4, LedgerFrame DEF Inv, vars, conn, thread
  <2> QED BY <2>1, <2>2, <2>3, <2>4 DEF Next
<1> QED BY <1>1, <1>2 DEF Inv

LEMMA InvAlways == Spec => []Inv
BY InitInv, NextInv, PTL DEF Spec

-----------------------------------------------------------------------------
(* The replies.                                                            *)

\* What the code can send in reply to a request of kind k, and what browser
\* c may have.
Answers(k) ==
    CASE k = "post"  -> {<<"200">>}
      [] k = "other" -> {<<"400">>}
      [] OTHER       -> Written(k)

Right(c) == out[c] = <<>> \/ out[c] \in Answers(kind[c])

\* The accept queue holds queued connections, each of them once.
Queue ==
    \A i \in 1..Len(backlog) :
      /\ cst[backlog[i]] = "queued"
      /\ \A j \in 1..Len(backlog) : backlog[i] = backlog[j] => i = j

\* What the place of c's thread says of the bytes read from c, of the method
\* found in them and of the replies written.  A browser that has left, and
\* has nothing more to read, is the only one whose method may be wrong.
Gone(c) == c \in left /\ taken[c] = sent[c]

Story(c) ==
    /\ hpc[c] = "none" <=> cst[c] # "accepted" \/ (mpc = "create" /\ c = cur)
    /\ taken[c] <= sent[c]
    /\ full[c] => taken[c] = 2
    /\ hpc[c] \in {"none", "load", "open_r", "open_w", "line"} => taken[c] = 0
    /\ hpc[c] \notin {"close_r", "close_w", "done"} => out[c] = <<>>
    /\ hpc[c] \in {"close_r", "close_w"} /\ method[c] = "get" => out[c] = <<>>
    /\ hpc[c] \in Writing \ {"line"} => method[c] = MethodOf(kind[c]) \/ c \in left
    /\ hpc[c] = "dispatch" => method[c] = MethodOf(kind[c]) \/ Gone(c)
    /\ hpc[c] \in Writing \ {"line"} /\ method[c] = "get" => file[c] = kind[c] \/ c \in left
    /\ \/ stream[c] = <<>>
       \/ /\ hpc[c] \in {"close_r", "close_w"} /\ method[c] = "get"
          /\ stream[c] \in Written(file[c])
    /\ hpc[c] \in {"headers", "data"} => method[c] = "get"
    /\ hpc[c] = "data" => taken[c] = 2
    /\ hpc[c] \in {"close_r", "close_w", "done"} /\ kind[c] \in Gets => taken[c] = 2 \/ Gone(c)

Stories ==
    proc = "up" =>
      /\ Queue
      /\ mpc = "create" => cst[cur] = "accepted"
      /\ \A c \in Client : Story(c)

\* Nothing of a story is left when the process has died, but no reply
\* becomes wrong afterwards.
Replies == Stories /\ (\A c \in Client : Right(c)) /\ GetNeverReset

\* No request has been sent at the start, and no reply.
LEMMA RepliesInit == Init => Replies
<1> SUFFICES ASSUME Init PROVE Replies
  OBVIOUS
<1>1. \A c \in Client : Story(c)
  BY DEF Init, ConnInit, Story, Writing
<1>2. backlog = <<>> /\ reset = {} /\ mpc = "accept" /\ \A c \in Client : out[c] = <<>>
  BY DEF Init, ConnInit
<1> QED BY <1>1, <1>2 DEF Replies, Stories, Queue, Right, GetNeverReset

\* A story is kept by a step that leaves alone what it is about.
LEMMA StoryFrame ==
    ASSUME NEW c \in Client, Story(c),
           UNCHANGED <<kind, cst, sent, left, cur, mpc, hpc[c], taken[c], full[c], method[c], out[c], file[c], stream[c]>>
    PROVE  Story(c)'
BY DEF Story, Gone

\* While the thread of h has descriptors, they are those of h and h is open.
LEMMA Served ==
    ASSUME Inv, proc = "up", NEW h \in Client, cst[h] = "accepted", hpc[h] # "done", Stories
    PROVE  Open(h)
<1>1. (h = cur /\ mpc = "create") \/ hpc[h] \notin {"none", "done"}
  BY DEF Stories, Story
<1>2. hpc[h] \in Place /\ Ledger
  BY DEF Inv, TypeOK, ConnTypeOK, ThreadTypeOK
<1>3. CASE h = cur /\ mpc = "create"
  BY <1>2, <1>3 DEF Open, Ledger, Holds
<1>4. CASE hpc[h] \notin {"none", "done"}
  <2>1. \E f \in Fd : Holds({f}, h) \/ \E g \in Fd : Holds({f, g}, h)
    BY <1>2, <1>4, Running DEF Ledger, Place, Reading, Writing
  <2> QED BY <2>1 DEF Open, Holds
<1> QED BY <1>1, <1>3, <1>4

\* A reset takes replies away, it makes none wrong.
LEMMA ResetRight ==
    ASSUME ConnTypeOK, NEW x \in Client, Reset(x), UNCHANGED kind, NEW c \in Client, Right(c)
    PROVE  Right(c)' /\ (out[c] = <<>> => out'[c] = <<>>)
BY DEF Reset, Right, ConnTypeOK, PeerTypeOK

\* The browser's steps.
LEMMA BrowserReplies ==
    ASSUME Inv, Replies, NEW b \in Client, Environment(b)
    PROVE  Replies'
<1>1. ConnTypeOK /\ UNCHANGED <<kind, mpc, file, stream, taken, cur, hpc, full, method, proc, fds>>
  BY DEF Inv, TypeOK, data, Environment, Browser, Connect, Send, Leave, thread
<1>2. cst \in [Client -> {"idle", "queued", "accepted"}] /\ sent \in [Client -> 0..2]
      /\ taken \in [Client -> 0..2] /\ backlog \in Seq(Client)
      /\ out \in [Client -> Seq(Piece)] /\ reset \subseteq Client
  BY <1>1 DEF ConnTypeOK, PeerTypeOK
<1>3. CASE Connect(b)
  <2>1. /\ cst[b] = "idle" /\ cst' = [cst EXCEPT ![b] = "queued"]
        /\ backlog' = Append(backlog, b) /\ UNCHANGED <<sent, left, out, reset>>
    BY <1>3 DEF Connect
  <2>2. ASSUME proc = "up" PROVE Queue'
    <3>1. Queue
      BY <2>2 DEF Replies, Stories
    <3>2. /\ Len(backlog') = Len(backlog) + 1 /\ Len(backlog) \in Nat
          /\ \A i \in 1..Len(backlog) : backlog'[i] = backlog[i] /\ backlog[i] \in Client
          /\ backlog'[Len(backlog) + 1] = b
      BY <1>2, <2>1, AppendProperties
    <3>3. \A i \in 1..Len(backlog) : backlog'[i] # b
      BY <2>1, <3>1, <3>2 DEF Queue
    <3>4. \A i \in 1..Len(backlog') : i \in 1..Len(backlog) \/ i = Len(backlog) + 1
      BY <3>2
    <3>5. ASSUME NEW i \in 1..Len(backlog') PROVE cst'[backlog'[i]] = "queued"
      <4>1. CASE i \in 1..Len(backlog)
        BY <1>2, <2>1, <3>1, <3>2, <3>3, <4>1 DEF Queue
      <4>2. CASE i = Len(backlog) + 1
        BY <1>2, <2>1, <3>2, <4>2
      <4> QED BY <3>4, <4>1, <4>2
    <3>6. \A i, j \in 1..Len(backlog') : backlog'[i] = backlog'[j] => i = j
      <4> TAKE i, j \in 1..Len(backlog')
      <4> HAVE backlog'[i] = backlog'[j]
      <4>1. CASE i \in 1..Len(backlog) /\ j \in 1..Len(backlog)
        BY <3>1, <3>2, <4>1 DEF Queue
      <4>2. CASE i = Len(backlog) + 1 \/ j = Len(backlog) + 1
        BY <3>2, <3>3, <3>4, <4>2
      <4> QED BY <3>4, <4>1, <4>2
    <3> QED BY <3>5, <3>6 DEF Queue
  <2>3. ASSUME proc = "up", NEW c \in Client PROVE Story(c)'
    BY <1>1, <1>2, <2>1, <2>3 DEF Replies, Stories, Story, Gone
  <2>4. proc = "up" /\ mpc = "create" => cst'[cur] = "accepted"
    BY <1>2, <2>1 DEF Replies, Stories
  <2> QED BY <1>1, <2>1, <2>2, <2>3, <2>4 DEF Replies, Stories, Right, GetNeverReset
<1>4. CASE Send(b)
  <2>1. /\ cst[b] # "idle" /\ sent[b] < 2 /\ b \notin left /\ sent' = [sent EXCEPT ![b] = @ + 1]
        /\ UNCHANGED <<cst, left, backlog>>
        /\ IF cst[b] = "accepted" /\ ~Open(b) THEN Reset(b) ELSE UNCHANGED <<out, reset>>
    BY <1>4 DEF Send
  <2>2. \A c \in Client : Right(c)' /\ (out[c] = <<>> => out'[c] = <<>>)
    BY <1>1, <2>1, ResetRight DEF Replies, Right
  <2>3. ASSUME proc = "up", NEW c \in Client PROVE Story(c)'
    <3>1. Story(c)
      BY <2>3 DEF Replies, Stories
    <3>2. taken[c] <= sent[c]
      BY <3>1 DEF Story
    <3>3. taken[c] \in 0..2 /\ sent[c] \in 0..2 /\ taken' = taken
      BY <1>1, <1>2
    <3>4. c = b \/ sent'[c] = sent[c]
      BY <1>2, <2>1
    <3>5. c = b => c \notin left /\ sent'[c] = sent[c] + 1
      BY <1>2, <2>1
    <3>6. taken'[c] <= sent'[c] /\ (Gone(c) => Gone(c)')
      BY <2>1, <3>2, <3>3, <3>4, <3>5 DEF Gone
    <3> QED BY <1>1, <2>1, <2>2, <3>1, <3>6 DEF Story
  <2>4. ASSUME proc = "up", kind[b] \in Gets PROVE UNCHANGED reset
    <3>1. SUFFICES ASSUME cst[b] = "accepted", ~Open(b) PROVE FALSE
      BY <2>1
    <3>2. Stories /\ Story(b)
      BY <2>4 DEF Replies, Stories
    <3>3. hpc[b] = "done"
      BY <2>4, <3>1, <3>2, Served
    <3>4. taken[b] = 2
      BY <2>1, <2>4, <3>2, <3>3 DEF Story, Gone
    <3>5. taken[b] <= sent[b]
      BY <3>2 DEF Story
    <3>6. sent[b] < 2 /\ sent[b] \in 0..2
      BY <1>2, <2>1
    <3> QED BY <3>4, <3>5, <3>6
  <2>5. GetNeverReset'
    BY <1>1, <2>1, <2>4 DEF Replies, GetNeverReset, Reset
  <2> QED BY <1>1, <2>1, <2>2, <2>3, <2>5 DEF Replies, Stories, Queue
<1>5. CASE Leave(b)
  <2>1. left' = left \cup {b} /\ UNCHANGED <<cst, sent, out, reset, backlog>>
    BY <1>5 DEF Leave
  <2> QED BY <1>1, <2>1 DEF Replies, Stories, Story, Gone, Right, GetNeverReset, Queue
<1> QED BY <1>3, <1>4, <1>5 DEF Environment, Browser

\* main() takes a connection out of the queue that no thread has had yet.
LEMMA MainReplies ==
    ASSUME Inv, Replies, Main
    PROVE  Replies'
<1>1. /\ cst \in [Client -> {"idle", "queued", "accepted"}] /\ hpc \in [Client -> Place]
      /\ backlog \in Seq(Client) /\ cur \in Client
  BY DEF Inv, TypeOK, ConnTypeOK, PeerTypeOK, ThreadTypeOK
<1>5. UNCHANGED <<file, stream>>
  BY DEF Main, data
<1>2. CASE AcceptStep
  <2>1. /\ proc = "up" /\ mpc = "accept" /\ mpc' = "create" /\ backlog # <<>>
        /\ cur' = Head(backlog) /\ cst' = [cst EXCEPT ![Head(backlog)] = "accepted"]
        /\ backlog' = Tail(backlog)
        /\ UNCHANGED <<kind, sent, left, taken, out, reset, hpc, full, method, proc, file, stream>>
    BY <1>2, <1>5 DEF AcceptStep, Accept, thread
  <2>2. /\ Head(backlog) \in Client /\ Head(backlog) = backlog[1] /\ 1 \in 1..Len(backlog)
        /\ Len(Tail(backlog)) = Len(backlog) - 1 /\ Len(backlog) \in Nat
        /\ \A i \in 1..Len(Tail(backlog)) : Tail(backlog)[i] = backlog[i + 1]
        /\ \A i \in 1..Len(backlog) : backlog[i] \in Client
    BY <1>1, <2>1, HeadTailProperties
  <2>3. Queue /\ Stories
    BY <2>1 DEF Replies, Stories
  <2>4. cst[Head(backlog)] = "queued"
    BY <2>2, <2>3 DEF Queue
  <2>5. Queue'
    <3>1. \A i \in 1..Len(backlog') : i + 1 \in 1..Len(backlog) /\ i + 1 # 1 /\ backlog'[i] = backlog[i + 1]
      BY <2>1, <2>2
    <3>2. \A i \in 1..Len(backlog') : backlog'[i] # Head(backlog) /\ cst'[backlog'[i]] = "queued"
      BY <1>1, <2>1, <2>2, <2>3, <3>1 DEF Queue
    <3>3. \A i, j \in 1..Len(backlog') : backlog'[i] = backlog'[j] => i = j
      BY <2>3, <3>1 DEF Queue
    <3> QED BY <3>2, <3>3 DEF Queue
  <2>6. ASSUME NEW c \in Client PROVE Story(c)'
    BY <1>1, <2>1, <2>2, <2>3, <2>4 DEF Stories, Story, Gone
  <2>7. cst'[cur'] = "accepted"
    BY <1>1, <2>1, <2>2
  <2> QED BY <2>1, <2>5, <2>6, <2>7 DEF Replies, Stories, Right, GetNeverReset
<1>3. CASE CreateStep
  <2>1. /\ proc = "up" /\ mpc = "create" /\ mpc' = "join" /\ hpc' = [hpc EXCEPT ![cur] = "load"]
        /\ UNCHANGED <<kind, cst, sent, left, backlog, taken, out, reset, cur, full, method, proc, file, stream>>
    BY <1>3, <1>5 DEF CreateStep, Create, client
  <2>2. ASSUME NEW c \in Client PROVE Story(c)'
    BY <1>1, <2>1 DEF Replies, Stories, Story, Gone, Writing
  <2> QED BY <2>1, <2>2 DEF Replies, Stories, Right, GetNeverReset, Queue
<1>4. CASE Join
  <2>1. /\ UNCHANGED <<kind, cst, sent, left, backlog, taken, out, reset, hpc, cur, full, method, proc, file, stream>>
        /\ proc = "up" /\ mpc = "join" /\ mpc' = "accept"
    BY <1>4, <1>5 DEF Join, At, conn, client, thread
  <2>2. ASSUME NEW c \in Client PROVE Story(c)'
    BY <2>1 DEF Replies, Stories, Story, Gone
  <2> QED BY <2>1, <2>2 DEF Replies, Stories, Right, GetNeverReset, Queue
<1> QED BY <1>2, <1>3, <1>4 DEF Main

\* A step of the thread of h writes the story of h only.
LEMMA OneStory ==
    ASSUME Replies, proc = "up", NEW h \in Client,
           UNCHANGED <<kind, client, backlog, cur, mpc, proc>>,
           \A c \in Client \ {h} :
             UNCHANGED <<hpc[c], taken[c], full[c], method[c], out[c], file[c], stream[c]>>,
           \A c \in reset' : c \in reset \/ kind[c] \notin Gets,
           Story(h)', Right(h)'
    PROVE  Replies'
<1>1. \A c \in Client : Story(c)'
  BY StoryFrame DEF Replies, Stories, client
<1>2. \A c \in Client : Right(c)'
  BY DEF Replies, Right
<1> QED BY <1>1, <1>2 DEF Replies, Stories, GetNeverReset, Queue, client

\* A dead process has no stories, and what was delivered stays as it was.
LEMMA DieReplies == ASSUME Replies, Die PROVE Replies'
BY DEF Die, Replies, Stories, GetNeverReset, Right

\* When the thread of h closes a descriptor with everything read, or not its
\* last one, the connection is not reset.
LEMMA CloseQuiet ==
    ASSUME NEW h \in Client, NEW f \in Fd, fds[f] = h, NEW text, Close(f, text),
           ~(taken[h] < sent[h]) \/ \E g \in Fd \ {f} : fds[g] = h
    PROVE  out' = text /\ UNCHANGED reset
BY DEF Close

\* What the thread of h finds under its descriptors.
LEMMA OwnFds ==
    ASSUME Inv, proc = "up", NEW h \in Client
    PROVE  /\ hpc[h] \in Reading => fds[rfd[h]] = h /\ rfd[h] \in Fd
           /\ hpc[h] \in Writing => fds[wfd[h]] = h /\ wfd[h] \in Fd
           /\ hpc[h] \in Reading \cap Writing => rfd[h] # wfd[h]
BY Running DEF Inv, Ledger, Holds, Reading, Writing

\* The thread reads the method of its own request, unless its browser left.
LEMMA GetLineReplies ==
    ASSUME Inv, Replies, NEW h \in Client, GetLine(h), UNCHANGED mpc
    PROVE  Replies'
<1>1. proc = "up" /\ hpc[h] = "line" /\ fds[rfd[h]] = h
  BY OwnFds DEF GetLine, ReadLine, At, Reading
<1>2. Story(h) /\ taken[h] = 0 /\ out[h] = <<>> /\ stream[h] = <<>>
  BY <1>1 DEF Replies, Stories, Story
<1>3. /\ taken \in [Client -> 0..2] /\ sent \in [Client -> 0..2] /\ hpc \in [Client -> Place]
      /\ full \in [Client -> BOOLEAN] /\ method \in [Client -> Method]
      /\ file \in [Client -> Kind \cup Gets]
  BY DEF Inv, TypeOK, ConnTypeOK, PeerTypeOK, ThreadTypeOK
<1>4. /\ hpc' = [hpc EXCEPT ![h] = "dispatch"]
      /\ UNCHANGED <<kind, client, backlog, out, reset, cur, proc, stream>>
      /\ \E k \in Kind \cup Gets : file' = [file EXCEPT ![h] = k]
  <2>1. kind[h] \in Kind /\ h \in Client
    BY DEF Inv, TypeOK, ConnTypeOK, PeerTypeOK
  <2> QED BY <1>1, <2>1 DEF GetLine, ReadLine, Goto
<1>5. CASE taken[h] < sent[h]
  <2>1. /\ method' = [method EXCEPT ![h] = MethodOf(kind[h])]
        /\ full' = [full EXCEPT ![h] = (sent[h] = 2)]
        /\ taken' = [taken EXCEPT ![h] = sent[h]]
    BY <1>1, <1>2, <1>5 DEF GetLine, ReadLine
  <2>4. file'[h] = kind[h]
    BY <1>1, <1>2, <1>3, <1>5 DEF GetLine
  <2>2. hpc'[h] = "dispatch" /\ method'[h] = MethodOf(kind[h]) /\ taken'[h] = sent[h] /\ (full'[h] => sent[h] = 2)
    BY <1>3, <1>4, <2>1
  <2>3. Story(h)'
    BY <1>1, <1>2, <1>3, <1>4, <2>2, <2>4 DEF Story, client, Writing
  <2> QED BY <1>1, <1>2, <1>3, <1>4, <2>1, <2>3, OneStory DEF Right
<1>6. CASE ~(taken[h] < sent[h])
  <2>1. h \in left /\ UNCHANGED <<full, taken>> /\ \E m \in Method : method' = [method EXCEPT ![h] = m]
    BY <1>1, <1>6 DEF GetLine, ReadLine
  <2>2. taken[h] = sent[h]
    BY <1>2, <1>3, <1>6 DEF Story
  <2>3. hpc'[h] = "dispatch"
    BY <1>3, <1>4
  <2>4. Story(h)'
    BY <1>1, <1>2, <1>4, <2>1, <2>2, <2>3 DEF Story, client, Gone, Writing
  <2> QED BY <1>1, <1>2, <1>3, <1>4, <2>1, <2>4, OneStory DEF Right
<1> QED BY <1>5, <1>6

\* POST and the rest are answered at once, GET when its headers are read.
LEMMA DispatchReplies ==
    ASSUME Inv, Replies, NEW h \in Client, Dispatch(h), UNCHANGED <<mpc, file, stream>>
    PROVE  Replies'
<1>1. proc = "up" /\ hpc[h] = "dispatch" /\ fds[wfd[h]] = h
  BY OwnFds DEF Dispatch, DispatchWith, At, Writing
<1>2. Story(h) /\ out[h] = <<>> /\ (method[h] = MethodOf(kind[h]) \/ Gone(h))
  BY <1>1 DEF Replies, Stories, Story
<1>3. hpc \in [Client -> Place] /\ out \in [Client -> Seq(Piece)]
  BY DEF Inv, TypeOK, ConnTypeOK, PeerTypeOK, ThreadTypeOK
<1>4. UNCHANGED <<kind, client, backlog, taken, reset, cur, full, method, proc>>
  BY DEF Dispatch, DispatchWith
<1>5. CASE method[h] = "get"
  <2>1. UNCHANGED out /\ hpc' = [hpc EXCEPT ![h] = "headers"]
    BY <1>5 DEF Dispatch, DispatchWith, Goto
  <2>2. Story(h)'
    <3>1. hpc'[h] = "headers" /\ UNCHANGED <<cst, sent, left>>
      BY <1>3, <1>4, <2>1 DEF client
    <3> QED BY <1>1, <1>2, <1>4, <1>5, <2>1, <3>1 DEF Story, Gone, Writing
  <2> QED BY <1>1, <1>2, <1>3, <1>4, <2>1, <2>2, OneStory DEF Right
<1>6. CASE method[h] # "get"
  <2> DEFINE r == IF method[h] = "post" THEN "200" ELSE "400"
  <2>1. hpc' = [hpc EXCEPT ![h] = "close_r"] /\ Deliver(h, r)
    BY <1>6 DEF Dispatch, DispatchWith, Goto
  <2>2. out' = IF h \notin left THEN [out EXCEPT ![h] = Append(@, r)] ELSE out
    BY <1>1, <2>1 DEF Deliver
  <2>3. h \notin left => out'[h] = <<r>>
    BY <1>2, <1>3, <2>2
  <2>4. h \notin left => <<r>> \in Answers(kind[h])
    BY <1>2, <1>6 DEF Gone, Answers, MethodOf
  <2>5. Right(h)'
    BY <1>2, <1>4, <2>2, <2>3, <2>4 DEF Right
  <2>6. kind[h] \in Gets => Gone(h)
    BY <1>2, <1>6 DEF Gets, MethodOf
  <2>7. Story(h)'
    BY <1>1, <1>2, <1>3, <1>4, <1>6, <2>1, <2>6 DEF Story, client, Gone, Writing
  <2>8. \A c \in Client \ {h} : UNCHANGED <<hpc[c], out[c]>>
    BY <1>3, <2>1, <2>2
  <2> QED BY <1>1, <1>4, <2>5, <2>7, <2>8, OneStory
<1> QED BY <1>5, <1>6

\* The headers are read to the blank line.
LEMMA ReadHeadersReplies ==
    ASSUME Inv, Replies, NEW h \in Client, ReadHeaders(h), UNCHANGED <<mpc, file, stream>>
    PROVE  Replies'
<1>1. proc = "up" /\ hpc[h] = "headers" /\ fds[rfd[h]] = h
  BY OwnFds DEF ReadHeaders, At, Reading
<1>2. Story(h) /\ out[h] = <<>>
  BY <1>1 DEF Replies, Stories, Story
<1>3. /\ taken \in [Client -> 0..2] /\ sent \in [Client -> 0..2] /\ hpc \in [Client -> Place]
      /\ full \in [Client -> BOOLEAN]
  BY DEF Inv, TypeOK, ConnTypeOK, PeerTypeOK, ThreadTypeOK
<1>4. /\ UNCHANGED <<kind, client, backlog, out, reset, cur, method, proc>>
      /\ hpc' = [hpc EXCEPT ![h] = "data"]
  BY DEF ReadHeaders, Goto
<1>5. /\ taken'[h] = 2 /\ taken'[h] <= sent[h]
      /\ \A c \in Client \ {h} : UNCHANGED <<taken[c], full[c]>>
  <2>1. CASE full[h] /\ UNCHANGED <<full, taken>>
    BY <1>2, <2>1 DEF Story
  <2>2. CASE /\ sent[h] = 2 /\ full' = [full EXCEPT ![h] = TRUE]
             /\ taken' = [taken EXCEPT ![h] = 2]
    BY <1>3, <2>2
  <2> QED BY <1>1, <2>1, <2>2 DEF ReadHeaders
<1>6. hpc'[h] = "data" /\ \A c \in Client \ {h} : hpc'[c] = hpc[c]
  BY <1>3, <1>4
<1>7. Story(h)'
  BY <1>1, <1>2, <1>4, <1>5, <1>6 DEF Story, client, Writing
<1> QED BY <1>1, <1>2, <1>4, <1>5, <1>6, <1>7, OneStory DEF Right

\* fclose(clnt_read) is not the last close: clnt_write is still open.
LEMMA CloseReadReplies ==
    ASSUME Inv, Replies, NEW h \in Client, CloseRead(h), UNCHANGED <<mpc, file, stream>>
    PROVE  Replies'
<1>1. proc = "up" /\ hpc[h] = "close_r"
  BY DEF CloseRead, At
<1>2. fds[rfd[h]] = h /\ fds[wfd[h]] = h /\ rfd[h] \in Fd /\ wfd[h] \in Fd \ {rfd[h]}
  BY <1>1, OwnFds DEF Reading, Writing
<1>3. out' = out /\ UNCHANGED reset
  BY <1>2, CloseQuiet DEF CloseRead
<1>4. /\ UNCHANGED <<kind, client, backlog, taken, cur, full, method, proc>>
      /\ hpc' = [hpc EXCEPT ![h] = "close_w"] /\ hpc \in [Client -> Place]
  BY DEF CloseRead, Goto, Inv, TypeOK, ConnTypeOK, ThreadTypeOK
<1>5. Story(h) /\ Right(h)
  BY <1>1 DEF Replies, Stories
<1>6. Story(h)'
  BY <1>1, <1>3, <1>4, <1>5 DEF Story, client, Gone, Writing
<1> QED BY <1>1, <1>3, <1>4, <1>5, <1>6, OneStory DEF Right

\* What is put into the stream is the file the request line names.
LEMMA SendDataReplies ==
    ASSUME Inv, Replies, NEW h \in Client, SendData(h), UNCHANGED mpc
    PROVE  Replies'
<1>1. proc = "up" /\ hpc[h] = "data"
  BY DEF SendData, At
<1>2. Story(h) /\ Right(h) /\ out[h] = <<>>
  BY <1>1 DEF Replies, Stories, Story
<1>3. hpc \in [Client -> Place] /\ stream \in [Client -> Seq(Piece)]
  BY DEF Inv, TypeOK, ConnTypeOK, ThreadTypeOK
<1>4. /\ UNCHANGED <<kind, client, backlog, taken, out, reset, cur, full, method, proc, file>>
      /\ hpc' = [hpc EXCEPT ![h] = "close_r"]
  BY DEF SendData, Goto
<1>5. PICK text \in Written(file[h]) : stream' = [stream EXCEPT ![h] = text]
  BY DEF SendData
<1>6. method[h] = "get"
  BY <1>1, <1>2 DEF Story
<1>7. /\ hpc'[h] = "close_r" /\ stream'[h] = text
      /\ \A c \in Client \ {h} : UNCHANGED <<hpc[c], stream[c]>>
  BY <1>3, <1>4, <1>5
<1>8. Story(h)'
  BY <1>1, <1>2, <1>4, <1>6, <1>7 DEF Story, client, Gone, Writing
<1> QED BY <1>1, <1>2, <1>4, <1>7, <1>8, OneStory DEF Right

\* fclose(clnt_write) is the last close.  GET has read its whole request, or
\* its browser has gone: there is nothing left to reset the connection for.
LEMMA CloseWriteReplies ==
    ASSUME Inv, Replies, NEW h \in Client, CloseWrite(h), ~Die, UNCHANGED mpc
    PROVE  Replies'
<1>1. proc = "up" /\ hpc[h] = "close_w" /\ fds[wfd[h]] = h /\ wfd[h] \in Fd
  BY OwnFds DEF CloseWrite, At, Writing
<1>2. Story(h) /\ Right(h)
  BY <1>1 DEF Replies, Stories
<1>3. /\ taken \in [Client -> 0..2] /\ sent \in [Client -> 0..2]
      /\ hpc \in [Client -> Place] /\ out \in [Client -> Seq(Piece)]
      /\ stream \in [Client -> Seq(Piece)]
  BY DEF Inv, TypeOK, ConnTypeOK, PeerTypeOK, ThreadTypeOK
<1>4. /\ UNCHANGED <<kind, client, backlog, taken, cur, full, method, proc, file>>
      /\ hpc' = [hpc EXCEPT ![h] = "done"] /\ stream' = [stream EXCEPT ![h] = <<>>]
  BY DEF CloseWrite, Goto
<1> DEFINE text == IF h \in Client \ left THEN [out EXCEPT ![h] = @ \o stream[h]] ELSE out
<1>5. Close(wfd[h], text)
  BY <1>1 DEF CloseWrite
<1>6. \A c \in Client \ {h} : text[c] = out[c]
  BY <1>3
<1>7. text \in [Client -> Seq(Piece)] /\ (text[h] = <<>> \/ text[h] \in Answers(kind[h]))
  <2>1. out[h] \o stream[h] \in Seq(Piece)
    BY <1>3, ConcatProperties
  <2>2. text \in [Client -> Seq(Piece)] /\ text[h] = IF h \in left THEN out[h] ELSE out[h] \o stream[h]
    BY <1>3, <2>1
  <2>3. CASE h \in left
    BY <1>2, <2>2, <2>3 DEF Right
  <2>4. CASE stream[h] = <<>>
    <3>1. out[h] \o stream[h] = out[h]
      BY <1>3, <2>4, ConcatEmptySeq
    <3> QED BY <1>2, <2>2, <3>1 DEF Right
  <2>5. CASE h \notin left /\ stream[h] # <<>>
    <3>1. method[h] = "get" /\ out[h] = <<>> /\ MethodOf(kind[h]) = "get" /\ file[h] = kind[h]
      BY <1>1, <1>2, <2>5 DEF Story, Writing
    <3>2. stream[h] \in Answers(kind[h])
      BY <1>2, <2>5, <3>1 DEF Story, Answers, MethodOf
    <3>3. out[h] \o stream[h] = stream[h]
      BY <1>3, <3>1, ConcatEmptySeq
    <3> QED BY <2>2, <2>5, <3>2, <3>3
  <2> QED BY <2>2, <2>3, <2>4, <2>5
<1> HIDE DEF text
<1>8. \/ out' = text /\ UNCHANGED reset
      \/ /\ taken[h] < sent[h] /\ reset' = reset \cup {h}
         /\ \E kept \in {text[h], <<>>} : out' = [text EXCEPT ![h] = kept]
  BY <1>1, <1>5 DEF Close
<1>9. Right(h)' /\ \A c \in Client \ {h} : UNCHANGED out[c]
  BY <1>4, <1>6, <1>7, <1>8 DEF Right
<1>10. \A c \in reset' : c \in reset \/ kind[c] \notin Gets
  <2>1. taken[h] < sent[h] => kind[h] \notin Gets
    <3>1. kind[h] \in Gets => taken[h] = 2 \/ taken[h] = sent[h]
      BY <1>1, <1>2 DEF Story, Gone
    <3>2. taken[h] \in 0..2 /\ sent[h] \in 0..2
      BY <1>3
    <3> QED BY <3>1, <3>2
  <2> QED BY <1>8, <2>1
<1>11. hpc'[h] = "done" /\ stream'[h] = <<>> /\ \A c \in Client \ {h} : hpc'[c] = hpc[c] /\ stream'[c] = stream[c]
  BY <1>3, <1>4
<1>12. Story(h)'
  BY <1>1, <1>2, <1>4, <1>11 DEF Story, client, Gone, Writing
<1> QED BY <1>1, <1>4, <1>9, <1>10, <1>11, <1>12, OneStory

\* Every step of a handler thread keeps the replies right.
LEMMA HandlerReplies ==
    ASSUME Inv, Replies, NEW h \in Client, Handler(h)
    PROVE  Replies'
<1>1. UNCHANGED mpc
  BY DEF Handler
<1>2. CASE Die
  BY <1>2, DieReplies
<1>3. CASE UNCHANGED data /\ (Load(h) \/ OpenRead(h) \/ OpenWrite(h)) /\ ~Die
  <2>1. /\ UNCHANGED <<kind, client, backlog, taken, out, reset, cur, full, method, proc, file, stream>>
        /\ proc = "up" /\ hpc \in [Client -> Place] /\ hpc[h] \in {"load", "open_r", "open_w"}
        /\ \E pc \in {"open_r", "open_w", "line"} : hpc' = [hpc EXCEPT ![h] = pc]
    BY <1>3 DEF Load, OpenRead, OpenWrite, data, At, Goto, Inv, TypeOK, ConnTypeOK, ThreadTypeOK
  <2>2. Story(h) /\ Right(h)
    BY <2>1 DEF Replies, Stories
  <2>3. Story(h)'
    BY <1>1, <2>1, <2>2 DEF Story, client, Gone, Writing
  <2> QED BY <1>1, <2>1, <2>2, <2>3, OneStory DEF Right
<1>4. CASE UNCHANGED data /\ Spin(h)
  BY <1>1, <1>4 DEF Spin, data, conn, client, thread, Replies, Stories, Story, Gone, Right, GetNeverReset, Queue
<1>5. CASE UNCHANGED data /\ (Dispatch(h) \/ ReadHeaders(h) \/ CloseRead(h))
  BY <1>1, <1>5, DispatchReplies, ReadHeadersReplies, CloseReadReplies DEF data
<1>6. CASE GetLine(h) \/ SendData(h) \/ (CloseWrite(h) /\ ~Die)
  BY <1>1, <1>6, GetLineReplies, SendDataReplies, CloseWriteReplies
<1> QED BY <1>2, <1>3, <1>4, <1>5, <1>6 DEF Handler

\* With the books, Replies is inductive.
LEMMA RepliesAlways == Spec => []Replies
<1>1. Inv /\ Replies /\ [Next]_vars => Replies'
  <2> SUFFICES ASSUME Inv, Replies, [Next]_vars PROVE Replies'
    OBVIOUS
  <2>1. CASE UNCHANGED vars
    BY <2>1 DEF vars, data, conn, client, thread, Replies, Stories, Story, Gone, Right, GetNeverReset, Queue
  <2> QED BY <2>1, MainReplies, HandlerReplies, BrowserReplies DEF Next
<1> QED BY <1>1, RepliesInit, InvAlways, PTL DEF Spec

-----------------------------------------------------------------------------
(* The results.                                                            *)

\* webserver.c: every variable keeps its type.
THEOREM TypeCorrect == Spec => []TypeOK
BY InvAlways, PTL DEF Inv

\* webserver.c:56-71, 126-129: the open descriptors are always exactly those
\* of the connection being served.
THEOREM LedgerCorrect == Spec => []Ledger
BY InvAlways, PTL DEF Inv

\* webserver.c:69-70, 78: a thread only reads from and writes to the
\* connection it was created for, although main() reuses the variable that
\* holds the descriptor.
THEOREM OwnConnectionCorrect == Spec => []OwnConnection
<1>1. Inv => OwnConnection
  BY DEF Inv, Ledger, Holds, OwnConnection, Reading, Writing
<1> QED BY <1>1, InvAlways, PTL

\* webserver.c:126-129: when main() waits for a connection no descriptor of
\* an earlier one is open.
THEOREM NoLeakCorrect == Spec => []NoLeak
<1>1. Inv => NoLeak
  BY DEF Inv, Ledger, Holds, NoLeak
<1> QED BY <1>1, InvAlways, PTL

\* What sendData writes about a file that exists has all of it.
LEMMA WrittenCarries ==
    ASSUME NEW k \in Gets, NEW text \in Written(k)
    PROVE  Carries(text, IF k = "missing" THEN <<"200">> ELSE Contents(k))
<1>1. CASE k = "small"
  <2>1. Carries(<<"200", "all">>, <<"200", "all">>)
    <3> DEFINE s == <<"200", "all">>
               t == <<"200", "all">>
               at == [i \in 1..2 |-> i]
    <3>1. at \in [1..2 -> 1..2] /\ at[1] = 1 /\ at[2] = 2
      OBVIOUS
    <3>2. DOMAIN s = 1..2 /\ DOMAIN t = 1..2 /\ t[1] = s[1] /\ t[2] = s[2]
      OBVIOUS
    <3>3. \A i \in 1..2 : i = 1 \/ i = 2
      OBVIOUS
    <3>4. \A i \in 1..2 : i = 1 \/ i = 2
      OBVIOUS
    <3> HIDE DEF s, t, at
    <3>5. Carries(s, t)
      BY <3>1, <3>2, <3>3, <3>4 DEF Carries
    <3> QED BY <3>5 DEF s, t
  <2>2. Carries(<<"200", "all", "junk">>, <<"200", "all">>)
    <3> DEFINE s == <<"200", "all", "junk">>
               t == <<"200", "all">>
               at == [i \in 1..2 |-> i]
    <3>1. at \in [1..2 -> 1..3] /\ at[1] = 1 /\ at[2] = 2
      OBVIOUS
    <3>2. DOMAIN s = 1..3 /\ DOMAIN t = 1..2 /\ t[1] = s[1] /\ t[2] = s[2] /\ s[3] = "junk"
      OBVIOUS
    <3>3. \A i \in 1..2 : i = 1 \/ i = 2
      OBVIOUS
    <3>4. \A i \in 1..3 : i = 1 \/ i = 2 \/ i = 3
      OBVIOUS
    <3> HIDE DEF s, t, at
    <3>5. Carries(s, t)
      BY <3>1, <3>2, <3>3, <3>4 DEF Carries
    <3> QED BY <3>5 DEF s, t
  <2> QED BY <1>1, <2>1, <2>2 DEF Written, Contents
<1>2. CASE k = "big"
  <2>1. Carries(<<"200", "first", "last", "junk">>, <<"200", "first", "last">>)
    <3> DEFINE s == <<"200", "first", "last", "junk">>
               t == <<"200", "first", "last">>
               at == [i \in 1..3 |-> i]
    <3>1. at \in [1..3 -> 1..4] /\ at[1] = 1 /\ at[2] = 2 /\ at[3] = 3
      OBVIOUS
    <3>2. DOMAIN s = 1..4 /\ DOMAIN t = 1..3 /\ t[1] = s[1] /\ t[2] = s[2] /\ t[3] = s[3] /\ s[4] = "junk"
      OBVIOUS
    <3>3. \A i \in 1..3 : i = 1 \/ i = 2 \/ i = 3
      OBVIOUS
    <3>4. \A i \in 1..4 : i = 1 \/ i = 2 \/ i = 3 \/ i = 4
      OBVIOUS
    <3> HIDE DEF s, t, at
    <3>5. Carries(s, t)
      BY <3>1, <3>2, <3>3, <3>4 DEF Carries
    <3> QED BY <3>5 DEF s, t
  <2>2. Carries(<<"200", "first", "junk", "last", "junk">>, <<"200", "first", "last">>)
    <3> DEFINE s == <<"200", "first", "junk", "last", "junk">>
               t == <<"200", "first", "last">>
               at == [i \in 1..3 |-> IF i = 3 THEN 4 ELSE i]
    <3>1. at \in [1..3 -> 1..5] /\ at[1] = 1 /\ at[2] = 2 /\ at[3] = 4
      OBVIOUS
    <3>2. DOMAIN s = 1..5 /\ DOMAIN t = 1..3 /\ t[1] = s[1] /\ t[2] = s[2] /\ t[3] = s[4] /\ s[3] = "junk" /\ s[5] = "junk"
      OBVIOUS
    <3>3. \A i \in 1..3 : i = 1 \/ i = 2 \/ i = 3
      OBVIOUS
    <3>4. \A i \in 1..5 : i = 1 \/ i = 2 \/ i = 3 \/ i = 4 \/ i = 5
      OBVIOUS
    <3> HIDE DEF s, t, at
    <3>5. Carries(s, t)
      BY <3>1, <3>2, <3>3, <3>4 DEF Carries
    <3> QED BY <3>5 DEF s, t
  <2> QED BY <1>2, <2>1, <2>2 DEF Written, Contents
<1>3. CASE k = "missing"
  <2>1. Carries(<<"200">>, <<"200">>)
    <3> DEFINE s == <<"200">>
               t == <<"200">>
               at == [i \in 1..1 |-> i]
    <3>1. at \in [1..1 -> 1..1] /\ at[1] = 1
      OBVIOUS
    <3>2. DOMAIN s = 1..1 /\ DOMAIN t = 1..1 /\ t[1] = s[1]
      OBVIOUS
    <3>3. \A i \in 1..1 : i = 1
      OBVIOUS
    <3>4. \A i \in 1..1 : i = 1
      OBVIOUS
    <3> HIDE DEF s, t, at
    <3>5. Carries(s, t)
      BY <3>1, <3>2, <3>3, <3>4 DEF Carries
    <3> QED BY <3>5 DEF s, t
  <2>2. Carries(<<"200", "junk">>, <<"200">>)
    <3> DEFINE s == <<"200", "junk">>
               t == <<"200">>
               at == [i \in 1..1 |-> i]
    <3>1. at \in [1..1 -> 1..2] /\ at[1] = 1
      OBVIOUS
    <3>2. DOMAIN s = 1..2 /\ DOMAIN t = 1..1 /\ t[1] = s[1] /\ s[2] = "junk"
      OBVIOUS
    <3>3. \A i \in 1..1 : i = 1
      OBVIOUS
    <3>4. \A i \in 1..2 : i = 1 \/ i = 2
      OBVIOUS
    <3> HIDE DEF s, t, at
    <3>5. Carries(s, t)
      BY <3>1, <3>2, <3>3, <3>4 DEF Carries
    <3> QED BY <3>5 DEF s, t
  <2> QED BY <1>3, <2>1, <2>2 DEF Written
<1> QED BY <1>1, <1>2, <1>3 DEF Gets

\* webserver.c:88-124, 134-158: a browser gets at most one reply, to the request
\* it made itself; a file that exists is in it, every block once and in order,
\* whatever the other browsers do and whenever it leaves.
THEOREM RightReplyCorrect == Spec => []RightReply
<1>1. TypeOK /\ Replies => RightReply
  <2> SUFFICES ASSUME TypeOK, Replies, NEW c \in Client, out[c] # <<>>
               PROVE  \/ kind[c] = "post"    /\ out[c] = <<"200">>
                      \/ kind[c] = "other"   /\ out[c] = <<"400">>
                      \/ Exists(kind[c])     /\ Carries(out[c], Contents(kind[c]))
                      \/ kind[c] = "missing" /\ \E status \in {"200", "400"} : Carries(out[c], <<status>>)
    BY DEF RightReply
  <2>1. out[c] \in Answers(kind[c])
    BY DEF Replies, Right
  <2>2. kind[c] \in Gets \cup {"post", "other"}
    BY KindAssumption DEF TypeOK, ConnTypeOK, PeerTypeOK
  <2>3. CASE kind[c] \in {"post", "other"}
    BY <2>1, <2>3 DEF Answers
  <2>4. CASE kind[c] \in Gets
    <3>1. out[c] \in Written(kind[c])
      BY <2>1, <2>4 DEF Answers, Gets
    <3> QED BY <2>4, <3>1, WrittenCarries DEF Gets, Exists
  <2> QED BY <2>2, <2>3, <2>4
<1> QED BY <1>1, RepliesAlways, InvAlways, PTL DEF Inv

\* webserver.c:111-118: closing the connection of a GET never resets it.
THEOREM GetNeverResetCorrect == Spec => []GetNeverReset
BY RepliesAlways, PTL DEF Replies
=============================================================================
