------------------------------ MODULE WebServer ------------------------------
(***************************************************************************)
(* NetworkProgramming/webserver.c: the accept loop of main(), which creates*)
(* one clnt_connection() thread per connection and joins it, and the reply *)
(* to GET, the contents of a file.                                         *)
(***************************************************************************)
EXTENDS HttpConn

VARIABLES mpc,     \* where main() is: accept, create or join
          file,    \* filename, what each thread takes from the request line
          stream   \* what is in the buffer of clnt_write and not yet written

data == <<file, stream>>
vars == <<conn, mpc, data>>

Gets == {"small", "big", "missing"}

ASSUME KindAssumption == Kind \subseteq Gets \cup {"post", "other"}

\* What the fputs() calls of sendData write: the status line, and buf.  A file
\* of one block is read in one turn of the loop, a longer one in two.  read()
\* does not terminate buf: after a file of one block come the bytes the stack
\* had, unless the first of them is 0; a full block is followed by what lies
\* behind buf, and the last block of a longer file by the rest of the block
\* before it.  open() and read() are not checked: for a file that is not there
\* buf is all stack.
Written(k) ==
    CASE k = "small" -> {<<"200", "all">>, <<"200", "all", "junk">>}
      [] k = "big"   -> {<<"200", "first", "last", "junk">>, <<"200", "first", "junk", "last", "junk">>}
      [] OTHER       -> {<<"200">>, <<"200", "junk">>}

Init ==
    /\ ConnInit
    /\ fds = [f \in Fd |-> Free]
    /\ mpc = "accept"
    /\ file = [c \in Client |-> "missing"]
    /\ stream = [c \in Client |-> <<>>]

AcceptStep == mpc = "accept" /\ Accept /\ mpc' = "create"

\* Fault: the thread is not joined.
FaultyCreateStep == mpc = "create" /\ Create /\ mpc' = "accept"

CreateStep == mpc = "create" /\ Create /\ mpc' = "join"

\* pthread_join(thread, NULL)
Join ==
    /\ mpc = "join"
    /\ At(cur, "done")
    /\ mpc' = "accept"
    /\ UNCHANGED conn

Main == (AcceptStep \/ CreateStep \/ Join) /\ UNCHANGED data

\* strtok() cuts the method and the path out of the line that was read, which
\* at the end of the stream is what the stack had.
GetLine(h) ==
    LET x == fds[rfd[h]] IN
    /\ ReadLine(h)
    /\ \E k \in Gets :
         file' = [file EXCEPT ![h] = IF x \in Client /\ taken[x] = 0 /\ sent[x] > 0 THEN kind[x] ELSE k]
    /\ UNCHANGED stream

\* Fault: the file is read once, without the loop.
FaultySendData(h) ==
    /\ At(h, "data")
    /\ \E text \in Written(file[h]) :
         stream' = [stream EXCEPT ![h] = [n \in DOMAIN text \cap 1..2 |-> text[n]]]
    /\ Goto(h, "close_r")
    /\ UNCHANGED <<kind, client, backlog, taken, out, reset, fds, csock, cur, rfd, wfd, full, method, proc, file>>

\* sendData: header and body go into the stream's buffer, out at fclose().
SendData(h) ==
    /\ At(h, "data")
    /\ \E text \in Written(file[h]) : stream' = [stream EXCEPT ![h] = text]
    /\ Goto(h, "close_r")
    /\ UNCHANGED <<kind, client, backlog, taken, out, reset, fds, csock, cur, rfd, wfd, full, method, proc, file>>

\* fclose(clnt_write).  A body of several blocks takes several writes, and
\* the second one to a browser that has gone raises SIGPIPE.
CloseWrite(h) ==
    LET x == fds[wfd[h]]
        text == IF x \in Client \ left THEN [out EXCEPT ![x] = @ \o stream[h]] ELSE out IN
    /\ At(h, "close_w")
    /\ \/ /\ Close(wfd[h], text)
          /\ stream' = [stream EXCEPT ![h] = <<>>]
          /\ Goto(h, "done")
          /\ UNCHANGED <<kind, client, backlog, taken, csock, cur, rfd, wfd, full, method, proc>>
       \/ x \in left /\ file[h] = "big" /\ stream[h] # <<>> /\ Die /\ UNCHANGED stream
    /\ UNCHANGED file

Handler(h) ==
    /\ \/ /\ \/ Load(h) \/ OpenRead(h) \/ OpenWrite(h) \/ Dispatch(h)
             \/ ReadHeaders(h) \/ Spin(h) \/ CloseRead(h)
          /\ UNCHANGED data
       \/ GetLine(h) \/ SendData(h) \/ CloseWrite(h)
    /\ UNCHANGED mpc

Environment(c) == Browser(c) /\ UNCHANGED <<mpc, data>>

Next ==
    \/ Main
    \/ \E c \in Client : Handler(c) \/ Environment(c)

Spec == Init /\ [][Next]_vars

\* The scheduler runs main() and every thread.  A browser sends the rest of
\* a request it has begun, unless it is unreliable.
Fairness ==
    /\ WF_vars(Main)
    /\ \A c \in Client : WF_vars(Handler(c))
    /\ \A c \in Client \ Unreliable : WF_vars(Send(c) /\ UNCHANGED <<mpc, data>>)

FairSpec == Spec /\ Fairness

-----------------------------------------------------------------------------
(* Correctness.                                                            *)

\* Every variable has its type.
TypeOK ==
    /\ ConnTypeOK
    /\ mpc \in {"accept", "create", "join"}
    /\ file \in [Client -> Kind \cup Gets]
    /\ stream \in [Client -> Seq(Piece)]

\* Both descriptors of every served connection, csock and its dup, have been
\* closed when main() waits for the next one, on each path through the
\* handler: a leak would end in accept() failing for good.
NoLeak == mpc = "accept" /\ proc = "up" => \A f \in Fd : fds[f] = Free

\* Exactly the descriptors in S are open, all of them for browser c.
Holds(S, c) == S \subseteq Fd /\ \A f \in Fd : fds[f] = IF f \in S THEN c ELSE Free

\* The books of the descriptor table: at each point of main() and of the one
\* thread that can be running, which descriptors are open and whose they are.
Ledger ==
    proc = "up" =>
      /\ \A h \in Client : hpc[h] \notin {"none", "done"} => mpc = "join" /\ h = cur
      /\ mpc = "accept" => Holds({}, cur)
      /\ mpc = "create" \/ hpc[cur] = "load" => Holds({csock}, cur)
      /\ hpc[cur] \in {"open_r", "open_w"} => Holds({rfd[cur]}, cur)
      /\ hpc[cur] \in Reading \cap Writing =>
           Holds({rfd[cur], wfd[cur]}, cur) /\ rfd[cur] # wfd[cur]
      /\ hpc[cur] = "close_w" => Holds({wfd[cur]}, cur)
      /\ mpc = "join" /\ hpc[cur] \in {"none", "done"} => Holds({}, cur)

\* The pieces of s that are not junk are those of t, in the same order.
Carries(s, t) ==
    \E at \in [DOMAIN t -> DOMAIN s] :
      /\ \A i \in DOMAIN t : s[at[i]] = t[i]
      /\ \A i, j \in DOMAIN t : i < j => at[i] < at[j]
      /\ \A n \in DOMAIN s : s[n] = "junk" \/ \E i \in DOMAIN t : at[i] = n

\* The reply that is all of a file, and nothing else.
Exists(k)   == k \in {"small", "big"}
Contents(k) == IF k = "big" THEN <<"200", "first", "last">> ELSE <<"200", "all">>

\* A browser gets at most one reply, and to its own request: POST a bare 200,
\* what is neither POST nor GET an error, and GET all of the file it names,
\* each block once and in order, and no block of another one.  What else may
\* stand in the answer to a GET is the subject of ErrorOrContents.
RightReply ==
    \A c \in Client :
      \/ out[c] = <<>>
      \/ kind[c] = "post"    /\ out[c] = <<"200">>
      \/ kind[c] = "other"   /\ out[c] = <<"400">>
      \/ Exists(kind[c])     /\ Carries(out[c], Contents(kind[c]))
      \/ kind[c] = "missing" /\ \E status \in {"200", "400"} : Carries(out[c], <<status>>)

\* GET reads its request to the end, so closing its connection never resets
\* it: the reply cannot be lost.  (POST and the rest stop after one line.)
GetNeverReset == proc = "up" => \A c \in reset : kind[c] \notin Gets

\* The thread of d waits for a part of the request that has not been sent.
Stalled(d) == hpc[d] \in {"line", "headers"} /\ ~full[d] /\ taken[d] = sent[d]

\* Every connection is answered in the end, or reset: no request is stuck in
\* the queue, in a read that has all it waits for, or in an unflushed stream.
\* The one exception the join makes: an unreliable browser that never sends
\* the rest, or leaves in the middle, keeps main() for ever.
Answered ==
    \A c \in Client \ Unreliable :
      cst[c] = "queued" ~> \/ out[c] # <<>> \/ c \in reset
                           \/ \E d \in Unreliable : []Stalled(d)

-----------------------------------------------------------------------------
(* What the comments promise and the code does not keep.                   *)

\* webserver.c:199, 215-223: a request with a problem is answered by an error,
\* and a GET by the contents of the file it names.
ErrorOrContents ==
    \A c \in Client :
      \/ out[c] = <<>>
      \/ kind[c] = "post"
      \/ Exists(kind[c]) /\ out[c] = Contents(kind[c])
      \/ ~Exists(kind[c]) /\ out[c] = <<"400">>
=============================================================================
