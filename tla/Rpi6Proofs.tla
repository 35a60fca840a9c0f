----------------------------- MODULE Rpi6Proofs -----------------------------
(***************************************************************************)
(* Proofs about Rpi6, for every set of browsers and descriptors.  Threads  *)
(* of rpi6.c share csock without a join, so one may close a number that has*)
(* been given to another connection meanwhile.  What is proved is that the *)
(* damage stops there: no thread ever holds the number of a sensor, of the *)
(* joystick or of the listening socket that is still open.                 *)
(***************************************************************************)
EXTENDS Rpi6, HttpConnProofs, NaturalsInduction, WellFoundedInduction

\* No descriptor variable of the connections names an open system descriptor.
Apart ==
    \A s \in System \ Closed :
      /\ csock # Slot[s]
      /\ \A h \in Client : rfd[h] # Slot[s] /\ wfd[h] # Slot[s]

\* The descriptor variables are set before they are used.
Assigned ==
    /\ wpc = "create" => csock \in Fd
    /\ \A h \in Client :
         /\ hpc[h] # "none" => csock \in Fd
         /\ hpc[h] \in {"open_r"} \cup Reading => rfd[h] \in Fd
         /\ hpc[h] \in Writing => wfd[h] \in Fd

Inv == ConnTypeOK /\ (Up => SystemFds /\ Apart /\ Assigned)

\* The system's descriptors are numbers, each its own.
LEMMA Slots ==
    /\ \A s \in System : Slot[s] \in Fd /\ s # Free /\ s \notin Client
    /\ \A s, t \in System : Slot[s] = Slot[t] => s = t
    /\ Closed \subseteq Dev /\ Dev \subseteq System
BY SlotAssumption, DeviceAssumption, FreeAssumption, SystemAssumption DEF Closed, Dev

LEMMA InitInv == Init => Inv
<1> SUFFICES ASSUME Init PROVE Inv
  OBVIOUS
<1>1. ConnTypeOK
  <2>1. \A f \in Fd : fds[f] \in System \cup {Free}
    BY DEF Init
  <2>2. fds \in [Fd -> Client \cup System \cup {Free}]
    BY <2>1 DEF Init
  <2> QED BY <2>2 DEF Init, ConnInit, ConnTypeOK, PeerTypeOK, ThreadTypeOK, Place, Method
<1>2. SystemFds
  <2>1. ASSUME NEW s \in System PROVE fds[Slot[s]] = s
    <3>1. fds[Slot[s]] = CHOOSE t \in System : Slot[t] = Slot[s]
      BY Slots DEF Init
    <3> QED BY <3>1, Slots
  <2> QED BY <2>1 DEF SystemFds
<1>3. Apart
  BY Slots, FdAssumption DEF Init, ConnInit, Apart, NoFd
<1>4. Assigned
  BY DEF Init, ConnInit, Assigned, Reading, Writing
<1> QED BY <1>1, <1>2, <1>3, <1>4 DEF Inv

\* A step that touches no descriptor and no thread's place, and after which
\* main() has closed no less.
LEMMA Frame ==
    ASSUME Inv, UNCHANGED <<fds, csock, rfd, wfd, hpc, proc>>, ConnTypeOK',
           Closed \subseteq Closed', wpc' = "create" => wpc = "create"
    PROVE  Inv'
BY DEF Inv, Up, SystemFds, Apart, Assigned, Reading, Writing

\* The dead process has nothing open to protect.
LEMMA DeadInv == ASSUME Inv, Die PROVE Inv'
BY DieType DEF Inv, Die, Up

-----------------------------------------------------------------------------
(* main(), the joystick and the accept loop.                               *)

LEMMA ConnFrameType == ASSUME ConnTypeOK, UNCHANGED conn PROVE ConnTypeOK'
BY DEF conn, client, thread, ConnTypeOK, PeerTypeOK, ThreadTypeOK

\* A step of main() that changes no connection and closes nothing.
LEMMA IdleInv ==
    ASSUME Inv, UNCHANGED <<conn, wpc>>, Closed \subseteq Closed'
    PROVE  Inv'
BY ConnFrameType, Frame DEF Inv, conn, thread

\* main() closes its own descriptor and no other.
LEMMA CloseDeviceInv ==
    ASSUME Inv, NEW d \in Dev, NEW from, NEW to, CloseDevice(d, from, to),
           Closed' = Closed \cup {d}
    PROVE  Inv'
<1>1. /\ Up /\ UNCHANGED <<kind, client, backlog, taken, csock, cur, thread, proc, wpc>>
      /\ Close(Slot[d], out)
  BY DEF CloseDevice
<1>2. ConnTypeOK'
  <2>1. Slot[d] \in Fd /\ out \in [Client -> Seq(Piece)]
    BY Slots DEF Inv, ConnTypeOK, PeerTypeOK
  <2>2. /\ fds' \in [Fd -> Client \cup System \cup {Free}]
        /\ out' \in [Client -> Seq(Piece)]
        /\ reset' \subseteq Client
    BY <1>1, <2>1, CloseType DEF Inv
  <2> QED BY <1>1, <2>2 DEF Inv, ConnTypeOK, PeerTypeOK, ThreadTypeOK, client, thread
<1>3. SystemFds'
  <2>1. fds' = [fds EXCEPT ![Slot[d]] = Free]
    BY <1>1 DEF Close
  <2>2. fds \in [Fd -> Client \cup System \cup {Free}]
    BY DEF Inv, ConnTypeOK, ThreadTypeOK
  <2> QED BY <1>1, <2>1, <2>2, Slots DEF Inv, SystemFds, Up
<1>4. Apart'
  BY <1>1 DEF Inv, Apart, thread
<1>5. Assigned'
  BY <1>1 DEF Inv, Assigned, thread
<1> QED BY <1>2, <1>3, <1>4, <1>5 DEF Inv

LEMMA MainInv == ASSUME Inv, Main \/ Quit \/ Joystick PROVE Inv'
<1>1. CASE Die
  BY <1>1, DeadInv
<1>2. CASE MainLoop \/ NoKey \/ Joystick \/ (Quit /\ ~Die)
  BY <1>2, IdleInv DEF MainLoop, NoKey, Joystick, Quit, Closed
<1>3. CASE SwitchOff("pressure", "off_p", "close_p") \/ SwitchOff("temperature", "off_t", "close_t")
  BY <1>3, IdleInv DEF SwitchOff, Closed
<1>4. CASE CloseDevice("pressure", "close_p", "off_t")
  <2>1. Closed' = Closed \cup {"pressure"} /\ "pressure" \in Dev
    BY <1>4 DEF CloseDevice, Closed, Dev
  <2> QED BY <1>4, <2>1, CloseDeviceInv
<1>5. CASE CloseDevice("temperature", "close_t", "return")
  <2>1. Closed' = Closed \cup {"temperature"} /\ "temperature" \in Dev
    BY <1>5 DEF CloseDevice, Closed, Dev
  <2> QED BY <1>5, <2>1, CloseDeviceInv
<1> QED BY <1>1, <1>2, <1>3, <1>4, <1>5 DEF Main, Return

\* accept() returns a free number, which no open system descriptor has.
LEMMA WebInv == ASSUME Inv, Web PROVE Inv'
<1>1. CASE WebLoop
  BY <1>1, ConnFrameType, Frame DEF WebLoop, Inv, conn, thread, Closed
<1>2. CASE WebAccept
  <2>1. /\ Up /\ UNCHANGED <<mpc, rfd, wfd, hpc, proc>>
        /\ \E f \in Fd : fds[f] = Free /\ fds' = [fds EXCEPT ![f] = Head(backlog)] /\ csock' = f
    BY <1>2 DEF WebAccept, Accept, Lowest, Up, thread
  <2>2. PICK f \in Fd : fds[f] = Free /\ fds' = [fds EXCEPT ![f] = Head(backlog)] /\ csock' = f
    BY <2>1
  <2>3. ConnTypeOK' /\ fds \in [Fd -> Client \cup System \cup {Free}]
    BY <1>2, AcceptType DEF WebAccept, Inv, ConnTypeOK, ThreadTypeOK
  <2>4. Closed' = Closed
    BY <2>1 DEF Closed
  <2>5. SystemFds' /\ Apart'
    BY <2>1, <2>2, <2>3, <2>4, Slots DEF Inv, SystemFds, Apart, Up
  <2>6. Assigned'
    BY <2>1, <2>2 DEF Inv, Assigned, Reading, Writing
  <2> QED BY <2>3, <2>5, <2>6 DEF Inv
<1>3. CASE WebCreate
  <2>1. /\ Up /\ UNCHANGED <<mpc, fds, csock, rfd, wfd, proc>> /\ wpc = "create" /\ wpc' = "while"
        /\ hpc' = [hpc EXCEPT ![cur] = "load"]
    BY <1>3 DEF WebCreate, Create, Up
  <2>2. ConnTypeOK' /\ hpc \in [Client -> Place]
    BY <1>3, CreateType DEF WebCreate, Inv, ConnTypeOK, ThreadTypeOK
  <2>3. SystemFds' /\ Apart'
    BY <2>1 DEF Inv, SystemFds, Apart, Up, Closed
  <2>4. Assigned'
    BY <2>1, <2>2 DEF Inv, Assigned, Reading, Writing
  <2> QED BY <2>2, <2>3, <2>4 DEF Inv
<1> QED BY <1>1, <1>2, <1>3 DEF Web

-----------------------------------------------------------------------------
(* The handler threads, the sensors and the browsers.                      *)

\* A step of a thread that changes no descriptor.
LEMMA PlaceInv ==
    ASSUME Inv, ConnTypeOK', NEW h \in Client, NEW p, Goto(h, p), Up,
           hpc[h] # "none",
           p \in {"open_r"} \cup Reading => rfd[h] \in Fd,
           p \in Writing => wfd[h] \in Fd,
           UNCHANGED <<fds, csock, rfd, wfd, proc, mpc, wpc>>
    PROVE  Inv'
<1>1. SystemFds' /\ Apart'
  BY DEF Inv, SystemFds, Apart, Up, Closed
<1>2. hpc \in [Client -> Place] /\ hpc' = [hpc EXCEPT ![h] = p]
  BY DEF Inv, ConnTypeOK, ThreadTypeOK, Goto
<1>3. Assigned'
  BY <1>2 DEF Inv, Assigned
<1> QED BY <1>1, <1>3 DEF Inv

\* A thread closes a descriptor of its own.
LEMMA CloseInv ==
    ASSUME Inv, ConnTypeOK', NEW h \in Client, NEW p, NEW f \in Fd, Goto(h, p), Up,
           Close(f, out), hpc[h] # "none",
           f = rfd[h] \/ f = wfd[h],
           p \in {"close_w", "done"},
           p = "close_w" => wfd[h] \in Fd,
           UNCHANGED <<csock, rfd, wfd, proc, mpc, wpc>>
    PROVE  Inv'
<1>1. fds' = [fds EXCEPT ![f] = Free] /\ Closed' = Closed
  BY DEF Close, Closed
<1>2. \A s \in System \ Closed : f # Slot[s] /\ fds[Slot[s]] = s
  BY DEF Inv, SystemFds, Apart
<1>3. fds \in [Fd -> Client \cup System \cup {Free}] /\ hpc \in [Client -> Place]
  BY DEF Inv, ConnTypeOK, ThreadTypeOK
<1>4. SystemFds'
  BY <1>1, <1>2, <1>3, Slots DEF SystemFds
<1>5. Apart'
  BY <1>1 DEF Inv, Apart
<1>6. Assigned'
  BY <1>3 DEF Inv, Assigned, Goto, Reading, Writing
<1> QED BY <1>4, <1>5, <1>6 DEF Inv

LEMMA LoadInv ==
    ASSUME Inv, NEW h \in Client, Load(h), UNCHANGED <<mpc, wpc>>
    PROVE  Inv'
<1>1. /\ Up /\ hpc[h] = "load" /\ UNCHANGED <<fds, csock, wfd, proc>>
      /\ rfd' = [rfd EXCEPT ![h] = csock] /\ hpc' = [hpc EXCEPT ![h] = "open_r"]
  BY DEF Load, At, Up, Goto
<1>2. /\ ConnTypeOK' /\ hpc \in [Client -> Place] /\ rfd \in [Client -> Fd \cup {NoFd}]
  BY LoadType DEF Inv, ConnTypeOK, ThreadTypeOK
<1>3. SystemFds' /\ Apart'
  BY <1>1, <1>2 DEF Inv, SystemFds, Apart, Up, Closed
<1>4. Assigned'
  BY <1>1, <1>2 DEF Inv, Assigned, Reading, Writing
<1> QED BY <1>2, <1>3, <1>4 DEF Inv

\* dup() returns a free number, which no open system descriptor has.
LEMMA OpenWriteInv ==
    ASSUME Inv, NEW h \in Client, OpenWrite(h), UNCHANGED <<mpc, wpc>>
    PROVE  Inv'
<1>1. CASE Die
  BY <1>1, DeadInv
<1>2. CASE ~Die
  <2>1. PICK f \in Fd : /\ fds[f] = Free /\ fds' = [fds EXCEPT ![f] = fds[rfd[h]]]
                        /\ wfd' = [wfd EXCEPT ![h] = f]
    BY <1>2 DEF OpenWrite, Lowest
  <2>2. /\ Up /\ hpc[h] = "open_w" /\ UNCHANGED <<csock, rfd, proc>>
        /\ hpc' = [hpc EXCEPT ![h] = "line"]
    BY <1>2 DEF OpenWrite, At, Up, Goto
  <2>3. rfd[h] \in Fd /\ csock \in Fd
    BY <2>2 DEF Inv, Assigned, Reading
  <2>4. /\ ConnTypeOK' /\ hpc \in [Client -> Place] /\ wfd \in [Client -> Fd \cup {NoFd}]
        /\ fds \in [Fd -> Client \cup System \cup {Free}]
    BY <2>3, OpenWriteType DEF Inv, ConnTypeOK, ThreadTypeOK
  <2>5. Closed' = Closed
    BY DEF Closed
  <2>6. SystemFds' /\ Apart'
    BY <2>1, <2>2, <2>4, <2>5, Slots DEF Inv, SystemFds, Apart
  <2>7. Assigned'
    BY <2>1, <2>2, <2>3, <2>4 DEF Inv, Assigned, Reading, Writing
  <2> QED BY <2>4, <2>6, <2>7 DEF Inv
<1> QED BY <1>1, <1>2

LEMMA CloseWriteType ==
    ASSUME ConnTypeOK, NEW h \in Client, wfd[h] \in Fd, CloseWrite(h)
    PROVE  ConnTypeOK'
<1>1. /\ UNCHANGED <<kind, client, backlog, taken, csock, cur, rfd, wfd, full, method, proc>>
      /\ hpc' = [hpc EXCEPT ![h] = "done"]
      /\ Close(wfd[h], out)
  BY DEF CloseWrite, Goto
<1>2. out \in [Client -> Seq(Piece)]
  BY DEF ConnTypeOK, PeerTypeOK
<1>3. /\ fds' \in [Fd -> Client \cup System \cup {Free}]
      /\ out' \in [Client -> Seq(Piece)]
      /\ reset' \subseteq Client
  BY <1>1, <1>2, CloseType
<1> QED BY <1>1, <1>3 DEF ConnTypeOK, PeerTypeOK, ThreadTypeOK, Place, client

LEMMA SendPageType ==
    ASSUME ConnTypeOK, NEW h \in Client, SendPage(h)
    PROVE  ConnTypeOK'
<1>1. /\ UNCHANGED <<kind, client, backlog, taken, reset, fds, csock, cur, rfd, wfd, full, method, proc>>
      /\ hpc' = [hpc EXCEPT ![h] = "close_r"]
      /\ Deliver(h, "page")
  BY DEF SendPage, Goto
<1>2. out' \in [Client -> Seq(Piece)]
  BY <1>1, DeliverType DEF Piece
<1> QED BY <1>1, <1>2 DEF ConnTypeOK, PeerTypeOK, ThreadTypeOK, Place, client

\* The goto END of a request whose option cannot be found.
GiveUp(h) ==
    /\ At(h, "headers")
    /\ Goto(h, "close_r")
    /\ UNCHANGED <<kind, client, backlog, taken, out, reset, fds, csock, cur, rfd, wfd, full, method, proc>>

\* A call of strtok() leaves the connections alone, ends the request without
\* a reply, or kills the process.
LEMMA StrtokInv ==
    ASSUME Inv, NEW h \in Client, Strtok(h), UNCHANGED <<mpc, wpc>>
    PROVE  Inv'
<1>1. CASE Die
  BY <1>1, DeadInv
<1>2. CASE UNCHANGED conn
  BY <1>2, IdleInv DEF Closed
<1>3. CASE GiveUp(h)
  <2>1. ConnTypeOK'
    BY <1>3 DEF GiveUp, Inv, Goto, ConnTypeOK, PeerTypeOK, ThreadTypeOK, Place, client
  <2>2. Up /\ hpc[h] = "headers" /\ rfd[h] \in Fd /\ wfd[h] \in Fd
    BY <1>3 DEF GiveUp, At, Up, Inv, Assigned, Reading, Writing
  <2> QED BY <1>3, <2>1, <2>2, PlaceInv DEF GiveUp
<1>4. Die \/ UNCHANGED conn \/ GiveUp(h)
  BY DEF Strtok, GiveUp, GetPath, GetName, GetQuery, GetOption, GetMore, GetOpt, GetVar, Parsing
<1> QED BY <1>1, <1>2, <1>3, <1>4

LEMMA HandlerInv ==
    ASSUME Inv, NEW h \in Client, Handler(h)
    PROVE  Inv'
<1>1. UNCHANGED <<mpc, wpc>>
  BY DEF Handler
<1>2. CASE Load(h)
  BY <1>1, <1>2, LoadInv
<1>3. CASE OpenRead(h)
  <2>1. CASE Die
    BY <2>1, DeadInv
  <2>2. CASE ~Die
    <3>1. /\ Up /\ hpc[h] = "open_r" /\ Goto(h, "open_w")
          /\ UNCHANGED <<fds, csock, rfd, wfd, proc>>
      BY <1>3, <2>2 DEF OpenRead, At, Up
    <3>2. ConnTypeOK' /\ rfd[h] \in Fd /\ "open_w" \notin Writing
      BY <1>3, <3>1, OpenReadType DEF Inv, Assigned, Writing
    <3> QED BY <1>1, <3>1, <3>2, PlaceInv
  <2> QED BY <2>1, <2>2
<1>4. CASE OpenWrite(h)
  BY <1>1, <1>4, OpenWriteInv
<1>5. CASE CloseRead(h)
  <2>1. /\ Up /\ hpc[h] = "close_r" /\ Goto(h, "close_w") /\ Close(rfd[h], out)
        /\ UNCHANGED <<csock, rfd, wfd, proc>>
    BY <1>5 DEF CloseRead, At, Up
  <2>2. rfd[h] \in Fd /\ wfd[h] \in Fd
    BY <2>1 DEF Inv, Assigned, Reading, Writing
  <2>3. ConnTypeOK'
    BY <1>5, <2>2, CloseReadType DEF Inv
  <2> QED BY <1>1, <2>1, <2>2, <2>3, CloseInv
<1>6. CASE CloseWrite(h)
  <2>1. /\ Up /\ hpc[h] = "close_w" /\ Goto(h, "done") /\ Close(wfd[h], out)
        /\ UNCHANGED <<csock, rfd, wfd, proc>>
    BY <1>6 DEF CloseWrite, At, Up
  <2>2. wfd[h] \in Fd
    BY <2>1 DEF Inv, Assigned, Writing
  <2>3. ConnTypeOK'
    BY <1>6, <2>2, CloseWriteType DEF Inv
  <2> QED BY <1>1, <2>1, <2>2, <2>3, CloseInv
<1>7. CASE Spin(h) \/ Measure(h)
  BY <1>1, <1>7, IdleInv DEF Spin, Measure, Closed
<1>8. CASE GetLine(h)
  <2>1. /\ Up /\ hpc[h] = "line" /\ Goto(h, "dispatch") /\ ReadLine(h)
        /\ UNCHANGED <<fds, csock, rfd, wfd, proc>>
    BY <1>8 DEF GetLine, ReadLine, At, Up
  <2>2. ConnTypeOK' /\ rfd[h] \in Fd /\ wfd[h] \in Fd
    BY <2>1, ReadLineType DEF Inv, Assigned, Reading, Writing
  <2> QED BY <1>1, <2>1, <2>2, PlaceInv
<1>9. CASE Method1(h)
  <2>1. /\ Up /\ hpc[h] = "dispatch" /\ (Goto(h, "headers") \/ Goto(h, "close_r"))
        /\ UNCHANGED <<fds, csock, rfd, wfd, proc>>
    BY <1>9 DEF Method1, Dispatch, DispatchWith, At, Up
  <2>2. ConnTypeOK' /\ rfd[h] \in Fd /\ wfd[h] \in Fd /\ Up /\ hpc[h] = "dispatch"
        /\ UNCHANGED <<fds, csock, rfd, wfd, proc>>
    BY <1>9, DispatchType DEF Method1, Dispatch, DispatchWith, At, Up, Inv, Assigned, Reading, Writing
  <2> QED BY <1>1, <2>1, <2>2, PlaceInv
<1>10. CASE Strtok(h)
  BY <1>1, <1>10, StrtokInv
<1>11. CASE Headers(h)
  <2>1. /\ Up /\ hpc[h] = "headers" /\ Goto(h, "data") /\ ReadHeaders(h)
        /\ UNCHANGED <<fds, csock, rfd, wfd, proc>>
    BY <1>11 DEF Headers, ReadHeaders, At, Up
  <2>2. ConnTypeOK' /\ rfd[h] \in Fd /\ wfd[h] \in Fd
    BY <2>1, ReadHeadersType DEF Inv, Assigned, Reading, Writing
  <2> QED BY <1>1, <2>1, <2>2, PlaceInv
<1>12. CASE SendPage(h)
  <2>1. /\ Up /\ hpc[h] = "data" /\ Goto(h, "close_r")
        /\ UNCHANGED <<fds, csock, rfd, wfd, proc>>
    BY <1>12 DEF SendPage, At, Up
  <2>2. ConnTypeOK' /\ rfd[h] \in Fd /\ wfd[h] \in Fd
    BY <1>12, <2>1, SendPageType DEF Inv, Assigned, Reading, Writing
  <2> QED BY <1>1, <2>1, <2>2, PlaceInv
<1> QED BY <1>2, <1>3, <1>4, <1>5, <1>6, <1>7, <1>8, <1>9, <1>10, <1>11, <1>12 DEF Handler

LEMMA EnvironmentInv ==
    ASSUME Inv, NEW c \in Client, Environment(c)
    PROVE  Inv'
<1>1. Browser(c) /\ UNCHANGED <<fds, csock, rfd, wfd, hpc, proc, mpc, wpc>>
  BY DEF Environment, Browser, Connect, Send, Leave, thread
<1>2. ConnTypeOK' /\ Closed' = Closed
  BY <1>1, BrowserType DEF Inv, Closed
<1> QED BY <1>1, <1>2, Frame

LEMMA NextInv == ASSUME Inv, [Next]_vars PROVE Inv'
<1>1. CASE Main \/ Quit \/ Joystick
  BY <1>1, MainInv
<1>2. CASE Web
  BY <1>2, WebInv
<1>3. CASE \E d \in Dev : Convert(d)
  BY <1>3, IdleInv DEF Convert, Closed
<1>4. CASE \E c \in Client : Handler(c) \/ Environment(c)
  BY <1>4, HandlerInv, EnvironmentInv
<1>5. CASE UNCHANGED vars
  BY <1>5, IdleInv DEF vars, Closed
<1> QED BY <1>1, <1>2, <1>3, <1>4, <1>5 DEF Next

LEMMA InvAlways == Spec => []Inv
BY InitInv, NextInv, PTL DEF Spec

-----------------------------------------------------------------------------
(* strtok(), and the types of what rpi6.c adds to a connection.            *)

\* No string that is cut up is empty: there is a "." at its end.
Word == String \ {<<>>}

Locals ==
    /\ is_run \in BOOLEAN
    /\ mpc \in {"loop", "key", "off_p", "close_p", "off_t", "close_t", "return"}
    /\ wpc \in {"while", "accept", "create", "ended"}
    /\ sub \in [Client -> {"none", "path", "name", "query", "option", "more", "opt", "var", "parsed",
                           "off", "on", "trigger", "wait", "read", "measured", "sent"}]
    /\ dev \in [Client -> Dev]
    /\ line \in [Client -> Kind \cup {"other"}]
    /\ str \in [Client -> Seq(Word)]
    /\ olds \in String
    /\ power \in [Dev -> BOOLEAN]
    /\ busy \in [Dev -> BOOLEAN]
    /\ sample \in [Dev -> Client \cup {Free}]
    /\ result \in [Client -> SUBSET (Client \cup {Free})]

\* A thread that is about to cut its path or its option has one.
HasWord == \A h \in Client : sub[h] \in {"name", "option"} => str[h] # <<>>

Letter == {"?", "=", "&", " ", "."}

LEMMA Letters ==
    /\ String = Seq(Letter)
    /\ "?" \in Letter /\ "=" \in Letter /\ " " \in Letter /\ "." \in Letter
BY DEF String, Letter

LEMMA Least ==
    ASSUME NEW T \in SUBSET Nat, T # {} PROVE \E x \in T : \A y \in T : x <= y
<1> DEFINE R == {ss \in Nat \X Nat : ss[1] < ss[2]}
<1>1. IsWellFoundedOn(R, Nat) BY NatLessThanWellFounded DEF OpToRel
<1>2. \A x, y \in Nat : y < x => <<y, x>> \in R OBVIOUS
<1> HIDE DEF R
<1>3. PICK x \in T : \A y \in T : ~(<<y, x>> \in R) BY <1>1, WFMin
<1>4. ASSUME NEW y \in T PROVE x <= y
  <2>1. ~(<<y, x>> \in R) BY <1>3
  <2>2. x \in Nat /\ y \in Nat OBVIOUS
  <2>3. ~(y < x) BY <1>2, <2>1, <2>2
  <2> QED BY <2>2, <2>3
<1> QED BY <1>4

\* strtok() of a string that is not empty returns a token that is not empty
\* either, and what it leaves is a string.
LEMMA CutWord ==
    ASSUME NEW s \in Word, NEW d
    PROVE  /\ Cut(s, d) \in DOMAIN s
           /\ Token(s, d) \in Word /\ After(s, d) \in String
<1>1. s \in Seq(Letter) /\ Len(s) \in Nat \ {0} /\ DOMAIN s = 1..Len(s)
  <2>1. s \in Seq(Letter) /\ s # <<>> BY Letters DEF Word
  <2> QED BY <2>1
<1>2. Cut(s, d) \in DOMAIN s
  <2> DEFINE T == {i \in DOMAIN s : s[i] = d \/ i = Len(s)}
  <2>1. T \in SUBSET Nat /\ Len(s) \in T BY <1>1
  <2>2. PICK i \in T : \A j \in T : i <= j BY <2>1, Least
  <2>3. /\ i \in DOMAIN s /\ (s[i] = d \/ i = Len(s))
        /\ \A j \in 1..i-1 : s[j] # d
    <3>1. i \in 1..Len(s) BY <1>1
    <3>2. ASSUME NEW j \in 1..i-1, s[j] = d PROVE FALSE
      <4>1. i \in Nat /\ Len(s) \in Nat /\ j \in 1..Len(s) BY <1>1, <3>1, <3>2
      <4>2. j \in T BY <1>1, <3>2, <4>1
      <4>3. i <= j BY <2>2, <4>2
      <4> QED BY <3>1, <4>1, <4>3
    <3> QED BY <1>1, <3>1, <3>2
  <2> QED BY <2>3 DEF Cut
<1> DEFINE n == Cut(s, d)
<1>3. n \in 1..Len(s) BY <1>1, <1>2
<1> HIDE DEF n
<1>4. SubSeq(s, 1, n - 1) \in Seq(Letter) /\ SubSeq(s, n + 1, Len(s)) \in Seq(Letter)
  BY <1>1, <1>3, SubSeqProperties
<1>5. \A t \in Seq(Letter), x \in Letter : Append(t, x) \in Seq(Letter) /\ Append(t, x) # <<>>
  BY AppendProperties
<1>6. Append(SubSeq(s, 1, n - 1), ".") \in Word BY <1>4, <1>5, Letters DEF Word
<1> QED BY <1>2, <1>4, <1>6, Letters DEF n, Token, After

LEMMA RestString == \A k : Rest(k) \in String
<1>1. \A a, b, c, d \in Letter : <<a, b>> \in Seq(Letter) /\ <<a, b, c, d>> \in Seq(Letter) OBVIOUS
<1> QED BY <1>1, Letters DEF Rest

\* One string, and one more.
LEMMA Strings ==
    ASSUME NEW t \in Seq(Word), NEW w \in Word
    PROVE  /\ <<w>> \in Seq(Word) /\ <<w>> # <<>>
           /\ Append(t, w) \in Seq(Word)
           /\ t # <<>> => /\ t[1] \in Word /\ Head(t) \in Word
                          /\ Tail(t) \in Seq(Word)
OBVIOUS

LEMMA LocalsInit == Init => Locals /\ HasWord
<1> SUFFICES ASSUME Init PROVE Locals /\ HasWord OBVIOUS
<1>1. <<>> \in String /\ <<>> \in Seq(Word) BY DEF String
<1> QED BY <1>1 DEF Init, Locals, HasWord, Dev

LEMMA LocalsFrame ==
    ASSUME Locals, HasWord, UNCHANGED <<is_run, mpc, wpc, local>> PROVE Locals' /\ HasWord'
BY DEF local, parse, sensor, Locals, HasWord

\* A call of strtok().
LEMMA StrtokLocals ==
    ASSUME Locals, HasWord, NEW h \in Client, Strtok(h), UNCHANGED <<is_run, mpc, wpc>>
    PROVE  Locals' /\ HasWord'
<1>1. UNCHANGED <<dev, line, power, busy, sample, result>>
  BY DEF Strtok, sensor, GetPath, GetName, GetQuery, GetOption, GetMore, GetOpt, GetVar
<1>2. olds = <<>> \/ olds \in Word BY DEF Locals, Word
<1>3. str[h] \in Seq(Word) BY DEF Locals
\* All that a call does to the variables of strtok().
<1>4. SUFFICES ASSUME NEW place \in {"none", "name", "query", "option", "more", "opt", "var", "parsed"},
                      NEW words \in Seq(Word),
                      sub' = [sub EXCEPT ![h] = place], str' = [str EXCEPT ![h] = words],
                      olds' \in String, place \in {"name", "option"} => words # <<>>
               PROVE  Locals' /\ HasWord'
  <2>1. str = [str EXCEPT ![h] = str[h]] /\ sub = [sub EXCEPT ![h] = sub[h]] BY DEF Locals
  <2>2. olds \in String /\ <<>> \in String /\ <<>> \in Seq(Word)
    <3>1. <<>> \in Seq(Letter) /\ <<>> \in Seq(Word) OBVIOUS
    <3> QED BY <3>1, Letters DEF Locals
  <2>3. CASE GetPath(h)
    <3>1. CASE olds = <<>>
      <4>1. str' = [str EXCEPT ![h] = <<>>] /\ olds' = <<>> BY <2>3, <3>1 DEF GetPath
      <4>2. str'[h] = <<>> BY <4>1 DEF Locals
      <4>3. sub' = [sub EXCEPT ![h] = "parsed"] BY <2>3, <4>2 DEF GetPath, Sub
      <4> QED BY <2>2, <4>1, <4>3
    <3>2. CASE olds # <<>>
      <4>1. str' = [str EXCEPT ![h] = <<Token(olds, " ")>>] /\ olds' = After(olds, " ")
        BY <2>3, <3>2 DEF GetPath
      <4>2. sub' = [sub EXCEPT ![h] = "name"] \/ sub' = [sub EXCEPT ![h] = "parsed"]
        BY <2>3 DEF GetPath, Sub
      <4>3. Token(olds, " ") \in Word /\ After(olds, " ") \in String BY <1>2, <3>2, CutWord
      <4>4. <<Token(olds, " ")>> \in Seq(Word) /\ <<Token(olds, " ")>> # <<>> BY <1>3, <4>3, Strings
      <4> QED BY <4>1, <4>2, <4>3, <4>4
    <3> QED BY <3>1, <3>2
  <2>4. CASE GetName(h)
    <3>1. str[h] # <<>> BY <2>4 DEF GetName, Parsing, HasWord
    <3>2. str[h][1] \in Word BY <1>3, <3>1
    <3>3. After(str[h][1], "?") \in String BY <3>2, CutWord
    <3> QED BY <1>3, <2>1, <2>4, <3>3 DEF GetName, Sub
  <2>5. CASE GetQuery(h)
    <3>1. CASE olds = <<>>
      BY <1>3, <2>1, <2>2, <2>5, <3>1 DEF GetQuery, Sub
    <3>2. CASE olds # <<>>
      <4>1. Token(olds, "?") \in Word /\ After(olds, "?") \in String BY <1>2, <3>2, CutWord
      <4>2. <<Token(olds, "?")>> \in Seq(Word) /\ <<Token(olds, "?")>> # <<>> BY <1>3, <4>1, Strings
      <4> QED BY <2>5, <3>2, <4>1, <4>2 DEF GetQuery, Sub
    <3> QED BY <3>1, <3>2
  <2>6. CASE GetOption(h)
    <3>1. str[h] # <<>> BY <2>6 DEF GetOption, Parsing, HasWord
    <3>2. str[h][1] \in Word BY <1>3, <3>1
    <3>3. Token(str[h][1], "&") \in Word /\ After(str[h][1], "&") \in String BY <3>2, CutWord
    <3>4. <<Token(str[h][1], "&")>> \in Seq(Word) BY <1>3, <3>3, Strings
    <3>5. str' = [str EXCEPT ![h] = <<Token(str[h][1], "&")>>] BY <2>6 DEF GetOption
    <3> QED BY <2>6, <3>3, <3>4, <3>5 DEF GetOption, Sub
  <2>7. CASE GetMore(h)
    <3>1. CASE olds = <<>>
      BY <1>3, <2>1, <2>2, <2>7, <3>1 DEF GetMore, Sub
    <3>2. CASE olds # <<>>
      <4>1. Token(olds, "&") \in Word /\ After(olds, "&") \in String BY <1>2, <3>2, CutWord
      <4>2. Append(str[h], Token(olds, "&")) \in Seq(Word) BY <1>3, <4>1, Strings
      <4>3. str' = [str EXCEPT ![h] = Append(str[h], Token(olds, "&"))] BY <2>7, <3>2 DEF GetMore
      <4>4. sub' = sub /\ sub[h] = "more" /\ olds' = After(olds, "&") BY <2>7, <3>2 DEF GetMore, Parsing
      <4> QED BY <2>1, <4>1, <4>2, <4>3, <4>4
    <3> QED BY <3>1, <3>2
  <2>8. CASE GetOpt(h)
    <3>1. CASE str[h] = <<>>
      BY <1>3, <2>1, <2>2, <2>8, <3>1 DEF GetOpt, Sub
    <3>2. CASE str[h] # <<>>
      <4>1. Head(str[h]) \in Word /\ Tail(str[h]) \in Seq(Word) BY <1>3, <3>2
      <4>2. After(Head(str[h]), "=") \in String BY <4>1, CutWord
      <4>3. str' = [str EXCEPT ![h] = Tail(str[h])] BY <2>8, <3>2 DEF GetOpt
      <4> QED BY <2>8, <3>2, <4>1, <4>2, <4>3 DEF GetOpt, Sub
    <3> QED BY <3>1, <3>2
  <2>9. CASE GetVar(h)
    <3>1. CASE olds = <<>>
      <4>1. sub' = sub /\ sub[h] = "var" /\ olds' = olds /\ str' = str BY <2>9, <3>1 DEF GetVar, Parsing
      <4> QED BY <1>3, <2>1, <2>2, <4>1
    <3>2. CASE olds # <<>>
      <4>1. After(olds, "=") \in String BY <1>2, <3>2, CutWord
      <4> QED BY <1>3, <2>1, <2>9, <3>2, <4>1 DEF GetVar, Sub
    <3> QED BY <3>1, <3>2
  <2> QED BY <2>3, <2>4, <2>5, <2>6, <2>7, <2>8, <2>9 DEF Strtok
<1>5. HasWord' BY <1>4 DEF Locals, HasWord
<1> QED BY <1>1, <1>4, <1>5 DEF Locals

\* A step of the measurement.
LEMMA MeasureLocals ==
    ASSUME Locals, HasWord, NEW h \in Client, Measure(h), UNCHANGED <<is_run, mpc, wpc>>
    PROVE  Locals' /\ HasWord'
<1>1. PICK d \in Dev : \/ Power(h, d, "off", "on", FALSE)
                       \/ Power(h, d, "on", "trigger", TRUE)
                       \/ Trigger(h, d) \/ Wait(h, d) \/ Read(h, d) \/ ReadAll(h, d)
  BY DEF Measure
<1>2. UNCHANGED <<line, str, olds>> BY DEF Measure, parse
<1>3. PICK place \in {"off", "on", "trigger", "wait", "read", "measured"} :
        sub' = [sub EXCEPT ![h] = place]
  <2>1. CASE Read(h, d)
    <3>1. sub' = sub /\ sub[h] = "read" /\ sub = [sub EXCEPT ![h] = sub[h]]
      BY <2>1 DEF Read, Measuring, Locals
    <3> QED BY <3>1
  <2> QED BY <1>1, <2>1 DEF Power, Trigger, Wait, ReadAll, Sub
<1>4. HasWord' BY <1>2, <1>3 DEF Locals, HasWord
<1>5. dev' \in [Client -> Dev]
  BY <1>1 DEF Power, Trigger, Wait, Read, ReadAll, sensor, Locals, Dev
<1>6. power' \in [Dev -> BOOLEAN]
  <2>1. CASE Power(h, d, "off", "on", FALSE) \/ Power(h, d, "on", "trigger", TRUE)
    <3>1. PICK on \in BOOLEAN : power' = [power EXCEPT ![d] = IF fds[Slot[d]] = d THEN on ELSE @]
      BY <2>1 DEF Power
    <3>2. power' = [power EXCEPT ![d] = on] \/ power' = [power EXCEPT ![d] = power[d]] BY <3>1
    <3>3. power \in [Dev -> BOOLEAN] BY DEF Locals
    <3> QED BY <3>2, <3>3
  <2>2. CASE Trigger(h, d) \/ Wait(h, d) \/ Read(h, d) \/ ReadAll(h, d)
    BY <2>2 DEF Trigger, Wait, Read, ReadAll, sensor, Locals
  <2> QED BY <1>1, <2>1, <2>2
<1>7. busy' \in [Dev -> BOOLEAN] /\ sample' \in [Dev -> Client \cup {Free}]
  BY <1>1 DEF Power, Trigger, Wait, Read, ReadAll, sensor, Locals
<1>8. result' \in [Client -> SUBSET (Client \cup {Free})]
  <2>1. CASE Read(h, d)
    <3>1. Origin(d) \in Client \cup {Free} BY DEF Origin, Locals
    <3>2. result[h] \cup {Origin(d)} \in SUBSET (Client \cup {Free}) BY <3>1 DEF Locals
    <3> QED BY <2>1, <3>2 DEF Read, Locals
  <2>2. CASE ReadAll(h, d) BY <2>2 DEF ReadAll, Locals
  <2> QED BY <1>1, <2>1, <2>2 DEF Power, Trigger, Wait, sensor, Locals
<1>9. sub' \in [Client -> {"none", "path", "name", "query", "option", "more", "opt", "var", "parsed",
                           "off", "on", "trigger", "wait", "read", "measured", "sent"}]
  BY <1>3 DEF Locals
<1> QED BY <1>2, <1>4, <1>5, <1>6, <1>7, <1>8, <1>9 DEF Locals

LEMMA HandlerLocals ==
    ASSUME ConnTypeOK, Locals, HasWord, NEW h \in Client, Handler(h)
    PROVE  Locals' /\ HasWord'
<1>1. UNCHANGED <<is_run, mpc, wpc>> BY DEF Handler
<1>2. CASE UNCHANGED local BY <1>1, <1>2, LocalsFrame
<1>3. CASE GetLine(h)
  <2>1. PICK k : line' = [line EXCEPT ![h] = k] /\ (k = "other" \/ \E c \in Client : k = kind[c])
    BY <1>3 DEF GetLine
  <2>2. kind \in [Client -> Kind] BY DEF ConnTypeOK, PeerTypeOK
  <2>3. line' \in [Client -> Kind \cup {"other"}] BY <2>1, <2>2 DEF Locals
  <2> QED BY <1>1, <1>3, <2>3 DEF GetLine, sensor, Locals, HasWord
<1>4. CASE Method1(h)
  <2>1. olds' \in String BY <1>4, RestString DEF Method1
  <2> QED BY <1>1, <1>4, <2>1 DEF Method1, Sub, sensor, Locals, HasWord
<1>5. CASE Strtok(h) BY <1>1, <1>5, StrtokLocals
<1>6. CASE Headers(h) BY <1>1, <1>6 DEF Headers, Sub, parse, sensor, Locals, HasWord
<1>7. CASE Measure(h) BY <1>1, <1>7, MeasureLocals
<1>8. CASE SendPage(h) BY <1>1, <1>8 DEF SendPage, Sub, parse, sensor, Locals, HasWord
<1> QED BY <1>2, <1>3, <1>4, <1>5, <1>6, <1>7, <1>8 DEF Handler

\* Switching a sensor off leaves a Boolean.
LEMMA SwitchLocals ==
    ASSUME Locals, HasWord, NEW d \in Dev, NEW from,
           NEW to \in {"loop", "key", "off_p", "close_p", "off_t", "close_t", "return"},
           SwitchOff(d, from, to)
    PROVE  Locals' /\ HasWord'
<1>1. (power[d] /\ fds[Slot[d]] # d) \in BOOLEAN OBVIOUS
<1>2. PICK b \in BOOLEAN : power' = [power EXCEPT ![d] = b]
  <2>1. power' = [power EXCEPT ![d] = (power[d] /\ fds[Slot[d]] # d)] BY DEF SwitchOff
  <2> QED BY <1>1, <2>1, Zenon
<1>3. power' \in [Dev -> BOOLEAN] BY <1>2 DEF Locals
<1> QED BY <1>3 DEF SwitchOff, parse, Locals, HasWord

LEMMA LocalsNext == ASSUME ConnTypeOK, Locals, HasWord, [Next]_vars PROVE Locals' /\ HasWord'
<1>1. CASE MainLoop \/ NoKey \/ Return \/ Quit \/ Joystick \/ Web
           \/ CloseDevice("pressure", "close_p", "off_t") \/ CloseDevice("temperature", "close_t", "return")
  BY <1>1 DEF MainLoop, NoKey, Return, Quit, Joystick, CloseDevice,
              Web, WebLoop, WebAccept, WebCreate, local, parse, sensor, Locals, HasWord
<1>2. CASE SwitchOff("pressure", "off_p", "close_p") \/ SwitchOff("temperature", "off_t", "close_t")
  <2>1. /\ "pressure" \in Dev /\ "temperature" \in Dev
        /\ "close_p" \in {"loop", "key", "off_p", "close_p", "off_t", "close_t", "return"}
        /\ "close_t" \in {"loop", "key", "off_p", "close_p", "off_t", "close_t", "return"}
    BY DEF Dev
  <2> QED BY <1>2, <2>1, SwitchLocals
<1>3. CASE \E d \in Dev : Convert(d)
  BY <1>3 DEF Convert, parse, Locals, HasWord
<1>4. CASE \E c \in Client : Handler(c)
  BY <1>4, HandlerLocals
<1>5. CASE \E c \in Client : Environment(c)
  BY <1>5, LocalsFrame DEF Environment
<1>6. CASE UNCHANGED vars
  BY <1>6, LocalsFrame DEF vars
<1> QED BY <1>1, <1>2, <1>3, <1>4, <1>5, <1>6 DEF Next, Main

\* Whatever its threads cut up with the one static pointer of strtok(), and
\* however they measure at the same time, every variable of rpi6.c keeps its
\* type.
THEOREM TypeCorrect == Spec => []TypeOK
<1>1. Inv /\ Locals /\ HasWord /\ [Next]_vars => Locals' /\ HasWord'
  BY LocalsNext DEF Inv
<1>2. Inv /\ Locals => TypeOK
  <2> SUFFICES ASSUME Inv, Locals PROVE TypeOK OBVIOUS
  <2>1. Word \subseteq String BY DEF Word
  <2>2. Seq(Word) \subseteq Seq(String) BY <2>1
  <2>3. str \in [Client -> Seq(String)] BY <2>2 DEF Locals
  <2> QED BY <2>3 DEF Inv, Locals, TypeOK
<1> QED BY <1>1, <1>2, LocalsInit, InvAlways, PTL DEF Spec

\* However the threads of rpi6.c are interleaved, and whatever descriptors
\* they mix up among their connections, none of them ever closes a sensor,
\* the joystick or the listening socket.
THEOREM SystemFdsCorrect == Spec => []SystemFds
<1>1. Inv => SystemFds \/ ~Up
  BY DEF Inv
<1>2. Inv => SystemFds
  BY <1>1 DEF SystemFds
<1> QED BY <1>2, InvAlways, PTL
-----------------------------------------------------------------------------
(* One browser at a time: what a thread reads is what it asked for.        *)

\* Only the accept queue's browsers wait, each once and without a thread, and
\* the browser accepted last has none before it is created.
Waiting ==
    /\ \A i \in DOMAIN backlog : cst[backlog[i]] = "queued"
    /\ \A i, j \in DOMAIN backlog : backlog[i] = backlog[j] => i = j
    /\ \A c \in Client : cst[c] # "accepted" => hpc[c] = "none"
    /\ wpc = "create" => cst[cur] = "accepted" /\ hpc[cur] = "none"

\* A browser that has come and is not done with.
Busy(c) == cst[c] # "idle" /\ hpc[c] # "done"

Alone == \A c, d \in Client : Busy(c) /\ Busy(d) => c = d

\* A system descriptor that main() has closed never comes back: accept() gives
\* a number to a browser, and dup() copies no number of the system's.
NotBack ==
    Up => \A f \in Fd : fds[f] \in System => f = Slot[fds[f]] /\ fds[f] \notin Closed

\* A thread that waits for a conversion has asked for it, unless the sensor was
\* closed before; one that reads has it.
Samples ==
    Up => \A h \in Client :
            hpc[h] = "data" =>
              /\ sub[h] = "wait" /\ dev[h] \notin Closed => sample[dev[h]] = h
              /\ sub[h] = "read" => sample[dev[h]] = h /\ ~busy[dev[h]]

\* What a step of a thread does to the places and to the accept queue.
LEMMA HandlerMoves ==
    ASSUME Inv, NEW h \in Client, Handler(h)
    PROVE  /\ Up /\ hpc[h] \notin {"none", "done"}
           /\ UNCHANGED <<cst, backlog, cur, mpc, wpc>>
           /\ \A g \in Client \ {h} : hpc'[g] = hpc[g]
           /\ hpc'[h] # "none"
<1>1. hpc \in [Client -> Place] BY DEF Inv, ConnTypeOK, ThreadTypeOK
<1>2. /\ Up /\ hpc[h] \notin {"none", "done"}
      /\ UNCHANGED <<cst, backlog, cur, mpc, wpc>>
      /\ hpc' = hpc \/ \E p \in Place \ {"none"} : hpc' = [hpc EXCEPT ![h] = p]
  <2>1. /\ UNCHANGED <<mpc, wpc>>
        /\ \/ Load(h) \/ OpenRead(h) \/ OpenWrite(h) \/ CloseRead(h) \/ CloseWrite(h)
           \/ Spin(h) \/ ReadLine(h) \/ Dispatch(h) \/ Strtok(h) \/ ReadHeaders(h) \/ Measure(h) \/ SendPage(h)
    BY DEF Handler, GetLine, Method1, Headers
  <2>2. CASE Load(h) \/ OpenRead(h) \/ OpenWrite(h) \/ CloseRead(h) \/ CloseWrite(h)
    BY <2>1, <2>2 DEF Load, OpenRead, OpenWrite, CloseRead, CloseWrite, Die, At, Up, Goto, Place, client, thread
  <2>3. CASE Spin(h) \/ ReadLine(h) \/ Dispatch(h) \/ ReadHeaders(h) \/ SendPage(h)
    BY <2>1, <2>3 DEF Spin, ReadLine, Dispatch, DispatchWith, ReadHeaders, SendPage, At, Up, Goto, Place,
                      conn, client, thread
  <2>4. CASE Measure(h)
    BY <2>1, <2>4 DEF Measure, Power, Trigger, Wait, Read, ReadAll, Measuring, At, Up, conn, client, thread
  <2>5. CASE Strtok(h)
    <3>1. At(h, "headers") /\ (Die \/ UNCHANGED conn \/ GiveUp(h))
      BY <2>5 DEF Strtok, GiveUp, GetPath, GetName, GetQuery, GetOption, GetMore, GetOpt, GetVar, Parsing
    <3> QED BY <2>1, <3>1 DEF GiveUp, Die, At, Up, Goto, Place, conn, client, thread
  <2> QED BY <2>1, <2>2, <2>3, <2>4, <2>5
<1> QED BY <1>1, <1>2

\* What a step of anybody else does to them.
Frozen == UNCHANGED <<cst, backlog, cur, hpc>>

LEMMA OthersMove ==
    ASSUME [Next]_vars, \A h \in Client : ~Handler(h), \A c \in Client : ~Connect(c)
    PROVE  \/ WebAccept
           \/ WebCreate
           \/ Frozen /\ (wpc' = "create" => wpc = "create")
<1>1. CASE Main \/ Quit \/ Joystick
  BY <1>1 DEF Main, MainLoop, NoKey, Quit, Return, SwitchOff, CloseDevice, Joystick, Die,
              conn, client, thread, Frozen
<1>2. CASE Web
  BY <1>2 DEF Web, WebLoop, conn, client, thread, Frozen
<1>3. CASE \E d \in Dev : Convert(d)
  BY <1>3 DEF Convert, conn, client, thread, Frozen
<1>4. CASE \E c \in Client : Environment(c)
  BY <1>4 DEF Environment, Send, Leave, thread, Frozen
<1>5. CASE UNCHANGED vars
  BY <1>5 DEF vars, conn, client, thread, Frozen
<1> QED BY <1>1, <1>2, <1>3, <1>4, <1>5 DEF Next

LEMMA WaitingNext == ASSUME Inv, Waiting, [Next]_vars PROVE Waiting'
<1>1. /\ backlog \in Seq(Client) /\ cst \in [Client -> {"idle", "queued", "accepted"}]
      /\ hpc \in [Client -> Place] /\ cur \in Client
  BY DEF Inv, ConnTypeOK, PeerTypeOK, ThreadTypeOK
<1>2. ASSUME NEW h \in Client, Handler(h) PROVE Waiting'
  <2>1. cst[h] = "accepted" /\ (wpc = "create" => cur # h) BY <1>2, HandlerMoves DEF Waiting
  <2> QED BY <1>1, <1>2, <2>1, HandlerMoves DEF Waiting
<1>3. ASSUME NEW c \in Client, Connect(c), UNCHANGED wpc PROVE Waiting'
  <2>1. /\ cst[c] = "idle" /\ cst' = [cst EXCEPT ![c] = "queued"] /\ backlog' = Append(backlog, c)
        /\ UNCHANGED <<hpc, cur, wpc>>
    BY <1>3 DEF Connect, thread
  <2>2. \A i \in DOMAIN backlog : backlog[i] # c BY <2>1 DEF Waiting
  <2>3. /\ \A i \in DOMAIN backlog' : i \in DOMAIN backlog \/ backlog'[i] = c
        /\ \A i \in DOMAIN backlog' : i \in DOMAIN backlog => backlog'[i] = backlog[i]
        /\ \A i, j \in DOMAIN backlog' : i \notin DOMAIN backlog /\ j \notin DOMAIN backlog => i = j
    <3>1. /\ Len(backlog') = Len(backlog) + 1 /\ Len(backlog) \in Nat /\ backlog' \in Seq(Client)
          /\ \A i \in 1..Len(backlog) : backlog'[i] = backlog[i]
          /\ backlog'[Len(backlog) + 1] = c
      BY <1>1, <2>1, AppendProperties
    <3>2. DOMAIN backlog' = 1..Len(backlog) + 1 /\ DOMAIN backlog = 1..Len(backlog) BY <1>1, <3>1
    <3> QED BY <3>1, <3>2
  <2>4. \A i \in DOMAIN backlog' : cst'[backlog'[i]] = "queued"
    <3>1. ASSUME NEW i \in DOMAIN backlog' PROVE cst'[backlog'[i]] = "queued"
      <4>1. CASE i \in DOMAIN backlog
        <5>1. backlog'[i] = backlog[i] /\ backlog[i] \in Client BY <1>1, <2>3, <4>1
        <5> QED BY <1>1, <2>1, <2>2, <4>1, <5>1 DEF Waiting
      <4>2. CASE i \notin DOMAIN backlog BY <1>1, <2>1, <2>3, <4>2
      <4> QED BY <4>1, <4>2
    <3> QED BY <3>1
  <2>5. \A i, j \in DOMAIN backlog' : backlog'[i] = backlog'[j] => i = j BY <2>2, <2>3 DEF Waiting
  <2>6. \A d \in Client : cst'[d] # "accepted" => hpc'[d] = "none" BY <1>1, <2>1 DEF Waiting
  <2>7. wpc' = "create" => cst'[cur'] = "accepted" /\ hpc'[cur'] = "none" BY <1>1, <2>1 DEF Waiting
  <2> QED BY <2>4, <2>5, <2>6, <2>7 DEF Waiting
<1>4. CASE WebAccept
  <2> DEFINE c == Head(backlog)
  <2>1. /\ backlog # <<>> /\ cst' = [cst EXCEPT ![c] = "accepted"] /\ backlog' = Tail(backlog)
        /\ cur' = c /\ wpc' = "create" /\ UNCHANGED hpc
    BY <1>4 DEF WebAccept, Accept, thread
  <2>2. /\ 1 \in DOMAIN backlog /\ c = backlog[1] /\ c \in Client
        /\ \A i \in DOMAIN backlog' : /\ i + 1 \in DOMAIN backlog /\ i + 1 # 1
                                      /\ backlog'[i] = backlog[i + 1] /\ backlog[i + 1] \in Client
    <3>1. /\ Len(Tail(backlog)) = Len(backlog) - 1 /\ Tail(backlog) \in Seq(Client) /\ Len(backlog) \in Nat \ {0}
          /\ \A i \in 1..Len(Tail(backlog)) : Tail(backlog)[i] = backlog[i + 1]
      BY <1>1, <2>1
    <3>2. DOMAIN Tail(backlog) = 1..Len(backlog) - 1 /\ DOMAIN backlog = 1..Len(backlog) BY <1>1, <3>1
    <3>3. backlog' = Tail(backlog) BY <2>1
    <3>4. \A i \in DOMAIN backlog : backlog[i] \in Client BY <1>1
    <3>5. c = backlog[1] BY <1>1, <2>1
    <3> QED BY <3>1, <3>2, <3>3, <3>4, <3>5
  <2>3. \A i \in DOMAIN backlog' : backlog'[i] # c BY <2>2 DEF Waiting
  <2>4. hpc[c] = "none" BY <2>2 DEF Waiting
  <2> HIDE DEF c
  <2>5. \A i \in DOMAIN backlog' : cst'[backlog'[i]] = "queued" BY <1>1, <2>1, <2>2, <2>3 DEF Waiting
  <2>6. \A i, j \in DOMAIN backlog' : backlog'[i] = backlog'[j] => i = j
    <3>1. ASSUME NEW i \in DOMAIN backlog', NEW j \in DOMAIN backlog', backlog'[i] = backlog'[j] PROVE i = j
      <4>1. i + 1 = j + 1 BY <2>2, <3>1 DEF Waiting
      <4>2. backlog' \in Seq(Client) BY <1>1, <2>1
      <4>3. i \in Int /\ j \in Int BY <4>2
      <4> QED BY <4>1, <4>3
    <3> QED BY <3>1
  <2>7. \A d \in Client : cst'[d] # "accepted" => hpc'[d] = "none" BY <1>1, <2>1, <2>2, <2>4 DEF Waiting
  <2>8. cst'[cur'] = "accepted" /\ hpc'[cur'] = "none" BY <1>1, <2>1, <2>2, <2>4
  <2> QED BY <2>5, <2>6, <2>7, <2>8 DEF Waiting
<1>5. CASE WebCreate
  <2>1. /\ wpc = "create" /\ wpc' = "while" /\ hpc' = [hpc EXCEPT ![cur] = "load"]
        /\ UNCHANGED <<cst, backlog, cur>>
    BY <1>5 DEF WebCreate, Create, client
  <2> QED BY <1>1, <2>1 DEF Waiting
<1>6. CASE Frozen /\ (wpc' = "create" => wpc = "create")
  BY <1>6 DEF Waiting, Frozen
<1>7. CASE \E c \in Client : Connect(c)
  <2>1. PICK c \in Client : Connect(c) BY <1>7
  <2>2. CASE UNCHANGED wpc BY <1>3, <2>1, <2>2
  <2>3. CASE wpc' # wpc
    <3>1. cst' # cst
      BY <1>1, <2>1 DEF Connect
    <3>2. (\E h \in Client : Handler(h)) \/ WebAccept \/ WebCreate
      BY <2>3, <3>1 DEF Next, Main, MainLoop, NoKey, Quit, Return, SwitchOff, CloseDevice, Joystick,
                        Web, WebLoop, Convert, Environment, vars, conn, client
    <3> QED BY <1>2, <1>4, <1>5, <3>2
  <2> QED BY <2>2, <2>3
<1> QED BY <1>2, <1>4, <1>5, <1>6, <1>7, OthersMove

\* A browser comes when the last is done with.
LEMMA AloneNext == ASSUME Serial, Inv, Waiting, Alone, [Next]_vars PROVE Alone'
<1>1. /\ backlog \in Seq(Client) /\ cst \in [Client -> {"idle", "queued", "accepted"}]
      /\ hpc \in [Client -> Place] /\ cur \in Client
  BY DEF Inv, ConnTypeOK, PeerTypeOK, ThreadTypeOK
<1>2. CASE \A c \in Client : Busy(c)' => Busy(c)
  BY <1>2 DEF Alone
<1>3. ASSUME NEW h \in Client, Handler(h) PROVE Alone'
  <2>1. Busy(h) BY <1>3, HandlerMoves DEF Waiting, Busy
  <2>2. \A c \in Client : Busy(c)' => Busy(c) BY <1>3, <2>1, HandlerMoves DEF Busy
  <2> QED BY <1>2, <2>2
<1>4. ASSUME NEW c \in Client, Environment(c), Connect(c) PROVE Alone'
  <2>1. /\ \A d \in Client : cst[d] = "idle" \/ hpc[d] = "done"
        /\ cst' = [cst EXCEPT ![c] = "queued"] /\ UNCHANGED hpc
        /\ cst[c] = "idle"
    <3>1. ~Send(c) /\ ~Leave(c) BY <1>4 DEF Connect, Send, Leave
    <3> QED BY <1>4, <3>1 DEF Environment, Connect, thread
  <2>2. \A d \in Client : Busy(d)' => d = c BY <1>1, <2>1 DEF Busy
  <2> QED BY <2>2 DEF Alone
<1>5. CASE WebAccept
  <2> DEFINE c == Head(backlog)
  <2>1. backlog # <<>> /\ cst' = [cst EXCEPT ![c] = "accepted"] /\ UNCHANGED hpc
    BY <1>5 DEF WebAccept, Accept, thread
  <2>2. 1 \in DOMAIN backlog /\ c = backlog[1] /\ c \in Client BY <1>1, <2>1
  <2>3. cst[c] = "queued" BY <2>2 DEF Waiting
  <2> HIDE DEF c
  <2>4. \A d \in Client : Busy(d)' => Busy(d) BY <1>1, <2>1, <2>2, <2>3 DEF Busy
  <2> QED BY <1>2, <2>4
<1>6. CASE WebCreate
  <2>1. wpc = "create" /\ hpc' = [hpc EXCEPT ![cur] = "load"] /\ UNCHANGED cst
    BY <1>6 DEF WebCreate, Create, client
  <2>2. Busy(cur) BY <2>1 DEF Waiting, Busy
  <2>3. \A d \in Client : Busy(d)' => Busy(d) BY <1>1, <2>1, <2>2 DEF Busy
  <2> QED BY <1>2, <2>3
<1>7. CASE Frozen BY <1>2, <1>7 DEF Frozen, Busy
<1>8. CASE \E c \in Client : Connect(c)
  <2>1. PICK c \in Client : Connect(c) BY <1>8
  <2>2. cst' = [cst EXCEPT ![c] = "queued"] /\ cst[c] = "idle" BY <2>1 DEF Connect
  <2>3. cst' # cst BY <1>1, <2>2
  <2>4. (\E h \in Client : Handler(h)) \/ WebAccept \/ WebCreate \/ \E d \in Client : Environment(d)
    BY <2>3 DEF Next, Main, MainLoop, NoKey, Quit, Return, SwitchOff, CloseDevice, Joystick, Die,
                Web, WebLoop, Convert, vars, conn, client
  <2>5. ASSUME NEW d \in Client, Environment(d) PROVE Environment(c)
    <3>1. cst'[c] # cst[c] BY <1>1, <2>2
    <3>2. Connect(d) /\ cst' = [cst EXCEPT ![d] = "queued"] BY <2>3, <2>5 DEF Environment, Connect, Send, Leave
    <3>3. d = c BY <1>1, <3>1, <3>2
    <3> QED BY <2>5, <3>3
  <2> QED BY <1>3, <1>4, <1>5, <1>6, <2>1, <2>4, <2>5
<1> QED BY <1>3, <1>5, <1>6, <1>7, <1>8, OthersMove
LEMMA NotBackFrame ==
    ASSUME NotBack, UNCHANGED <<fds, proc>>, Closed' = Closed PROVE NotBack'
BY DEF NotBack, Up

\* A number is given to a browser, or closed.
LEMMA NotBackSet ==
    ASSUME Inv, NotBack, NEW f, NEW x, x \notin System, fds' = [fds EXCEPT ![f] = x],
           UNCHANGED proc, Closed' = Closed
    PROVE  NotBack'
<1>1. DOMAIN fds = Fd BY DEF Inv, ConnTypeOK, ThreadTypeOK
<1> QED BY <1>1 DEF NotBack, Up

LEMMA CloseDeviceNotBack ==
    ASSUME Inv, NotBack, NEW d \in Dev, NEW from, NEW to, CloseDevice(d, from, to),
           Closed' = Closed \cup {d}
    PROVE  NotBack'
<1>1. fds' = [fds EXCEPT ![Slot[d]] = Free] /\ UNCHANGED proc BY DEF CloseDevice, Close
<1>2. DOMAIN fds = Fd /\ Free \notin System /\ Slot[d] \in Fd
  BY Slots, FreeAssumption DEF Inv, ConnTypeOK, ThreadTypeOK
<1>3. ASSUME Up, NEW f \in Fd, fds'[f] \in System
      PROVE  f = Slot[fds'[f]] /\ fds'[f] \notin Closed'
  <2>1. f # Slot[d] /\ fds'[f] = fds[f] BY <1>1, <1>2, <1>3
  <2>2. f = Slot[fds[f]] /\ fds[f] \notin Closed BY <1>3, <2>1 DEF NotBack
  <2> QED BY <2>1, <2>2
<1> QED BY <1>1, <1>3 DEF NotBack, Up

LEMMA NotBackNext == ASSUME Inv, NotBack, [Next]_vars PROVE NotBack'
<1>1. CASE Die BY <1>1 DEF Die, NotBack, Up
<1>2. CASE (MainLoop \/ NoKey \/ Return \/ Quit \/ Joystick) /\ ~Die
  BY <1>2, NotBackFrame DEF MainLoop, NoKey, Return, Quit, Joystick, conn, Closed
<1>3. CASE SwitchOff("pressure", "off_p", "close_p") \/ SwitchOff("temperature", "off_t", "close_t")
  BY <1>3, NotBackFrame DEF SwitchOff, conn, Closed
<1>4. CASE CloseDevice("pressure", "close_p", "off_t")
  <2>1. Closed' = Closed \cup {"pressure"} /\ "pressure" \in Dev
    BY <1>4 DEF CloseDevice, Closed, Dev
  <2> QED BY <1>4, <2>1, CloseDeviceNotBack
<1>5. CASE CloseDevice("temperature", "close_t", "return")
  <2>1. Closed' = Closed \cup {"temperature"} /\ "temperature" \in Dev
    BY <1>5 DEF CloseDevice, Closed, Dev
  <2> QED BY <1>5, <2>1, CloseDeviceNotBack
<1>6. CASE WebLoop \/ WebCreate \/ \E d \in Dev : Convert(d)
  BY <1>6, NotBackFrame DEF WebLoop, WebCreate, Create, Convert, conn, Closed
<1>7. CASE WebAccept
  <2>1. PICK f \in Fd : fds' = [fds EXCEPT ![f] = Head(backlog)]
    BY <1>7 DEF WebAccept, Accept
  <2>2. backlog \in Seq(Client) /\ backlog # <<>>
    BY <1>7 DEF WebAccept, Accept, Inv, ConnTypeOK, PeerTypeOK
  <2>3. Head(backlog) \notin System BY <2>2, SystemAssumption
  <2>4. UNCHANGED <<proc, mpc>> BY <1>7 DEF WebAccept, Accept
  <2> QED BY <2>1, <2>3, <2>4, NotBackSet DEF Closed
<1>8. ASSUME NEW h \in Client, Handler(h), ~Die PROVE NotBack'
  <2>1. Closed' = Closed /\ Up BY <1>8, HandlerMoves DEF Closed
  <2>2. Free \notin System BY FreeAssumption
  <2>3. CASE OpenWrite(h)
    <3>1. PICK f \in Fd : fds' = [fds EXCEPT ![f] = fds[rfd[h]]]
      BY <1>8, <2>3 DEF OpenWrite
    <3>2. hpc[h] = "open_w" /\ UNCHANGED proc BY <1>8, <2>3 DEF OpenWrite, At
    <3>3. rfd[h] \in Fd BY <2>1, <3>2 DEF Inv, Assigned, Reading
    <3>4. fds[rfd[h]] \notin System
      <4>1. SUFFICES ASSUME fds[rfd[h]] \in System PROVE FALSE OBVIOUS
      <4>2. rfd[h] = Slot[fds[rfd[h]]] /\ fds[rfd[h]] \notin Closed BY <2>1, <3>3, <4>1 DEF NotBack
      <4> QED BY <2>1, <4>1, <4>2 DEF Inv, Apart
    <3> QED BY <2>1, <3>1, <3>2, <3>4, NotBackSet
  <2>4. CASE CloseRead(h) \/ CloseWrite(h)
    <3>1. PICK f : fds' = [fds EXCEPT ![f] = Free] BY <2>4 DEF CloseRead, CloseWrite, Close
    <3>2. UNCHANGED proc BY <2>4 DEF CloseRead, CloseWrite
    <3> QED BY <2>1, <2>2, <3>1, <3>2, NotBackSet
  <2>5. CASE UNCHANGED <<fds, proc>> BY <2>1, <2>5, NotBackFrame
  <2>6. CASE Strtok(h)
    <3>1. UNCHANGED conn \/ GiveUp(h)
      BY <1>8, <2>6 DEF Strtok, GiveUp, GetPath, GetName, GetQuery, GetOption, GetMore, GetOpt, GetVar, Parsing
    <3> QED BY <2>5, <3>1 DEF GiveUp, conn
  <2>7. CASE \/ Load(h) \/ OpenRead(h) \/ Spin(h) \/ GetLine(h) \/ Method1(h)
             \/ Headers(h) \/ Measure(h) \/ SendPage(h)
    BY <1>8, <2>5, <2>7 DEF Load, OpenRead, Spin, GetLine, ReadLine, Method1, Dispatch, DispatchWith,
                            Headers, ReadHeaders, Measure, SendPage, conn
  <2> QED BY <1>8, <2>3, <2>4, <2>6, <2>7 DEF Handler
<1>9. ASSUME NEW c \in Client, Environment(c) PROVE NotBack'
  BY <1>9, NotBackFrame DEF Environment, Connect, Send, Leave, Closed
<1>10. CASE UNCHANGED vars BY <1>10, NotBackFrame DEF vars, conn, Closed
<1> QED BY <1>1, <1>2, <1>3, <1>4, <1>5, <1>6, <1>7, <1>8, <1>9, <1>10 DEF Next, Main, Web

\* A thread is at its measurement after the headers and until the page is sent.
LEMMA DataSteps ==
    ASSUME Inv, NEW h \in Client, Handler(h), hpc'[h] = "data"
    PROVE  Measure(h) \/ Headers(h)
<1>1. hpc \in [Client -> Place] BY DEF Inv, ConnTypeOK, ThreadTypeOK
<1>2. CASE Load(h) \/ OpenRead(h) \/ OpenWrite(h) \/ CloseRead(h) \/ CloseWrite(h) \/ Spin(h)
  BY <1>1, <1>2 DEF Load, OpenRead, OpenWrite, CloseRead, CloseWrite, Spin, Die, At, Goto, conn, thread
<1>3. CASE GetLine(h) \/ Method1(h) \/ SendPage(h)
  BY <1>1, <1>3 DEF GetLine, ReadLine, Method1, Dispatch, DispatchWith, SendPage, Goto
<1>4. CASE Strtok(h)
  <2>1. At(h, "headers") /\ (Die \/ UNCHANGED conn \/ GiveUp(h))
    BY <1>4 DEF Strtok, GiveUp, GetPath, GetName, GetQuery, GetOption, GetMore, GetOpt, GetVar, Parsing
  <2> QED BY <1>1, <2>1 DEF GiveUp, Die, At, Goto, conn, thread
<1> QED BY <1>2, <1>3, <1>4 DEF Handler

\* The thread that measures does so alone.
LEMMA SamplesHandler ==
    ASSUME Inv, Locals, Waiting, Alone, NotBack, Samples, NEW h \in Client, Handler(h)
    PROVE  Samples'
<1>1. /\ Up /\ hpc[h] \notin {"none", "done"} /\ Closed' = Closed
      /\ \A g \in Client \ {h} : hpc'[g] = hpc[g]
  BY HandlerMoves DEF Closed
<1>2. \A g \in Client \ {h} : hpc'[g] # "data"
  <2>1. ASSUME NEW g \in Client \ {h}, hpc[g] = "data" PROVE FALSE
    <3>1. Busy(h) BY <1>1 DEF Waiting, Busy
    <3>2. Busy(g) BY <2>1 DEF Waiting, Busy
    <3> QED BY <3>1, <3>2 DEF Alone
  <2> QED BY <1>1, <2>1
<1>3. SUFFICES ASSUME hpc'[h] = "data"
               PROVE  /\ sub'[h] = "wait" /\ dev'[h] \notin Closed => sample'[dev'[h]] = h
                      /\ sub'[h] = "read" => sample'[dev'[h]] = h /\ ~busy'[dev'[h]]
  BY <1>1, <1>2 DEF Samples
<1>4. CASE Headers(h) BY <1>4 DEF Headers, Sub, Locals
<1>5. CASE Measure(h)
  <2>1. PICK d \in Dev : \/ Power(h, d, "off", "on", FALSE)
                         \/ Power(h, d, "on", "trigger", TRUE)
                         \/ Trigger(h, d) \/ Wait(h, d) \/ Read(h, d) \/ ReadAll(h, d)
    BY <1>5 DEF Measure
  <2>2. CASE Power(h, d, "off", "on", FALSE) \/ Power(h, d, "on", "trigger", TRUE) \/ ReadAll(h, d)
    BY <2>2 DEF Power, ReadAll, Sub, Locals
  <2>3. CASE Trigger(h, d)
    <3>1. dev[h] = d /\ UNCHANGED dev /\ sub'[h] = "wait"
      BY <2>3 DEF Trigger, Measuring, Sub, Locals
    <3>2. d \notin Closed => sample'[d] = h
      <4>1. d \notin Closed => fds[Slot[d]] = d BY <1>1, Slots DEF Inv, SystemFds
      <4> QED BY <2>3, <4>1 DEF Trigger, Locals
    <3> QED BY <3>1, <3>2
  <2>4. CASE Wait(h, d)
    <3>1. /\ dev[h] = d /\ sub[h] = "wait" /\ hpc[h] = "data" /\ fds[Slot[d]] = d /\ ~busy[d]
          /\ UNCHANGED <<dev, busy, sample>> /\ sub'[h] = "read"
      BY <2>4 DEF Wait, Measuring, At, Sub, sensor, Locals
    <3>2. d \notin Closed BY <1>1, <3>1, Slots DEF NotBack
    <3>3. sample[d] = h BY <1>1, <3>1, <3>2 DEF Samples
    <3> QED BY <3>1, <3>3
  <2>5. CASE Read(h, d)
    <3>1. UNCHANGED <<sub, dev, busy, sample>> /\ hpc[h] = "data" /\ sub[h] = "read"
      BY <2>5 DEF Read, Measuring, At
    <3> QED BY <1>1, <3>1 DEF Samples
  <2> QED BY <2>1, <2>2, <2>3, <2>4, <2>5
<1> QED BY <1>3, <1>4, <1>5, DataSteps

LEMMA SamplesNext ==
    ASSUME Inv, Locals, Waiting, Alone, NotBack, Samples, [Next]_vars
    PROVE  Samples'
\* Whoever else moves starts no measurement and opens no sensor again.
<1>1. ASSUME \A h \in Client : hpc'[h] = "data" => hpc[h] = "data", Closed \subseteq Closed', Up' => Up,
             UNCHANGED <<sub, dev, sample>>, \A d \in Dev : busy'[d] => busy[d]
      PROVE  Samples'
  <2>1. \A h \in Client : dev[h] \in Dev BY DEF Locals
  <2> QED BY <1>1, <2>1 DEF Samples
<1>2. hpc \in [Client -> Place] BY DEF Inv, ConnTypeOK, ThreadTypeOK
<1>3. CASE Die BY <1>3 DEF Die, Samples, Up
<1>4. CASE (MainLoop \/ NoKey \/ Return \/ Quit \/ Joystick) /\ ~Die
  BY <1>1, <1>4 DEF MainLoop, NoKey, Return, Quit, Joystick, conn, thread, local, sensor, Closed, Up
<1>5. CASE SwitchOff("pressure", "off_p", "close_p") \/ SwitchOff("temperature", "off_t", "close_t")
  BY <1>1, <1>5 DEF SwitchOff, conn, thread, Closed, Up
<1>6. CASE CloseDevice("pressure", "close_p", "off_t") \/ CloseDevice("temperature", "close_t", "return")
  BY <1>1, <1>6 DEF CloseDevice, thread, local, sensor, Closed, Dev, Up
<1>7. CASE Web
  <2>1. UNCHANGED <<mpc, proc, sub, dev, sample, busy>>
    BY <1>7 DEF Web, WebLoop, WebAccept, WebCreate, Accept, Create, conn, local, sensor
  <2>2. \A h \in Client : hpc'[h] = "data" => hpc[h] = "data"
    BY <1>2, <1>7 DEF Web, WebLoop, WebAccept, WebCreate, Accept, Create, conn, thread
  <2> QED BY <1>1, <2>1, <2>2 DEF Closed, Up
<1>8. ASSUME NEW d \in Dev, Convert(d) PROVE Samples'
  <2>1. busy' = [busy EXCEPT ![d] = FALSE] /\ busy \in [Dev -> BOOLEAN] BY <1>8 DEF Convert, Locals
  <2>2. \A e \in Dev : busy'[e] => busy[e] BY <2>1
  <2>3. UNCHANGED <<conn, mpc, sub, dev, sample>> BY <1>8 DEF Convert
  <2> QED BY <1>1, <2>2, <2>3 DEF conn, thread, Closed, Up
<1>9. ASSUME NEW h \in Client, Handler(h) PROVE Samples'
  BY <1>9, SamplesHandler
<1>10. ASSUME NEW c \in Client, Environment(c) PROVE Samples'
  BY <1>1, <1>10 DEF Environment, Connect, Send, Leave, thread, local, sensor, Closed, Up
<1>11. CASE UNCHANGED vars
  BY <1>1, <1>11 DEF vars, conn, thread, local, sensor, Closed, Up
<1> QED BY <1>3, <1>4, <1>5, <1>6, <1>7, <1>8, <1>9, <1>10, <1>11 DEF Next, Main

\* A byte a thread reads is of its own conversion, unless the sensor is gone.
LEMMA ReadFresh ==
    ASSUME Inv, Locals, NotBack, Samples, Fresh, NEW h \in Client, NEW d \in Dev, Read(h, d), Up,
           Closed' = Closed
    PROVE  Fresh'
<1>1. /\ hpc[h] = "data" /\ dev[h] = d /\ sub[h] = "read" /\ dev' = dev
      /\ result' = [result EXCEPT ![h] = @ \cup {Origin(d)}]
  BY DEF Read, Measuring, At
<1>2. sample[d] = h /\ ~busy[d] BY <1>1 DEF Samples
<1>3. Origin(d) = h \/ (Origin(d) = Free /\ d \in Closed)
  <2>1. CASE d \in Closed BY <1>2, <2>1 DEF Origin
  <2>2. CASE d \notin Closed
    <3>1. fds[Slot[d]] = d BY <2>2, Slots DEF Inv, SystemFds
    <3> QED BY <1>2, <3>1 DEF Origin
  <2> QED BY <2>1, <2>2
<1>4. \A g \in Client : result'[g] = IF g = h THEN result[g] \cup {Origin(d)} ELSE result[g]
  BY <1>1 DEF Locals
<1> QED BY <1>1, <1>3, <1>4 DEF Fresh

LEMMA FreshNext ==
    ASSUME Inv, Locals, NotBack, Samples, Fresh, [Next]_vars
    PROVE  Fresh'
\* Nobody else reads, and no sensor is opened again.
<1>1. ASSUME UNCHANGED <<dev, result>>, Closed \subseteq Closed' PROVE Fresh'
  BY <1>1 DEF Fresh
<1>2. CASE MainLoop \/ NoKey \/ Return \/ Quit \/ Joystick
  BY <1>1, <1>2 DEF MainLoop, NoKey, Return, Quit, Joystick, local, sensor, Closed
<1>3. CASE SwitchOff("pressure", "off_p", "close_p") \/ SwitchOff("temperature", "off_t", "close_t")
  BY <1>1, <1>3 DEF SwitchOff, Closed
<1>4. CASE CloseDevice("pressure", "close_p", "off_t") \/ CloseDevice("temperature", "close_t", "return")
  BY <1>1, <1>4 DEF CloseDevice, local, sensor, Closed, Dev
<1>5. CASE Web
  BY <1>1, <1>5 DEF Web, WebLoop, WebAccept, WebCreate, Accept, Create, local, sensor, Closed
<1>6. ASSUME NEW d \in Dev, Convert(d) PROVE Fresh'
  BY <1>1, <1>6 DEF Convert, Closed
<1>7. ASSUME NEW h \in Client, Handler(h) PROVE Fresh'
  <2>1. Up /\ Closed' = Closed BY <1>7, HandlerMoves DEF Closed
  <2>2. CASE \E d \in Dev : Read(h, d) BY <2>1, <2>2, ReadFresh
  <2>3. CASE \E d \in Dev : ReadAll(h, d)
    <3>1. /\ result' = [result EXCEPT ![h] = {}] /\ dev' = [dev EXCEPT ![h] = "temperature"]
      BY <2>3 DEF ReadAll
    <3>2. \A g \in Client : result'[g] = {} \/ (result'[g] = result[g] /\ dev'[g] = dev[g])
      BY <3>1 DEF Locals
    <3> QED BY <2>1, <3>2 DEF Fresh
  <2>4. \/ \E d \in Dev : Read(h, d) \/ ReadAll(h, d)
        \/ UNCHANGED <<dev, result>>
    BY <1>7 DEF Handler, GetLine, Method1, Strtok, Headers, SendPage, Measure, Power, Trigger, Wait, local, sensor
  <2> QED BY <1>1, <2>1, <2>2, <2>3, <2>4
<1>8. ASSUME NEW c \in Client, Environment(c) PROVE Fresh'
  BY <1>1, <1>8 DEF Environment, local, sensor, Closed
<1>9. CASE UNCHANGED vars
  BY <1>1, <1>9 DEF vars, local, sensor, Closed
<1> QED BY <1>2, <1>3, <1>4, <1>5, <1>6, <1>7, <1>8, <1>9 DEF Next, Main

LEMMA FreshInit == Init => Waiting /\ Alone /\ NotBack /\ Samples
<1> SUFFICES ASSUME Init PROVE Waiting /\ Alone /\ NotBack /\ Samples OBVIOUS
<1>1. Waiting /\ Alone /\ Samples BY DEF Init, ConnInit, Waiting, Alone, Busy, Samples
<1>2. Closed = {} BY DEF Init, Closed
<1>3. NotBack
  <2>1. ASSUME NEW f \in Fd, fds[f] \in System PROVE f = Slot[fds[f]]
    <3>1. fds[f] = IF \E s \in System : Slot[s] = f THEN CHOOSE s \in System : Slot[s] = f ELSE Free
      BY DEF Init
    <3>2. \E s \in System : Slot[s] = f BY <2>1, <3>1, FreeAssumption
    <3> QED BY <3>1, <3>2
  <2> QED BY <1>2, <2>1 DEF NotBack
<1> QED BY <1>1, <1>3

\* With one browser at a time every byte a thread of rpi6.c puts on its page is
\* from the conversion that it has asked for itself, and the conversion was over,
\* but for the bytes read from a sensor that main() has closed meanwhile.
THEOREM FreshCorrect == ASSUME Serial PROVE Spec => []Fresh
<1>1. Inv /\ Locals /\ HasWord /\ Waiting /\ Alone /\ NotBack /\ Samples /\ Fresh /\ [Next]_vars
        => Locals' /\ HasWord' /\ Waiting' /\ Alone' /\ NotBack' /\ Samples' /\ Fresh'
  BY LocalsNext, WaitingNext, AloneNext, NotBackNext, SamplesNext, FreshNext DEF Inv
<1>2. Init => Fresh BY DEF Init, Fresh
<1> QED BY <1>1, <1>2, LocalsInit, FreshInit, InvAlways, PTL DEF Spec
=============================================================================
