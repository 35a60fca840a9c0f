-------------------------------- MODULE Rpi6 --------------------------------
(***************************************************************************)
(* NetworkProgramming/rpi6.c: the Raspberry Pi controller.  main() watches *)
(* the keyboard, a thread watches the joystick, a thread accepts           *)
(* connections and creates one clnt_connection() thread for each without   *)
(* joining it, and every one of those threads parses its request with      *)
(* strtok() and measures with the two sensors before it replies.           *)
(***************************************************************************)
EXTENDS HttpConn

CONSTANTS Key,     \* what the user may do: press "q", push the joystick "enter"
          Slot,    \* the descriptor of each thing the program holds open
          Serial   \* browsers come one at a time

Dev == {"pressure", "temperature"}

ASSUME DeviceAssumption == System = Dev \cup {"joystick", "listener"}
ASSUME SlotAssumption ==
    /\ Slot \in [System -> Fd]
    /\ \A s, t \in System : Slot[s] = Slot[t] => s = t
ASSUME RequestAssumption == Kind \subseteq {"page", "form", "post", "other"}

VARIABLES is_run,   \* the flag every loop looks at
          mpc,      \* where main() is
          wpc,      \* where webserverFunction() is
          sub,      \* where a handler thread is between two places of hpc
          dev,      \* the sensor it is measuring with
          line,     \* the kind of request line a thread has read
          str,      \* the strings a thread is cutting up
          olds,     \* the static pointer of strtok(): what is left to cut
          power,    \* CTRL_REG1 of each sensor: converting is enabled
          busy,     \* CTRL_REG2 of each sensor: ONE_SHOT is set
          sample,   \* the thread whose conversion the data registers hold
          result    \* whose conversions the bytes are from that a thread has
                    \* read of the sensor it is measuring with

parse  == <<line, str, olds>>
sensor == <<power, busy, sample, result>>
local  == <<sub, dev, parse, sensor>>
vars   == <<conn, is_run, mpc, wpc, local>>

Up == proc = "up"

Init ==
    /\ ConnInit
    /\ fds = [f \in Fd |-> IF \E s \in System : Slot[s] = f
                           THEN CHOOSE s \in System : Slot[s] = f ELSE Free]
    /\ is_run = TRUE
    /\ mpc = "loop"
    /\ wpc = "while"
    /\ sub = [c \in Client |-> "none"]
    /\ dev = [c \in Client |-> "pressure"]
    /\ line = [c \in Client |-> "other"]
    /\ str = [c \in Client |-> <<>>]
    /\ olds = <<>>
    /\ power = [d \in Dev |-> FALSE]
    /\ busy = [d \in Dev |-> FALSE]
    /\ sample = [d \in Dev |-> Free]
    /\ result = [c \in Client |-> {}]

-----------------------------------------------------------------------------
(* main(): the keyboard loop, and at END the sensors are switched off and  *)
(* their descriptors closed, one after the other.                          *)

\* Fault: the keyboard loop does not look at is_run.
FaultyMainLoop ==
    /\ Up /\ mpc = "loop"
    /\ mpc' = "key"
    /\ UNCHANGED <<conn, is_run, wpc, local>>

MainLoop ==
    /\ Up /\ mpc = "loop"
    /\ mpc' = IF is_run THEN "key" ELSE "off_p"
    /\ UNCHANGED <<conn, is_run, wpc, local>>

\* kbhit() finds no key, or one that is not 'q'.
NoKey ==
    /\ Up /\ mpc = "key"
    /\ mpc' = "loop"
    /\ UNCHANGED <<conn, is_run, wpc, local>>

\* 'q': pthread_kill(ptWebserver, SIGINT).  Nothing handles SIGINT, so it
\* ends the process, not the thread; unless that thread has already ended.
Quit ==
    /\ Up /\ mpc = "key" /\ "q" \in Key
    /\ IF wpc = "ended"
       THEN mpc' = "off_p" /\ is_run' = FALSE /\ UNCHANGED conn
       ELSE Die /\ UNCHANGED <<mpc, is_run>>
    /\ UNCHANGED <<wpc, local>>

\* CTRL_REG1 = 0x00, through a descriptor that is still the sensor's.
SwitchOff(d, from, to) ==
    /\ Up /\ mpc = from
    /\ mpc' = to
    /\ power' = [power EXCEPT ![d] = @ /\ fds[Slot[d]] # d]
    /\ UNCHANGED <<conn, is_run, wpc, sub, dev, parse, busy, sample, result>>

CloseDevice(d, from, to) ==
    /\ Up /\ mpc = from
    /\ mpc' = to
    /\ Close(Slot[d], out)
    /\ UNCHANGED <<kind, client, backlog, taken, csock, cur, thread, proc, is_run, wpc, local>>

\* return 0 from main() ends every thread.
Return ==
    /\ Up /\ mpc = "return"
    /\ Die
    /\ UNCHANGED <<is_run, mpc, wpc, local>>

Main ==
    \/ MainLoop \/ NoKey \/ Return
    \/ SwitchOff("pressure", "off_p", "close_p")
    \/ CloseDevice("pressure", "close_p", "off_t")
    \/ SwitchOff("temperature", "off_t", "close_t")
    \/ CloseDevice("temperature", "close_t", "return")

\* joystickFunction(): KEY_ENTER clears the flag.
Joystick ==
    /\ Up /\ is_run /\ "enter" \in Key
    /\ is_run' = FALSE
    /\ UNCHANGED <<conn, mpc, wpc, local>>

-----------------------------------------------------------------------------
(* webserverFunction(): nothing is joined, and csock is used again at once.*)

WebLoop ==
    /\ Up /\ wpc = "while"
    /\ wpc' = IF is_run THEN "accept" ELSE "ended"
    /\ UNCHANGED <<conn, is_run, mpc, local>>

WebAccept ==
    /\ wpc = "accept" /\ Accept
    /\ wpc' = "create"
    /\ UNCHANGED <<is_run, mpc, local>>

WebCreate ==
    /\ wpc = "create" /\ Create
    /\ wpc' = "while"
    /\ UNCHANGED <<is_run, mpc, local>>

Web == WebLoop \/ WebAccept \/ WebCreate

-----------------------------------------------------------------------------
(* strtok().  A string is the sequence of what ends each of its words: a   *)
(* delimiter, or "." at the end of the string.                             *)

\* What follows the method in the request line: a path, for a form with one
\* option (/index.html?led=Off), and the version of the protocol.
Rest(k) == IF k = "form" THEN <<"?", "=", " ", ".">> ELSE <<" ", ".">>

\* Where strtok(s, d) ends the token it returns.  It returns NULL for <<>>.
Cut(s, d) == CHOOSE i \in DOMAIN s : /\ s[i] = d \/ i = Len(s)
                                     /\ \A j \in 1..i-1 : s[j] # d
Token(s, d) == Append(SubSeq(s, 1, Cut(s, d) - 1), ".")
After(s, d) == SubSeq(s, Cut(s, d) + 1, Len(s))

Sub(h, pc) == sub' = [sub EXCEPT ![h] = pc]
Parsing(h, pc) == At(h, "headers") /\ sub[h] = pc

\* strtok(NULL, " ") gives the path, and a path with a "?" is cut further.
GetPath(h) ==
    /\ Parsing(h, "path")
    /\ str' = [str EXCEPT ![h] = IF olds = <<>> THEN <<>> ELSE <<Token(olds, " ")>>]
    /\ olds' = IF olds = <<>> THEN <<>> ELSE After(olds, " ")
    /\ Sub(h, IF str'[h] # <<>> /\ \E i \in DOMAIN str'[h][1] : str'[h][1][i] = "?"
              THEN "name" ELSE "parsed")
    /\ UNCHANGED <<conn, line>>

\* strtok(filename, "?")
GetName(h) ==
    /\ Parsing(h, "name")
    /\ olds' = After(str[h][1], "?")
    /\ Sub(h, "query")
    /\ UNCHANGED <<conn, line, str>>

\* strtok(NULL, "?"), where NULL goes to END without a reply, and
\* strtok(optLine, "&") on the result, which is one call further on.
GetQuery(h) ==
    /\ Parsing(h, "query")
    /\ IF olds = <<>>
       THEN /\ Goto(h, "close_r") /\ Sub(h, "none")
            /\ UNCHANGED <<kind, client, backlog, taken, out, reset, fds, csock, cur, rfd, wfd, full, method, proc, str, olds>>
       ELSE /\ str' = [str EXCEPT ![h] = <<Token(olds, "?")>>]
            /\ olds' = After(olds, "?")
            /\ Sub(h, "option")
            /\ UNCHANGED conn
    /\ UNCHANGED line

GetOption(h) ==
    /\ Parsing(h, "option")
    /\ str' = [str EXCEPT ![h] = <<Token(@[1], "&")>>]
    /\ olds' = After(str[h][1], "&")
    /\ Sub(h, "more")
    /\ UNCHANGED <<conn, line>>

\* tok = strtok(NULL, "&") until it is NULL: optStr gets one string each time.
GetMore(h) ==
    /\ Parsing(h, "more")
    /\ IF olds = <<>>
       THEN Sub(h, "opt") /\ UNCHANGED <<str, olds>>
       ELSE /\ str' = [str EXCEPT ![h] = Append(@, Token(olds, "&"))]
            /\ olds' = After(olds, "&")
            /\ UNCHANGED sub
    /\ UNCHANGED <<conn, line>>

\* strcpy(opt, strtok(optStr[i], "="))
GetOpt(h) ==
    /\ Parsing(h, "opt")
    /\ IF str[h] = <<>>
       THEN Sub(h, "parsed") /\ UNCHANGED <<str, olds>>
       ELSE /\ olds' = After(Head(str[h]), "=")
            /\ str' = [str EXCEPT ![h] = Tail(@)]
            /\ Sub(h, "var")
    /\ UNCHANGED <<conn, line>>

\* strcpy(var, strtok(NULL, "=")), whatever strtok() returns.
GetVar(h) ==
    /\ Parsing(h, "var")
    /\ IF olds = <<>>
       THEN Die /\ UNCHANGED <<olds, sub>>
       ELSE /\ olds' = After(olds, "=")
            /\ Sub(h, "opt")
            /\ UNCHANGED conn
    /\ UNCHANGED <<line, str>>

Strtok(h) ==
    /\ \/ GetPath(h) \/ GetName(h) \/ GetQuery(h) \/ GetOption(h)
       \/ GetMore(h) \/ GetOpt(h) \/ GetVar(h)
    /\ UNCHANGED <<dev, sensor>>

-----------------------------------------------------------------------------
(* sendData(): both sensors are switched off and on, told to convert once, *)
(* waited for and read; no mutex is taken.  A register access through a    *)
(* descriptor that is no longer the sensor's fails.                        *)

Measuring(h, d, step) == At(h, "data") /\ dev[h] = d /\ sub[h] = step

\* Fault: 0x04 for 0x84, the power bit is missing.
FaultyPower(h, d, step, next, on) ==
    /\ Measuring(h, d, step)
    /\ power' = [power EXCEPT ![d] = IF fds[Slot[d]] = d THEN FALSE ELSE @]
    /\ Sub(h, next)
    /\ UNCHANGED <<dev, busy, sample, result>>

\* CTRL_REG1 = 0x00; CTRL_REG1 = 0x84
Power(h, d, step, next, on) ==
    /\ Measuring(h, d, step)
    /\ power' = [power EXCEPT ![d] = IF fds[Slot[d]] = d THEN on ELSE @]
    /\ Sub(h, next)
    /\ UNCHANGED <<dev, busy, sample, result>>

\* CTRL_REG2 = 0x01
Trigger(h, d) ==
    /\ Measuring(h, d, "trigger")
    /\ IF fds[Slot[d]] = d
       THEN busy' = [busy EXCEPT ![d] = TRUE] /\ sample' = [sample EXCEPT ![d] = h]
       ELSE UNCHANGED <<busy, sample>>
    /\ Sub(h, "wait")
    /\ UNCHANGED <<dev, power, result>>

\* Fault: the registers are read without waiting for CTRL_REG2.
FaultyWait(h, d) ==
    /\ Measuring(h, d, "wait")
    /\ Sub(h, "read")
    /\ UNCHANGED <<dev, sensor>>

\* getPressure(), getTemperature(): do ... while(result != 0), then read.  The
\* read of a descriptor that is gone gives -1, so the loop goes on.
Wait(h, d) ==
    /\ Measuring(h, d, "wait")
    /\ fds[Slot[d]] = d /\ ~busy[d]
    /\ Sub(h, "read")
    /\ UNCHANGED <<dev, sensor>>

\* Whose conversion a data register of d shows: that of sample[d] when it is
\* over, and nobody's (Free) before, or when the access fails: the byte is 255.
Origin(d) == IF fds[Slot[d]] = d /\ ~busy[d] THEN sample[d] ELSE Free

\* The registers are read one after the other, and main() may close the sensor
\* in between; a read that fails is a byte like another.
Read(h, d) ==
    /\ Measuring(h, d, "read")
    /\ result' = [result EXCEPT ![h] = @ \cup {Origin(d)}]
    /\ UNCHANGED <<sub, dev, power, busy, sample>>

\* When all are read, sendData() goes on to the other sensor, or to the page.
ReadAll(h, d) ==
    /\ Measuring(h, d, "read") /\ result[h] # {}
    /\ result' = [result EXCEPT ![h] = {}]
    /\ dev' = [dev EXCEPT ![h] = "temperature"]
    /\ Sub(h, IF d = "pressure" THEN "off" ELSE "measured")
    /\ UNCHANGED <<power, busy, sample>>

Measure(h) ==
    /\ \E d \in Dev :
         \/ Power(h, d, "off", "on", FALSE)
         \/ Power(h, d, "on", "trigger", TRUE)
         \/ Trigger(h, d) \/ Wait(h, d) \/ Read(h, d) \/ ReadAll(h, d)
    /\ UNCHANGED <<conn, parse>>

\* The sensor: a conversion that is enabled ends, and clears ONE_SHOT.
Convert(d) ==
    /\ busy[d] /\ power[d]
    /\ busy' = [busy EXCEPT ![d] = FALSE]
    /\ UNCHANGED <<conn, is_run, mpc, wpc, sub, dev, parse, power, sample, result>>

-----------------------------------------------------------------------------
(* clnt_connection(): the steps of HttpConn, with what rpi6.c adds to them.*)

\* fgets: line[h] is the request line the thread got hold of.
GetLine(h) ==
    LET x == fds[rfd[h]] IN
    /\ ReadLine(h)
    /\ line' = [line EXCEPT ![h] = IF x \in Client THEN kind[x] ELSE "other"]
    /\ UNCHANGED <<sub, dev, str, olds, sensor>>

\* strtok(reg_line, "/ ") leaves olds behind the method.
Method1(h) ==
    /\ Dispatch(h)
    /\ olds' = Rest(line[h])
    /\ Sub(h, IF method[h] = "get" THEN "path" ELSE "none")
    /\ UNCHANGED <<line, str, dev, sensor>>

Headers(h) ==
    /\ sub[h] = "parsed"
    /\ ReadHeaders(h)
    /\ Sub(h, "off")
    /\ UNCHANGED <<dev, parse, sensor>>

\* Faults: the sensor is closed with the page, as webserver.c closes its file;
\* fflush() is forgotten and the stream not closed.
ClosingSendPage(h) ==
    /\ At(h, "data") /\ sub[h] = "measured"
    /\ Deliver(h, "page")
    /\ fds' = [fds EXCEPT ![Slot["pressure"]] = Free]
    /\ Goto(h, "close_r")
    /\ Sub(h, "sent")
    /\ UNCHANGED <<kind, client, backlog, taken, reset, csock, cur, rfd, wfd, full, method, proc, dev, parse, sensor>>

UnflushedSendPage(h) ==
    /\ At(h, "data") /\ sub[h] = "measured"
    /\ Goto(h, "close_r")
    /\ Sub(h, "sent")
    /\ UNCHANGED <<kind, client, backlog, taken, out, reset, fds, csock, cur, rfd, wfd, full, method, proc, dev, parse, sensor>>

\* fputs(...); fflush(fp): one write.
SendPage(h) ==
    /\ At(h, "data") /\ sub[h] = "measured"
    /\ Deliver(h, "page")
    /\ Goto(h, "close_r")
    /\ Sub(h, "sent")
    /\ UNCHANGED <<kind, client, backlog, taken, reset, fds, csock, cur, rfd, wfd, full, method, proc, dev, parse, sensor>>

\* fclose(clnt_write), with nothing left in its buffer.
CloseWrite(h) ==
    /\ At(h, "close_w")
    /\ Close(wfd[h], out)
    /\ Goto(h, "done")
    /\ UNCHANGED <<kind, client, backlog, taken, csock, cur, rfd, wfd, full, method, proc>>

Handler(h) ==
    /\ \/ (Load(h) \/ OpenRead(h) \/ OpenWrite(h) \/ CloseRead(h) \/ CloseWrite(h)) /\ UNCHANGED local
       \/ Spin(h) /\ sub[h] = "parsed" /\ UNCHANGED local
       \/ GetLine(h) \/ Method1(h) \/ Strtok(h) \/ Headers(h) \/ Measure(h) \/ SendPage(h)
    /\ UNCHANGED <<is_run, mpc, wpc>>

Environment(c) ==
    /\ \/ Connect(c) /\ (Serial => \A d \in Client : cst[d] = "idle" \/ hpc[d] = "done")
       \/ Send(c) \/ Leave(c)
    /\ UNCHANGED <<is_run, mpc, wpc, local>>

Next ==
    \/ Main \/ Quit \/ Joystick \/ Web
    \/ \E d \in Dev : Convert(d)
    \/ \E c \in Client : Handler(c) \/ Environment(c)

Spec == Init /\ [][Next]_vars

\* Threads and sensors run; a browser finishes a request it has begun.  No
\* key is ever sure to be pressed.
Fairness ==
    /\ WF_vars(Main) /\ WF_vars(Web)
    /\ \A d \in Dev : WF_vars(Convert(d))
    /\ \A c \in Client : WF_vars(Handler(c))
    /\ \A c \in Client \ Unreliable : WF_vars(Send(c) /\ UNCHANGED <<is_run, mpc, wpc, local>>)

FairSpec == Spec /\ Fairness

-----------------------------------------------------------------------------
(* Correctness.                                                            *)

String == Seq({"?", "=", "&", " ", "."})

\* Every variable has its type.
TypeOK ==
    /\ ConnTypeOK
    /\ is_run \in BOOLEAN
    /\ mpc \in {"loop", "key", "off_p", "close_p", "off_t", "close_t", "return"}
    /\ wpc \in {"while", "accept", "create", "ended"}
    /\ sub \in [Client -> {"none", "path", "name", "query", "option", "more", "opt", "var", "parsed",
                           "off", "on", "trigger", "wait", "read", "measured", "sent"}]
    /\ dev \in [Client -> Dev]
    /\ line \in [Client -> Kind \cup {"other"}]
    /\ str \in [Client -> Seq(String)]
    /\ olds \in String
    /\ power \in [Dev -> BOOLEAN]
    /\ busy \in [Dev -> BOOLEAN]
    /\ sample \in [Dev -> Client \cup {Free}]
    /\ result \in [Client -> SUBSET (Client \cup {Free})]

\* What main() has closed already.
Closed == CASE mpc \in {"off_t", "close_t"} -> {"pressure"}
            [] mpc = "return"              -> Dev
            [] OTHER                       -> {}

\* Handler threads may close each other's connections, by numbers that have
\* been used again, but never a sensor, the joystick or the listening socket:
\* these stay open until main() closes them.
SystemFds == Up => \A s \in System \ Closed : fds[Slot[s]] = s

\* Once the joystick has been pushed the program ends, whatever the browsers
\* and the threads serving them are doing.
Stops == ~is_run ~> ~Up

\* A measurement that has begun comes to an end, although other threads may
\* switch the sensor off and on and start conversions of their own meanwhile.
MeasurementEnds == \A h \in Client : hpc[h] = "data" ~> (hpc[h] # "data" \/ ~Up)

\* Every byte a thread reads for its page is from the conversion the thread
\* asked for itself, and that conversion was over; but when main() has closed
\* the sensor meanwhile some may be 255 instead.
Fresh ==
    \A h \in Client :
      \/ result[h] \subseteq {h}
      \/ dev[h] \in Closed /\ result[h] \subseteq {h, Free}

\* Every connection is answered in the end, unless the program ends: GET with
\* the page, POST with a bare 200, the rest with an error.
Answer(k) == CASE k = "post" -> "200" [] k = "other" -> "400" [] OTHER -> "page"

Answered ==
    \A c \in Client : cst[c] = "queued" ~> (out[c] = <<Answer(kind[c])>> \/ c \in reset \/ ~Up)

-----------------------------------------------------------------------------
(* What the comments promise and the code does not keep.                   *)

\* rpi6.c:211: the sensors are put in order when the program is done.
OffAtExit == ~Up => \A d \in Dev : ~power[d]
=============================================================================
