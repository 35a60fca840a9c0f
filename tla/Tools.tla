------------------------------- MODULE Tools -------------------------------
(***************************************************************************)
(* The programs of File, and the functions of rpi6.c for the keyboard and  *)
(* the sensors, side by side: one of them is started, and the variables of *)
(* the others keep their values.                                           *)
(***************************************************************************)
EXTENDS Integers, Sequences

CONSTANTS Buf, MaxLen, MaxRoom,                                \* copy.c, fcopy.c
          Modes,                                               \* chmod.c
          Tree, Dirs, Args, MaxOpen, MaxRemoved,                     \* list.c
          Key, MaxKeys,                                        \* hitkey.c, rpi6.c
          Thread, Climate, Weather, Calibration, MaxFailures   \* rpi6.c

ASSUME BoundsAssumption == {Buf, MaxLen, MaxRoom, MaxOpen} \subseteq Nat

\* Every entry has its directory; list is started for the directory it is
\* started in, or for one below it.
ASSUME TreeAssumption ==
    /\ Tree \subseteq Seq(STRING) /\ Dirs \subseteq Tree /\ <<>> \in Dirs
    /\ \A p \in Tree \ {<<>>} :
         /\ SubSeq(p, 1, Len(p) - 1) \in Dirs
         /\ p[Len(p)] \notin {".", ".."}
    /\ Args \subseteq Dirs

ASSUME KeyAssumption == "EOF" \notin Key

VARIABLES program, pc,
          same, data, size, next, rpos, wpos, buf, stream, room, lost,
          arg, mode, statbuf, changed,
          argv, exists, closed, secret, foreign, cwd, frames, lines,
          tty, nonblock, oldt, oldf, ch, queue, stdin, pressed, got,
          at, power, busy, owner, regs, mine, points, cal, bytes, measured, failures, mixed

ofCopy     == <<same, data, size, next, rpos, wpos, buf, stream, room, lost>>
ofModes    == <<arg, mode, statbuf, changed>>
ofListing  == <<argv, exists, closed, secret, foreign, cwd, frames, lines>>
ofKeyboard == <<tty, nonblock, oldt, oldf, ch, queue, stdin, pressed, got>>
ofSensors  == <<at, power, busy, owner, regs, mine, points, cal, bytes, measured, failures, mixed>>

vars == <<program, pc, ofCopy, ofModes, ofListing, ofKeyboard, ofSensors>>

FileCopy  == INSTANCE FileCopy
FileModes == INSTANCE FileModes
Listing   == INSTANCE Listing
Keyboard  == INSTANCE Keyboard
Sensors   == INSTANCE Sensors

ASSUME ModesAssumption == Modes \subseteq SUBSET FileModes!Bits

\* What the registers can hold: shorts, three bytes of pressure, and ten bits
\* of each temperature.
ASSUME SensorAssumption ==
    /\ Climate \subseteq Sensors!Signed \X Sensors!Signed
    /\ Weather \subseteq Sensors!Signed \X Sensors!Long
    /\ Calibration \subseteq Sensors!Signed \X Sensors!Ten \X Sensors!Signed \X Sensors!Ten

\* The module each program or function is described in.
ModuleOf ==
    [copy |-> "FileCopy", fcopy |-> "FileCopy", chmod |-> "FileModes", list |-> "Listing",
     hitkey |-> "Keyboard", rpi6 |-> "Keyboard",
     pressure |-> "Sensors", temperature |-> "Sensors"]

\* One module's program is started; the variables of the others are empty.
Init ==
    /\ program \in DOMAIN ModuleOf
    /\ IF ModuleOf[program] = "FileCopy" THEN FileCopy!Init
       ELSE same = {} /\ data = {} /\ size = {} /\ next = {} /\ rpos = {} /\ wpos = {} /\ buf = {} /\ stream = {} /\ room = {} /\ lost = {}
    /\ IF ModuleOf[program] = "FileModes" THEN FileModes!Init
       ELSE arg = {} /\ mode = {} /\ statbuf = {} /\ changed = {}
    /\ IF ModuleOf[program] = "Listing" THEN Listing!Init
       ELSE argv = {} /\ exists = {} /\ closed = {} /\ secret = {} /\ foreign = {} /\ cwd = {} /\ frames = {} /\ lines = {}
    /\ IF ModuleOf[program] = "Keyboard" THEN Keyboard!Init
       ELSE tty = {} /\ nonblock = {} /\ oldt = {} /\ oldf = {} /\ ch = {} /\ queue = {} /\ stdin = {} /\ pressed = {} /\ got = {}
    /\ IF ModuleOf[program] = "Sensors" THEN Sensors!Init /\ pc = "none"
       ELSE at = {} /\ power = {} /\ busy = {} /\ owner = {} /\ regs = {} /\ mine = {} /\ points = {} /\ cal = {} /\ bytes = {} /\ measured = {} /\ failures = {} /\ mixed = {}

\* A step of the one module leaves the variables of the others alone.
Only(m) ==
    /\ ModuleOf[program] = m
    /\ IF m = "FileCopy" THEN TRUE ELSE UNCHANGED ofCopy
    /\ IF m = "FileModes" THEN TRUE ELSE UNCHANGED ofModes
    /\ IF m = "Listing" THEN TRUE ELSE UNCHANGED ofListing
    /\ IF m = "Keyboard" THEN TRUE ELSE UNCHANGED ofKeyboard
    /\ IF m = "Sensors" THEN TRUE ELSE UNCHANGED ofSensors

-----------------------------------------------------------------------------

\* The programs that are one process.
Step ==
    \/ Only("FileCopy") /\ FileCopy!Step
    \/ Only("FileModes") /\ FileModes!Step
    \/ Only("Listing") /\ Listing!Step
    \/ Only("Keyboard") /\ Keyboard!Step

\* Two threads that measure, and the sensor.
Measure(t) == Only("Sensors") /\ Sensors!Step(t) /\ UNCHANGED pc
Convert    == Only("Sensors") /\ Sensors!Convert /\ UNCHANGED pc

\* What others do meanwhile.
Environment ==
    \/ Only("FileCopy") /\ FileCopy!Environment
    \/ Only("FileModes") /\ FileModes!Environment
    \/ Only("Listing") /\ Listing!Environment
    \/ Only("Keyboard") /\ Keyboard!Environment

Next == Step \/ Environment \/ Convert \/ \E t \in Thread : Measure(t)

Spec == Init /\ [][Next]_vars

\* Processes and threads are scheduled, and a conversion takes a while.
Fairness ==
    /\ WF_vars(Step)
    /\ WF_vars(Convert)
    /\ \A t \in Thread : WF_vars(Measure(t))

FairSpec == Spec /\ Fairness

-----------------------------------------------------------------------------
(* Correctness.                                                            *)

\* Every variable of the program that runs has its type.
TypeOK ==
    CASE ModuleOf[program] = "FileCopy"  -> FileCopy!TypeOK
      [] ModuleOf[program] = "FileModes" -> FileModes!TypeOK
      [] ModuleOf[program] = "Listing"   -> Listing!TypeOK
      [] ModuleOf[program] = "Keyboard"  -> Keyboard!TypeOK
      [] ModuleOf[program] = "Sensors"   -> Sensors!TypeOK

\* Files are copied, their modes changed and their directories listed as they
\* are, and keys are taken as they were pressed, but for what the code lets
\* pass unnoticed: see the four modules.
Kept ==
    CASE ModuleOf[program] = "FileCopy"  -> FileCopy!Copied
      [] ModuleOf[program] = "FileModes" -> FileModes!Changed
      [] ModuleOf[program] = "Listing"   -> Listing!Listed
      [] ModuleOf[program] = "Keyboard"  -> Keyboard!Keys
      [] OTHER -> TRUE

\* What is computed is what the sensor has measured, unless two threads have
\* measured at once or a call has failed.
Measured == ModuleOf[program] = "Sensors" => Sensors!Measured

\* Every program and measurement ends, even the listing that goes round in
\* circles, but for the loop that waits for q, which hitkey.c never sees, and
\* the one that waits for a sensor that is off since a write has failed.
Done ==
    CASE ModuleOf[program] = "Sensors"  -> \A t \in Thread : at[t] = "end" \/ Sensors!Waits(t)
      [] ModuleOf[program] = "Keyboard" -> pc \in {"end", "killed"} \/ Keyboard!Waits
      [] OTHER -> pc \in {"ok", "end", "error", "killed", "crashed"}

AllEnd == []<>Done
=============================================================================
