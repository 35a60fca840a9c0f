------------------------------ MODULE Sensors ------------------------------
(***************************************************************************)
(* getPressure() and getTemperature() of rpi6.c, as sendData() calls them: *)
(* a conversion is started and waited for, its result is read byte by byte *)
(* into unsigned chars, and put together to numbers of 16 or 24 bits.  The *)
(* threads of two requests may do so at once.  A read that fails gives -1. *)
(***************************************************************************)
EXTENDS Integers, Sequences, FiniteSets, SequencesExt

CONSTANTS Thread,       \* the threads that measure
          Climate,      \* what there is to measure: temperature and humidity
          Weather,      \* or temperature and pressure, as the sensors count
          Calibration,  \* the two points of the HTS221: <<x0, y0, x1, y1>>
          MaxFailures   \* bound: calls on the bus that fail

VARIABLES program,   \* which function, of which sensor
          at,        \* where each thread is
          power,     \* CTRL_REG1: converting is enabled
          busy,      \* CTRL_REG2: ONE_SHOT is set
          owner,     \* the thread that has started the conversion
          regs,      \* the bytes of the last result
          mine,      \* the result of the conversion each thread has started
          points,    \* the sensor's calibration
          cal,       \* what each thread has read of it
          bytes,     \* what it has read of the result
          measured,  \* the temperature and the other value it has computed
          failures,  \* threads for which a call has failed
          mixed      \* threads that were not alone with the sensor

sensor == <<at, power, busy, owner, regs, mine, points, cal, bytes, measured, failures, mixed>>
vars   == <<program, sensor>>

-----------------------------------------------------------------------------
(* Numbers and their bytes, the low one first.                             *)

\* A short, three bytes, and ten bits.
Signed == {n \in Int : -32768 <= n /\ n < 32768}
Long   == {n \in Nat : n < 65536 * 256}
Ten    == {n \in Nat : n < 1024}

\* The byte of v that counts w: 1, 256 or 65536.
Byte(v, w) == (v \div w) % 256

\* Fault: the short has no sign.
UnsignedShort(l, h) == 256 * h + l

\* h << 8 | l in a short, which has a sign.
Short(l, h) ==
    LET u == 256 * h + l IN
    IF u >= 32768 THEN u - 65536 ELSE u

\* Three bytes in an int.
ThreeBytes(xl, l, h) == 65536 * h + 256 * l + xl

\* The sensor's side: the bytes of a result, and of the calibration, where
\* the two temperatures have ten bits, and share the byte with the high ones.
Bytes(r) ==
    IF program = "temperature"
    THEN <<Byte(r[1], 1), Byte(r[1], 256), Byte(r[2], 1), Byte(r[2], 256)>>
    ELSE <<Byte(r[1], 1), Byte(r[1], 256), Byte(r[2], 1), Byte(r[2], 256), Byte(r[2], 65536)>>

CalBytes(p) ==
    <<Byte(p[1], 1), Byte(p[1], 256), Byte(p[3], 1), Byte(p[3], 256),
      Byte(p[2], 1), Byte(p[4], 1), Byte(p[2], 256) + 4 * Byte(p[4], 256)>>

\* The program's: s_t0_out, s_t0_degC_x8, s_t1_out, s_t1_degC_x8.
Points(b) ==
    <<Short(b[1], b[2]), (b[7] % 4) * 256 + b[5],
      Short(b[3], b[4]), ((b[7] \div 4) % 4) * 256 + b[6]>>

Undefined == <<"nan">>

\* 8 times the temperature at x, as a fraction: the line y = mx + c, whose m
\* divides by the difference of two readings, in doubles.
Line(p, x) ==
    IF p[1] = p[3] THEN Undefined
    ELSE <<(p[4] - p[2]) * (x - p[3]) + p[4] * (p[3] - p[1]), p[3] - p[1]>>

-----------------------------------------------------------------------------

Init ==
    /\ program \in {"pressure", "temperature"}
    /\ at = [t \in Thread |-> "reset"]
    /\ power = FALSE /\ busy = FALSE /\ owner = {}
    /\ \E r \in IF program = "temperature" THEN Climate ELSE Weather : regs = Bytes(r)
    /\ mine = [t \in Thread |-> <<>>]
    /\ points \in Calibration
    /\ cal = [t \in Thread |-> <<>>]
    /\ bytes = [t \in Thread |-> <<>>]
    /\ measured = [t \in Thread |-> <<>>]
    /\ failures = {}
    /\ mixed = {}

Active == {t \in Thread : at[t] \notin {"reset", "end"}}

Fail(t) == Cardinality(failures) < MaxFailures /\ failures' = failures \cup {t}

\* CTRL_REG1 is set to 0x00 and then to 0x84, CTRL_REG2 to 0x01; nobody sees
\* whether one of the three writes fails and leaves its register as it was.
Reset(t) ==
    /\ at[t] = "reset"
    /\ \/ power' = FALSE /\ UNCHANGED failures
       \/ Fail(t) /\ UNCHANGED power
    /\ at' = [at EXCEPT ![t] = "power"]
    /\ mixed' = IF Active = {} THEN mixed ELSE mixed \cup Active \cup {t}
    /\ UNCHANGED <<program, busy, owner, regs, mine, points, cal, bytes, measured>>

Power(t) ==
    /\ at[t] = "power"
    /\ \/ power' = TRUE /\ UNCHANGED failures
       \/ Fail(t) /\ UNCHANGED power
    /\ at' = [at EXCEPT ![t] = "start"]
    /\ UNCHANGED <<program, busy, owner, regs, mine, points, cal, bytes, measured, mixed>>

Begin(t) ==
    /\ at[t] = "start"
    /\ \/ busy' = TRUE /\ owner' = {t} /\ UNCHANGED failures
       \/ Fail(t) /\ UNCHANGED <<busy, owner>>
    /\ at' = [at EXCEPT ![t] = "wait"]
    /\ UNCHANGED <<program, power, regs, mine, points, cal, bytes, measured, mixed>>

\* The sensor: a conversion ends.
Convert ==
    /\ busy /\ power
    /\ busy' = FALSE
    /\ \E r \in IF program = "temperature" THEN Climate ELSE Weather :
         /\ regs' = Bytes(r)
         /\ mine' = [t \in Thread |-> IF t \in owner THEN r ELSE mine[t]]
    /\ UNCHANGED <<program, at, power, owner, points, cal, bytes, measured, failures, mixed>>

\* Fault: the result of the last conversion is read at once.
FaultyWait(t) ==
    /\ at[t] = "wait"
    /\ at' = [at EXCEPT ![t] = IF program = "temperature" THEN "calibrate" ELSE "read"]
    /\ UNCHANGED <<program, power, busy, owner, regs, mine, points, cal, bytes, measured, failures, mixed>>

\* do ... while(result != 0); a failed read is not 0.
Wait(t) ==
    /\ at[t] = "wait"
    /\ ~busy
    /\ at' = [at EXCEPT ![t] = IF program = "temperature" THEN "calibrate" ELSE "read"]
    /\ UNCHANGED <<program, power, busy, owner, regs, mine, points, cal, bytes, measured, failures, mixed>>

\* The calibration, which does not change; a read that fails leaves 255.
Calibrate(t) ==
    /\ at[t] = "calibrate"
    /\ \/ cal' = [cal EXCEPT ![t] = Points(CalBytes(points))] /\ UNCHANGED failures
       \/ /\ Fail(t)
          /\ \E n \in 1..7 :
               cal' = [cal EXCEPT ![t] = Points([CalBytes(points) EXCEPT ![n] = 255])]
    /\ at' = [at EXCEPT ![t] = "read"]
    /\ UNCHANGED <<program, power, busy, owner, regs, mine, points, bytes, measured, mixed>>

\* One byte after the other.
ReadReg8(t) ==
    LET n == Len(bytes[t]) + 1 IN
    /\ at[t] = "read" /\ n <= Len(regs)
    /\ \/ bytes' = [bytes EXCEPT ![t] = Append(@, regs[n])] /\ UNCHANGED failures
       \/ bytes' = [bytes EXCEPT ![t] = Append(@, 255)] /\ Fail(t)
    /\ UNCHANGED <<program, at, power, busy, owner, regs, mine, points, cal, measured, mixed>>

\* temp_out and press_out; s_t_out and s_h_t_out and the lines through the
\* calibration's points.  (That of humidity is computed like that of
\* temperature, which stands for both.)
Compute(t) ==
    LET b == bytes[t]
        x == Short(b[1], b[2])
    IN
    /\ at[t] = "read" /\ Len(b) = Len(regs)
    /\ measured' = [measured EXCEPT ![t] =
         IF program = "temperature"
         THEN <<x, Short(b[3], b[4]), Line(cal[t], x)>>
         ELSE <<x, ThreeBytes(b[3], b[4], b[5])>>]
    /\ at' = [at EXCEPT ![t] = "end"]
    /\ UNCHANGED <<program, power, busy, owner, regs, mine, points, cal, bytes, failures, mixed>>

Step(t) ==
    Reset(t) \/ Power(t) \/ Begin(t) \/ Wait(t) \/ Calibrate(t) \/ ReadReg8(t) \/ Compute(t)

Next == Convert \/ \E t \in Thread : Step(t)

Spec == Init /\ [][Next]_vars

-----------------------------------------------------------------------------
(* Correctness.                                                            *)

\* Every variable has its type; numbers have the width of their C types.
TypeOK ==
    /\ at \in [Thread -> {"reset", "power", "start", "wait", "calibrate", "read", "end"}]
    /\ \A t \in Thread :
         /\ \A n \in DOMAIN bytes[t] : bytes[t][n] \in 0..255
         /\ measured[t] # <<>> =>
              /\ measured[t][1] \in Signed
              /\ measured[t][2] \in IF program = "temperature" THEN Signed ELSE Long

\* f is a fraction with any sign of its denominator; x lies between a and b.
Between(a, f, b) ==
    IF f[2] > 0 THEN a * f[2] <= f[1] /\ f[1] <= b * f[2] ELSE a * f[2] >= f[1] /\ f[1] >= b * f[2]

\* A thread that was alone with the sensor, and for which no call has failed,
\* computes exactly what the conversion it has started itself has measured,
\* sign and all; a temperature between the two points comes out between their
\* temperatures, and at them exactly as theirs, unless the two readings are
\* the same one.
Measured ==
    \A t \in Thread : at[t] = "end" /\ t \notin failures \cup mixed =>
      /\ <<measured[t][1], measured[t][2]>> = mine[t]
      /\ program = "temperature" =>
           LET x == mine[t][1]
               y == measured[t][3]
           IN
           /\ y = Undefined <=> points[1] = points[3]
           /\ points[1] < points[3] /\ points[2] <= points[4] /\ x \in points[1]..points[3] =>
                Between(points[2], y, points[4])
           /\ \A n \in {1, 3} : x = points[n] /\ y # Undefined =>
                y[1] = points[n + 1] * y[2]

\* The loop that waits for the end of a conversion goes on for ever if a write
\* of CTRL_REG1 has failed and the sensor, which was told to convert, is off.
Waits(t) == at[t] = "wait" /\ busy /\ ~power /\ failures # {}
=============================================================================
