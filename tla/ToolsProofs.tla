---------------------------- MODULE ToolsProofs ----------------------------
(***************************************************************************)
(* Proofs about Tools.  The invariant is that of the program which was     *)
(* started, and there is a section for each module whose program that may  *)
(* be: what its steps keep, and what follows for the properties.           *)
(***************************************************************************)
EXTENDS Tools, SequenceTheorems, WellFoundedInduction, TLAPS

-----------------------------------------------------------------------------
(* copy.c and fcopy.c: files and buffers of any size, however many bytes   *)
(* are appended, and however little room there is.                         *)

USE DEF FileCopy!In

Byte0 == 0..MaxLen

CopyTypes ==
    /\ program \in {"copy", "fcopy"} /\ same \in BOOLEAN
    /\ pc \in {"open_in", "open_out", "read", "write", "flush", "close", "ok", "error", "killed"}
    /\ size \in 0..MaxLen /\ next \in size+1..MaxLen+1
    /\ data \in [{"file1", "file2"} -> Seq(Byte0)]
    /\ rpos \in 0..MaxLen /\ wpos \in 0..MaxLen
    /\ buf \in Seq(Byte0) /\ Len(buf) <= Buf
    /\ stream \in Seq(Byte0) /\ (program = "copy" => stream = <<>>)
    /\ room \in 0..MaxRoom /\ lost \in BOOLEAN

\* How much has been read and not been written.
Pending == Len(stream) + (IF pc = "write" THEN Len(buf) ELSE 0)

Unopened == pc \in {"open_in", "open_out"} => rpos = 0 /\ wpos = 0 /\ buf = <<>> /\ stream = <<>> /\ ~lost

Copying == pc \in {"read", "write", "flush", "close", "ok"}

\* Reading is ahead of writing.
Ahead == Copying => wpos + Pending <= rpos /\ rpos <= Len(data["file1"]) /\ Len(data["file1"]) < next

\* The two are one file: what was in it at first is nowhere any more.
Emptied ==
    /\ Len(data["file1"]) < next
    /\ Copying => /\ \A n \in 1..Len(data["file1"]) : data["file1"][n] > size
                  /\ \A n \in 1..Len(buf) : buf[n] > size
                  /\ \A n \in 1..Len(stream) : stream[n] > size

\* They are two: the bytes of the first file are numbered, those that wait to
\* be written are the last ones read, and those written are before them.
Numbered == Len(data["file1"]) = next - 1 /\ \A n \in 1..next-1 : data["file1"][n] = n

Waiting ==
    /\ \A n \in 1..Len(stream) : stream[n] = rpos - Pending + n
    /\ pc = "write" => \A n \in 1..Len(buf) : buf[n] = rpos - Len(buf) + n

Written ==
    LET d == data["file2"] IN
    /\ Len(d) = wpos
    /\ \A n \in 1..wpos : d[n] <= rpos - Pending
    /\ \A m, n \in 1..wpos : m < n => d[m] < d[n]
    /\ ~lost => wpos + Pending = rpos /\ \A n \in 1..wpos : d[n] = n

CopyInv ==
    /\ CopyTypes /\ Unopened /\ Ahead
    /\ same => Emptied
    /\ ~same => Numbered /\ (Copying => Waiting /\ Written)

LEMMA CopyInit == ASSUME FileCopy!Init PROVE CopyInv
<1> USE BoundsAssumption DEF FileCopy!Init
<1>1. [n \in 1..size |-> n] \in Seq(Byte0) /\ <<0>> \in Seq(Byte0)
  <2>1. 0 \in Byte0 /\ \A n \in 1..size : n \in Byte0 BY DEF Byte0
  <2>2. size \in Nat OBVIOUS
  <2> QED BY <2>1, <2>2, IsASeq
<1>2. data["file1"] = [n \in 1..size |-> n] /\ Len(data["file1"]) = size
  BY <1>1
<1>3. data \in [{"file1", "file2"} -> Seq(Byte0)]
  <2> DEFINE one == [n \in 1..size |-> n]
             two == <<0>>
  <2> HIDE DEF one, two
  <2>1. [file1 |-> one, file2 |-> two] = [f \in {"file1", "file2"} |-> IF f = "file1" THEN one ELSE two]
    OBVIOUS
  <2>2. one \in Seq(Byte0) /\ two \in Seq(Byte0) BY <1>1 DEF one, two
  <2>3. data = [file1 |-> one, file2 |-> two] BY DEF one, two
  <2> QED BY <2>1, <2>2, <2>3
<1>4. CopyTypes
  <2>1. <<>> \in Seq(Byte0) /\ Len(<<>>) = 0 BY EmptySeq
  <2>2. /\ size \in 0..MaxLen /\ next \in size+1..MaxLen+1
        /\ rpos \in 0..MaxLen /\ wpos \in 0..MaxLen /\ Len(buf) <= Buf
    BY <2>1
  <2>3. /\ buf = <<>> /\ stream = <<>> /\ program \in {"copy", "fcopy"} /\ same \in BOOLEAN
        /\ pc = "open_in" /\ room \in 0..MaxRoom /\ lost = FALSE
    OBVIOUS
  <2> QED BY <1>3, <2>1, <2>2, <2>3 DEF CopyTypes
<1> QED BY <1>2, <1>4 DEF CopyInv, Unopened, Ahead, Copying, Emptied, Numbered

\* Where n bytes of it are put, after wpos, a file is as before elsewhere.
LEMMA CopyPut ==
    ASSUME CopyTypes, NEW s \in Seq(Byte0), FileCopy!Put(s),
           wpos <= Len(data[FileCopy!Out]), wpos + Len(s) <= MaxLen
    PROVE  \E n \in 0..Len(s), e \in Seq(Byte0) :
             /\ wpos' = wpos + n /\ room' \in 0..MaxRoom
             /\ lost' = (lost \/ n < Len(s))
             /\ data' = [data EXCEPT ![FileCopy!Out] = e]
             /\ Len(e) = IF wpos + n > Len(data[FileCopy!Out]) THEN wpos + n ELSE Len(data[FileCopy!Out])
             /\ \A i \in 1..Len(e) :
                  e[i] = IF i \in wpos+1..wpos+n THEN s[i - wpos] ELSE data[FileCopy!Out][i]
<1> DEFINE n == FileCopy!Least(Len(s), room)
           d == data[FileCopy!Out]
           end == IF wpos + n > Len(d) THEN wpos + n ELSE Len(d)
           b(i) == IF i \in wpos+1..wpos+n THEN s[i - wpos] ELSE d[i]
           e == [i \in 1..end |-> b(i)]
<1> USE BoundsAssumption
<1>1. n \in 0..Len(s) /\ room - n \in 0..MaxRoom /\ n \in Nat
  <2>1. Len(s) \in Nat BY LenProperties
  <2>2. room \in 0..MaxRoom /\ MaxRoom \in Nat BY DEF CopyTypes
  <2> QED BY <2>1, <2>2 DEF FileCopy!Least
<1>2. d \in Seq(Byte0) BY DEF CopyTypes, FileCopy!Out
<1>3. wpos \in Nat /\ Len(d) \in Nat /\ end \in Nat
  <2>1. wpos \in Nat BY DEF CopyTypes
  <2>2. Len(d) \in Nat BY <1>2, LenProperties
  <2> HIDE DEF n, d
  <2> QED BY <1>1, <2>1, <2>2
<1>4. ASSUME NEW i \in 1..end PROVE b(i) \in Byte0
  <2>1. CASE i \in wpos+1..wpos+n
    <3>1. i - wpos \in 1..Len(s) BY <1>1, <1>3, <2>1
    <3> QED BY <2>1, <3>1, ElementOfSeq
  <2>2. CASE i \notin wpos+1..wpos+n
    <3>1. i \in 1..Len(d) BY <1>1, <1>3, <2>2
    <3> QED BY <1>2, <2>2, <3>1, ElementOfSeq
  <2> QED BY <2>1, <2>2
<1>5. e \in Seq(Byte0) /\ Len(e) = end
  <2> HIDE DEF b, end
  <2>1. e \in Seq(Byte0) BY <1>3, <1>4, IsASeq
  <2> QED BY <1>3, <2>1
<1>6. \A i \in 1..Len(e) : e[i] = b(i)
  <2> HIDE DEF b, end
  <2> QED BY <1>5
<1>7. /\ wpos' = wpos + n /\ room' = room - n /\ lost' = (lost \/ n < Len(s))
      /\ data' = [data EXCEPT ![FileCopy!Out] = e]
  BY DEF FileCopy!Put
<1> HIDE DEF n, e
<1> QED BY <1>1, <1>5, <1>6, <1>7

\* The number of a byte at i, if l bytes that end at r are put after w.
LEMMA CopyNumber ==
    ASSUME NEW r \in Nat, NEW l \in Nat, NEW w \in Nat, NEW n \in Nat, n <= l, NEW i \in w+1..w+n
    PROVE  /\ r - l + (i - w) \in Int /\ r - l + (i - w) <= r
           /\ w + l = r => r - l + (i - w) = i
OBVIOUS

\* write() and fflush(): what was pending is written, or what there is room for.
LEMMA CopyPutInv ==
    ASSUME CopyInv, pc \in {"write", "flush", "close"}, NEW s \in {buf, stream}, FileCopy!Put(s),
           Len(s) = Pending, s = IF pc = "write" THEN buf ELSE stream,
           pc' \in {"read", "ok"}, stream' = <<>>,
           UNCHANGED <<program, same, size, next, rpos, buf>>
    PROVE  CopyInv'
<1> DEFINE d == data[FileCopy!Out]
<1>1. /\ CopyTypes /\ wpos + Len(s) <= rpos /\ rpos <= Len(data["file1"])
      /\ Len(data["file1"]) < next
  BY DEF CopyInv, Ahead, Copying
<1>2. /\ s \in Seq(Byte0) /\ Len(s) \in Nat /\ d \in Seq(Byte0) /\ Len(d) \in Nat
      /\ wpos \in Nat /\ rpos \in 0..MaxLen /\ MaxLen \in Nat /\ size \in Nat /\ next \in Nat
      /\ wpos + Len(s) <= MaxLen
  BY SMTT(20), <1>1, BoundsAssumption, LenProperties DEF CopyTypes, FileCopy!Out
<1>3. wpos <= Len(d)
  <2>1. CASE same BY <1>1, <1>2, <2>1 DEF FileCopy!Out
  <2>2. CASE ~same BY <1>1, <1>2, <2>2 DEF CopyInv, Written, Copying, FileCopy!Out
  <2> QED BY <2>1, <2>2
<1>4. PICK n \in 0..Len(s), e \in Seq(Byte0) :
             /\ wpos' = wpos + n /\ room' \in 0..MaxRoom
             /\ lost' = (lost \/ n < Len(s))
             /\ data' = [data EXCEPT ![FileCopy!Out] = e]
             /\ Len(e) = IF wpos + n > Len(d) THEN wpos + n ELSE Len(d)
             /\ \A i \in 1..Len(e) :
                  e[i] = IF i \in wpos+1..wpos+n THEN s[i - wpos] ELSE d[i]
  BY <1>1, <1>2, <1>3, CopyPut
<1> HIDE DEF d
<1>5. n \in Nat /\ n <= Len(s) /\ wpos' \in 0..MaxLen /\ wpos' <= rpos /\ Pending' = 0
  <2>1. n \in Nat /\ n <= Len(s) /\ wpos' = wpos + n BY <1>2, <1>4
  <2>2. Len(stream') = 0 /\ pc' # "write" BY EmptySeq
  <2> QED BY <1>1, <1>2, <2>1, <2>2 DEF Pending
<1>5a. wpos \in Nat /\ rpos \in Nat /\ Len(s) \in Nat /\ n \in Nat /\ n <= Len(s) /\ wpos + Len(s) <= rpos
  BY <1>1, <1>2, <1>5
<1>6. CopyTypes'
  <2>1. data' \in [{"file1", "file2"} -> Seq(Byte0)] BY <1>1, <1>4 DEF CopyTypes, FileCopy!Out
  <2>2. lost' \in BOOLEAN BY <1>1, <1>4 DEF CopyTypes
  <2>3. stream' \in Seq(Byte0) BY EmptySeq
  <2> QED BY <1>1, <1>4, <1>5, <2>1, <2>2, <2>3 DEF CopyTypes
<1>7. Unopened' BY DEF Unopened
<1>8. CASE same
  <2>1. d = data["file1"] /\ data'["file1"] = e /\ Len(e) = Len(d)
    BY <1>1, <1>2, <1>4, <1>5, <1>8 DEF d, CopyTypes, FileCopy!Out
  <2>2. Ahead'
    <3>1. wpos' \in Nat /\ wpos' + 0 <= rpos' BY <1>5
    <3>2. wpos' + Pending' <= rpos' BY <1>5, <3>1
    <3> QED BY <1>1, <2>1, <3>2 DEF Ahead
  <2>3. /\ \A i \in 1..Len(d) : d[i] > size
        /\ \A i \in 1..Len(s) : s[i] > size
        /\ \A i \in 1..Len(buf) : buf[i] > size
    BY <1>8, <2>1 DEF CopyInv, Emptied, Copying
  <2>4. ASSUME NEW i \in 1..Len(e) PROVE e[i] > size
    <3>1. CASE i \in wpos+1..wpos+n
      <4>1. i - wpos \in 1..Len(s) BY <1>2, <1>4, <1>5, <3>1
      <4> QED BY <1>4, <2>3, <3>1, <4>1
    <3>2. CASE i \notin wpos+1..wpos+n BY <1>4, <2>1, <2>3, <3>2
    <3> QED BY <3>1, <3>2
  <2>5. Len(stream') = 0 BY EmptySeq
  <2>6. Emptied' BY <1>1, <2>1, <2>3, <2>4, <2>5 DEF Emptied
  <2> QED BY <1>6, <1>7, <1>8, <2>2, <2>6 DEF CopyInv
<1>9. CASE ~same
  <2>1. d = data["file2"] /\ data'["file2"] = e /\ data'["file1"] = data["file1"]
    BY <1>1, <1>4, <1>9 DEF d, CopyTypes, FileCopy!Out
  <2>2. Ahead'
    <3>1. wpos' \in Nat /\ wpos' + 0 <= rpos' BY <1>5
    <3>2. wpos' + Pending' <= rpos' BY <1>5, <3>1
    <3> QED BY <1>1, <2>1, <3>2 DEF Ahead
  <2>3. Numbered' BY <1>9, <2>1 DEF CopyInv, Numbered
  <2>4. Waiting /\ Written BY <1>9 DEF CopyInv, Copying
  <2>5. Waiting'
    <3>1. Len(stream') = 0 BY EmptySeq
    <3> QED BY <3>1 DEF Waiting
  <2>6. \A i \in 1..Len(s) : s[i] = rpos - Len(s) + i
    BY <2>4, <1>2 DEF Waiting
  <2>7. /\ Len(d) = wpos /\ Len(e) = wpos + n
        /\ \A i \in 1..wpos : d[i] \in Nat /\ d[i] <= rpos - Len(s) /\ e[i] = d[i]
        /\ \A i \in wpos+1..wpos+n : e[i] = rpos - Len(s) + (i - wpos)
    <3>1. Len(d) = wpos /\ \A i \in 1..wpos : d[i] <= rpos - Len(s) BY <2>1, <2>4 DEF Written
    <3>2. Len(e) = wpos + n BY <1>2, <1>4, <1>5, <3>1
    <3>3. \A i \in 1..wpos : d[i] \in Byte0 BY <1>2, <3>1, ElementOfSeq
    <3>4. \A i \in 1..wpos : i \in 1..Len(e) /\ i \notin wpos+1..wpos+n BY <1>2, <1>5, <3>2
    <3>5. \A i \in wpos+1..wpos+n : i \in 1..Len(e) /\ i - wpos \in 1..Len(s)
      BY <1>2, <1>4, <1>5, <3>2
    <3>6. \A i \in 1..wpos : e[i] = d[i] /\ d[i] \in Nat BY <1>4, <3>3, <3>4 DEF Byte0
    <3>7. \A i \in wpos+1..wpos+n : e[i] = s[i - wpos] BY <1>4, <3>5
    <3> QED BY <2>6, <3>1, <3>2, <3>5, <3>6, <3>7
  <2>8. Written'
    <3>1. \A i \in 1..wpos+n : e[i] \in Int /\ e[i] <= rpos
      <4> TAKE i \in 1..wpos+n
      <4>1. CASE i \in 1..wpos BY <1>2, <2>7, <4>1
      <4>2. CASE i \in wpos+1..wpos+n
        <5>1. e[i] = rpos - Len(s) + (i - wpos) BY <2>7, <4>2
        <5>2. rpos - Len(s) + (i - wpos) \in Int /\ rpos - Len(s) + (i - wpos) <= rpos
          BY <1>5a, <4>2, CopyNumber
        <5> QED BY <5>1, <5>2
      <4> QED BY <1>2, <1>5, <4>1, <4>2
    <3>2. ASSUME NEW j \in 1..wpos+n, NEW k \in 1..wpos+n, j < k PROVE e[j] < e[k]
      <4>1. CASE k \in 1..wpos
        <5>1. j \in 1..wpos BY <1>2, <3>2, <4>1
        <5> QED BY <2>1, <2>4, <2>7, <3>2, <4>1, <5>1 DEF Written
      <4>2. CASE j \in 1..wpos /\ k \in wpos+1..wpos+n BY SMTT(20), <1>2, <1>4, <1>5, <2>7, <4>2
      <4>3. CASE j \in wpos+1..wpos+n /\ k \in wpos+1..wpos+n
        BY <1>2, <1>4, <1>5, <2>7, <3>2, <4>3
      <4> QED BY <1>2, <1>5, <3>2, <4>1, <4>2, <4>3
    <3>3. ASSUME ~lost' PROVE wpos + n = rpos /\ \A i \in 1..wpos+n : e[i] = i
      <4>1. ~lost /\ n = Len(s)
        <5>1. ~(lost \/ n < Len(s)) BY <1>4, <3>3
        <5> QED BY <1>2, <1>5, <5>1
      <4>2. wpos + Len(s) = rpos /\ \A i \in 1..wpos : d[i] = i BY <2>1, <2>4, <4>1 DEF Written
      <4>3. \A i \in 1..wpos : e[i] = i BY <2>7, <4>2
      <4>4. ASSUME NEW i \in wpos+1..wpos+n PROVE e[i] = i
        <5>1. e[i] = rpos - Len(s) + (i - wpos) BY <2>7
        <5>2. rpos - Len(s) + (i - wpos) = i BY <1>5a, <4>1, <4>2, CopyNumber
        <5> QED BY <5>1, <5>2
      <4> QED BY <1>5a, <4>1, <4>2, <4>3, <4>4
    <3>4. wpos' = wpos + n /\ rpos' = rpos BY <1>4
    <3>5. rpos - 0 = rpos /\ wpos + n + 0 = wpos + n BY <1>2, <1>5
    <3> QED BY <1>5, <2>1, <2>7, <3>1, <3>2, <3>3, <3>4, <3>5 DEF Written
  <2> QED BY <1>6, <1>7, <1>9, <2>2, <2>3, <2>5, <2>8 DEF CopyInv
<1> QED BY <1>8, <1>9

LEMMA CopyOpenInInv == ASSUME CopyInv, FileCopy!OpenIn PROVE CopyInv'
<1>1. /\ pc = "open_in" /\ pc' \in {"open_out", "error"}
      /\ UNCHANGED <<program, same, data, size, next, rpos, wpos, buf, stream, room, lost>>
  BY DEF FileCopy!OpenIn, FileCopy!files
<1> QED BY <1>1 DEF CopyInv, CopyTypes, Unopened, Ahead, Copying, Emptied, Numbered

LEMMA CopyOpenOutInv == ASSUME CopyInv, FileCopy!OpenOut PROVE CopyInv'
<1>1. /\ pc = "open_out"
      /\ UNCHANGED <<program, same, size, next, rpos, wpos, buf, stream, room, lost>>
  BY DEF FileCopy!OpenOut
<1>2. rpos = 0 /\ wpos = 0 /\ buf = <<>> /\ stream = <<>> /\ ~lost /\ Len(<<>>) = 0 /\ <<>> \in Seq(Byte0)
  BY <1>1, EmptySeq DEF CopyInv, Unopened
<1>3. CASE pc' = "read" /\ data' = [data EXCEPT ![FileCopy!Out] = <<>>]
  <2>1. CopyTypes' BY <1>1, <1>2, <1>3 DEF CopyInv, CopyTypes, FileCopy!Out
  <2>2. size \in Nat /\ next \in Nat /\ next > 0 BY DEF CopyInv, CopyTypes
  <2>3. Pending' = 0 BY <1>1, <1>2, <1>3 DEF Pending
  <2>4. CASE same
    <3>1. data'["file1"] = <<>> BY <1>3, <2>4 DEF CopyInv, CopyTypes, FileCopy!Out
    <3>2. Ahead' BY <1>1, <1>2, <2>2, <2>3, <3>1 DEF Ahead
    <3>3. Emptied' BY <1>1, <1>2, <2>2, <3>1 DEF Emptied
    <3> QED BY <1>1, <1>2, <1>3, <2>1, <2>4, <3>2, <3>3 DEF CopyInv, Unopened
  <2>5. CASE ~same
    <3>1. data'["file2"] = <<>> /\ data'["file1"] = data["file1"]
      BY <1>3, <2>5 DEF CopyInv, CopyTypes, FileCopy!Out
    <3>2. Numbered /\ Numbered' BY <1>1, <2>5, <3>1 DEF CopyInv, Numbered
    <3>3. Ahead' BY <1>1, <1>2, <2>2, <2>3, <3>1, <3>2 DEF Ahead, Numbered
    <3>4. Waiting' /\ Written' BY <1>1, <1>2, <1>3, <2>3, <3>1 DEF Waiting, Written
    <3> QED BY <1>1, <1>2, <1>3, <2>1, <2>5, <3>2, <3>3, <3>4 DEF CopyInv, Unopened
  <2> QED BY <2>4, <2>5
<1>4. CASE pc' = "error" /\ UNCHANGED data
  BY <1>1, <1>4 DEF CopyInv, CopyTypes, Unopened, Ahead, Copying, Emptied, Numbered
<1> QED BY <1>3, <1>4 DEF FileCopy!OpenOut

LEMMA CopyReadInv == ASSUME CopyInv, FileCopy!Read PROVE CopyInv'
<1>1. pc = "read" /\ UNCHANGED <<program, same, data, size, next, wpos, stream, room>>
  BY DEF FileCopy!Read
<1>2. /\ CopyTypes /\ wpos + Len(stream) <= rpos /\ rpos <= Len(data["file1"])
      /\ Len(data["file1"]) < next
  BY <1>1 DEF CopyInv, Ahead, Copying, Pending, CopyTypes
<1>3. /\ rpos \in Nat /\ wpos \in Nat /\ Len(stream) \in Nat /\ data["file1"] \in Seq(Byte0)
      /\ Len(data["file1"]) \in 0..MaxLen /\ Buf \in Nat /\ MaxLen \in Nat
  BY <1>2, LenProperties, BoundsAssumption DEF CopyTypes
<1>4. CASE pc' = "close" /\ lost' = (lost \/ rpos < Len(data["file1"])) /\ UNCHANGED <<rpos, buf>>
  <2>1. Pending' = Pending BY <1>1, <1>4 DEF Pending
  <2>2. CopyTypes' BY <1>1, <1>2, <1>4 DEF CopyTypes
  <2>3. lost => lost' BY <1>4
  <2>4. Ahead' BY <1>1, <1>4, <2>1 DEF CopyInv, Ahead, Copying
  <2>5. same => Emptied' BY <1>1, <1>4 DEF CopyInv, Emptied, Copying
  <2>6. ~same => Numbered' /\ Waiting' /\ Written'
    BY <1>1, <1>4, <2>1, <2>3 DEF CopyInv, Numbered, Waiting, Written, Copying
  <2> QED BY <1>1, <1>4, <2>2, <2>4, <2>5, <2>6 DEF CopyInv, Unopened
<1>5. CASE /\ rpos < Len(data["file1"])
           /\ buf' = SubSeq(data["file1"], rpos + 1, FileCopy!Least(rpos + Buf, Len(data["file1"])))
           /\ rpos' = rpos + Len(buf')
           /\ pc' = "write" /\ UNCHANGED lost
  <2> DEFINE d == data["file1"]
             m == FileCopy!Least(rpos + Buf, Len(d))
  <2>a. m \in rpos..Len(d) /\ m <= rpos + Buf /\ m \in Nat
    BY <1>3, <1>5 DEF FileCopy!Least
  <2>b. /\ buf' = SubSeq(d, rpos + 1, m) /\ d \in Seq(Byte0) /\ Len(d) \in 0..MaxLen
        /\ Len(d) < next /\ rpos < Len(d) /\ d = data["file1"]
    BY <1>2, <1>3, <1>5
  <2>c. rpos' = rpos + Len(buf') /\ pc' = "write" /\ lost' = lost BY <1>5
  <2> HIDE DEF m, d
  <2>1. rpos \in Nat /\ m \in Nat /\ rpos <= m /\ m <= Len(d) /\ m <= rpos + Buf /\ Len(d) \in Nat
    BY <1>3, <2>a, <2>b
  <2>2. /\ buf' \in Seq(Byte0) /\ Len(buf') = m - rpos
        /\ \A n \in 1..m - rpos : buf'[n] = d[rpos + n]
    <3>1. rpos + 1 \in 1..Len(d) + 1 /\ m \in (rpos + 1) - 1 .. Len(d) BY <2>1
    <3>2. /\ SubSeq(d, rpos + 1, m) \in Seq(Byte0)
          /\ Len(SubSeq(d, rpos + 1, m)) = m - (rpos + 1) + 1
          /\ \A n \in 1..m - (rpos + 1) + 1 : SubSeq(d, rpos + 1, m)[n] = d[(rpos + 1) + n - 1]
      BY <2>b, <3>1, SubSeqProperties
    <3>3. m - (rpos + 1) + 1 = m - rpos /\ \A n \in 1..m - rpos : (rpos + 1) + n - 1 = rpos + n
      BY <2>1
    <3> QED BY <2>b, <3>2, <3>3
  <2>3. rpos' = m /\ Pending' = Len(stream) + (m - rpos) /\ Len(buf') <= Buf
    <3>1. rpos' = m /\ Len(buf') <= Buf BY <1>3, <2>1, <2>2, <2>c
    <3> QED BY <1>1, <2>2, <2>c, <3>1 DEF Pending
  <2>4. CopyTypes'
    <3>1. rpos' \in 0..MaxLen BY <1>3, <2>1, <2>3, <2>b
    <3> QED BY <1>1, <1>2, <2>2, <2>3, <2>c, <3>1 DEF CopyTypes
  <2>5. Ahead'
    <3>1. wpos + Pending' <= rpos' /\ rpos' <= Len(d) BY <1>2, <1>3, <2>1, <2>3
    <3> QED BY <1>1, <2>b, <3>1 DEF Ahead
  <2>6. CASE same
    <3>1. Emptied BY <2>6 DEF CopyInv
    <3>2. \A n \in 1..Len(buf') : rpos + n \in 1..Len(d) /\ buf'[n] = d[rpos + n]
      BY <2>1, <2>2
    <3>3. Emptied' BY <1>1, <2>b, <2>c, <3>1, <3>2 DEF Emptied, Copying
    <3> QED BY <1>1, <2>4, <2>5, <2>6, <2>c, <3>3 DEF CopyInv, Unopened
  <2>7. CASE ~same
    <3>1. Numbered /\ Waiting /\ Written BY <1>1, <2>7 DEF CopyInv, Copying
    <3>2. Pending = Len(stream) /\ rpos' - Pending' = rpos - Len(stream)
      BY <1>1, <1>3, <2>1, <2>3 DEF Pending
    <3>3. rpos' - Len(buf') = rpos BY <1>3, <2>1, <2>2, <2>3
    <3>4. \A n \in 1..Len(buf') : buf'[n] = rpos + n
      <4>1. \A n \in 1..next-1 : d[n] = n BY <2>b, <3>1 DEF Numbered
      <4>2. \A n \in 1..m - rpos : rpos + n \in 1..next-1
        <5>1. Len(d) = next - 1 BY <2>b, <3>1 DEF Numbered
        <5> QED BY <2>1, <5>1
      <4> QED BY <2>2, <4>1, <4>2
    <3>5. Waiting' BY <1>1, <3>1, <3>2, <3>3, <3>4 DEF Waiting
    <3>6. wpos + Pending = rpos => wpos + Pending' = rpos' BY <1>3, <2>1, <2>3, <3>2
    <3>7. Written' BY <1>1, <2>c, <3>1, <3>2, <3>6 DEF Written
    <3>8. Numbered' BY <1>1, <3>1 DEF Numbered
    <3> QED BY <1>1, <2>c, <2>4, <2>5, <2>7, <3>5, <3>7, <3>8 DEF CopyInv, Unopened
  <2> QED BY <2>6, <2>7
<1> QED BY <1>4, <1>5 DEF FileCopy!Read

LEMMA CopyFwriteInv == ASSUME CopyInv, FileCopy!Fwrite PROVE CopyInv'
<1>1. /\ pc = "write" /\ program = "fcopy" /\ stream' = stream \o buf /\ pc' \in {"read", "flush"}
      /\ UNCHANGED <<program, same, data, size, next, rpos, wpos, buf, room, lost>>
  BY DEF FileCopy!Fwrite
<1>2. CopyTypes /\ stream \in Seq(Byte0) /\ buf \in Seq(Byte0) BY DEF CopyInv, CopyTypes
<1>3. /\ stream' \in Seq(Byte0) /\ Len(stream') = Len(stream) + Len(buf)
      /\ \A n \in 1..Len(stream) + Len(buf) :
           stream'[n] = IF n <= Len(stream) THEN stream[n] ELSE buf[n - Len(stream)]
  BY <1>1, <1>2, ConcatProperties
<1>4. Pending' = Pending /\ Len(stream) \in Nat /\ Len(buf) \in Nat /\ rpos \in Nat
  <2>1. Len(stream) \in Nat /\ Len(buf) \in Nat /\ rpos \in Nat BY <1>2, LenProperties DEF CopyTypes
  <2>2. Pending = Len(stream) + Len(buf) /\ pc' # "write" /\ pc = "write" BY <1>1 DEF Pending
  <2>3. Pending' = Len(stream') + 0 BY <2>2 DEF Pending
  <2>4. Len(stream) + Len(buf) + 0 = Len(stream) + Len(buf) BY <2>1
  <2> QED BY <1>3, <2>1, <2>2, <2>3, <2>4
<1>5. CopyTypes' BY <1>1, <1>2, <1>3 DEF CopyTypes
<1>6. Ahead' BY <1>1, <1>4 DEF CopyInv, Ahead, Copying
<1>7. CASE same
  <2>1. /\ \A n \in 1..Len(stream) : stream[n] > size
        /\ \A n \in 1..Len(buf) : buf[n] > size
    BY <1>1, <1>7 DEF CopyInv, Emptied, Copying
  <2>2. ASSUME NEW n \in 1..Len(stream') PROVE stream'[n] > size
    <3>1. CASE n <= Len(stream) BY <1>3, <1>4, <2>1, <3>1
    <3>2. CASE ~(n <= Len(stream))
      <4>1. n - Len(stream) \in 1..Len(buf) BY <1>3, <1>4, <3>2
      <4> QED BY <1>3, <2>1, <3>2, <4>1
    <3> QED BY <3>1, <3>2
  <2>3. Emptied' BY <1>1, <1>7, <2>1, <2>2 DEF CopyInv, Emptied, Copying
  <2> QED BY <1>1, <1>5, <1>6, <1>7, <2>3 DEF CopyInv, Unopened
<1>8. CASE ~same
  <2>1. Numbered /\ Waiting /\ Written BY <1>1, <1>8 DEF CopyInv, Copying
  <2>2. Pending = Len(stream) + Len(buf) BY <1>1 DEF Pending
  <2>3. ASSUME NEW n \in 1..Len(stream') PROVE stream'[n] = rpos - Pending + n
    <3>1. CASE n <= Len(stream)
      <4>1. n \in 1..Len(stream) BY <1>3, <1>4, <3>1
      <4> QED BY <1>3, <2>1, <3>1, <4>1 DEF Waiting
    <3>2. CASE ~(n <= Len(stream))
      <4>1. n - Len(stream) \in 1..Len(buf) BY <1>3, <1>4, <3>2
      <4>2. stream'[n] = buf[n - Len(stream)] BY <1>3, <3>2
      <4>3. buf[n - Len(stream)] = rpos - Len(buf) + (n - Len(stream)) BY <1>1, <2>1, <4>1 DEF Waiting
      <4>4. rpos - Len(buf) + (n - Len(stream)) = rpos - (Len(stream) + Len(buf)) + n BY <1>4
      <4> QED BY <2>2, <4>2, <4>3, <4>4
    <3> QED BY <3>1, <3>2
  <2>4. Waiting' BY <1>1, <1>4, <2>3 DEF Waiting
  <2>5. Written' BY <1>1, <1>4, <2>1 DEF Written
  <2>6. Numbered' BY <1>1, <2>1 DEF Numbered
  <2> QED BY <1>1, <1>5, <1>6, <1>8, <2>4, <2>5, <2>6 DEF CopyInv, Unopened
<1> QED BY <1>7, <1>8

\* Another process appends.
LEMMA CopyGrowInv == ASSUME CopyInv, FileCopy!Grow PROVE CopyInv'
<1>1. /\ next <= MaxLen /\ next' = next + 1 /\ data' = [data EXCEPT !["file1"] = Append(@, next)]
      /\ UNCHANGED <<program, pc, same, size, rpos, wpos, buf, stream, room, lost>>
  BY DEF FileCopy!Grow
<1> DEFINE d == data["file1"]
<1>2. CopyTypes /\ d \in Seq(Byte0) /\ Len(d) \in Nat /\ next \in Byte0 /\ size \in Nat /\ size < next
  BY <1>1, BoundsAssumption, LenProperties DEF CopyInv, CopyTypes, Byte0
<1>3. data'["file1"] = Append(d, next) /\ data'["file2"] = data["file2"]
  BY <1>1, <1>2 DEF CopyTypes
<1> HIDE DEF d
<1>4. /\ Append(d, next) \in Seq(Byte0) /\ Len(Append(d, next)) = Len(d) + 1
      /\ \A n \in 1..Len(d) : Append(d, next)[n] = d[n]
      /\ Append(d, next)[Len(d) + 1] = next
  BY <1>2, AppendProperties
<1>5. CopyTypes'
  <2>1. data' \in [{"file1", "file2"} -> Seq(Byte0)] BY <1>1, <1>2, <1>4 DEF CopyTypes, d
  <2>2. next' \in size+1..MaxLen+1
    <3>1. MaxLen \in Nat /\ next \in Nat BY <1>2, BoundsAssumption DEF Byte0
    <3> QED BY <1>1, <1>2, <3>1
  <2> QED BY <1>1, <1>2, <2>1, <2>2 DEF CopyTypes
<1>6. Pending' = Pending BY <1>1 DEF Pending
<1>7. Len(d) < next => Len(Append(d, next)) < next' BY <1>1, <1>2, <1>4 DEF Byte0
<1>8. Ahead'
  <2>1. rpos \in Nat BY <1>2 DEF CopyTypes
  <2>2. Copying => wpos + Pending <= rpos /\ rpos <= Len(d) /\ Len(d) < next
    BY DEF CopyInv, Ahead, d
  <2>3. rpos <= Len(d) => rpos <= Len(Append(d, next)) BY <1>2, <1>4, <2>1
  <2> QED BY <1>1, <1>3, <1>6, <1>7, <2>2, <2>3 DEF Ahead, Copying
<1>9. CASE same
  <2>1. Len(d) < next BY <1>9 DEF CopyInv, Emptied, d
  <2>2. Copying => \A n \in 1..Len(d) + 1 : Append(d, next)[n] > size
    <3>1. Copying => \A n \in 1..Len(d) : d[n] > size BY <1>9 DEF CopyInv, Emptied, d
    <3>2. \A n \in 1..Len(d) + 1 : n \in 1..Len(d) \/ n = Len(d) + 1 BY <1>2
    <3>3. next > size BY <1>2 DEF Byte0
    <3> QED BY <1>4, <3>1, <3>2, <3>3
  <2>3. Emptied' BY <1>1, <1>3, <1>4, <1>7, <1>9, <2>1, <2>2 DEF CopyInv, Emptied, Copying
  <2> QED BY <1>1, <1>5, <1>8, <1>9, <2>3 DEF CopyInv, Unopened
<1>10. CASE ~same
  <2>1. Len(d) = next - 1 /\ \A n \in 1..next-1 : d[n] = n BY <1>10 DEF CopyInv, Numbered, d
  <2>2. Len(Append(d, next)) = next' - 1 /\ \A n \in 1..next'-1 : n \in 1..Len(d) \/ n = Len(d) + 1
    BY <1>1, <1>2, <1>4, <2>1 DEF Byte0
  <2>3. Len(d) + 1 = next BY <1>2, <2>1 DEF Byte0
  <2>4. Numbered' BY <1>3, <1>4, <2>1, <2>2, <2>3 DEF Numbered
  <2>5. Copying' => Waiting' /\ Written'
    BY <1>1, <1>3, <1>6, <1>10 DEF CopyInv, Waiting, Written, Copying
  <2> QED BY <1>1, <1>5, <1>8, <1>10, <2>4, <2>5 DEF CopyInv, Unopened
<1> QED BY <1>9, <1>10

LEMMA CopyFreeInv == ASSUME CopyInv, FileCopy!Free PROVE CopyInv'
<1>1. /\ room < MaxRoom /\ room' = room + 1
      /\ UNCHANGED <<program, pc, same, data, size, next, rpos, wpos, buf, stream, lost>>
  BY DEF FileCopy!Free
<1>2. Pending' = Pending BY <1>1 DEF Pending
<1>3. CopyTypes'
  <2>1. room' \in 0..MaxRoom BY <1>1, BoundsAssumption DEF CopyInv, CopyTypes
  <2> QED BY <1>1, <2>1 DEF CopyInv, CopyTypes
<1> QED BY <1>1, <1>2, <1>3
        DEF CopyInv, Unopened, Ahead, Copying, Emptied, Numbered, Waiting, Written

LEMMA CopyKilledInv == ASSUME CopyInv, FileCopy!Killed PROVE CopyInv'
<1>1. /\ pc' = "killed" /\ stream' = <<>>
      /\ UNCHANGED <<program, same, data, size, next, rpos, wpos, buf, room, lost>>
  BY DEF FileCopy!Killed
<1>2. CopyTypes' BY <1>1, EmptySeq DEF CopyInv, CopyTypes
<1> QED BY <1>1, <1>2 DEF CopyInv, Unopened, Ahead, Copying, Emptied, Numbered

LEMMA CopyStep == ASSUME CopyInv, FileCopy!Step \/ FileCopy!Environment PROVE CopyInv'
<1>1. CASE FileCopy!Write
  <2>1. /\ program = "copy" /\ pc = "write" /\ FileCopy!Put(buf) /\ pc' = "read"
        /\ UNCHANGED <<program, same, size, next, rpos, buf, stream>>
    BY <1>1 DEF FileCopy!Write
  <2>2. stream = <<>> /\ Len(buf) \in Nat BY <2>1, LenProperties DEF CopyInv, CopyTypes
  <2>3. Len(buf) = Pending BY <2>1, <2>2, EmptySeq DEF Pending
  <2> QED BY <2>1, <2>2, <2>3, CopyPutInv
<1>2. CASE FileCopy!Flush \/ FileCopy!Close
  <2>1. /\ pc \in {"flush", "close"} /\ FileCopy!Put(stream) /\ stream' = <<>> /\ pc' \in {"read", "ok"}
        /\ UNCHANGED <<program, same, size, next, rpos, buf>>
    BY <1>2 DEF FileCopy!Flush, FileCopy!Close
  <2>2. Len(stream) \in Nat BY LenProperties DEF CopyInv, CopyTypes
  <2>3. Len(stream) = Pending BY <2>1, <2>2 DEF Pending
  <2> QED BY <2>1, <2>3, CopyPutInv
<1> QED BY <1>1, <1>2, CopyOpenInInv, CopyOpenOutInv, CopyReadInv, CopyFwriteInv, CopyGrowInv, CopyFreeInv,
           CopyKilledInv DEF FileCopy!Step, FileCopy!Environment

LEMMA CopyFrame == ASSUME CopyInv, UNCHANGED <<program, pc, ofCopy>> PROVE CopyInv'
<1>1. /\ UNCHANGED <<program, pc, same, data, size, next, rpos, wpos, buf, stream, room, lost>>
      /\ Pending' = Pending
  BY DEF ofCopy, Pending
<1> QED BY <1>1 DEF CopyInv, CopyTypes, Unopened, Ahead, Copying, Emptied, Numbered, Waiting, Written

LEMMA CopyInvImplies == ASSUME CopyInv PROVE FileCopy!TypeOK /\ FileCopy!Copied
<1>1. FileCopy!TypeOK BY DEF CopyInv, CopyTypes, FileCopy!TypeOK, Byte0
<1>2. ASSUME Copying, same PROVE \A n \in DOMAIN data["file1"] : data["file1"][n] > size
  <2>1. DOMAIN data["file1"] = 1..Len(data["file1"]) BY DEF CopyInv, CopyTypes
  <2> QED BY <1>2, <2>1 DEF CopyInv, Emptied
<1>3. ASSUME Copying, ~same
      PROVE  /\ FileCopy!Increasing(data["file2"])
             /\ ~lost => /\ FileCopy!IsPrefix(data["file2"] \o stream, data["file1"])
                         /\ pc \in {"close", "ok"} => Len(data["file2"] \o stream) = rpos
  <2> DEFINE d == data["file2"]
             a == data["file1"]
  <2>1. /\ Waiting /\ Written /\ d \in Seq(Byte0) /\ a \in Seq(Byte0) /\ stream \in Seq(Byte0)
        /\ Len(a) = next - 1 /\ \A n \in 1..next-1 : a[n] = n
    BY <1>3 DEF CopyInv, CopyTypes, Numbered
  <2>2. DOMAIN d = 1..wpos /\ Len(d) = wpos BY <2>1 DEF Written
  <2>3. FileCopy!Increasing(d) BY <2>1, <2>2 DEF Written, FileCopy!Increasing
  <2>4. ASSUME ~lost
        PROVE  FileCopy!IsPrefix(d \o stream, a) /\ (pc \in {"close", "ok"} => Len(d \o stream) = rpos)
    <3> DEFINE u == d \o stream
    <3>1. /\ wpos \in Nat /\ Len(stream) \in Nat /\ rpos \in Nat /\ next \in Nat /\ Pending \in Nat
          /\ Len(stream) <= Pending /\ (pc # "write" => Pending = Len(stream))
          /\ rpos <= next - 1
      <4>1. Len(stream) \in Nat /\ Len(buf) \in Nat /\ rpos \in Nat /\ wpos \in Nat /\ next \in Nat
        BY LenProperties DEF CopyInv, CopyTypes
      <4>2. rpos <= Len(a) BY <1>3 DEF CopyInv, Ahead
      <4> QED BY <2>1, <4>1, <4>2 DEF Pending
    <3>2. wpos + Pending = rpos /\ \A n \in 1..wpos : d[n] = n BY <2>1, <2>4 DEF Written
    <3>3. /\ u \in Seq(Byte0) /\ Len(u) = wpos + Len(stream)
          /\ \A n \in 1..wpos + Len(stream) : u[n] = IF n <= wpos THEN d[n] ELSE stream[n - wpos]
      BY ZenonT(30), <2>1, <2>2, ConcatProperties
    <3> HIDE DEF u, d, a
    <3>4. ASSUME NEW n \in 1..Len(u) PROVE u[n] = n
      <4>1. CASE n <= wpos BY <3>1, <3>2, <3>3, <4>1
      <4>2. CASE ~(n <= wpos)
        <5>1. n - wpos \in 1..Len(stream) BY <3>1, <3>3, <4>2
        <5>2. u[n] = rpos - Pending + (n - wpos) BY <2>1, <3>3, <4>2, <5>1 DEF Waiting
        <5>3. rpos - Pending + (n - wpos) = n BY <3>1, <3>2, <3>3
        <5> QED BY <5>2, <5>3
      <4> QED BY <4>1, <4>2
    <3>5. Len(u) \in Nat /\ Len(u) <= Len(a) /\ Len(u) <= next - 1 BY <2>1, <3>1, <3>2, <3>3
    <3>6. \A n \in 1..Len(u) : n \in 1..next-1 BY <3>1, <3>5
    <3>7. SubSeq(u, 1, Len(u)) = SubSeq(a, 1, Len(u)) BY <2>1, <3>3, <3>4, <3>5, <3>6
    <3>8. FileCopy!IsPrefix(u, a) BY <3>5, <3>7 DEF FileCopy!IsPrefix
    <3>9. pc \in {"close", "ok"} => Len(u) = rpos BY <3>1, <3>2, <3>3
    <3> QED BY <3>8, <3>9 DEF u
  <2> QED BY <2>3, <2>4
<1> QED BY <1>1, <1>2, <1>3 DEF FileCopy!Copied, FileCopy!Out, Copying

-----------------------------------------------------------------------------
(* chmod.c: files of any modes.                                            *)

USE DEF FileModes!File

\* What First and Second set.
FirstMode  == (statbuf \ {"IXGRP"}) \cup {"ISGID"}
SecondMode == {"IRUSR", "IWUSR", "IRGRP", "IROTH"}

ModesInv ==
    /\ program = "chmod"
    /\ pc \in {"stat", "first", "second", "ok", "error"}
    /\ arg \in [1..2 -> FileModes!File]
    /\ mode \in [FileModes!File -> SUBSET FileModes!Bits]
    /\ statbuf \subseteq FileModes!Bits
    /\ changed \in BOOLEAN
    /\ ~changed /\ pc = "second" => mode[arg[1]] = FirstMode
    /\ ~changed /\ pc = "ok" => /\ mode[arg[2]] = SecondMode
                                /\ arg[1] # arg[2] => mode[arg[1]] = FirstMode

LEMMA ModesInit == ASSUME FileModes!Init PROVE ModesInv
BY ModesAssumption DEF FileModes!Init, ModesInv

LEMMA ModesStep == ASSUME ModesInv, FileModes!Step \/ FileModes!Environment PROVE ModesInv'
<1> USE DEF ModesInv
<1>1. arg[1] \in FileModes!File /\ arg[2] \in FileModes!File OBVIOUS
<1>2. CASE FileModes!Stat BY <1>1, <1>2 DEF FileModes!Stat
<1>3. CASE FileModes!First
  <2>1. FirstMode \subseteq FileModes!Bits BY DEF FirstMode, FileModes!Bits
  <2> QED BY <1>1, <1>3, <2>1 DEF FileModes!First, FileModes!Chmod, FirstMode
<1>4. CASE FileModes!Second
  <2>1. SecondMode \subseteq FileModes!Bits BY DEF SecondMode, FileModes!Bits
  <2>2. pc = "second" /\ UNCHANGED <<program, arg, statbuf, changed>> /\ FirstMode' = FirstMode
    BY <1>4 DEF FileModes!Second, FileModes!Chmod, FirstMode
  <2>3. \/ mode' = [mode EXCEPT ![arg[2]] = SecondMode] /\ pc' = "ok"
        \/ pc' = "error" /\ UNCHANGED mode
    BY <1>4 DEF FileModes!Second, FileModes!Chmod, SecondMode
  <2> QED BY <1>1, <2>1, <2>2, <2>3
<1>5. CASE FileModes!Environment BY <1>5, ModesAssumption DEF FileModes!Environment
<1> QED BY <1>2, <1>3, <1>4, <1>5 DEF FileModes!Step

LEMMA ModesFrame == ASSUME ModesInv, UNCHANGED <<program, pc, ofModes>> PROVE ModesInv'
BY DEF ModesInv, ofModes, FirstMode

LEMMA ModesInvImplies == ASSUME ModesInv PROVE FileModes!TypeOK /\ FileModes!Changed
<1>1. FileModes!TypeOK BY DEF ModesInv, FileModes!TypeOK
<1>2. ASSUME NEW n \in 1..8
      PROVE  FileModes!Permission(SecondMode)[n] = <<"r", "w", "-", "r", "-", "-", "r", "-">>[n]
  <2>1. FileModes!Permission(SecondMode) = <<"r", "w", "-", "r", "-", "-", "r", "-", "x">>
    BY DEF FileModes!Permission, SecondMode
  <2> QED BY <2>1
<1>3. /\ FileModes!Permission(FirstMode)[6] = "S"
      /\ \A n \in (1..8) \ {6} : FileModes!Permission(FirstMode)[n] = FileModes!Permission(statbuf)[n]
      /\ "IXOTH" \in statbuf =>
           FileModes!Permission(FirstMode)[9] = IF "ISVTX" \in statbuf THEN "t" ELSE "x"
  <2>1. "ISGID" \in FirstMode /\ "IXGRP" \notin FirstMode BY DEF FirstMode
  <2>2. \A bit \in {"IRUSR", "IWUSR", "IXUSR", "IRGRP", "IWGRP", "IROTH", "IWOTH", "IXOTH",
                    "ISUID", "ISVTX"} : bit \in FirstMode <=> bit \in statbuf
    BY DEF FirstMode
  <2> QED BY <2>1, <2>2 DEF FileModes!Permission
<1>4. mode[arg[2]] = SecondMode /\ (arg[1] # arg[2] => mode[arg[1]] = FirstMode) =>
        \/ pc # "ok" \/ changed
        \/ FileModes!Changed
  BY <1>2, <1>3 DEF FileModes!Changed, FirstMode, SecondMode
<1>5. pc = "ok" /\ ~changed => mode[arg[2]] = SecondMode /\ (arg[1] # arg[2] => mode[arg[1]] = FirstMode)
  BY DEF ModesInv
<1>6. FileModes!Changed BY <1>4, <1>5 DEF FileModes!Changed
<1> QED BY <1>1, <1>6

-----------------------------------------------------------------------------
(* hitkey.c and kbhit() of rpi6.c: however many keys, whenever pressed.    *)

USE DEF Keyboard!EOF

Held == IF ch = "EOF" THEN <<>> ELSE <<ch>>

KeyTypes ==
    /\ program \in {"hitkey", "rpi6"}
    /\ pc \in {"raw", "nonblock", "read", "cooked", "block", "unget", "switch", "end", "killed"}
    /\ tty \in {"cooked", "raw"} /\ oldt \in {"cooked", "raw"}
    /\ nonblock \in BOOLEAN /\ oldf \in BOOLEAN
    /\ ch \in Key \cup {"EOF"}
    /\ queue \in Seq(Key) /\ stdin \in Seq(Key) /\ pressed \in Seq(Key) /\ got \in Seq(Key)

\* kbhit() holds a key from getchar() to ungetc() only, and there is one for
\* the loop's getchar().
Places ==
    /\ ch # "EOF" => pc \in {"cooked", "block", "unget", "killed"}
    /\ pc = "switch" => stdin # <<>>

Order == got \o (Held \o (stdin \o queue)) = pressed

\* How rpi6.c finds the terminal and the flag, and leaves them.
Restored ==
    /\ pc \in {"raw", "unget", "switch", "end"} => tty = "cooked" /\ ~nonblock
    /\ pc = "nonblock" => tty = "raw" /\ oldt = "cooked" /\ ~nonblock
    /\ pc \in {"read", "cooked"} => tty = "raw" /\ oldt = "cooked" /\ nonblock /\ ~oldf
    /\ pc = "block" => tty = "cooked" /\ nonblock /\ ~oldf

KeysInv ==
    /\ KeyTypes /\ Places /\ Order
    /\ program = "rpi6" => Restored

\* Sequences of keys put together.
LEMMA KeyJoin == \A s, t \in Seq(Key) :
                   /\ s \o t \in Seq(Key) /\ Len(s \o t) = Len(s) + Len(t)
                   /\ \A i \in 1..Len(s) + Len(t) :
                        (s \o t)[i] = IF i <= Len(s) THEN s[i] ELSE t[i - Len(s)]
<1> SUFFICES ASSUME NEW s \in Seq(Key), NEW t \in Seq(Key)
             PROVE  /\ s \o t \in Seq(Key) /\ Len(s \o t) = Len(s) + Len(t)
                    /\ \A i \in 1..Len(s) + Len(t) :
                         (s \o t)[i] = IF i <= Len(s) THEN s[i] ELSE t[i - Len(s)]
  OBVIOUS
<1> QED BY ConcatProperties

LEMMA KeyAssoc == \A s, t, u \in Seq(Key) : (s \o t) \o u = s \o (t \o u)
<1> SUFFICES ASSUME NEW s \in Seq(Key), NEW t \in Seq(Key), NEW u \in Seq(Key)
             PROVE  (s \o t) \o u = s \o (t \o u)
  OBVIOUS
<1> QED BY ConcatAssociative

LEMMA KeysInit == ASSUME Keyboard!Init PROVE KeysInv
<1>1. <<>> \in Seq(Key) BY EmptySeq
<1>2. KeyTypes BY <1>1 DEF Keyboard!Init, KeyTypes
<1>3. Order BY <1>1, ConcatEmptySeq DEF Keyboard!Init, Order, Held
<1> QED BY <1>2, <1>3 DEF Keyboard!Init, KeysInv, Places, Restored

LEMMA KeyFirst == ASSUME NEW s \in Seq(Key), s # <<>>
                  PROVE  /\ Head(s) \in Key /\ Tail(s) \in Seq(Key) /\ <<Head(s)>> \in Seq(Key)
                         /\ <<Head(s)>> \o Tail(s) = s
<1>1. /\ Head(s) \in Key /\ Tail(s) \in Seq(Key) /\ Len(Tail(s)) = Len(s) - 1
      /\ \A i \in 1..Len(Tail(s)) : Tail(s)[i] = s[i + 1]
  BY HeadTailProperties
<1> DEFINE one == <<Head(s)>>
<1>2. one \in Seq(Key) /\ Len(one) = 1 /\ one[1] = s[1] BY <1>1
<1> HIDE DEF one
<1>3. Len(s) \in Nat \ {0} BY EmptySeq
<1> DEFINE rest == Tail(s)
<1>4. one \in Seq(Key) /\ rest \in Seq(Key) BY <1>1, <1>2
<1> HIDE DEF rest
<1>5. /\ one \o rest \in Seq(Key) /\ Len(one \o rest) = Len(one) + Len(rest)
      /\ \A i \in 1..Len(one) + Len(rest) :
           (one \o rest)[i] = IF i <= Len(one) THEN one[i] ELSE rest[i - Len(one)]
  BY <1>4, KeyJoin
<1>6. Len(one) = 1 /\ Len(rest) = Len(s) - 1 /\ Len(one) + Len(rest) = Len(s)
  BY <1>1, <1>2, <1>3 DEF rest
<1>7. ASSUME NEW i \in 1..Len(s) PROVE (one \o rest)[i] = s[i]
  <2>1. (one \o rest)[i] = IF i <= 1 THEN one[i] ELSE rest[i - 1] BY <1>5, <1>6
  <2>2. CASE i = 1 BY <1>2, <2>1, <2>2
  <2>3. CASE i # 1
    <3>1. ~(i <= 1) /\ i - 1 \in 1..Len(rest) /\ (i - 1) + 1 = i BY <1>3, <1>6, <2>3
    <3> QED BY <1>1, <2>1, <3>1 DEF rest
  <2> QED BY <2>2, <2>3
<1>8. one \o rest = s
  <2>1. one \o rest \in Seq(Key) /\ Len(one \o rest) = Len(s) BY <1>5, <1>6
  <2> QED BY <1>7, <2>1, SeqEqual
<1> QED BY <1>1, <1>2, <1>8 DEF one, rest

\* Where no key moves.
LEMMA KeysStay == ASSUME KeysInv, UNCHANGED <<ch, queue, stdin, pressed, got>> PROVE Order'
BY DEF KeysInv, Order, Held

LEMMA KeysGetchar == ASSUME KeysInv, Keyboard!Getchar PROVE KeysInv'
<1> DEFINE keys == IF stdin = <<>> THEN queue ELSE stdin
<1>1. /\ pc = "read" /\ pc' = IF program = "rpi6" THEN "cooked" ELSE "unget"
      /\ ch' = IF keys = <<>> THEN "EOF" ELSE Head(keys)
      /\ stdin' = IF keys = <<>> THEN <<>> ELSE Tail(keys)
      /\ queue' = IF stdin = <<>> THEN <<>> ELSE queue
      /\ UNCHANGED <<program, tty, nonblock, oldt, oldf, pressed, got>>
  BY DEF Keyboard!Getchar
<1>2. KeyTypes /\ ch = "EOF" /\ Held = <<>> BY <1>1 DEF KeysInv, Places, Held
<1>3. keys \in Seq(Key) /\ <<>> \in Seq(Key) BY <1>2, EmptySeq DEF KeyTypes
<1>4. got \o (stdin \o queue) = pressed /\ stdin \o queue \in Seq(Key)
  <2>1. stdin \o queue \in Seq(Key) BY <1>2, KeyJoin DEF KeyTypes
  <2> QED BY <1>2, <2>1, ConcatEmptySeq DEF KeysInv, Order
<1>5. CASE keys = <<>>
  <2>1. stdin' = <<>> /\ queue' = <<>> /\ stdin = <<>> /\ queue = <<>> /\ Held' = <<>>
    BY <1>1, <1>5 DEF Held
  <2>2. KeyTypes' BY <1>1, <1>2, <1>3, <1>5, <2>1 DEF KeyTypes
  <2>3. Order' BY <1>1, <1>2, <2>1 DEF KeysInv, Order
  <2> QED BY <1>1, <1>5, <2>2, <2>3 DEF KeysInv, Places, Restored
<1>6. CASE keys # <<>>
  <2> HIDE DEF keys
  <2>1. Head(keys) \in Key /\ Tail(keys) \in Seq(Key) /\ <<Head(keys)>> \in Seq(Key)
        /\ <<Head(keys)>> \o Tail(keys) = keys
    BY <1>3, <1>6, KeyFirst
  <2>2. ch' = Head(keys) /\ ch' # "EOF" /\ stdin' = Tail(keys) /\ Held' = <<Head(keys)>>
    BY <1>1, <1>6, <2>1, KeyAssumption DEF Held
  <2>3. queue' \in Seq(Key) /\ keys \o queue' = stdin \o queue
    <3>1. CASE stdin = <<>> BY <1>1, <1>2, <1>3, <3>1, ConcatEmptySeq DEF keys, KeyTypes
    <3>2. CASE stdin # <<>> BY <1>1, <1>2, <3>2 DEF keys, KeyTypes
    <3> QED BY <3>1, <3>2
  <2>4. KeyTypes' BY <1>1, <1>2, <2>1, <2>2, <2>3 DEF KeyTypes
  <2>5. Held' \o (stdin' \o queue') = stdin \o queue
    <3>1. (<<Head(keys)>> \o Tail(keys)) \o queue' = <<Head(keys)>> \o (Tail(keys) \o queue')
      BY <2>1, <2>3, KeyAssoc
    <3> QED BY <2>1, <2>2, <2>3, <3>1
  <2>6. Order' BY <1>1, <1>4, <2>5 DEF Order
  <2> QED BY <1>1, <2>4, <2>6 DEF KeysInv, Places, Restored
<1> QED BY <1>5, <1>6

LEMMA KeysUngetc == ASSUME KeysInv, Keyboard!Ungetc PROVE KeysInv'
<1>1. /\ pc = "unget" /\ ch' = "EOF"
      /\ stdin' = (IF ch = "EOF" THEN stdin ELSE <<ch>> \o stdin)
      /\ pc' = IF program = "rpi6" /\ ch # "EOF" THEN "switch" ELSE "raw"
      /\ UNCHANGED <<program, tty, nonblock, oldt, oldf, queue, pressed, got>>
  BY DEF Keyboard!Ungetc
<1>2. KeyTypes /\ Held \in Seq(Key) /\ Held' = <<>> /\ <<>> \in Seq(Key)
  BY <1>1, EmptySeq DEF KeysInv, KeyTypes, Held
<1>3. stdin' = Held \o stdin BY <1>1, <1>2, ConcatEmptySeq DEF KeyTypes, Held
<1>4. stdin' \in Seq(Key) /\ stdin' \o queue \in Seq(Key)
  <2>1. stdin' \in Seq(Key) BY <1>2, <1>3, KeyJoin DEF KeyTypes
  <2> QED BY <1>2, <2>1, KeyJoin DEF KeyTypes
<1>5. KeyTypes' BY <1>1, <1>2, <1>4 DEF KeyTypes
<1>6. Order'
  <2>1. Held \o (stdin \o queue) = stdin' \o queue
    BY SMTT(20), <1>2, <1>3, KeyAssoc DEF KeyTypes
  <2>2. Held' \o (stdin' \o queue) = stdin' \o queue BY <1>2, <1>4, ConcatEmptySeq
  <2> QED BY <1>1, <2>1, <2>2 DEF KeysInv, Order
<1>7. pc' = "switch" => stdin' # <<>>
  <2>1. ASSUME ch # "EOF" PROVE Len(stdin') # 0
    <3>1. Len(Held) = 1 BY <2>1 DEF Held
    <3>2. Len(stdin') = Len(Held) + Len(stdin) /\ Len(stdin) \in Nat
      BY <1>2, <1>3, KeyJoin, LenProperties DEF KeyTypes
    <3> QED BY <3>1, <3>2
  <2> QED BY <1>1, <2>1, EmptySeq
<1> QED BY <1>1, <1>5, <1>6, <1>7 DEF KeysInv, Places, Restored

LEMMA KeysSwitch == ASSUME KeysInv, Keyboard!Switch PROVE KeysInv'
<1>1. /\ pc = "switch" /\ got' = Append(got, Head(stdin)) /\ stdin' = Tail(stdin)
      /\ pc' \in {"end", "raw"}
      /\ UNCHANGED <<program, tty, nonblock, oldt, oldf, ch, queue, pressed>>
  BY DEF Keyboard!Switch
<1>2. KeyTypes /\ Held = <<>> /\ stdin # <<>> /\ ch = "EOF" BY <1>1 DEF KeysInv, Places, Held
<1> DEFINE one == <<Head(stdin)>>
<1>3. Head(stdin) \in Key /\ one \in Seq(Key) /\ stdin' \in Seq(Key) /\ one \o stdin' = stdin
  BY <1>1, <1>2, KeyFirst DEF KeyTypes
<1>4. got' = got \o one /\ got' \in Seq(Key)
  BY <1>1, <1>2, <1>3, AppendIsConcat, AppendProperties DEF KeyTypes
<1> HIDE DEF one
<1>5. KeyTypes' BY <1>1, <1>2, <1>3, <1>4 DEF KeyTypes
<1>6. Order'
  <2>1. stdin \o queue \in Seq(Key) /\ stdin' \o queue \in Seq(Key)
    BY <1>2, <1>3, KeyJoin DEF KeyTypes
  <2>2. got \o (stdin \o queue) = pressed
    BY <1>2, <2>1, ConcatEmptySeq DEF KeysInv, Order
  <2> DEFINE rest == stdin'
             all == rest \o queue
  <2>3. one \in Seq(Key) /\ rest \in Seq(Key) /\ queue \in Seq(Key) /\ got \in Seq(Key) /\ all \in Seq(Key)
    BY <1>2, <1>3, <2>1 DEF KeyTypes
  <2> HIDE DEF rest
  <2>4. (one \o rest) \o queue = one \o (rest \o queue) BY <2>3, KeyAssoc
  <2> HIDE DEF all
  <2>5. (got \o one) \o all = got \o (one \o all) BY <2>3, KeyAssoc
  <2>6. Held' \o (stdin' \o queue') = stdin' \o queue BY <1>1, <1>2, <2>1, ConcatEmptySeq DEF Held
  <2>7. got \o (one \o all) = pressed BY <1>3, <2>2, <2>4 DEF rest, all
  <2> QED BY <1>1, <1>4, <2>5, <2>6, <2>7 DEF Order, rest, all
<1> QED BY <1>1, <1>2, <1>5, <1>6 DEF KeysInv, Places, Restored

LEMMA KeysPress == ASSUME KeysInv, NEW k \in Key, Keyboard!Press(k) PROVE KeysInv'
<1>1. /\ pressed' = Append(pressed, k) /\ queue' = Append(queue, k)
      /\ UNCHANGED <<program, pc, tty, nonblock, oldt, oldf, ch, stdin, got>>
  BY DEF Keyboard!Press
<1> DEFINE one == <<k>>
<1>2. KeyTypes /\ one \in Seq(Key) /\ Held \in Seq(Key) /\ Held' = Held
  BY <1>1, EmptySeq DEF KeysInv, KeyTypes, Held
<1>3. queue' = queue \o one /\ pressed' = pressed \o one /\ queue' \in Seq(Key) /\ pressed' \in Seq(Key)
  BY <1>1, <1>2, AppendIsConcat, AppendProperties DEF KeyTypes
<1> HIDE DEF one
<1>4. KeyTypes' BY <1>1, <1>2, <1>3 DEF KeyTypes
<1>5. Order'
  <2> DEFINE a == stdin \o queue
             b == Held \o a
  <2>1. a \in Seq(Key) /\ b \in Seq(Key)
    <3>1. a \in Seq(Key) BY <1>2, KeyJoin DEF KeyTypes
    <3> QED BY <1>2, <3>1, KeyJoin
  <2>t. stdin \in Seq(Key) /\ queue \in Seq(Key) /\ got \in Seq(Key) /\ one \in Seq(Key)
    BY <1>2 DEF KeyTypes
  <2>2. stdin \o queue' = a \o one
    <3>1. (stdin \o queue) \o one = stdin \o (queue \o one) BY <2>t, KeyAssoc
    <3> QED BY <1>3, <3>1
  <2>3. Held \o (a \o one) = b \o one BY <1>2, <2>1, KeyAssoc
  <2>4. got \o (b \o one) = (got \o b) \o one
    <3>1. b \in Seq(Key) /\ got \in Seq(Key) /\ one \in Seq(Key) BY <2>1, <2>t
    <3> HIDE DEF b
    <3>2. (got \o b) \o one = got \o (b \o one) BY <3>1, KeyAssoc
    <3> QED BY <3>2
  <2> QED BY <1>1, <1>2, <1>3, <2>2, <2>3, <2>4 DEF KeysInv, Order
<1> QED BY <1>1, <1>4, <1>5 DEF KeysInv, Places, Restored

LEMMA KeysStep == ASSUME KeysInv, Keyboard!Step \/ Keyboard!Environment PROVE KeysInv'
<1> USE DEF KeysInv, KeyTypes, Places, Restored
<1>1. CASE Keyboard!Raw BY <1>1, KeysStay DEF Keyboard!Raw
<1>2. CASE Keyboard!Nonblock BY <1>2, KeysStay DEF Keyboard!Nonblock
<1>3. CASE Keyboard!Cooked BY <1>3, KeysStay DEF Keyboard!Cooked
<1>4. CASE Keyboard!Block BY <1>4, KeysStay DEF Keyboard!Block
<1>5. CASE Keyboard!Killed BY <1>5, KeysStay DEF Keyboard!Killed, Keyboard!terminal
<1> QED BY <1>1, <1>2, <1>3, <1>4, <1>5, KeysGetchar, KeysUngetc, KeysSwitch, KeysPress
        DEF Keyboard!Step, Keyboard!Environment

LEMMA KeysFrame == ASSUME KeysInv, UNCHANGED <<program, pc, ofKeyboard>> PROVE KeysInv'
<1>1. UNCHANGED <<program, pc, tty, nonblock, oldt, oldf, ch, queue, stdin, pressed, got>>
  BY DEF ofKeyboard
<1>2. Order' BY <1>1, KeysStay
<1> QED BY <1>1, <1>2 DEF KeysInv, KeyTypes, Places, Restored

LEMMA KeysInvImplies == ASSUME KeysInv PROVE Keyboard!TypeOK /\ Keyboard!Keys
<1>1. Keyboard!TypeOK BY DEF KeysInv, KeyTypes, Keyboard!TypeOK
<1>2. got \o Held \o stdin \o queue = pressed
  <2>1. got \in Seq(Key) /\ Held \in Seq(Key) /\ stdin \in Seq(Key) /\ queue \in Seq(Key)
    BY EmptySeq DEF KeysInv, KeyTypes, Held
  <2>2. got \o Held \in Seq(Key) /\ stdin \o queue \in Seq(Key) BY <2>1, KeyJoin
  <2>3. ((got \o Held) \o stdin) \o queue = (got \o Held) \o (stdin \o queue)
    BY SMTT(20), <2>1, <2>2, KeyAssoc
  <2>4. (got \o Held) \o (stdin \o queue) = got \o (Held \o (stdin \o queue))
    <3> DEFINE all == stdin \o queue
    <3>1. all \in Seq(Key) /\ got \in Seq(Key) /\ Held \in Seq(Key) BY <2>1, <2>2
    <3> HIDE DEF all
    <3>2. (got \o Held) \o all = got \o (Held \o all) BY <3>1, KeyAssoc
    <3> QED BY <3>2 DEF all
  <2> QED BY <2>3, <2>4 DEF KeysInv, Order
<1> QED BY <1>1, <1>2 DEF KeysInv, Restored, Keyboard!Keys, Held

-----------------------------------------------------------------------------
(* getPressure() and getTemperature(): any number of threads, and any      *)
(* readings and calibration the registers can hold.                        *)

\* Bytes are unsigned, and put together again they give the number.
LEMMA ByteType == ASSUME NEW v \in Int
                  PROVE  /\ Sensors!Byte(v, 1) \in 0..255 /\ Sensors!Byte(v, 256) \in 0..255
                         /\ Sensors!Byte(v, 65536) \in 0..255
<1>1. ASSUME NEW u \in Int PROVE u % 256 \in 0..255 OBVIOUS
<1>2. v \div 1 \in Int /\ v \div 256 \in Int /\ v \div 65536 \in Int OBVIOUS
<1> QED BY <1>1, <1>2 DEF Sensors!Byte

LEMMA ShortType == ASSUME NEW l \in 0..255, NEW h \in 0..255 PROVE Sensors!Short(l, h) \in Sensors!Signed
<1>1. 256 * h + l \in Nat /\ 256 * h + l < 65536 BY SMT
<1> QED BY <1>1, SMT DEF Sensors!Short, Sensors!Signed

\* The high byte counts 256 of the rest.
LEMMA Divided == ASSUME NEW v \in Int
                 PROVE  /\ v \div 256 \in Int /\ v % 256 \in 0..255 /\ v \div 1 = v
                        /\ v = 256 * (v \div 256) + (v % 256)
BY SMT

LEMMA ShortOfBytes == ASSUME NEW v \in Sensors!Signed
                      PROVE  Sensors!Short(Sensors!Byte(v, 1), Sensors!Byte(v, 256)) = v
<1>1. v \in Int /\ -32768 <= v /\ v < 32768 BY SMT DEF Sensors!Signed
<1> DEFINE l == v % 256
           q == v \div 256
<1>2. l \in 0..255 /\ q \in Int /\ v = 256 * q + l /\ v \div 1 = v BY <1>1, Divided
<1>3. Sensors!Byte(v, 1) = l /\ Sensors!Byte(v, 256) = q % 256 BY <1>2 DEF Sensors!Byte
<1> HIDE DEF l, q
<1>4. -128 <= q /\ q < 128 BY <1>1, <1>2, SMT
<1>5. q % 256 = IF q < 0 THEN q + 256 ELSE q BY <1>2, <1>4, SMT
<1>6. 256 * (q % 256) + l = IF v < 0 THEN v + 65536 ELSE v BY <1>1, <1>2, <1>4, <1>5, SMT
<1> QED BY <1>1, <1>3, <1>6, SMT DEF Sensors!Short

LEMMA LongType == ASSUME NEW a \in 0..255, NEW b \in 0..255, NEW c \in 0..255
                  PROVE  Sensors!ThreeBytes(a, b, c) \in Sensors!Long
BY SMT DEF Sensors!Long, Sensors!ThreeBytes

LEMMA LongOfBytes == ASSUME NEW w \in Sensors!Long
                     PROVE  Sensors!ThreeBytes(Sensors!Byte(w, 1), Sensors!Byte(w, 256), Sensors!Byte(w, 65536)) = w
<1> DEFINE l == w % 256
           q == w \div 256
           m == q % 256
           h == q \div 256
<1>1. w \in Int /\ 0 <= w /\ w < 65536 * 256 BY SMT DEF Sensors!Long
<1>2. l \in 0..255 /\ q \in Int /\ w = 256 * q + l /\ w \div 1 = w BY <1>1, Divided
<1>3. m \in 0..255 /\ h \in Int /\ q = 256 * h + m
  <2> HIDE DEF q
  <2> QED BY <1>2, Divided
<1>4. Sensors!Byte(w, 1) = l /\ Sensors!Byte(w, 256) = m BY <1>2 DEF Sensors!Byte
<1> HIDE DEF l, q, m, h
<1>5. w = 65536 * h + (256 * m + l) /\ 256 * m + l \in Nat /\ 256 * m + l < 65536
  BY <1>2, <1>3, SMT
<1>6. h \in Nat /\ h < 256 BY <1>1, <1>3, <1>5, SMT
<1>7. (65536 * h + (256 * m + l)) \div 65536 = h BY <1>5, <1>6, SMT
<1>8. Sensors!Byte(w, 65536) = h BY <1>5, <1>6, <1>7, SMT DEF Sensors!Byte
<1> QED BY <1>2, <1>3, <1>4, <1>5, <1>6, <1>8, SMT DEF Sensors!ThreeBytes

\* Ten bits, the high two of which are in another byte.
LEMMA TenBitsOf == ASSUME NEW v \in Sensors!Ten
                   PROVE  /\ Sensors!Byte(v, 256) \in 0..3 /\ Sensors!Byte(v, 1) \in 0..255
                          /\ v = Sensors!Byte(v, 256) * 256 + Sensors!Byte(v, 1)
<1> DEFINE l == v % 256
           q == v \div 256
<1>0. v \in Nat /\ v < 1024 BY SMT DEF Sensors!Ten
<1>1. l \in 0..255 /\ q \in Int /\ v = 256 * q + l /\ v \div 1 = v BY <1>0, Divided
<1>2. Sensors!Byte(v, 256) = q % 256 /\ Sensors!Byte(v, 1) = l BY <1>1 DEF Sensors!Byte
<1> HIDE DEF l, q
<1>3. q \in 0..3 BY <1>0, <1>1, SMT
<1>4. q % 256 = q /\ v = q * 256 + l BY <1>1, <1>3, SMT
<1>5. Sensors!Byte(v, 256) = q BY <1>2, <1>4
<1> QED BY SMTT(20), <1>1, <1>2, <1>3, <1>4, <1>5

LEMMA TenBitsShared ==
    ASSUME NEW x \in 0..3, NEW y \in 0..3, NEW l \in 0..255, NEW m \in 0..255
    PROVE  /\ ((x + 4 * y) % 4) * 256 + l = x * 256 + l
           /\ (((x + 4 * y) \div 4) % 4) * 256 + m = y * 256 + m
<1>1. (x + 4 * y) % 4 = x /\ (x + 4 * y) \div 4 = y /\ y % 4 = y BY SMT
<1> QED BY <1>1

LEMMA PointsOfBytes == ASSUME NEW p \in Sensors!Signed \X Sensors!Ten \X Sensors!Signed \X Sensors!Ten
                       PROVE  Sensors!Points(Sensors!CalBytes(p)) = p
<1>1. p[1] \in Sensors!Signed /\ p[2] \in Sensors!Ten /\ p[3] \in Sensors!Signed /\ p[4] \in Sensors!Ten OBVIOUS
<1>2. p = <<p[1], p[2], p[3], p[4]>> OBVIOUS
<1> DEFINE b == Sensors!CalBytes(p)
           s == Sensors!Byte(p[2], 256) + 4 * Sensors!Byte(p[4], 256)
<1>3. /\ b[1] = Sensors!Byte(p[1], 1) /\ b[2] = Sensors!Byte(p[1], 256)
      /\ b[3] = Sensors!Byte(p[3], 1) /\ b[4] = Sensors!Byte(p[3], 256)
      /\ b[5] = Sensors!Byte(p[2], 1) /\ b[6] = Sensors!Byte(p[4], 1) /\ b[7] = s
  BY DEF Sensors!CalBytes
<1> HIDE DEF b
<1>4. (s % 4) * 256 + b[5] = p[2] /\ ((s \div 4) % 4) * 256 + b[6] = p[4]
  <2> DEFINE x == Sensors!Byte(p[2], 256)
             y == Sensors!Byte(p[4], 256)
             l == Sensors!Byte(p[2], 1)
             m == Sensors!Byte(p[4], 1)
  <2>1. x \in 0..3 /\ l \in 0..255 /\ p[2] = x * 256 + l BY <1>1, TenBitsOf
  <2>2. y \in 0..3 /\ m \in 0..255 /\ p[4] = y * 256 + m BY <1>1, TenBitsOf
  <2>3. s = x + 4 * y /\ b[5] = l /\ b[6] = m BY <1>3
  <2> HIDE DEF x, y, l, m, s
  <2> QED BY <2>1, <2>2, <2>3, TenBitsShared
<1>5. Sensors!Short(b[1], b[2]) = p[1] /\ Sensors!Short(b[3], b[4]) = p[3]
  BY <1>1, <1>3, ShortOfBytes
<1> HIDE DEF s
<1>6. Sensors!Points(b) = <<p[1], p[2], p[3], p[4]>> BY <1>3, <1>4, <1>5 DEF Sensors!Points
<1> QED BY <1>2, <1>6 DEF b

\* The line through the two points.
LEMMA Products == ASSUME NEW a \in Nat, NEW b \in Nat PROVE a * b \in Nat /\ a * b >= 0
OBVIOUS

LEMMA LineIs ==
    ASSUME NEW p \in Sensors!Signed \X Sensors!Ten \X Sensors!Signed \X Sensors!Ten, NEW x \in Sensors!Signed
    PROVE  LET y == Sensors!Line(p, x) IN
           /\ y = Sensors!Undefined <=> p[1] = p[3]
           /\ p[1] < p[3] /\ p[2] <= p[4] /\ x \in p[1]..p[3] => Sensors!Between(p[2], y, p[4])
           /\ \A n \in {1, 3} : x = p[n] /\ y # Sensors!Undefined => y[1] = p[n + 1] * y[2]
<1>1. p[1] \in Int /\ p[2] \in Int /\ p[3] \in Int /\ p[4] \in Int /\ x \in Int BY SMT DEF Sensors!Signed, Sensors!Ten
<1> DEFINE y == Sensors!Line(p, x)
           y1 == (p[4] - p[2]) * (x - p[3]) + p[4] * (p[3] - p[1])
           y2 == p[3] - p[1]
<1>2. CASE p[1] = p[3]
  <2>1. y = Sensors!Undefined BY <1>2 DEF Sensors!Line
  <2> QED BY <1>2, <1>1, <2>1
<1>3. CASE p[1] # p[3]
  <2>1. y = <<y1, y2>> /\ y[1] = y1 /\ y[2] = y2 BY <1>3 DEF Sensors!Line
  <2>2. y # Sensors!Undefined
    <3> DEFINE z == <<y1, y2>>
    <3>1. Len(z) = 2 OBVIOUS
    <3>2. Len(Sensors!Undefined) = 1 BY DEF Sensors!Undefined
    <3> QED BY <2>1, <3>1, <3>2
  <2> HIDE DEF y
  <2>3. ASSUME p[1] < p[3], p[2] <= p[4], x \in p[1]..p[3] PROVE Sensors!Between(p[2], y, p[4])
    <3> DEFINE a == p[4] - p[2]
               b == p[3] - x
               c == x - p[1]
    <3>1. a \in Nat /\ b \in Nat /\ c \in Nat BY <1>1, <2>3
    <3>2. a * b >= 0 /\ a * c >= 0 /\ a * b \in Int /\ a * c \in Int BY <3>1, Products
    <3>3. y1 = p[4] * y2 - a * b BY <1>1
    <3>4. y1 = p[2] * y2 + a * c BY <1>1
    <3>5. p[4] * y2 \in Int /\ p[2] * y2 \in Int /\ y2 > 0 BY <1>1, <2>3
    <3> HIDE DEF y1, y2, a, b, c
    <3>6. p[2] * y2 <= y1 /\ y1 <= p[4] * y2 BY <3>2, <3>3, <3>4, <3>5
    <3> QED BY <2>1, <3>5, <3>6 DEF Sensors!Between
  <2>4. x = p[1] => y1 = p[2] * y2 BY <1>1
  <2>5. x = p[3] => y1 = p[4] * y2 BY <1>1
  <2> HIDE DEF y1, y2
  <2>6. \A n \in {1, 3} : x = p[n] => y[1] = p[n + 1] * y[2] BY <2>1, <2>4, <2>5
  <2> QED BY <1>3, <2>2, <2>3, <2>6 DEF y
<1> QED BY <1>2, <1>3

-----------------------------------------------------------------------------
(* Threads and the sensor.                                                 *)

Readings == IF program = "temperature" THEN Climate ELSE Weather

SensorTypes ==
    /\ program \in {"pressure", "temperature"}
    /\ at \in [Thread -> {"reset", "power", "start", "wait", "calibrate", "read", "end"}]
    /\ busy \in BOOLEAN
    /\ \E r \in Readings : regs = Sensors!Bytes(r)
    /\ DOMAIN mine = Thread /\ DOMAIN cal = Thread /\ DOMAIN measured = Thread
    /\ points \in Calibration
    /\ bytes \in [Thread -> Seq(0..255)] /\ \A t \in Thread : Len(bytes[t]) <= Len(regs)

Computed ==
    \A t \in Thread : measured[t] # <<>> =>
      /\ measured[t][1] \in Sensors!Signed
      /\ measured[t][2] \in IF program = "temperature" THEN Sensors!Signed ELSE Sensors!Long

\* A conversion that has not ended is waited for.
Owned == busy => \E u \in Thread : owner = {u} /\ at[u] = "wait"

Result(t) == mine[t] \in Readings /\ regs = Sensors!Bytes(mine[t])

\* What there is for a thread that is alone with the sensor and sees no call
\* fail, from place to place.
Own(t) ==
    /\ at[t] \notin {"reset", "end"} => Sensors!Active = {t}
    /\ at[t] = "wait" => (busy /\ owner = {t}) \/ (~busy /\ Result(t))
    /\ at[t] \in {"calibrate", "read"} => Result(t)
    /\ at[t] \notin {"read", "end"} => bytes[t] = <<>>
    /\ at[t] = "read" =>
         /\ \A n \in 1..Len(bytes[t]) : bytes[t][n] = regs[n]
         /\ program = "temperature" => cal[t] = points
    /\ at[t] = "end" =>
         /\ mine[t] \in Readings /\ <<measured[t][1], measured[t][2]>> = mine[t]
         /\ program = "temperature" => measured[t][3] = Sensors!Line(points, mine[t][1])

SensorsInv ==
    /\ SensorTypes /\ Computed /\ Owned
    /\ \A t \in Thread : t \notin failures \cup mixed => Own(t)

LEMMA ReadingType ==
    ASSUME program \in {"pressure", "temperature"}, NEW r \in Readings
    PROVE  /\ r[1] \in Sensors!Signed /\ r = <<r[1], r[2]>>
           /\ r[2] \in IF program = "temperature" THEN Sensors!Signed ELSE Sensors!Long
           /\ r[1] \in Int /\ r[2] \in Int
<1> DEFINE second == IF program = "temperature" THEN Sensors!Signed ELSE Sensors!Long
<1>1. r \in Sensors!Signed \X second BY SensorAssumption DEF Readings
<1>2. Sensors!Signed \subseteq Int /\ Sensors!Long \subseteq Int BY SMT DEF Sensors!Signed, Sensors!Long
<1>3. second \subseteq Int BY <1>2
<1> HIDE DEF second
<1>4. r[1] \in Sensors!Signed /\ r = <<r[1], r[2]>> /\ r[2] \in second BY <1>1
<1>5. r[1] \in Int /\ r[2] \in Int BY <1>2, <1>3, <1>4
<1> QED BY <1>4, <1>5 DEF second

LEMMA BytesType ==
    ASSUME program \in {"pressure", "temperature"}, NEW r \in Readings
    PROVE  /\ Len(Sensors!Bytes(r)) = IF program = "temperature" THEN 4 ELSE 5
           /\ \A n \in 1..Len(Sensors!Bytes(r)) : Sensors!Bytes(r)[n] \in 0..255
           /\ Sensors!Short(Sensors!Bytes(r)[1], Sensors!Bytes(r)[2]) = r[1]
           /\ program = "temperature" => Sensors!Short(Sensors!Bytes(r)[3], Sensors!Bytes(r)[4]) = r[2]
           /\ program = "pressure" =>
                Sensors!ThreeBytes(Sensors!Bytes(r)[3], Sensors!Bytes(r)[4], Sensors!Bytes(r)[5]) = r[2]
<1> DEFINE a == r[1]
           b == r[2]
<1>1. /\ a \in Sensors!Signed /\ a \in Int /\ b \in Int
      /\ b \in IF program = "temperature" THEN Sensors!Signed ELSE Sensors!Long
  BY ReadingType
<1> DEFINE a1 == Sensors!Byte(a, 1)
           a2 == Sensors!Byte(a, 256)
           b1 == Sensors!Byte(b, 1)
           b2 == Sensors!Byte(b, 256)
           b3 == Sensors!Byte(b, 65536)
<1>2. a1 \in 0..255 /\ a2 \in 0..255 /\ b1 \in 0..255 /\ b2 \in 0..255 /\ b3 \in 0..255
  <2> HIDE DEF a, b
  <2> QED BY <1>1, ByteType
<1>3. Sensors!Short(a1, a2) = a
  <2> HIDE DEF a
  <2> QED BY <1>1, ShortOfBytes
<1>4. CASE program = "temperature"
  <2>1. Sensors!Short(b1, b2) = b
    <3> HIDE DEF b
    <3> QED BY <1>1, <1>4, ShortOfBytes
  <2>2. Sensors!Bytes(r) = <<a1, a2, b1, b2>> BY <1>4 DEF Sensors!Bytes
  <2> HIDE DEF a, b, a1, a2, b1, b2
  <2> QED BY <1>2, <1>3, <1>4, <2>1, <2>2 DEF a, b
<1>5. CASE program = "pressure"
  <2>1. Sensors!ThreeBytes(b1, b2, b3) = b
    <3> HIDE DEF b
    <3> QED BY <1>1, <1>5, LongOfBytes
  <2>2. Sensors!Bytes(r) = <<a1, a2, b1, b2, b3>> BY <1>5 DEF Sensors!Bytes
  <2> HIDE DEF a, b, a1, a2, b1, b2, b3
  <2> QED BY <1>2, <1>3, <1>5, <2>1, <2>2 DEF a, b
<1> QED BY <1>4, <1>5

LEMMA SensorsInit == ASSUME Sensors!Init PROVE SensorsInv
<1>1. \E r \in Readings : regs = Sensors!Bytes(r) BY DEF Sensors!Init, Readings
<1>2. program \in {"pressure", "temperature"} BY DEF Sensors!Init
<1>3. <<>> \in Seq(0..255) /\ Len(<<>>) = 0 BY EmptySeq
<1>4. Len(regs) >= 0 BY <1>1, <1>2, BytesType
<1>5. SensorTypes BY <1>1, <1>2, <1>3, <1>4 DEF Sensors!Init, SensorTypes
<1>6. Computed /\ Owned BY DEF Sensors!Init, Computed, Owned
<1>7. \A t \in Thread : Own(t) BY DEF Sensors!Init, Own
<1> QED BY <1>5, <1>6, <1>7 DEF SensorsInv

\* The sensor's step.
LEMMA SensorsConvert == ASSUME SensorsInv, Sensors!Convert PROVE SensorsInv'
<1>1. PICK r \in Readings :
        /\ regs' = Sensors!Bytes(r)
        /\ mine' = [t \in Thread |-> IF t \in owner THEN r ELSE mine[t]]
  BY DEF Sensors!Convert, Readings
<1>2. /\ busy /\ busy' = FALSE
      /\ UNCHANGED <<program, at, owner, points, cal, bytes, measured, failures, mixed>>
  BY DEF Sensors!Convert
<1>3. PICK u \in Thread : owner = {u} /\ at[u] = "wait" BY <1>2 DEF SensorsInv, Owned
<1>4. Readings' = Readings /\ Sensors!Active' = Sensors!Active BY <1>2 DEF Readings, Sensors!Active
<1>5. Sensors!Bytes(r)' = Sensors!Bytes(r) BY <1>2 DEF Sensors!Bytes
<1>6. SensorTypes'
  <2>1. Len(regs') = Len(regs) BY <1>1, BytesType DEF SensorsInv, SensorTypes
  <2>2. \E x \in Readings' : regs' = Sensors!Bytes(x)'
    <3>1. r \in Readings' /\ regs' = Sensors!Bytes(r)' BY <1>1, <1>4, <1>5
    <3> QED BY <3>1
  <2>3. busy' \in BOOLEAN BY <1>2
  <2>4. DOMAIN mine' = Thread BY <1>1
  <2> QED BY <1>2, <2>1, <2>2, <2>3, <2>4 DEF SensorsInv, SensorTypes
<1>7. Computed' /\ Owned' BY <1>2 DEF SensorsInv, Computed, Owned
<1>8. ASSUME NEW t \in Thread, t \notin failures' \cup mixed' PROVE Own(t)'
  <2>1. Own(t) /\ at'[t] = at[t] BY <1>2, <1>8 DEF SensorsInv
  <2>2. CASE at[t] \in {"calibrate", "read"}
    <3>1. Sensors!Active = {t} BY <2>1, <2>2 DEF Own
    <3>2. u \in Sensors!Active BY <1>3 DEF Sensors!Active
    <3> QED BY <1>3, <2>2, <3>1, <3>2
  <2>3. CASE at[t] = "wait"
    <3>1. owner = {t} /\ mine'[t] = r BY <1>1, <1>2, <2>1, <2>3 DEF Own
    <3>2. Result(t)' BY <1>1, <1>4, <1>5, <3>1 DEF Result, Sensors!Bytes
    <3> QED BY <1>2, <1>4, <2>1, <2>3, <3>2 DEF Own
  <2>4. CASE at[t] = "end"
    <3>1. mine'[t] = mine[t] BY <1>1, <1>3, <2>4
    <3> QED BY <1>2, <1>4, <2>1, <2>4, <3>1 DEF Own, Sensors!Line
  <2>5. CASE at[t] \in {"reset", "power", "start"} BY <1>2, <1>4, <2>1, <2>5 DEF Own
  <2> QED BY <2>2, <2>3, <2>4, <2>5 DEF SensorsInv, SensorTypes
<1> QED BY <1>6, <1>7, <1>8 DEF SensorsInv
LEMMA RegsType ==
    ASSUME SensorTypes
    PROVE  /\ Len(regs) \in Nat /\ Len(regs) = IF program = "temperature" THEN 4 ELSE 5
           /\ \A n \in 1..Len(regs) : regs[n] \in 0..255
<1>1. PICK r \in Readings : regs = Sensors!Bytes(r) BY DEF SensorTypes
<1>2. program \in {"pressure", "temperature"} BY DEF SensorTypes
<1>3. \A n \in 1..Len(Sensors!Bytes(r)) : Sensors!Bytes(r)[n] \in 0..255 BY <1>2, BytesType
<1>4. Len(Sensors!Bytes(r)) = IF program = "temperature" THEN 4 ELSE 5 BY <1>2, BytesType
<1> QED BY <1>1, <1>3, <1>4

\* What a thread's step leaves alone.
LEMMA StepOther ==
    ASSUME SensorTypes, NEW u \in Thread, Sensors!Step(u)
    PROVE  /\ UNCHANGED <<program, regs, mine, points>> /\ at[u] # "end"
           /\ failures \subseteq failures' /\ mixed \subseteq mixed'
           /\ at[u] = "reset" /\ Sensors!Active # {} => Sensors!Active \subseteq mixed'
           /\ \A t \in Thread \ {u} : /\ at'[t] = at[t] /\ bytes'[t] = bytes[t]
                                      /\ cal'[t] = cal[t] /\ measured'[t] = measured[t]
<1> USE DEF SensorTypes, Sensors!Fail
<1>1. CASE Sensors!Reset(u) BY <1>1 DEF Sensors!Reset
<1>2. CASE Sensors!Power(u) BY <1>2 DEF Sensors!Power
<1>3. CASE Sensors!Begin(u) BY <1>3 DEF Sensors!Begin
<1>4. CASE Sensors!Wait(u) BY <1>4 DEF Sensors!Wait
<1>5. CASE Sensors!Calibrate(u) BY <1>5 DEF Sensors!Calibrate
<1>6. CASE Sensors!ReadReg8(u) BY <1>6 DEF Sensors!ReadReg8
<1>7. CASE Sensors!Compute(u) BY <1>7 DEF Sensors!Compute
<1> QED BY <1>1, <1>2, <1>3, <1>4, <1>5, <1>6, <1>7 DEF Sensors!Step

\* A thread that stays alone is not in the middle of it when another one goes.
LEMMA OwnOther ==
    ASSUME SensorsInv, NEW u \in Thread, Sensors!Step(u),
           NEW t \in Thread, t # u, t \notin failures' \cup mixed'
    PROVE  Own(t)'
<1>1. /\ UNCHANGED <<program, regs, mine, points>> /\ at[u] # "end"
      /\ failures \subseteq failures' /\ mixed \subseteq mixed'
      /\ at[u] = "reset" /\ Sensors!Active # {} => Sensors!Active \subseteq mixed'
      /\ at'[t] = at[t] /\ bytes'[t] = bytes[t] /\ cal'[t] = cal[t] /\ measured'[t] = measured[t]
  BY StepOther DEF SensorsInv
<1>2. Own(t) /\ at \in [Thread -> {"reset", "power", "start", "wait", "calibrate", "read", "end"}]
  BY <1>1 DEF SensorsInv, SensorTypes
<1>3. at[t] \in {"reset", "end"}
  <2>1. SUFFICES ASSUME at[t] \notin {"reset", "end"} PROVE FALSE OBVIOUS
  <2>2. Sensors!Active = {t} BY <1>2, <2>1 DEF Own
  <2>3. at[u] \in {"reset", "end"} BY <2>2 DEF Sensors!Active
  <2> QED BY <1>1, <2>2, <2>3
<1> QED BY <1>1, <1>2, <1>3 DEF Own, Readings, Sensors!Line

\* The step of a thread that stays alone.
LEMMA OwnStep ==
    ASSUME SensorsInv, NEW t \in Thread, Sensors!Step(t), t \notin failures' \cup mixed'
    PROVE  Own(t)'
<1>1. /\ SensorTypes /\ UNCHANGED <<program, regs, mine, points>>
      /\ failures \subseteq failures' /\ mixed \subseteq mixed'
      /\ \A u \in Thread \ {t} : at'[u] = at[u]
  BY StepOther DEF SensorsInv
<1>2. Own(t) BY <1>1 DEF SensorsInv
<1>3. /\ at \in [Thread -> {"reset", "power", "start", "wait", "calibrate", "read", "end"}]
      /\ DOMAIN cal = Thread /\ DOMAIN measured = Thread
      /\ bytes \in [Thread -> Seq(0..255)] /\ program \in {"pressure", "temperature"}
  BY <1>1 DEF SensorTypes
<1>4. Result(t)' = Result(t) BY <1>1 DEF Result, Readings, Sensors!Bytes
<1>5. ASSUME at[t] \notin {"reset", "end"} PROVE Sensors!Active' \subseteq {t}
  <2>1. Sensors!Active = {t} BY <1>2, <1>5 DEF Own
  <2>2. \A u \in Thread \ {t} : at[u] \in {"reset", "end"} BY <2>1 DEF Sensors!Active
  <2> QED BY <1>1, <2>2 DEF Sensors!Active
<1>6. ASSUME at'[t] \notin {"reset", "end"} PROVE t \in Sensors!Active' BY <1>6 DEF Sensors!Active
<1>7. CASE Sensors!Reset(t)
  <2>1. at' = [at EXCEPT ![t] = "power"] /\ at[t] = "reset" /\ bytes' = bytes
        /\ mixed' = IF Sensors!Active = {} THEN mixed ELSE mixed \cup Sensors!Active \cup {t}
    BY <1>7 DEF Sensors!Reset
  <2>2. Sensors!Active = {} BY <2>1
  <2>3. Sensors!Active' \subseteq {t} BY <1>1, <2>2 DEF Sensors!Active
  <2>4. at'[t] = "power" BY <1>3, <2>1
  <2>5. Sensors!Active' = {t} BY <1>6, <2>3, <2>4
  <2> QED BY <1>2, <2>1, <2>4, <2>5 DEF Own
<1>8. CASE Sensors!Power(t)
  <2>1. at'[t] = "start" /\ at[t] = "power" /\ bytes' = bytes BY <1>3, <1>8 DEF Sensors!Power
  <2> QED BY <1>2, <1>5, <1>6, <2>1 DEF Own
<1>9. CASE Sensors!Begin(t)
  <2>1. at'[t] = "wait" /\ at[t] = "start" /\ bytes' = bytes BY <1>3, <1>9 DEF Sensors!Begin
  <2>2. busy' = TRUE /\ owner' = {t} BY <1>9 DEF Sensors!Begin, Sensors!Fail
  <2> QED BY <1>2, <1>5, <1>6, <2>1, <2>2 DEF Own
<1>10. CASE Sensors!Wait(t)
  <2>1. at'[t] = (IF program = "temperature" THEN "calibrate" ELSE "read") /\ at[t] = "wait"
        /\ bytes' = bytes /\ ~busy
    BY <1>3, <1>10 DEF Sensors!Wait
  <2>2. Result(t) /\ bytes[t] = <<>> /\ Len(<<>>) = 0 BY <1>2, <2>1, EmptySeq DEF Own
  <2> QED BY <1>1, <1>4, <1>5, <1>6, <2>1, <2>2 DEF Own
<1>11. CASE Sensors!Calibrate(t)
  <2>1. at'[t] = "read" /\ at[t] = "calibrate" /\ bytes' = bytes BY <1>3, <1>11 DEF Sensors!Calibrate
  <2>2. cal'[t] = Sensors!Points(Sensors!CalBytes(points))
    BY <1>3, <1>11 DEF Sensors!Calibrate, Sensors!Fail
  <2>3. cal'[t] = points BY <1>1, <2>2, PointsOfBytes, SensorAssumption DEF SensorTypes
  <2>4. Result(t) /\ bytes[t] = <<>> /\ Len(<<>>) = 0 BY <1>2, <2>1, EmptySeq DEF Own
  <2> QED BY <1>1, <1>4, <1>5, <1>6, <2>1, <2>3, <2>4 DEF Own
<1>12. CASE Sensors!ReadReg8(t)
  <2> DEFINE n == Len(bytes[t]) + 1
  <2>1. at' = at /\ cal' = cal /\ at[t] = "read" /\ n <= Len(regs) BY <1>12 DEF Sensors!ReadReg8
  <2>2. bytes'[t] = Append(bytes[t], regs[n]) BY <1>3, <1>12 DEF Sensors!ReadReg8, Sensors!Fail
  <2>3. Result(t) /\ \A i \in 1..Len(bytes[t]) : bytes[t][i] = regs[i] BY <1>2, <2>1 DEF Own
  <2>4. regs[n] \in 0..255
    <3>1. Len(bytes[t]) \in Nat BY <1>3, LenProperties
    <3>2. n \in 1..Len(regs) BY <1>1, <2>1, <3>1, RegsType
    <3> HIDE DEF n
    <3> QED BY <1>1, <3>2, RegsType
  <2>5. /\ Len(Append(bytes[t], regs[n])) = n /\ Append(bytes[t], regs[n])[n] = regs[n]
        /\ \A i \in 1..Len(bytes[t]) : Append(bytes[t], regs[n])[i] = bytes[t][i]
        /\ Len(bytes[t]) \in Nat
    BY <1>3, <2>4, AppendProperties, LenProperties
  <2>6. \A i \in 1..n : i \in 1..Len(bytes[t]) \/ i = n BY <2>5
  <2>7. \A i \in 1..n : Append(bytes[t], regs[n])[i] = regs[i] BY <2>3, <2>5, <2>6
  <2>8. program = "temperature" => cal[t] = points BY <1>2, <2>1 DEF Own
  <2> QED BY <1>1, <1>4, <1>5, <1>6, <2>1, <2>2, <2>3, <2>5, <2>7, <2>8 DEF Own
<1>13. CASE Sensors!Compute(t)
  <2> DEFINE b == bytes[t]
             x == Sensors!Short(b[1], b[2])
             r == mine[t]
  <2>1. at'[t] = "end" /\ at[t] = "read" /\ Len(b) = Len(regs) BY <1>3, <1>13 DEF Sensors!Compute
  <2>2. /\ program = "temperature" => measured'[t] = <<x, Sensors!Short(b[3], b[4]), Sensors!Line(cal[t], x)>>
        /\ program = "pressure" => measured'[t] = <<x, Sensors!ThreeBytes(b[3], b[4], b[5])>>
    BY <1>3, <1>13 DEF Sensors!Compute
  <2>3. /\ r \in Readings /\ regs = Sensors!Bytes(r) /\ \A i \in 1..Len(regs) : b[i] = regs[i]
        /\ program = "temperature" => cal[t] = points
    BY <1>2, <2>1 DEF Own, Result
  <2> HIDE DEF r, b
  <2>4. r = <<r[1], r[2]>> BY <1>3, <2>3, ReadingType
  <2>5. Len(regs) = (IF program = "temperature" THEN 4 ELSE 5) /\ Sensors!Short(regs[1], regs[2]) = r[1]
    BY <1>3, <2>3, BytesType
  <2>6. x = r[1] BY <1>3, <2>3, <2>5
  <2>7. CASE program = "temperature"
    <3>1. Sensors!Short(b[3], b[4]) = r[2] BY <1>3, <2>3, <2>5, <2>7, BytesType
    <3> HIDE DEF x
    <3>2. measured'[t] = <<r[1], r[2], Sensors!Line(points, r[1])>> BY <2>2, <2>3, <2>6, <2>7, <3>1
    <3>3. r \in Readings' /\ r = mine'[t] BY <1>1, <2>3 DEF Readings, r
    <3>4. <<measured'[t][1], measured'[t][2]>> = r /\ measured'[t][3] = Sensors!Line(points, r[1])
      BY <2>4, <3>2
    <3> QED BY <1>1, <2>1, <3>3, <3>4 DEF Own, Sensors!Line
  <2>8. CASE program = "pressure"
    <3>1. Sensors!ThreeBytes(b[3], b[4], b[5]) = r[2]
      <4>1. Sensors!ThreeBytes(regs[3], regs[4], regs[5]) = r[2] BY <1>3, <2>3, <2>8, BytesType
      <4>2. b[5] = regs[5] /\ b[4] = regs[4] /\ b[3] = regs[3] BY <2>3, <2>5, <2>8
      <4> QED BY <4>1, <4>2
    <3> HIDE DEF x
    <3>2. measured'[t] = <<r[1], r[2]>> BY <2>2, <2>6, <2>8, <3>1
    <3>3. r \in Readings' /\ r = mine'[t] BY <1>1, <2>3 DEF Readings, r
    <3>4. <<measured'[t][1], measured'[t][2]>> = r BY <2>4, <3>2
    <3> QED BY <1>1, <2>1, <2>8, <3>3, <3>4 DEF Own
  <2> QED BY <1>3, <2>7, <2>8
<1> QED BY <1>7, <1>8, <1>9, <1>10, <1>11, <1>12, <1>13 DEF Sensors!Step

\* Types, whatever the other threads do.
LEMMA SensorsStepTypes ==
    ASSUME SensorsInv, NEW t \in Thread, Sensors!Step(t) PROVE SensorTypes' /\ Computed'
<1>1. /\ SensorTypes /\ UNCHANGED <<program, regs, mine, points>> /\ Readings' = Readings
  BY StepOther DEF SensorsInv, Readings
<1>2. /\ at \in [Thread -> {"reset", "power", "start", "wait", "calibrate", "read", "end"}]
      /\ DOMAIN cal = Thread /\ DOMAIN measured = Thread /\ busy \in BOOLEAN
      /\ bytes \in [Thread -> Seq(0..255)] /\ program \in {"pressure", "temperature"}
      /\ \A u \in Thread : Len(bytes[u]) <= Len(regs)
  BY <1>1 DEF SensorTypes
<1>3. PICK r \in Readings : regs = Sensors!Bytes(r) BY <1>1 DEF SensorTypes
<1>4. /\ Len(regs) \in Nat /\ \A i \in 1..Len(regs) : regs[i] \in 0..255
      /\ Len(regs) = IF program = "temperature" THEN 4 ELSE 5
  BY <1>1, RegsType
<1>5. \E x \in Readings' : regs' = Sensors!Bytes(x)'
  <2>1. r \in Readings' /\ regs' = Sensors!Bytes(r)' BY <1>1, <1>3 DEF Sensors!Bytes
  <2> QED BY <2>1
<1>6. ASSUME /\ at' \in [Thread -> {"reset", "power", "start", "wait", "calibrate", "read", "end"}]
             /\ DOMAIN cal' = Thread /\ busy' \in BOOLEAN
             /\ UNCHANGED <<bytes, measured>>
      PROVE  SensorTypes' /\ Computed'
  BY <1>1, <1>2, <1>5, <1>6 DEF SensorsInv, SensorTypes, Computed
<1>7. CASE Sensors!Reset(t) \/ Sensors!Power(t) \/ Sensors!Begin(t) \/ Sensors!Wait(t) \/ Sensors!Calibrate(t)
  <2>1. /\ UNCHANGED <<bytes, measured>> /\ DOMAIN cal' = Thread /\ busy' \in BOOLEAN
    BY <1>2, <1>7 DEF Sensors!Reset, Sensors!Power, Sensors!Begin, Sensors!Wait, Sensors!Calibrate
  <2>2. \E p \in {"power", "start", "wait", "calibrate", "read"} : at' = [at EXCEPT ![t] = p]
    BY <1>7 DEF Sensors!Reset, Sensors!Power, Sensors!Begin, Sensors!Wait, Sensors!Calibrate
  <2>3. at' \in [Thread -> {"reset", "power", "start", "wait", "calibrate", "read", "end"}]
    BY <1>2, <2>2
  <2> QED BY <1>6, <2>1, <2>3
<1>8. CASE Sensors!ReadReg8(t)
  <2> DEFINE n == Len(bytes[t]) + 1
  <2>1. UNCHANGED <<at, cal, busy, measured>> /\ n <= Len(regs) BY <1>8 DEF Sensors!ReadReg8
  <2>2. Len(bytes[t]) \in Nat /\ regs[n] \in 0..255
    <3>1. Len(bytes[t]) \in Nat BY <1>2, LenProperties
    <3>2. n \in 1..Len(regs) BY <1>4, <2>1, <3>1
    <3> HIDE DEF n
    <3> QED BY <1>4, <3>1, <3>2
  <2>3. PICK v \in 0..255 : bytes' = [bytes EXCEPT ![t] = Append(bytes[t], v)]
    <3>1. \/ bytes' = [bytes EXCEPT ![t] = Append(bytes[t], regs[n])]
          \/ bytes' = [bytes EXCEPT ![t] = Append(bytes[t], 255)]
      BY <1>8 DEF Sensors!ReadReg8
    <3>2. regs[n] \in 0..255 /\ 255 \in 0..255 BY <2>2
    <3> HIDE DEF n
    <3> QED BY <3>1, <3>2, Zenon
  <2>4. Append(bytes[t], v) \in Seq(0..255) /\ Len(Append(bytes[t], v)) = n
    BY <1>2, AppendProperties
  <2>5. bytes' \in [Thread -> Seq(0..255)] BY <1>2, <2>3, <2>4
  <2>6. \A u \in Thread : Len(bytes'[u]) <= Len(regs) BY <1>2, <2>1, <2>3, <2>4
  <2> QED BY <1>1, <1>2, <1>5, <2>1, <2>5, <2>6 DEF SensorsInv, SensorTypes, Computed
<1>9. CASE Sensors!Compute(t)
  <2> DEFINE b == bytes[t]
             x == Sensors!Short(b[1], b[2])
  <2>1. at' = [at EXCEPT ![t] = "end"] /\ UNCHANGED <<bytes, cal, busy>> /\ Len(b) = Len(regs)
    BY <1>9 DEF Sensors!Compute
  <2> DEFINE m == IF program = "temperature"
                  THEN <<x, Sensors!Short(b[3], b[4]), Sensors!Line(cal[t], x)>>
                  ELSE <<x, Sensors!ThreeBytes(b[3], b[4], b[5])>>
  <2>2. measured' = [measured EXCEPT ![t] = m] BY <1>9 DEF Sensors!Compute
  <2>3. \A i \in 1..Len(regs) : b[i] \in 0..255
    <3>1. b \in Seq(0..255) BY <1>2
    <3> HIDE DEF b
    <3> QED BY <2>1, <3>1, ElementOfSeq
  <2> HIDE DEF b
  <2>4. b[1] \in 0..255 /\ b[2] \in 0..255 /\ b[3] \in 0..255 /\ b[4] \in 0..255
    <3>1. \A i \in 1..4 : i \in 1..Len(regs) BY <1>4
    <3> QED BY <2>3, <3>1
  <2>5. x \in Sensors!Signed /\ Sensors!Short(b[3], b[4]) \in Sensors!Signed BY <2>4, ShortType
  <2>6. program = "pressure" => Sensors!ThreeBytes(b[3], b[4], b[5]) \in Sensors!Long
    <3>1. SUFFICES ASSUME program = "pressure" PROVE Sensors!ThreeBytes(b[3], b[4], b[5]) \in Sensors!Long
      OBVIOUS
    <3>2. b[5] \in 0..255 BY <1>4, <2>3, <3>1
    <3> QED BY <2>4, <3>2, LongType
  <2> HIDE DEF x
  <2>7. m[1] \in Sensors!Signed /\ m[2] \in IF program = "temperature" THEN Sensors!Signed ELSE Sensors!Long
    BY <1>2, <2>5, <2>6
  <2> HIDE DEF m
  <2>8. Computed' BY <1>1, <1>2, <2>2, <2>7 DEF SensorsInv, Computed
  <2> QED BY <1>1, <1>2, <1>5, <2>1, <2>2, <2>8 DEF SensorTypes
<1> QED BY <1>7, <1>8, <1>9 DEF Sensors!Step

LEMMA SensorsStep == ASSUME SensorsInv, NEW t \in Thread, Sensors!Step(t) PROVE SensorsInv'
<1>1. Owned'
  <2>1. at \in [Thread -> {"reset", "power", "start", "wait", "calibrate", "read", "end"}]
    BY DEF SensorsInv, SensorTypes
  <2>2. CASE Sensors!Begin(t)
    BY <2>1, <2>2 DEF SensorsInv, Owned, Sensors!Begin, Sensors!Fail
  <2>3. CASE Sensors!Wait(t) BY <2>3 DEF Owned, Sensors!Wait
  <2>4. ASSUME UNCHANGED <<busy, owner>>, at[t] # "wait",
               \E p \in {"power", "start", "read", "end"} : at' = [at EXCEPT ![t] = p]
        PROVE  Owned'
    BY <2>1, <2>4 DEF SensorsInv, Owned
  <2>5. CASE Sensors!Reset(t) BY <2>4, <2>5 DEF Sensors!Reset
  <2>6. CASE Sensors!Power(t) BY <2>4, <2>6 DEF Sensors!Power
  <2>7. CASE Sensors!Calibrate(t) BY <2>4, <2>7 DEF Sensors!Calibrate
  <2>8. CASE Sensors!ReadReg8(t) BY <2>8 DEF SensorsInv, Owned, Sensors!ReadReg8
  <2>9. CASE Sensors!Compute(t) BY <2>4, <2>9 DEF Sensors!Compute
  <2> QED BY <2>2, <2>3, <2>5, <2>6, <2>7, <2>8, <2>9 DEF Sensors!Step
<1>2. SensorTypes' /\ Computed' BY SensorsStepTypes
<1>3. \A u \in Thread : u \notin failures' \cup mixed' => Own(u)' BY OwnStep, OwnOther
<1> QED BY <1>1, <1>2, <1>3 DEF SensorsInv

LEMMA SensorsFrame == ASSUME SensorsInv, UNCHANGED <<program, ofSensors>> PROVE SensorsInv'
<1>1. UNCHANGED <<program, at, power, busy, owner, regs, mine, points, cal, bytes, measured, failures, mixed>>
  BY DEF ofSensors
<1>2. \A r : Sensors!Bytes(r)' = Sensors!Bytes(r) BY <1>1 DEF Sensors!Bytes
<1>3. Readings' = Readings /\ Sensors!Active' = Sensors!Active BY <1>1 DEF Readings, Sensors!Active
<1>4. \A t \in Thread : Result(t)' = Result(t) BY <1>1, <1>2, <1>3 DEF Result, Sensors!Bytes
<1>5. SensorTypes'
  <2>1. PICK r \in Readings : regs = Sensors!Bytes(r) BY DEF SensorsInv, SensorTypes
  <2>2. r \in Readings' /\ regs' = Sensors!Bytes(r)' BY <1>1, <1>3, <2>1 DEF Sensors!Bytes
  <2> QED BY <1>1, <2>2 DEF SensorsInv, SensorTypes
<1>6. Computed' /\ Owned' BY <1>1 DEF SensorsInv, Computed, Owned
<1>7. \A t \in Thread : Own(t) => Own(t)' BY <1>1, <1>3, <1>4 DEF Own, Sensors!Line
<1> QED BY <1>1, <1>5, <1>6, <1>7 DEF SensorsInv

LEMMA SensorsInvImplies == ASSUME SensorsInv PROVE Sensors!TypeOK /\ Sensors!Measured
<1>1. Sensors!TypeOK
  <2>1. ASSUME NEW t \in Thread, NEW n \in DOMAIN bytes[t] PROVE bytes[t][n] \in 0..255
    <3>1. bytes[t] \in Seq(0..255) BY DEF SensorsInv, SensorTypes
    <3> QED BY ZenonT(30), <3>1, LenProperties, ElementOfSeq
  <2> QED BY <2>1 DEF SensorsInv, SensorTypes, Computed, Sensors!TypeOK
<1>2. ASSUME NEW t \in Thread, at[t] = "end", t \notin failures \cup mixed
      PROVE  /\ <<measured[t][1], measured[t][2]>> = mine[t]
             /\ program = "temperature" =>
                  LET x == mine[t][1]
                      y == measured[t][3]
                  IN  /\ y = Sensors!Undefined <=> points[1] = points[3]
                      /\ points[1] < points[3] /\ points[2] <= points[4] /\ x \in points[1]..points[3] =>
                           Sensors!Between(points[2], y, points[4])
                      /\ \A n \in {1, 3} : x = points[n] /\ y # Sensors!Undefined =>
                           y[1] = points[n + 1] * y[2]
  <2>1. /\ mine[t] \in Readings /\ <<measured[t][1], measured[t][2]>> = mine[t]
        /\ program = "temperature" => measured[t][3] = Sensors!Line(points, mine[t][1])
    BY <1>2 DEF SensorsInv, Own
  <2>2. points \in Sensors!Signed \X Sensors!Ten \X Sensors!Signed \X Sensors!Ten
    BY SensorAssumption DEF SensorsInv, SensorTypes
  <2>3. mine[t][1] \in Sensors!Signed BY <2>1, ReadingType DEF SensorsInv, SensorTypes
  <2> QED BY <2>1, <2>2, <2>3, LineIs
<1> QED BY <1>1, <1>2 DEF Sensors!Measured

-----------------------------------------------------------------------------
(* list.c: any tree, any directories that cannot be read or entered,       *)
(* however many entries are removed meanwhile.                             *)

Call == [dir : Dirs, todo : SUBSET (STRING \cup {"."}),
         stat : Tree \cup {Listing!Nothing}, dirName : Seq(STRING)]

ListTypes ==
    /\ program = "list" /\ pc \in {"open", "chdir", "read", "close", "end", "crashed"}
    /\ argv \in Args /\ exists \subseteq Tree /\ cwd \in Dirs \cup {Listing!Outside}
    /\ frames \in Seq(Call) /\ Len(frames) <= MaxOpen

\* A call that has called another one has a subdirectory it is called for, and
\* nothing is opened from outside the tree.
Calls ==
    /\ pc \in {"chdir", "read", "close"} => frames # <<>>
    /\ pc = "end" => frames = <<>>
    /\ pc \in {"chdir", "read"} => cwd \in Dirs
    /\ pc = "open" /\ frames = <<>> => cwd = Listing!Start
    /\ \A n \in 1..Len(frames) :
         n < Len(frames) \/ pc = "open" => frames[n].dirName # <<>>

LinesRight ==
    \A l \in lines : l.stat # l.of => l.of \notin exists \/ Listing!Barred # {}

\* Unless there is a directory it cannot go into, the process is where its
\* innermost call is, and each call is for a subdirectory of the one before.
OnPath ==
    /\ pc = "end" /\ Len(argv) = 1 => cwd = Listing!Start
    /\ pc # "chdir" /\ frames # <<>> => cwd = frames[Len(frames)].dir
    /\ frames # <<>> => frames[1].dir = argv
    /\ \A n \in 1..Len(frames) - 1 :
         frames[n + 1].dir = Append(frames[n].dir, Head(frames[n].dirName))

\* When all can be read, nothing is removed and the descriptors suffice.
Good ==
    /\ Listing!Barred \cup secret = {} /\ exists = Tree
    /\ \A d \in Dirs : Len(d) < MaxOpen + Len(argv)

Shown(p) == \E l \in lines : l.of = p

\* The entries of a call's directory are fetched as soon as it is entered.
Coming(n) == pc = "chdir" /\ n = Len(frames)

Deep == \A n \in 1..Len(frames) : Len(frames[n].dir) = Len(argv) + n - 1

Fetched ==
    \A n \in 1..Len(frames) :
      /\ Coming(n) \/ "." \in frames[n].todo \/ Shown(frames[n].dir)
      /\ \A c \in STRING : Append(frames[n].dir, c) \in Tree =>
           Coming(n) \/ c \in frames[n].todo \/ Shown(Append(frames[n].dir, c))

Fetching ==
    /\ \A n \in 1..Len(frames) : \A c \in frames[n].todo :
         c = "." \/ Append(frames[n].dir, c) \in Tree
    /\ \A n \in 1..Len(frames) : n < Len(frames) \/ pc \in {"open", "close"} => frames[n].todo = {}
    /\ pc = "close" => frames[Len(frames)].dirName = <<>>

\* The names in dirName are those of directories.
Awaited(q) == \E n \in 1..Len(frames) : \E i \in 1..Len(frames[n].dirName) :
                Append(frames[n].dir, frames[n].dirName[i]) = q

Named == \A n \in 1..Len(frames) : \A i \in 1..Len(frames[n].dirName) :
           Append(frames[n].dir, frames[n].dirName[i]) \in Dirs

\* A directory that has been shown is gone into.
Entered ==
    \A q \in Dirs : Shown(q) =>
      \/ \A c \in STRING : Append(q, c) \in Tree => Shown(Append(q, c))
      \/ \E n \in 1..Len(frames) : frames[n].dir = q
      \/ Awaited(q)

Begun == pc = "end" => Shown(argv)

Complete == Deep /\ Fetched /\ Fetching /\ Named /\ Entered /\ Begun

ListInv ==
    /\ ListTypes /\ Calls /\ LinesRight
    /\ Listing!Barred = {} => OnPath
    /\ Good /\ pc # "crashed" => Complete

USE DEF Listing!Start, Listing!Outside, Listing!Nothing, Listing!Top, Listing!Depth, Listing!Last

\* A path and the name at its end.
LEMMA PathAppend ==
    ASSUME NEW d \in Seq(STRING), NEW c \in STRING
    PROVE  /\ Append(d, c) \in Seq(STRING) /\ Append(d, c) # <<>>
           /\ Len(Append(d, c)) = Len(d) + 1 /\ Append(d, c)[Len(d) + 1] = c
           /\ Listing!Front(Append(d, c)) = d
<1>1. /\ Append(d, c) \in Seq(STRING) /\ Append(d, c) # <<>>
      /\ Len(Append(d, c)) = Len(d) + 1 /\ Append(d, c)[Len(d) + 1] = c
      /\ \A i \in 1..Len(d) : Append(d, c)[i] = d[i]
  <2>1. Append(d, c) \in Seq(STRING) BY AppendProperties
  <2>2. Append(d, c) # <<>> BY AppendProperties
  <2>3. Len(Append(d, c)) = Len(d) + 1 BY AppendProperties
  <2>4. Append(d, c)[Len(d) + 1] = c BY AppendProperties
  <2>5. \A i \in 1..Len(d) : Append(d, c)[i] = d[i] BY AppendProperties
  <2> QED BY <2>1, <2>2, <2>3, <2>4, <2>5
<1> DEFINE e == Append(d, c)
           f == SubSeq(e, 1, Len(d))
<1>2. Len(d) \in Nat BY LenProperties
<1>3. \A i \in 1..Len(d) : e[i] \in STRING BY <1>1, ElementOfSeq
<1> HIDE DEF e
<1>4. f \in Seq(STRING) /\ Len(f) = (IF 1 <= Len(d) THEN Len(d) - 1 + 1 ELSE 0)
      /\ \A i \in 1..Len(d) - 1 + 1 : f[i] = e[1 + i - 1]
  BY <1>2, <1>3, SubSeqProperties
<1>5. Len(f) = Len(d) /\ \A i \in 1..Len(f) : f[i] = d[i]
  <2>1. Len(f) = Len(d) BY <1>2, <1>4
  <2>2. \A i \in 1..Len(d) : f[i] = e[i] BY <1>2, <1>4
  <2> QED BY <1>1, <2>1, <2>2 DEF e
<1>6. f = d BY <1>4, <1>5, SeqEqual
<1>7. Listing!Front(e) = f
  <2>1. Len(e) - 1 = Len(d) BY <1>1, <1>2 DEF e
  <2> QED BY <2>1 DEF Listing!Front
<1> QED BY <1>1, <1>6, <1>7 DEF e

\* Every entry but the start is one of a directory.
LEMMA TreeEntry ==
    ASSUME NEW p \in Tree, p # <<>>
    PROVE  /\ p \in Seq(STRING) /\ Len(p) \in Nat \ {0} /\ p[Len(p)] # ".."
           /\ Listing!Front(p) \in Dirs /\ p[Len(p)] \in STRING /\ p[Len(p)] # "."
           /\ p = Append(Listing!Front(p), p[Len(p)]) /\ Len(Listing!Front(p)) = Len(p) - 1
<1>1. p \in Seq(STRING) /\ Len(p) \in Nat \ {0} BY TreeAssumption, EmptySeq
<1>2. p[Len(p)] # ".." /\ Listing!Front(p) \in Dirs /\ p[Len(p)] # "."
  BY TreeAssumption DEF Listing!Front
<1>3. PICK d \in Seq(STRING), c \in STRING : p = Append(d, c) BY <1>1, SequenceEmptyOrAppend
<1>4. Len(p) = Len(d) + 1 /\ p[Len(d) + 1] = c /\ Listing!Front(p) = d BY <1>3, PathAppend
<1>5. Len(d) \in Nat BY LenProperties
<1> QED BY <1>1, <1>2, <1>3, <1>4, <1>5

LEMMA DirTypes == /\ Dirs \subseteq Tree /\ Tree \subseteq Seq(STRING) /\ Dirs \subseteq Seq(STRING)
                  /\ <<>> \in Dirs /\ Args \subseteq Dirs /\ <<"..">> \notin Tree
<1>1. <<"..">> # <<>> /\ Len(<<"..">>) = 1 /\ <<"..">>[1] = ".." OBVIOUS
<1>2. <<"..">> \notin Tree BY <1>1, TreeEntry
<1> QED BY <1>2, TreeAssumption

\* The entries of a directory.
LEMMA ChildrenAre ==
    ASSUME exists \subseteq Tree, NEW d \in Seq(STRING)
    PROVE  /\ Listing!Children(d) \subseteq STRING
           /\ \A c \in STRING : c \in Listing!Children(d) <=> Append(d, c) \in exists
<1>1. ASSUME NEW c \in Listing!Children(d) PROVE c \in STRING /\ Append(d, c) \in exists
  <2>1. PICK p \in Tree \ {<<>>} : c = p[Len(p)] BY DEF Listing!Children
  <2> QED BY <2>1, TreeEntry DEF Listing!Children
<1>2. ASSUME NEW c \in STRING, Append(d, c) \in exists PROVE c \in Listing!Children(d)
  <2> DEFINE p == Append(d, c)
  <2>1. p \in Tree /\ p # <<>> /\ Len(p) = Len(d) + 1 /\ p[Len(d) + 1] = c BY <1>2, PathAppend
  <2>2. p[Len(p)] = c BY <2>1
  <2> HIDE DEF p
  <2> QED BY <1>2, <2>1, <2>2 DEF p, Listing!Children
<1> QED BY <1>1, <1>2

\* What a call is, and how the stack of calls changes.
LEMMA CallIs ==
    ASSUME ListTypes, NEW n \in 1..Len(frames)
    PROVE  /\ frames[n] \in Call /\ frames[n].dir \in Dirs /\ frames[n].dir \in Seq(STRING)
           /\ frames[n].todo \subseteq STRING \cup {"."}
           /\ frames[n].dirName \in Seq(STRING) /\ frames[n].stat \in Tree \cup {Listing!Nothing}
<1>1. frames[n] \in Call BY ElementOfSeq DEF ListTypes
<1> QED BY <1>1, DirTypes DEF Call

LEMMA TopIs ==
    ASSUME ListTypes, frames # <<>>
    PROVE  Len(frames) \in Nat \ {0} /\ Len(frames) \in 1..Len(frames)
<1>1. Len(frames) \in Nat \ {0} BY EmptySeq DEF ListTypes
<1> QED BY <1>1

LEMMA SetTopIs ==
    ASSUME ListTypes, frames # <<>>, NEW f \in Call, Listing!SetTop(f)
    PROVE  /\ frames' \in Seq(Call) /\ Len(frames') = Len(frames) /\ frames' # <<>>
           /\ frames'[Len(frames)] = f
           /\ \A n \in 1..Len(frames) : n # Len(frames) => frames'[n] = frames[n]
<1>1. frames \in Seq(Call) BY DEF ListTypes
<1>2. Len(frames) \in Nat \ {0} /\ Len(frames) \in 1..Len(frames) BY TopIs
<1>3. frames' = [frames EXCEPT ![Len(frames)] = f] BY DEF Listing!SetTop
<1> DEFINE d == Len(frames)
           g == [frames EXCEPT ![d] = f]
<1> HIDE DEF d
<1>4. d \in 1..Len(frames) BY <1>2 DEF d
<1>5. g \in Seq(Call) /\ Len(g) = Len(frames) /\ \A n \in 1..Len(frames) : g[n] = IF n = d THEN f ELSE frames[n]
  BY <1>1, <1>4, ExceptSeq
<1>6. frames' = g BY <1>3 DEF d
<1> HIDE DEF g
<1>7. Len(frames') = Len(frames) /\ Len(frames') # 0 BY <1>2, <1>5, <1>6
<1>8. frames' # <<>> BY <1>7, EmptySeq
<1> QED BY <1>4, <1>5, <1>6, <1>7, <1>8 DEF d

LEMMA FirstOf == ASSUME NEW s \in Seq(STRING), s # <<>>
                 PROVE  /\ Len(s) \in Nat \ {0} /\ Head(s) = s[1] /\ s[1] \in STRING
                        /\ Tail(s) \in Seq(STRING) /\ Len(Tail(s)) = Len(s) - 1
                        /\ \A i \in 1..Len(Tail(s)) : Tail(s)[i] = s[i + 1]
<1>1. Len(s) \in Nat \ {0} BY EmptySeq
<1>2. s[1] \in STRING BY <1>1, ElementOfSeq
<1>3. /\ Tail(s) \in Seq(STRING) /\ Len(Tail(s)) = Len(s) - 1
      /\ \A i \in 1..Len(Tail(s)) : Tail(s)[i] = s[i + 1]
  BY HeadTailProperties
<1> QED BY <1>1, <1>2, <1>3

LEMMA ListInit == ASSUME Listing!Init PROVE ListInv
<1>1. frames = <<>> /\ Len(frames) = 0 /\ frames \in Seq(Call) BY EmptySeq DEF Listing!Init
<1>2. ListTypes BY <1>1, BoundsAssumption, DirTypes DEF Listing!Init, ListTypes
<1>3. Calls /\ LinesRight /\ OnPath BY <1>1 DEF Listing!Init, Calls, LinesRight, OnPath
<1>4. Complete
  BY <1>1 DEF Listing!Init, Complete, Deep, Fetched, Fetching, Named, Entered, Begun, Shown
<1> QED BY <1>2, <1>3, <1>4 DEF ListInv

\* A directory that is to be opened can be, when all is well.
LEMMA OpendirGood ==
    ASSUME ListInv, pc = "open", Good
    PROVE  /\ Listing!Found(Listing!Target) /\ Listing!Target \in Dirs \ secret
           /\ Len(frames) < MaxOpen
<1>1. ListTypes /\ Calls /\ OnPath /\ Complete BY DEF ListInv, Good
<1>2. closed = {} /\ secret = {} /\ exists = Tree /\ \A d \in Dirs : Len(d) < MaxOpen + Len(argv)
  BY DEF Good, Listing!Barred
<1>a. argv \in Dirs /\ Len(argv) \in Nat /\ MaxOpen \in Nat
  BY <1>1, DirTypes, LenProperties, BoundsAssumption DEF ListTypes
<1>3. CASE frames = <<>>
  <2>1. Listing!Target = argv /\ Len(frames) = 0 BY <1>3 DEF Listing!Target
  <2>2. 0 < MaxOpen BY <1>2, <1>a
  <2> QED BY <1>2, <1>a, <2>1, <2>2, DirTypes DEF Listing!Found
<1>4. CASE frames # <<>>
  <2> DEFINE D == Len(frames)
             s == frames[D].dirName
  <2>1. D \in Nat \ {0} /\ D \in 1..D BY <1>1, <1>4, TopIs
  <2>2. s \in Seq(STRING) /\ s # <<>> /\ frames[D].dir \in Seq(STRING) BY <1>1, <2>1, CallIs DEF Calls
  <2>3. Listing!Target = Append(cwd, s[1]) /\ s[1] \in STRING /\ 1 \in 1..Len(s)
    BY <1>4, <2>2, FirstOf DEF Listing!Target
  <2>4. cwd = frames[D].dir /\ Len(frames[D].dir) = Len(argv) + D - 1
    BY <1>1, <1>4, <2>1 DEF OnPath, Complete, Deep
  <2>5. Append(frames[D].dir, s[1]) \in Dirs BY <1>1, <2>1, <2>3 DEF Complete, Named
  <2>6. Len(Append(frames[D].dir, s[1])) = Len(argv) + D - 1 + 1 BY <2>2, <2>3, <2>4, PathAppend
  <2>7. Len(argv) + D - 1 + 1 < MaxOpen + Len(argv) BY <1>2, <2>5, <2>6
  <2> HIDE DEF D
  <2>8. D < MaxOpen BY <1>a, <2>1, <2>7
  <2> QED BY <1>2, <2>3, <2>4, <2>5, <2>8, DirTypes DEF Listing!Found, D
<1> QED BY <1>3, <1>4

LEMMA ListOpendir == ASSUME ListInv, Listing!Opendir PROVE ListInv'
<1> DEFINE dir == Listing!Target
           a == Head(frames[Len(frames)].dirName)
           D == Len(frames)
           call == [dir |-> dir, todo |-> {}, stat |-> Listing!Nothing, dirName |-> <<>>]
<1>1. ListTypes /\ Calls /\ LinesRight /\ (Listing!Barred = {} => OnPath) /\ pc = "open" BY DEF ListInv, Listing!Opendir
<1>2. UNCHANGED <<program, argv, exists, closed, secret, foreign, cwd, lines>> BY DEF Listing!Opendir
<1>3. Listing!Barred' = Listing!Barred /\ Good' = Good /\ LinesRight'
  BY <1>1, <1>2 DEF Listing!Barred, Good, LinesRight
<1>4. CASE frames' = Append(frames, call) /\ pc' = "chdir" /\ dir \in Dirs /\ D < MaxOpen
  <2>1. ASSUME frames # <<>> PROVE a \in STRING /\ dir = Append(cwd, a)
    <3>1. D \in 1..D BY <1>1, <2>1, TopIs
    <3>2. frames[D].dirName \in Seq(STRING) /\ frames[D].dirName # <<>> BY <1>1, <3>1, CallIs DEF Calls
    <3> QED BY <2>1, <3>2, FirstOf DEF Listing!Target
  <2>2. frames = <<>> => dir = argv /\ cwd = <<>> BY <1>1 DEF Calls, Listing!Target
  <2>3. cwd \in Dirs /\ (frames # <<>> => Len(dir) = Len(cwd) + 1)
    <3>1. CASE frames = <<>> BY <2>2, <3>1, DirTypes
    <3>2. CASE frames # <<>>
      <4>1. cwd \in Seq(STRING)
        <5>1. CASE cwd = <<"..">>
          <6> DEFINE d == Listing!Front(dir)
                     c == dir[Len(dir)]
          <6>1. \A x : Append(<<"..">>, x) # <<>> /\ Len(Append(<<"..">>, x)) = 2 /\ Append(<<"..">>, x)[1] = ".."
            OBVIOUS
          <6>2. dir # <<>> /\ Len(dir) = 2 /\ dir[1] = ".." BY <2>1, <3>2, <5>1, <6>1
          <6>3. d \in Dirs /\ c \in STRING /\ dir = Append(d, c) /\ Len(d) = Len(dir) - 1
            BY <1>4, <6>2, TreeEntry, DirTypes
          <6> HIDE DEF d, c
          <6>4. d \in Seq(STRING) /\ Len(d) = 1 BY <6>2, <6>3, DirTypes
          <6>5. \A i \in 1..Len(d) : Append(d, c)[i] = d[i] BY <6>3, <6>4, AppendProperties
          <6>6. d[Len(d)] = ".." /\ d # <<>> BY <6>2, <6>3, <6>4, <6>5, EmptySeq
          <6> QED BY <6>3, <6>6, TreeEntry, DirTypes
        <5> QED BY <1>1, <5>1, DirTypes DEF ListTypes
      <4>2. a \in STRING /\ dir = Append(cwd, a) BY <2>1, <3>2
      <4>3. dir # <<>> /\ dir \in Tree /\ Listing!Front(dir) = cwd BY <1>4, <4>1, <4>2, PathAppend, DirTypes
      <4> HIDE DEF a, dir
      <4> QED BY <4>1, <4>2, <4>3, TreeEntry, PathAppend
    <3> QED BY <3>1, <3>2
  <2>4. call \in Call
    <3>1. <<>> \in Seq(STRING) OBVIOUS
    <3> QED BY <1>4, <3>1 DEF Call
  <2>5. frames \in Seq(Call) /\ D \in Nat BY <1>1, LenProperties DEF ListTypes
  <2>6. call.dir = dir /\ call.todo = {} /\ call.dirName = <<>> OBVIOUS
  <2> HIDE DEF call
  <2>7. frames' \in Seq(Call) BY <1>4, <2>4, <2>5, AppendProperties
  <2>8. Len(frames') = D + 1 /\ frames' # <<>>
    <3>1. Len(Append(frames, call)) = D + 1 BY <2>4, <2>5, AppendProperties
    <3>2. Append(frames, call) # <<>> BY <2>4, <2>5, AppendProperties
    <3> QED BY <1>4, <3>1, <3>2
  <2>9. frames'[D + 1] = call BY <1>4, <2>4, <2>5, AppendProperties
  <2>10. \A n \in 1..D : frames'[n] = frames[n] BY <1>4, <2>4, <2>5, AppendProperties
  <2>11. \A n \in 1..Len(frames') : n \in 1..D \/ n = D + 1 BY <2>5, <2>8
  <2>12. ListTypes' BY <1>1, <1>2, <1>4, <2>5, <2>7, <2>8, BoundsAssumption DEF ListTypes
  <2>13. Calls'
    <3>1. \A n \in 1..Len(frames') : n < Len(frames') => frames'[n].dirName # <<>>
      BY <1>1, <2>5, <2>8, <2>10 DEF Calls
    <3> QED BY <1>2, <1>4, <2>3, <2>6, <2>8, <2>9, <3>1 DEF Calls
  <2>14. ASSUME Listing!Barred = {} PROVE OnPath'
    <3>1. OnPath BY <1>1, <2>14
    <3>2. CASE frames = <<>>
      <4>1. D = 0 /\ dir = argv BY <2>2, <3>2
      <4>2. frames'[1].dir = argv BY <2>6, <2>9, <4>1
      <4> QED BY <1>2, <1>4, <2>8, <4>1, <4>2 DEF OnPath
    <3>3. CASE frames # <<>>
      <4>1. D \in Nat \ {0} /\ D \in 1..D /\ 1 \in 1..D BY <1>1, <3>3, TopIs
      <4>2. dir = Append(frames[D].dir, Head(frames[D].dirName)) BY <1>1, <2>1, <3>1, <3>3 DEF OnPath
      <4>3. frames'[1].dir = argv BY <2>10, <3>1, <3>3, <4>1 DEF OnPath
      <4>4. ASSUME NEW n \in 1..Len(frames') - 1
            PROVE frames'[n + 1].dir = Append(frames'[n].dir, Head(frames'[n].dirName))
        <5>1. CASE n = D BY <2>6, <2>9, <2>10, <4>1, <4>2, <5>1
        <5>2. CASE n # D
          <6>1. n \in 1..D - 1 /\ n \in 1..D /\ n + 1 \in 1..D BY <2>8, <4>1, <5>2
          <6> QED BY <2>10, <3>1, <6>1 DEF OnPath
        <5> QED BY <5>1, <5>2
      <4> QED BY <1>2, <1>4, <2>8, <4>3, <4>4 DEF OnPath
    <3> QED BY <3>2, <3>3
  <2>15. ASSUME Good PROVE Complete'
    <3>1. OnPath /\ Complete BY <1>1, <2>15 DEF ListInv, Good
    <3>2. Deep'
      <4>1. Len(dir) = Len(argv) + (D + 1) - 1
        <5>a. Len(argv) \in Nat BY <1>1, DirTypes, LenProperties DEF ListTypes
        <5>1. CASE frames = <<>>
          <6>1. D = 0 /\ Len(dir) = Len(argv) BY <2>2, <5>1
          <6> QED BY <5>a, <6>1
        <5>2. CASE frames # <<>>
          <6>1. D \in 1..D BY <1>1, <5>2, TopIs
          <6>2. Len(cwd) = Len(argv) + D - 1 BY <1>1, <3>1, <5>2, <6>1 DEF OnPath, Complete, Deep
          <6>3. Len(dir) = Len(cwd) + 1 BY <2>3, <5>2
          <6> HIDE DEF D, dir
          <6> QED BY <2>5, <5>a, <6>2, <6>3
        <5> QED BY <5>1, <5>2
      <4>2. \A n \in 1..D : Len(frames'[n].dir) = Len(argv) + n - 1 BY <2>10, <3>1 DEF Complete, Deep
      <4>3. Len(frames'[D + 1].dir) = Len(argv) + (D + 1) - 1 BY <2>6, <2>9, <4>1
      <4> HIDE DEF D
      <4> QED BY <1>2, <2>11, <4>2, <4>3 DEF Deep
    <3>3. \A p : Shown(p)' = Shown(p) BY <1>2 DEF Shown
    <3>4. Fetched' BY <1>1, <1>4, <2>8, <2>10, <2>11, <3>1, <3>3 DEF Complete, Fetched, Coming
    <3>5. Fetching' BY <1>1, <1>4, <2>6, <2>9, <2>10, <2>11, <3>1 DEF Complete, Fetching
    <3>6. Named' BY <2>6, <2>9, <2>10, <2>11, <3>1 DEF Complete, Named
    <3>7. Entered'
      <4>1. \A n \in 1..D : n \in 1..Len(frames') BY <2>5, <2>8
      <4>2. \A q : Awaited(q) => Awaited(q)' BY <2>10, <4>1 DEF Awaited
      <4> QED BY <2>10, <3>1, <3>3, <4>1, <4>2 DEF Complete, Entered
    <3> QED BY <1>4, <3>2, <3>4, <3>5, <3>6, <3>7 DEF Complete, Begun
  <2> QED BY <1>3, <2>12, <2>13, <2>14, <2>15 DEF ListInv
<1>5. CASE frames = <<>> /\ pc' = "end" /\ frames' = frames /\ ~Good
  <2>1. ListTypes' BY <1>1, <1>2, <1>5 DEF ListTypes
  <2>2. Calls' BY <1>1, <1>2, <1>5 DEF Calls
  <2>3. Listing!Barred = {} => OnPath' BY <1>1, <1>2, <1>5 DEF OnPath, Calls
  <2> QED BY <1>3, <1>5, <2>1, <2>2, <2>3 DEF ListInv
<1>6. CASE frames # <<>> /\ pc' = "close" /\ frames' = frames /\ ~Good
  <2>1. ListTypes' BY <1>1, <1>2, <1>6 DEF ListTypes
  <2>2. Calls' BY <1>1, <1>2, <1>6 DEF Calls
  <2>3. Listing!Barred = {} => OnPath' BY <1>1, <1>2, <1>6 DEF OnPath
  <2> QED BY <1>3, <1>6, <2>1, <2>2, <2>3 DEF ListInv
<1> QED BY <1>1, <1>4, <1>5, <1>6, OpendirGood DEF Listing!Opendir

LEMMA ListChdir == ASSUME ListInv, Listing!Chdir PROVE ListInv'
<1> DEFINE D == Len(frames)
           top == frames[D]
           kids == Listing!Children(top.dir)
           call == [top EXCEPT !.todo = kids \cup {"."}]
<1>1. ListTypes /\ Calls /\ LinesRight /\ (Listing!Barred = {} => OnPath) /\ pc = "chdir"
  BY DEF ListInv, Listing!Chdir
<1>2. UNCHANGED <<program, argv, exists, closed, secret, foreign, lines>> /\ pc' = "read" /\ Listing!SetTop(call)
  BY DEF Listing!Chdir
<1>3. Listing!Barred' = Listing!Barred /\ Good' = Good /\ LinesRight' /\ \A p : Shown(p)' = Shown(p)
  BY <1>1, <1>2 DEF Listing!Barred, Good, LinesRight, Shown
<1>4. frames # <<>> /\ cwd \in Dirs BY <1>1 DEF Calls
<1>5. D \in Nat \ {0} /\ D \in 1..D BY <1>1, <1>4, TopIs
<1>6. /\ top \in Call /\ top.dir \in Dirs /\ top.dir \in Seq(STRING)
  BY <1>1, <1>5, CallIs
<1>7. /\ kids \subseteq STRING /\ \A c \in STRING : c \in kids <=> Append(top.dir, c) \in exists
  BY <1>1, <1>6, ChildrenAre DEF ListTypes
<1>9. /\ call \in Call /\ call.dir = top.dir /\ call.dirName = top.dirName
      /\ call.todo = kids \cup {"."}
  <2> HIDE DEF kids
  <2>1. /\ top.dir \in Dirs /\ top.dirName \in Seq(STRING)
        /\ top.stat \in Tree \cup {Listing!Nothing} /\ top.todo \subseteq STRING \cup {"."}
    BY <1>1, <1>5, CallIs
  <2>2. call.todo \in SUBSET (STRING \cup {"."}) BY <1>6, <1>7 DEF Call
  <2> QED BY <1>6, <2>1, <2>2 DEF Call
<1> HIDE DEF call
<1>10. /\ frames' \in Seq(Call) /\ Len(frames') = D /\ frames' # <<>> /\ frames'[D] = call
       /\ \A n \in 1..D : n # D => frames'[n] = frames[n]
  BY <1>1, <1>2, <1>4, <1>9, SetTopIs
<1>11. \A n \in 1..D : frames'[n].dir = frames[n].dir /\ frames'[n].dirName = frames[n].dirName
  BY <1>9, <1>10
<1>12. cwd' \in Dirs /\ (Listing!Barred = {} => cwd' = top.dir)
  <2>1. cwd' = IF Listing!Found(top.dir) /\ top.dir \notin closed THEN top.dir ELSE cwd
    BY DEF Listing!Chdir
  <2>2. Listing!Barred = {} => closed = {} /\ top.dir \in exists BY <1>6 DEF Listing!Barred
  <2> QED BY <1>4, <1>6, <2>1, <2>2 DEF Listing!Found
<1>13. ListTypes' BY <1>1, <1>2, <1>10, <1>12 DEF ListTypes
<1>14. Calls' BY <1>1, <1>2, <1>10, <1>11, <1>12 DEF Calls
<1>15. ASSUME Listing!Barred = {} PROVE OnPath'
  <2>1. \A n \in 1..D - 1 : n \in 1..D /\ n + 1 \in 1..D BY <1>5
  <2>2. 1 \in 1..D BY <1>5
  <2> QED BY <1>1, <1>2, <1>4, <1>5, <1>10, <1>11, <1>12, <1>15, <2>1, <2>2 DEF OnPath
<1>16. ASSUME Good PROVE Complete'
  <2>1. Complete /\ exists = Tree BY <1>1, <1>16 DEF ListInv, Good
  <2>2. Deep' /\ Named' BY <1>2, <1>10, <1>11, <2>1 DEF Complete, Deep, Named
  <2>3. Fetched'
    <3>1. ASSUME NEW n \in 1..D
          PROVE  /\ "." \in frames'[n].todo \/ Shown(frames'[n].dir)
                 /\ \A c \in STRING : Append(frames'[n].dir, c) \in Tree =>
                      c \in frames'[n].todo \/ Shown(Append(frames'[n].dir, c))
      <4>1. CASE n = D BY <1>7, <1>9, <1>10, <2>1, <4>1
      <4>2. CASE n # D
        <5>1. frames'[n] = frames[n] /\ ~Coming(n) BY <1>10, <4>2 DEF Coming
        <5> QED BY <2>1, <5>1 DEF Complete, Fetched
      <4> QED BY <4>1, <4>2
    <3> QED BY <1>2, <1>3, <1>10, <3>1 DEF Fetched
  <2>4. Fetching'
    <3>1. ASSUME NEW n \in 1..D
          PROVE  /\ \A c \in frames'[n].todo : c = "." \/ Append(frames'[n].dir, c) \in Tree
                 /\ n < D => frames'[n].todo = {}
      <4>1. CASE n = D
        <5>1. frames'[n].dir = top.dir /\ frames'[n].todo = kids \cup {"."} /\ ~(n < D)
          BY <1>5, <1>9, <1>10, <4>1
        <5>2. \A c \in kids : c \in STRING /\ Append(top.dir, c) \in Tree BY <1>7, <2>1
        <5> HIDE DEF kids
        <5> QED BY <5>1, <5>2
      <4>2. CASE n # D
        <5>1. frames'[n] = frames[n] /\ n < D BY <1>5, <1>10, <4>2
        <5> QED BY <2>1, <5>1 DEF Complete, Fetching
      <4> QED BY <4>1, <4>2
    <3> QED BY <1>2, <1>10, <3>1 DEF Fetching
  <2>5. Entered'
    <3>1. \A q : Awaited(q)' = Awaited(q) BY <1>10, <1>11 DEF Awaited
    <3> QED BY <1>3, <1>10, <1>11, <2>1, <3>1 DEF Complete, Entered
  <2> QED BY <1>2, <2>2, <2>3, <2>4, <2>5 DEF Complete, Begun
<1> QED BY <1>3, <1>13, <1>14, <1>15, <1>16 DEF ListInv

LEMMA ListReadEnd == ASSUME ListInv, Listing!ReadEnd PROVE ListInv'
<1> DEFINE D == Len(frames)
<1>1. ListTypes /\ Calls /\ LinesRight /\ (Listing!Barred = {} => OnPath) /\ pc = "read"
  BY DEF ListInv, Listing!ReadEnd
<1>2. /\ UNCHANGED <<program, argv, exists, closed, secret, foreign, cwd, frames, lines>>
      /\ frames[D].todo = {} /\ pc' = IF frames[D].dirName = <<>> THEN "close" ELSE "open"
  BY DEF Listing!ReadEnd, Listing!listing, Listing!Subdirs
<1>3. Listing!Barred' = Listing!Barred /\ Good' = Good /\ LinesRight'
  BY <1>1, <1>2 DEF Listing!Barred, Good, LinesRight
<1>4. ListTypes' /\ Calls'
  <2>1. frames # <<>> BY <1>1 DEF Calls
  <2>2. D \in Nat \ {0} BY <1>1, <2>1, TopIs
  <2>3. \A n \in 1..D : n < D \/ n = D BY <2>2
  <2> QED BY <1>1, <1>2, <2>1, <2>3 DEF ListTypes, Calls
<1>5. Listing!Barred = {} => OnPath' BY <1>1, <1>2 DEF OnPath
<1>6. ASSUME Good PROVE Complete'
  <2>1. Complete BY <1>1, <1>6 DEF ListInv
  <2>2. D \in Nat BY <1>1, LenProperties DEF ListTypes
  <2>3. Deep' /\ Named' /\ Entered'
    BY <1>2, <2>1 DEF Complete, Deep, Named, Entered, Shown, Awaited
  <2>4. Fetched' BY <1>1, <1>2, <2>1 DEF Complete, Fetched, Coming, Shown
  <2>5. Fetching'
    <3>1. \A n \in 1..D : n < D \/ n = D BY <2>2
    <3> QED BY <1>2, <2>1, <3>1 DEF Complete, Fetching
  <2> QED BY <1>2, <2>3, <2>4, <2>5 DEF Complete, Begun
<1> QED BY <1>3, <1>4, <1>5, <1>6 DEF ListInv

LEMMA ListEnvironment == ASSUME ListInv, Listing!Environment PROVE ListInv'
<1>1. PICK p \in exists \ {<<>>} : exists' = exists \ {p} BY DEF Listing!Environment
<1>2. UNCHANGED <<program, pc, argv, closed, secret, foreign, cwd, frames, lines>>
  BY DEF Listing!Environment
<1>3. ListTypes /\ Calls /\ LinesRight /\ (Listing!Barred = {} => OnPath) BY DEF ListInv
<1>4. Listing!Barred \subseteq Listing!Barred' /\ ~Good'
  BY <1>1, <1>2, <1>3 DEF Listing!Barred, Good, ListTypes
<1>5. ListTypes' /\ Calls' BY <1>1, <1>2, <1>3 DEF ListTypes, Calls
<1>6. LinesRight' BY <1>1, <1>2, <1>3, <1>4 DEF LinesRight
<1>7. Listing!Barred' = {} => OnPath' BY <1>2, <1>3, <1>4 DEF OnPath
<1> QED BY <1>4, <1>5, <1>6, <1>7 DEF ListInv

LEMMA ListFrame == ASSUME ListInv, UNCHANGED <<program, pc, ofListing>> PROVE ListInv'
<1>1. UNCHANGED <<program, pc, argv, exists, closed, secret, foreign, cwd, frames, lines>> BY DEF ofListing
<1>2. Listing!Barred' = Listing!Barred /\ Good' = Good BY <1>1 DEF Listing!Barred, Good
<1>3. ListTypes' /\ Calls' /\ LinesRight' BY <1>1, <1>2 DEF ListInv, ListTypes, Calls, LinesRight
<1>4. OnPath' = OnPath BY <1>1 DEF OnPath
<1>5. Complete' = Complete
  BY <1>1 DEF Complete, Deep, Fetched, Coming, Fetching, Named, Entered, Awaited, Begun, Shown
<1> QED BY <1>1, <1>2, <1>3, <1>4, <1>5 DEF ListInv

\* A call with one entry less.
CallRead(f, name, stat) ==
    [f EXCEPT !.todo = @ \ {name}, !.stat = stat,
              !.dirName = IF stat \in Dirs /\ name # "." THEN Append(@, name) ELSE @]

LEMMA CallReadIs ==
    ASSUME NEW f \in Call, NEW name, NEW stat \in Tree \cup {Listing!Nothing},
           stat \in Dirs /\ name # "." => name \in STRING,
           NEW g, g = CallRead(f, name, stat)
    PROVE  /\ g \in Call /\ g.dir = f.dir /\ g.todo = f.todo \ {name} /\ g.stat = stat
           /\ \A i \in 1..Len(f.dirName) : i \in 1..Len(g.dirName) /\ g.dirName[i] = f.dirName[i]
           /\ \A i \in 1..Len(g.dirName) :
                i \in 1..Len(f.dirName) \/ (g.dirName[i] = name /\ name # "." /\ stat \in Dirs)
           /\ stat \in Dirs /\ name # "." => \E i \in 1..Len(g.dirName) : g.dirName[i] = name
<1> DEFINE s == f.dirName
           t == IF stat \in Dirs /\ name # "." THEN Append(s, name) ELSE s
<1>1. /\ f.dir \in Dirs /\ f.todo \in SUBSET (STRING \cup {"."}) /\ s \in Seq(STRING)
      /\ f = [dir |-> f.dir, todo |-> f.todo, stat |-> f.stat, dirName |-> s]
  BY DEF Call
<1>2. Len(s) \in Nat BY <1>1, LenProperties
<1>3. /\ t \in Seq(STRING)
      /\ \A i \in 1..Len(s) : i \in 1..Len(t) /\ t[i] = s[i]
      /\ \A i \in 1..Len(t) : i \in 1..Len(s) \/ (t[i] = name /\ name # "." /\ stat \in Dirs)
      /\ stat \in Dirs /\ name # "." => \E i \in 1..Len(t) : t[i] = name
  <2>1. CASE stat \in Dirs /\ name # "."
    <3> DEFINE u == Append(s, name)
    <3>1. name \in STRING BY <2>1
    <3>2. u \in Seq(STRING) BY <1>1, <3>1, AppendProperties
    <3>3. Len(u) = Len(s) + 1 BY <1>1, <3>1, AppendProperties
    <3>4. u[Len(s) + 1] = name BY <1>1, <3>1, AppendProperties
    <3>5. \A i \in 1..Len(s) : u[i] = s[i] BY <1>1, <3>1, AppendProperties
    <3>6. t = u BY <2>1
    <3> HIDE DEF u, t, s
    <3>7. Len(s) + 1 \in 1..Len(u) BY <1>2, <3>3
    <3>8. \A i \in 1..Len(u) : i \in 1..Len(s) \/ i = Len(s) + 1 BY <1>2, <3>3
    <3>9. \A i \in 1..Len(s) : i \in 1..Len(u) BY <1>2, <3>3
    <3> QED BY <2>1, <3>2, <3>4, <3>5, <3>6, <3>7, <3>8, <3>9
  <2>2. CASE ~(stat \in Dirs /\ name # ".")
    <3>1. t = s BY <2>2
    <3> HIDE DEF t, s
    <3> QED BY <1>1, <2>2, <3>1
  <2> QED BY <2>1, <2>2
<1> HIDE DEF t
<1>4. g = [f EXCEPT !.todo = f.todo \ {name}, !.stat = stat, !.dirName = t] BY DEF t, CallRead
<1>5. g = [dir |-> f.dir, todo |-> f.todo \ {name}, stat |-> stat, dirName |-> t]
  <2> HIDE DEF s
  <2> QED BY <1>1, <1>4
<1>6. g.dirName = t /\ g.dir = f.dir /\ g.todo = f.todo \ {name} /\ g.stat = stat
  <2>1. g.dirName = t BY <1>5
  <2>2. g.dir = f.dir BY <1>5
  <2>3. g.todo = f.todo \ {name} BY <1>5
  <2>4. g.stat = stat BY <1>5
  <2> QED BY <2>1, <2>2, <2>3, <2>4
<1>7. g \in Call
  <2>1. f.todo \ {name} \in SUBSET (STRING \cup {"."}) BY <1>1
  <2> QED BY <1>1, <1>3, <1>5, <2>1 DEF Call
<1> QED BY <1>3, <1>6, <1>7

LEMMA ListReaddir == ASSUME ListInv, Listing!Readdir PROVE ListInv'
<1> DEFINE D == Len(frames)
           top == frames[D]
<1>1. ListTypes /\ Calls /\ LinesRight /\ (Listing!Barred = {} => OnPath) /\ pc = "read"
  BY DEF ListInv, Listing!Readdir
<1>2. UNCHANGED <<program, argv, exists, closed, secret, foreign, cwd>> BY DEF Listing!Readdir
<1>3. Listing!Barred' = Listing!Barred /\ Good' = Good BY <1>2 DEF Listing!Barred, Good
<1>4. frames # <<>> /\ cwd \in Dirs BY <1>1 DEF Calls
<1>5. D \in Nat \ {0} /\ D \in 1..D BY <1>1, <1>4, TopIs
<1>6. /\ top \in Call /\ top.dir \in Dirs /\ top.dir \in Seq(STRING)
      /\ top.todo \subseteq STRING \cup {"."} /\ top.stat \in Tree \cup {Listing!Nothing}
  BY <1>1, <1>5, CallIs
<1>7. PICK name \in top.todo :
        LET ok   == IF name = "." THEN cwd \notin closed ELSE Listing!Found(Append(cwd, name))
            stat == IF ok THEN Listing!Path(name) ELSE top.stat
        IN
        IF stat \in foreign
        THEN pc' = "crashed" /\ UNCHANGED <<frames, lines>>
        ELSE /\ lines' = lines \cup {[of |-> IF name = "." THEN top.dir ELSE Append(top.dir, name),
                                      stat |-> stat]}
             /\ Listing!SetTop([top EXCEPT
                  !.todo = @ \ {name},
                  !.stat = stat,
                  !.dirName = IF stat \in Dirs /\ name # "." THEN Append(@, name) ELSE @])
             /\ UNCHANGED pc
  BY DEF Listing!Readdir
<1> DEFINE ok   == IF name = "." THEN cwd \notin closed ELSE Listing!Found(Append(cwd, name))
           stat == IF ok THEN Listing!Path(name) ELSE top.stat
           of   == IF name = "." THEN top.dir ELSE Append(top.dir, name)
           call == [top EXCEPT !.todo = @ \ {name}, !.stat = stat,
                               !.dirName = IF stat \in Dirs /\ name # "." THEN Append(@, name) ELSE @]
<1>8. CASE stat \in foreign
  <2>1. pc' = "crashed" /\ UNCHANGED <<frames, lines>> BY <1>7, <1>8
  <2>2. ListTypes' /\ Calls' /\ LinesRight'
    <3>1. \A n \in 1..D : n < D \/ n = D BY <1>5
    <3> QED BY <1>1, <1>2, <1>3, <2>1, <3>1 DEF ListTypes, Calls, LinesRight
  <2>3. Listing!Barred = {} => OnPath' BY <1>1, <1>2, <2>1 DEF OnPath
  <2> QED BY <1>3, <2>1, <2>2, <2>3 DEF ListInv
<1>9. CASE stat \notin foreign
  <2>1. lines' = lines \cup {[of |-> of, stat |-> stat]} /\ Listing!SetTop(call) /\ pc' = pc
    BY <1>7, <1>9
  <2>2. stat \in Tree \cup {Listing!Nothing}
    BY <1>1, <1>4, <1>6, DirTypes DEF ListTypes, Listing!Found, Listing!Path
  <2>3. name = "." \/ name \in STRING BY <1>6
  <2>4. Listing!Barred = {} /\ of \in exists => stat = of
    <3>1. Listing!Barred = {} => cwd = top.dir /\ closed = {} BY <1>1, <1>4 DEF OnPath, Listing!Barred
    <3> QED BY <3>1 DEF Listing!Found, Listing!Path
  <2> HIDE DEF stat
  <2>5. /\ call \in Call /\ call.dir = top.dir /\ call.todo = top.todo \ {name} /\ call.stat = stat
        /\ \A i \in 1..Len(top.dirName) : i \in 1..Len(call.dirName) /\ call.dirName[i] = top.dirName[i]
        /\ \A i \in 1..Len(call.dirName) :
             i \in 1..Len(top.dirName) \/ (call.dirName[i] = name /\ name # "." /\ stat \in Dirs)
        /\ stat \in Dirs /\ name # "." => \E i \in 1..Len(call.dirName) : call.dirName[i] = name
    <3>1. call = CallRead(top, name, stat) BY DEF CallRead
    <3> HIDE DEF call, top
    <3> QED BY <1>6, <2>2, <2>3, <3>1, CallReadIs
  <2> HIDE DEF call, of
  <2>6. /\ frames' \in Seq(Call) /\ Len(frames') = D /\ frames' # <<>> /\ frames'[D] = call
        /\ \A n \in 1..D : n # D => frames'[n] = frames[n]
    BY <1>1, <1>4, <2>1, <2>5, SetTopIs
  <2>7. \A n \in 1..D : frames'[n].dir = frames[n].dir BY <2>5, <2>6
  <2>8. LinesRight'
    <3>1. ASSUME NEW l \in lines' PROVE l.stat # l.of => l.of \notin exists \/ Listing!Barred # {}
      <4>1. CASE l \in lines BY <1>1, <4>1 DEF LinesRight
      <4>2. CASE l = [of |-> of, stat |-> stat] BY <2>4, <4>2
      <4> QED BY <2>1, <3>1, <4>1, <4>2
    <3> QED BY <1>2, <1>3, <3>1 DEF LinesRight
  <2>9. ListTypes' BY <1>1, <1>2, <2>1, <2>6 DEF ListTypes
  <2>10. Calls'
    <3>1. \A n \in 1..D : n < D => frames'[n] = frames[n] BY <1>5, <2>6
    <3> QED BY <1>1, <1>2, <2>1, <2>6, <3>1 DEF Calls
  <2>11. ASSUME Listing!Barred = {} PROVE OnPath'
    <3>1. \A n \in 1..D - 1 : n \in 1..D /\ n + 1 \in 1..D /\ n # D BY <1>5
    <3>2. 1 \in 1..D BY <1>5
    <3>3. cwd = frames'[D].dir /\ frames'[1].dir = argv
      BY <1>1, <1>4, <1>5, <2>7, <2>11, <3>2 DEF OnPath
    <3>4. \A n \in 1..D - 1 : frames'[n + 1].dir = Append(frames'[n].dir, Head(frames'[n].dirName))
      BY <1>1, <2>6, <2>7, <2>11, <3>1 DEF OnPath
    <3> QED BY <1>1, <1>2, <2>1, <2>6, <3>3, <3>4 DEF OnPath
  <2>12. ASSUME Good PROVE Complete'
    <3>1. Complete /\ exists = Tree /\ Listing!Barred = {} BY <1>1, <2>12 DEF ListInv, Good
    <3>2. of \in Tree
      <4>1. name = "." \/ Append(top.dir, name) \in Tree BY <1>5, <3>1 DEF Complete, Fetching
      <4> QED BY <1>6, <4>1, DirTypes DEF of
    <3>3. stat = of BY <2>4, <3>1, <3>2
    <3>4. \A p : Shown(p) => Shown(p)' BY <2>1 DEF Shown
    <3>5. \E l \in lines' : l.of = of
      <4>1. [of |-> of, stat |-> stat] \in lines' BY <2>1
      <4>2. [of |-> of, stat |-> stat].of = of OBVIOUS
      <4> QED BY <4>1, <4>2
    <3>6. Deep' BY <1>2, <2>6, <2>7, <3>1 DEF Complete, Deep
    <3>7. Fetched'
      <4>1. ASSUME NEW n \in 1..D
            PROVE  /\ "." \in frames'[n].todo \/ \E l \in lines' : l.of = frames[n].dir
                   /\ \A c \in STRING : Append(frames[n].dir, c) \in Tree =>
                        c \in frames'[n].todo \/ \E l \in lines' : l.of = Append(frames[n].dir, c)
        <5>1. CASE n = D
          <6>1. frames'[n].todo = top.todo \ {name} BY <2>5, <2>6, <5>1
          <6>2. \A p : (\E l \in lines : l.of = p) => \E l \in lines' : l.of = p BY <2>1
          <6>3. \E l \in lines' : l.of = of BY <3>5
          <6>4. "." \in top.todo \/ \E l \in lines : l.of = top.dir
            BY <1>1, <1>5, <3>1 DEF Complete, Fetched, Coming, Shown
          <6>5. ASSUME NEW c \in STRING, Append(top.dir, c) \in Tree
                PROVE  c # "." /\ (c \in top.todo \/ \E l \in lines : l.of = Append(top.dir, c))
            <7>1. c # "."
              <8>1. Append(top.dir, c) # <<>> /\ Append(top.dir, c)[Len(Append(top.dir, c))] = c
                BY <1>6, PathAppend
              <8> QED BY <6>5, <8>1, TreeEntry
            <7> QED BY <1>1, <1>5, <3>1, <6>5, <7>1 DEF Complete, Fetched, Coming, Shown
          <6>6. name # "." => of = Append(top.dir, name) BY DEF of
          <6>7. name = "." => of = top.dir BY DEF of
          <6> HIDE DEF top
          <6>8. top.dir = frames[n].dir BY <5>1 DEF top
          <6> QED BY <6>1, <6>2, <6>3, <6>4, <6>5, <6>6, <6>7, <6>8
        <5>2. CASE n # D
          <6>1. frames'[n] = frames[n] BY <2>6, <5>2
          <6>2. \A p : (\E l \in lines : l.of = p) => \E l \in lines' : l.of = p BY <2>1
          <6>3. /\ "." \in frames[n].todo \/ \E l \in lines : l.of = frames[n].dir
                /\ \A c \in STRING : Append(frames[n].dir, c) \in Tree =>
                     c \in frames[n].todo \/ \E l \in lines : l.of = Append(frames[n].dir, c)
            BY <1>1, <3>1, <5>2 DEF Complete, Fetched, Coming, Shown
          <6> QED BY <6>1, <6>2, <6>3
        <5> QED BY <5>1, <5>2
      <4> QED BY <2>6, <2>7, <4>1 DEF Fetched, Shown
    <3>8. Fetching'
      <4>1. ASSUME NEW n \in 1..D
            PROVE  /\ \A c \in frames'[n].todo : c = "." \/ Append(frames'[n].dir, c) \in Tree
                   /\ n < D => frames'[n].todo = {}
        <5>1. frames'[n].todo \subseteq frames[n].todo BY <2>5, <2>6
        <5>2. n < D => frames[n].todo = {} BY <3>1 DEF Complete, Fetching
        <5>3. \A c \in frames[n].todo : c = "." \/ Append(frames[n].dir, c) \in Tree
          BY <3>1 DEF Complete, Fetching
        <5> QED BY <2>7, <5>1, <5>2, <5>3
      <4> QED BY <1>1, <2>1, <2>6, <4>1 DEF Fetching
    <3>9. Named'
      <4>1. ASSUME NEW n \in 1..D, NEW i \in 1..Len(frames'[n].dirName)
            PROVE Append(frames'[n].dir, frames'[n].dirName[i]) \in Dirs
        <5>1. CASE n # D BY <2>6, <3>1, <5>1 DEF Complete, Named
        <5>2. CASE n = D /\ i \in 1..Len(top.dirName)
          <6>1. frames'[n].dirName[i] = top.dirName[i] BY <2>5, <2>6, <5>2
          <6> QED BY <2>7, <3>1, <5>2, <6>1 DEF Complete, Named
        <5>3. CASE n = D /\ i \notin 1..Len(top.dirName)
          <6>1. frames'[n].dirName[i] = name /\ name # "." /\ stat \in Dirs BY <2>5, <2>6, <5>3
          <6>2. Append(top.dir, name) = stat BY <3>3, <6>1 DEF of
          <6> QED BY <2>7, <5>3, <6>1, <6>2
        <5> QED BY <5>1, <5>2, <5>3
      <4> QED BY <2>6, <4>1 DEF Named
    <3>10. Entered'
      <4>1. ASSUME NEW q, Awaited(q) PROVE Awaited(q)'
        <5>1. PICK n \in 1..D : \E i \in 1..Len(frames[n].dirName) :
                Append(frames[n].dir, frames[n].dirName[i]) = q BY <4>1 DEF Awaited
        <5>2. PICK i \in 1..Len(frames[n].dirName) : Append(frames[n].dir, frames[n].dirName[i]) = q BY <5>1
        <5>3. i \in 1..Len(frames'[n].dirName) /\ frames'[n].dirName[i] = frames[n].dirName[i]
          BY <2>5, <2>6, <5>2
        <5> QED BY <2>6, <2>7, <5>2, <5>3 DEF Awaited
      <4>2. ASSUME NEW q \in Dirs, Shown(q)' 
            PROVE  \/ \A c \in STRING : Append(q, c) \in Tree => Shown(Append(q, c))
                   \/ \E n \in 1..D : frames[n].dir = q
                   \/ Awaited(q)'
        <5>1. CASE Shown(q) BY <3>1, <4>1, <5>1 DEF Complete, Entered
        <5>2. CASE ~Shown(q)
          <6>1. PICK l \in lines' : l.of = q BY <4>2 DEF Shown
          <6>2. l = [of |-> of, stat |-> stat] BY <2>1, <5>2, <6>1 DEF Shown
          <6>3. q = of BY <6>1, <6>2
          <6>4. CASE name = "."
            <7>1. q = top.dir BY <6>3, <6>4 DEF of
            <7> QED BY <1>5, <7>1
          <6>5. CASE name # "."
            <7>1. q = Append(top.dir, name) /\ stat \in Dirs BY <3>3, <6>3, <6>5 DEF of
            <7>2. \E i \in 1..Len(call.dirName) : call.dirName[i] = name BY <2>5, <6>5, <7>1
            <7> QED BY <1>5, <2>5, <2>6, <7>1, <7>2 DEF Awaited
          <6> QED BY <6>4, <6>5
        <5> QED BY <5>1, <5>2
      <4>3. ASSUME NEW q \in Dirs, Shown(q)' 
            PROVE  \/ \A c \in STRING : Append(q, c) \in Tree => Shown(Append(q, c))'
                   \/ \E n \in 1..Len(frames') : frames'[n].dir = q
                   \/ Awaited(q)'
        BY <2>6, <2>7, <3>4, <4>2, <4>3
      <4> QED BY <4>3 DEF Entered
    <3> QED BY <1>1, <2>1, <3>6, <3>7, <3>8, <3>9, <3>10 DEF Complete, Begun
  <2> QED BY <1>3, <2>8, <2>9, <2>10, <2>11, <2>12 DEF ListInv
<1> QED BY <1>8, <1>9

\* The positions in a stack of at least two calls.
LEMMA Below ==
    ASSUME NEW n \in Nat, n > 1
    PROVE  /\ n - 1 \in Nat /\ n - 1 # 0 /\ n - 1 < n /\ n - 1 + 1 = n /\ n # 1 /\ n \in 1..n
           /\ n - 1 \in 1..n - 1 /\ n - 1 \in 1..n /\ 1 \in 1..n - 1
           /\ \A i \in 1..n : i # n => i \in 1..n - 1
           /\ \A i \in 1..n - 1 : i \in 1..n /\ i # n /\ i < n /\ (i < n - 1 \/ i = n - 1)
           /\ \A i \in 1..n - 1 - 1 : i \in 1..n - 1 /\ i + 1 \in 1..n - 1 /\ i # n - 1
  OBVIOUS

\* The stack without the innermost call, whose caller goes on to the next name.
Caller == [Listing!Last(Listing!Front(frames)) EXCEPT !.dirName = Tail(@)]
Left   == [Listing!Front(frames) EXCEPT ![Len(Listing!Front(frames))] = Caller]

LEMMA CallsLeft ==
    ASSUME ListTypes, Len(frames) > 1, frames[Len(frames) - 1].dirName # <<>>,
           NEW g, g = Left
    PROVE  LET K == Len(frames) - 1 IN
           /\ Listing!Front(frames) # <<>> /\ Caller.dirName = Tail(frames[K].dirName)
           /\ g \in Seq(Call) /\ Len(g) = K /\ g # <<>>
           /\ \A n \in 1..K : n # K => g[n] = frames[n]
           /\ g[K].dir = frames[K].dir /\ g[K].todo = frames[K].todo
           /\ g[K].dirName = Tail(frames[K].dirName)
<1> DEFINE D == Len(frames)
           K == D - 1
           rest == Listing!Front(frames)
           f == frames[K]
           call == [f EXCEPT !.dirName = Tail(@)]
<1>1. frames \in Seq(Call) /\ D \in Nat /\ K \in Nat /\ K # 0 /\ K \in 1..K /\ K \in 1..D
  <2>1. frames \in Seq(Call) BY DEF ListTypes
  <2>2. D \in Nat BY <2>1, LenProperties
  <2> QED BY <2>1, <2>2, Below
<1>2. rest \in Seq(Call) /\ rest # <<>> /\ Len(rest) = K /\ \A n \in 1..K : rest[n] = frames[n]
  <2>1. \A n \in 1..K : frames[n] \in Call
    <3>1. \A n \in 1..K : n \in 1..D BY <1>1
    <3> QED BY <1>1, <3>1, ElementOfSeq
  <2>2. rest = SubSeq(frames, 1, K) BY DEF Listing!Front
  <2>3. /\ SubSeq(frames, 1, K) \in Seq(Call)
        /\ Len(SubSeq(frames, 1, K)) = (IF 1 <= K THEN K - 1 + 1 ELSE 0)
        /\ \A i \in 1..K - 1 + 1 : SubSeq(frames, 1, K)[i] = frames[1 + i - 1]
    <3> HIDE DEF K
    <3> QED BY <1>1, <2>1, SubSeqProperties
  <2> HIDE DEF rest
  <2>4. Len(rest) = K BY <1>1, <2>2, <2>3
  <2>5. \A n \in 1..K : n \in 1..K - 1 + 1 /\ 1 + n - 1 = n BY <1>1
  <2>6. \A n \in 1..K : rest[n] = frames[n] BY <2>2, <2>3, <2>5
  <2>7. rest # <<>> BY <1>1, <2>2, <2>3, <2>4, EmptySeq
  <2> QED BY <2>2, <2>3, <2>4, <2>6, <2>7
<1>3. /\ f \in Call /\ f.dir \in Dirs /\ f.todo \subseteq STRING \cup {"."}
      /\ f.stat \in Tree \cup {Listing!Nothing} /\ f.dirName \in Seq(STRING) /\ f.dirName # <<>>
  BY <1>1, CallIs
<1>4. Tail(f.dirName) \in Seq(STRING) BY <1>3, FirstOf
<1>5. call = [dir |-> f.dir, todo |-> f.todo, stat |-> f.stat, dirName |-> Tail(f.dirName)]
  <2> HIDE DEF f
  <2>1. \A t : [f EXCEPT !.dirName = t] =
                [dir |-> f.dir, todo |-> f.todo, stat |-> f.stat, dirName |-> t]
    BY <1>3 DEF Call
  <2>2. call = [f EXCEPT !.dirName = Tail(f.dirName)] OBVIOUS
  <2> HIDE DEF call
  <2> QED BY <2>1, <2>2
<1>6. call \in Call
  <2> HIDE DEF f
  <2>1. f.todo \in SUBSET (STRING \cup {"."}) BY <1>3
  <2> QED BY <1>3, <1>4, <1>5, <2>1 DEF Call
<1>7. call.dir = f.dir /\ call.todo = f.todo /\ call.dirName = Tail(f.dirName)
  <2> HIDE DEF f, call
  <2>1. call.dir = f.dir BY <1>5
  <2>2. call.todo = f.todo BY <1>5
  <2>3. call.dirName = Tail(f.dirName) BY <1>5
  <2> QED BY <2>1, <2>2, <2>3
<1>8. Caller = call
  <2>1. Listing!Last(rest) = f
    <3> HIDE DEF rest, K
    <3> QED BY <1>1, <1>2
  <2> QED BY <2>1 DEF Caller
<1> DEFINE h == [rest EXCEPT ![K] = call]
<1> HIDE DEF rest, call, K
<1>9. K \in 1..Len(rest) BY <1>1, <1>2
<1>10. h \in Seq(Call) /\ Len(h) = Len(rest)
       /\ \A n \in 1..Len(rest) : h[n] = IF n = K THEN call ELSE rest[n]
  BY <1>2, <1>6, <1>9, ExceptSeq
<1>11. g = h BY <1>2, <1>8 DEF Left, rest
<1> HIDE DEF h
<1>12. Len(g) = K /\ g # <<>> BY <1>1, <1>2, <1>10, <1>11, EmptySeq
<1>13. g[K] = call /\ \A n \in 1..K : n # K => g[n] = frames[n] BY <1>1, <1>2, <1>10, <1>11
<1>14. g[K].dir = f.dir /\ g[K].todo = f.todo /\ g[K].dirName = Tail(f.dirName) BY <1>7, <1>13
<1>15. Listing!Front(frames) # <<>> BY <1>2 DEF rest
<1> QED BY <1>7, <1>8, <1>10, <1>11, <1>12, <1>13, <1>14, <1>15 DEF K

\* All a directory holds has been shown when its call is closed.
LEMMA ClosedShown ==
    ASSUME ListInv, pc = "close", Good, NEW n \in 1..Len(frames)
    PROVE  Shown(frames[n].dir) /\ \A c \in STRING : Append(frames[n].dir, c) \in Tree => Shown(Append(frames[n].dir, c))
<1>1. Complete BY DEF ListInv
<1>2. frames[n].todo = {} /\ ~Coming(n) BY <1>1 DEF Complete, Fetching, Coming
<1> QED BY <1>1, <1>2 DEF Complete, Fetched

LEMMA ListClosedir == ASSUME ListInv, Listing!Closedir PROVE ListInv'
<1> DEFINE D == Len(frames)
           K == D - 1
<1>1. ListTypes /\ Calls /\ LinesRight /\ (Listing!Barred = {} => OnPath) /\ pc = "close"
  BY DEF ListInv, Listing!Closedir
<1>2. UNCHANGED <<program, argv, exists, closed, secret, foreign, lines>> BY DEF Listing!Closedir
<1>3. Listing!Barred' = Listing!Barred /\ Good' = Good /\ LinesRight' /\ \A p : Shown(p)' = Shown(p)
  BY <1>1, <1>2 DEF Listing!Barred, Good, LinesRight, Shown
<1>4. frames # <<>> BY <1>1 DEF Calls
<1>5. D \in Nat \ {0} /\ D \in 1..D BY <1>1, <1>4, TopIs
<1>6. cwd' \in Dirs \cup {<<"..">>} /\ (Listing!Barred = {} => cwd' = Listing!Parent(frames[D].dir))
  <2>1. cwd' = IF cwd \in closed THEN cwd ELSE Listing!Parent(cwd) BY DEF Listing!Closedir
  <2>2. Listing!Parent(cwd) \in Dirs \cup {<<"..">>}
    <3>1. CASE cwd \in {<<>>, <<"..">>} BY <3>1 DEF Listing!Parent
    <3>2. CASE cwd \notin {<<>>, <<"..">>}
      <4>1. Listing!Front(cwd) \in Dirs BY <1>1, <3>2, TreeEntry, DirTypes DEF ListTypes
      <4> QED BY <3>2, <4>1 DEF Listing!Parent
    <3> QED BY <3>1, <3>2
  <2>3. Listing!Barred = {} => cwd = frames[D].dir /\ cwd \notin closed
    BY <1>1, <1>4 DEF OnPath, Listing!Barred
  <2> QED BY <1>1, <2>1, <2>2, <2>3 DEF ListTypes
<1>7. CASE D = 1
  <2>1. Listing!Front(frames) = <<>> BY <1>1, <1>7, SubSeqEmpty DEF ListTypes, Listing!Front
  <2>2. frames' = <<>> /\ pc' = "end" /\ Len(frames') = 0 BY <2>1 DEF Listing!Closedir
  <2>3. ListTypes'
    <3>1. <<>> \in Seq(Call) BY EmptySeq
    <3> QED BY <1>1, <1>2, <1>6, <2>2, <3>1, BoundsAssumption DEF ListTypes
  <2>4. Calls' BY <2>2 DEF Calls
  <2>5. ASSUME Listing!Barred = {} PROVE OnPath'
    <3>1. frames[1].dir = argv BY <1>1, <1>4, <2>5 DEF OnPath
    <3>2. cwd' = Listing!Parent(argv) BY <1>6, <1>7, <2>5, <3>1
    <3>3. ASSUME Len(argv) = 1 PROVE argv \notin {<<>>, <<"..">>} /\ Listing!Front(argv) = <<>>
      <4>1. argv \in Tree /\ argv \in Seq(STRING) BY <1>1, DirTypes DEF ListTypes
      <4>2. argv # <<>> /\ argv # <<"..">> BY <3>3, <4>1, DirTypes, EmptySeq
      <4>3. Listing!Front(argv) \in Dirs /\ Len(Listing!Front(argv)) = 0 BY <3>3, <4>1, <4>2, TreeEntry
      <4> QED BY <4>2, <4>3, DirTypes, EmptySeq
    <3>4. Len(argv') = 1 => cwd' = <<>> BY <1>2, <3>2, <3>3 DEF Listing!Parent
    <3> QED BY <2>2, <3>4 DEF OnPath
  <2>6. ASSUME Good PROVE Complete'
    <3>1. Complete /\ OnPath BY <1>1, <2>6 DEF ListInv, Good
    <3>2. Deep' /\ Fetched' /\ Fetching' /\ Named'
      BY <2>2 DEF Deep, Fetched, Fetching, Named
    <3>3. 1 \in 1..Len(frames) BY <1>7
    <3>4. Begun'
      <4>1. frames[1].dir = argv BY <1>4, <3>1 DEF OnPath
      <4>2. Shown(argv) BY <1>1, <2>6, <3>3, <4>1, ClosedShown
      <4>3. Shown(argv)' BY <1>2, <4>2 DEF Shown
      <4> QED BY <4>3 DEF Begun
    <3>5. Entered'
      <4>1. ASSUME NEW q \in Dirs, Shown(q)
            PROVE \A c \in STRING : Append(q, c) \in Tree => Shown(Append(q, c))
        <5>1. CASE \E n \in 1..Len(frames) : frames[n].dir = q BY <1>1, <2>6, <5>1, ClosedShown
        <5>2. frames[1].dirName = <<>> BY <1>1, <1>7, <3>1 DEF Complete, Fetching
        <5>3. ~Awaited(q) BY <1>7, <5>2 DEF Awaited
        <5> QED BY <3>1, <4>1, <5>1, <5>3 DEF Complete, Entered
      <4> QED BY <1>3, <4>1 DEF Entered
    <3> QED BY <3>2, <3>4, <3>5 DEF Complete
  <2> QED BY <1>3, <2>3, <2>4, <2>5, <2>6 DEF ListInv
<1>8. CASE D > 1
  <2>1. /\ K \in Nat /\ K # 0 /\ K < D /\ K + 1 = D /\ K \in 1..K /\ K \in 1..D /\ 1 \in 1..K
        /\ \A i \in 1..D : i # D => i \in 1..K
        /\ \A i \in 1..K : i \in 1..D /\ i # D /\ i < D /\ (i < K \/ i = K)
        /\ \A i \in 1..K - 1 : i \in 1..K /\ i + 1 \in 1..K /\ i # K
    BY <1>5, <1>8, Below
  <2>2. frames[K].dirName # <<>> /\ frames[K].dirName \in Seq(STRING) /\ frames[K].dir \in Seq(STRING)
    BY <1>1, <2>1, CallIs DEF Calls
  <2> DEFINE s == frames[K].dirName
  <2>3. frames' = Left /\ pc' = IF Tail(s) = <<>> THEN "close" ELSE "open"
    <3>1. Listing!Front(frames) # <<>> /\ Caller.dirName = Tail(s) BY <1>1, <1>8, <2>2, CallsLeft
    <3>2. frames' = [Listing!Front(frames) EXCEPT ![Len(Listing!Front(frames))] = Caller]
      BY <3>1 DEF Listing!Closedir, Caller
    <3>3. pc' = Listing!Subdirs(Caller) BY <3>1 DEF Listing!Closedir, Caller
    <3> QED BY <3>1, <3>2, <3>3 DEF Listing!Subdirs, Left
  <2>4. /\ frames' \in Seq(Call) /\ Len(frames') = K /\ frames' # <<>>
        /\ \A n \in 1..K : n # K => frames'[n] = frames[n]
        /\ frames'[K].dir = frames[K].dir /\ frames'[K].todo = frames[K].todo
        /\ frames'[K].dirName = Tail(s)
    BY <1>1, <1>8, <2>2, <2>3, CallsLeft
  <2>10. K \in 1..Len(frames) - 1 BY <2>1
  <2> HIDE DEF s, K
  <2>5. \A n \in 1..K : n \in 1..D /\ frames'[n].dir = frames[n].dir /\ frames'[n].todo = frames[n].todo
    BY <2>1, <2>4
  <2>6. ListTypes' BY <1>1, <1>2, <1>6, <2>1, <2>3, <2>4, BoundsAssumption DEF ListTypes
  <2>7. Calls'
    <3>1. ASSUME NEW n \in 1..K, n < K PROVE frames'[n].dirName # <<>>
      <4>1. frames'[n] = frames[n] /\ n \in 1..D /\ n < D BY <2>1, <2>4, <3>1
      <4> QED BY <1>1, <4>1 DEF Calls
    <3> QED BY <2>1, <2>3, <2>4, <3>1 DEF Calls
  <2>8. ASSUME Listing!Barred = {} PROVE OnPath'
    <3>1. s[1] \in STRING /\ Head(s) = s[1] BY <2>2, FirstOf DEF s
    <3>2. frames[D].dir = Append(frames[K].dir, s[1]) BY <1>1, <2>1, <2>8, <2>10, <3>1 DEF OnPath, s
    <3>3. Listing!Front(frames[D].dir) = frames[K].dir /\ frames[D].dir # <<>>
      BY <2>2, <3>1, <3>2, PathAppend
    <3>4. frames[D].dir # <<"..">> BY <1>1, <1>5, CallIs, DirTypes
    <3>5. cwd' = frames'[K].dir BY <1>6, <2>4, <2>8, <3>3, <3>4 DEF Listing!Parent
    <3>6. frames'[1].dir = argv BY <1>1, <1>4, <2>1, <2>5, <2>8 DEF OnPath
    <3>7. ASSUME NEW n \in 1..K - 1
          PROVE frames'[n + 1].dir = Append(frames'[n].dir, Head(frames'[n].dirName))
      <4>1. n \in 1..K /\ n + 1 \in 1..K /\ n # K /\ n \in 1..Len(frames) - 1 BY <1>5, <2>1 DEF K
      <4>2. frames'[n] = frames[n] /\ frames'[n + 1].dir = frames[n + 1].dir BY <2>4, <2>5, <4>1
      <4> QED BY <1>1, <2>8, <4>1, <4>2 DEF OnPath
    <3> QED BY <1>2, <2>3, <2>4, <3>5, <3>6, <3>7 DEF OnPath
  <2>9. ASSUME Good PROVE Complete'
    <3>1. Complete /\ OnPath BY <1>1, <2>9 DEF ListInv, Good
    <3>2. /\ Len(s) \in Nat \ {0} /\ Head(s) = s[1] /\ Len(Tail(s)) = Len(s) - 1
          /\ \A i \in 1..Len(Tail(s)) : Tail(s)[i] = s[i + 1]
      BY <2>2, FirstOf DEF s
    <3>3. Deep' BY <1>2, <2>4, <2>5, <3>1 DEF Complete, Deep
    <3>4. Fetched'
      <4>1. \A n \in 1..K : /\ "." \in frames[n].todo \/ Shown(frames[n].dir)
                            /\ \A c \in STRING : Append(frames[n].dir, c) \in Tree =>
                                 c \in frames[n].todo \/ Shown(Append(frames[n].dir, c))
        BY <1>1, <2>5, <3>1 DEF Complete, Fetched, Coming
      <4> QED BY <1>3, <2>4, <2>5, <4>1 DEF Fetched
    <3>5. Fetching'
      <4>1. \A n \in 1..K : frames'[n].todo = {} BY <1>1, <2>5, <3>1 DEF Complete, Fetching
      <4> QED BY <2>3, <2>4, <4>1 DEF Fetching
    <3>6. Named'
      <4>1. ASSUME NEW n \in 1..K, NEW i \in 1..Len(frames'[n].dirName)
            PROVE Append(frames'[n].dir, frames'[n].dirName[i]) \in Dirs
        <5>1. CASE n # K BY <2>4, <2>5, <3>1, <5>1 DEF Complete, Named
        <5>2. CASE n = K
          <6>1. i \in 1..Len(Tail(s)) BY <2>4, <5>2
          <6>2. i + 1 \in 1..Len(s) /\ frames'[n].dirName[i] = s[i + 1] BY <2>4, <3>2, <5>2, <6>1
          <6> QED BY <2>1, <2>5, <3>1, <5>2, <6>2 DEF Complete, Named, s
        <5> QED BY <5>1, <5>2
      <4> QED BY <2>4, <4>1 DEF Named
    <3>7. Entered'
      <4>1. ASSUME NEW q \in Dirs, Shown(q)
            PROVE  \/ \A c \in STRING : Append(q, c) \in Tree => Shown(Append(q, c))
                   \/ \E n \in 1..K : frames'[n].dir = q
                   \/ Awaited(q)'
        <5>1. CASE \E n \in 1..D : frames[n].dir = q BY <1>1, <2>9, <5>1, ClosedShown
        <5>2. CASE Awaited(q)
          <6>1. PICK n \in 1..D : \E i \in 1..Len(frames[n].dirName) :
                  Append(frames[n].dir, frames[n].dirName[i]) = q BY <5>2 DEF Awaited
          <6>2. PICK i \in 1..Len(frames[n].dirName) : Append(frames[n].dir, frames[n].dirName[i]) = q
            BY <6>1
          <6>3. n # D
            <7>1. frames[D].dirName = <<>> BY <1>1, <3>1 DEF Complete, Fetching
            <7> QED BY <6>2, <7>1
          <6>4. n \in 1..K BY <2>1, <6>3
          <6>5. CASE n # K
            <7>1. frames'[n] = frames[n] BY <2>4, <6>4, <6>5
            <7> QED BY <2>4, <6>2, <6>4, <7>1 DEF Awaited
          <6>6. CASE n = K /\ i = 1
            <7>1. frames[D].dir = q BY <2>1, <2>10, <3>1, <3>2, <6>2, <6>6 DEF OnPath, s
            <7> QED BY <1>5, <5>1, <7>1
          <6>7. CASE n = K /\ i # 1
            <7>1. i \in 1..Len(s) /\ Append(frames[n].dir, s[i]) = q BY <6>2, <6>7 DEF s
            <7>2. i - 1 \in 1..Len(Tail(s)) /\ i - 1 + 1 = i BY <3>2, <6>7, <7>1
            <7>3. Tail(s)[i - 1] = s[i - 1 + 1] BY <3>2, <7>2
            <7>4. i - 1 \in 1..Len(frames'[n].dirName) /\ frames'[n].dirName[i - 1] = s[i]
              BY <2>4, <6>7, <7>2, <7>3
            <7>5. Append(frames'[n].dir, frames'[n].dirName[i - 1]) = q BY <2>5, <6>4, <7>1, <7>4
            <7> QED BY <2>4, <6>4, <7>4, <7>5 DEF Awaited
          <6> QED BY <6>5, <6>6, <6>7
        <5> QED BY <3>1, <4>1, <5>1, <5>2 DEF Complete, Entered
      <4> QED BY <1>3, <2>4, <4>1 DEF Entered
    <3> QED BY <2>3, <3>3, <3>4, <3>5, <3>6, <3>7 DEF Complete, Begun
  <2> QED BY <1>3, <2>6, <2>7, <2>8, <2>9 DEF ListInv
<1>9. D = 1 \/ D > 1 BY <1>5
<1> QED BY <1>7, <1>8, <1>9

LEMMA ListStep == ASSUME ListInv, Listing!Step \/ Listing!Environment PROVE ListInv'
BY ListOpendir, ListChdir, ListReaddir, ListReadEnd, ListClosedir, ListEnvironment DEF Listing!Step

\* A set of natural numbers has a least one.
LEMMA Least ==
    ASSUME NEW T \in SUBSET Nat, T # {} PROVE \E x \in T : \A y \in T : x <= y
<1> DEFINE R == {ss \in Nat \X Nat : ss[1] < ss[2]}
<1>1. IsWellFoundedOn(R, Nat) BY NatLessThanWellFounded DEF OpToRel
<1>2. \A x, y \in Nat : y < x => <<y, x>> \in R OBVIOUS
<1> HIDE DEF R
<1>3. PICK x \in T : \A y \in T : ~(<<y, x>> \in R) BY <1>1, WFMin
<1>4. ASSUME NEW y \in T PROVE x <= y
  <2>1. ~(<<y, x>> \in R) BY <1>3
  <2>2. x \in Nat /\ y \in Nat OBVIOUS
  <2>3. ~(y < x) BY <1>2, <2>1, <2>2
  <2> QED BY <2>2, <2>3
<1> QED BY <1>4

\* The argument's directory and what is below it.
Under(q) == Len(q) >= Len(argv) /\ SubSeq(q, 1, Len(argv)) = argv

LEMMA UnderFront ==
    ASSUME argv \in Dirs, NEW q \in Tree, Under(q), q # argv
    PROVE  q # <<>> /\ Under(Listing!Front(q))
<1>1. argv \in Seq(STRING) /\ q \in Seq(STRING) /\ Len(argv) \in Nat /\ Len(q) \in Nat
  BY DirTypes, LenProperties
<1>2. q # <<>>
  <2>1. q = <<>> => Len(argv) = 0 BY <1>1, EmptySeq DEF Under
  <2> QED BY <1>1, <2>1, EmptySeq
<1> DEFINE d == Listing!Front(q)
           c == q[Len(q)]
<1>3. d \in Seq(STRING) /\ c \in STRING /\ q = Append(d, c) /\ Len(d) = Len(q) - 1
  BY <1>2, TreeEntry, DirTypes
<1> HIDE DEF d, c
<1>4. \A i \in 1..Len(d) : q[i] = d[i] BY <1>3, AppendProperties
<1>5. \A i \in 1..Len(argv) : argv[i] = q[i]
  <2>1. \A i \in 1..Len(argv) : q[i] \in STRING
    <3>1. \A i \in 1..Len(argv) : i \in 1..Len(q) BY <1>1 DEF Under
    <3> QED BY <1>1, <3>1, ElementOfSeq
  <2>2. \A i \in 1..Len(argv) - 1 + 1 : SubSeq(q, 1, Len(argv))[i] = q[1 + i - 1]
    BY <1>1, <2>1, SubSeqProperties
  <2>3. \A i \in 1..Len(argv) : i \in 1..Len(argv) - 1 + 1 /\ 1 + i - 1 = i BY <1>1
  <2> QED BY <2>2, <2>3 DEF Under
<1>6. Len(q) # Len(argv) BY <1>1, <1>5, SeqEqual
<1>7. Len(d) >= Len(argv) /\ Len(d) \in Nat
  <2>1. Len(q) >= Len(argv) BY DEF Under
  <2>2. Len(d) \in Nat BY <1>3, LenProperties
  <2> QED BY <1>1, <1>3, <1>6, <2>1, <2>2
<1> DEFINE e == SubSeq(d, 1, Len(argv))
<1>8. e = argv
  <2>1. \A i \in 1..Len(argv) : i \in 1..Len(d) BY <1>1, <1>7
  <2>2. \A i \in 1..Len(argv) : d[i] \in STRING BY <1>3, <2>1, ElementOfSeq
  <2>3. /\ e \in Seq(STRING) /\ Len(e) = (IF 1 <= Len(argv) THEN Len(argv) - 1 + 1 ELSE 0)
        /\ \A i \in 1..Len(argv) - 1 + 1 : e[i] = d[1 + i - 1]
    BY <1>1, <2>2, SubSeqProperties
  <2> HIDE DEF e
  <2>4. Len(e) = Len(argv) BY <1>1, <2>3
  <2>5. \A i \in 1..Len(argv) : i \in 1..Len(argv) - 1 + 1 /\ 1 + i - 1 = i BY <1>1
  <2>6. \A i \in 1..Len(argv) : e[i] = argv[i] BY <1>4, <1>5, <2>1, <2>3, <2>5
  <2> QED BY <1>1, <2>3, <2>4, <2>6, SeqEqual
<1> QED BY <1>2, <1>7, <1>8 DEF Under, d, e

\* Once the last call has returned, an entry that was not shown would be in a
\* directory that was not shown either, and so on up to the argument.
LEMMA AllShown ==
    ASSUME Good, Complete, pc = "end", frames = <<>>, argv \in Dirs, NEW p \in Tree, Under(p)
    PROVE  Shown(p)
<1> DEFINE T == {n \in Nat : \E q \in Tree : n = Len(q) /\ Under(q) /\ ~Shown(q)}
<1>1. T = {}
  <2> SUFFICES ASSUME T # {} PROVE FALSE OBVIOUS
  <2>1. PICK n \in T : \A m \in T : n <= m BY Least
  <2>2. PICK q \in Tree : n = Len(q) /\ Under(q) /\ ~Shown(q) BY <2>1
  <2>3. q # argv BY <2>2 DEF Complete, Begun
  <2> DEFINE d == Listing!Front(q)
             c == q[Len(q)]
  <2>4. q # <<>> /\ Under(d) BY <2>2, <2>3, UnderFront
  <2>5. Len(q) \in Nat \ {0} /\ d \in Dirs /\ c \in STRING /\ q = Append(d, c) /\ Len(d) = Len(q) - 1
    BY <2>4, TreeEntry
  <2> HIDE DEF d, c
  <2>6. d \in Tree /\ Len(d) \in Nat BY <2>5, DirTypes, LenProperties
  <2>7. Shown(d)
    <3>1. ~Shown(d) => Len(d) \in T BY <2>4, <2>6
    <3>2. Len(d) < n /\ n \in Nat BY <2>2, <2>5
    <3> QED BY <2>1, <2>6, <3>1, <3>2
  <2>8. ~Awaited(d) /\ ~\E m \in 1..Len(frames) : frames[m].dir = d BY DEF Awaited
  <2>9. Shown(Append(d, c)) BY <2>2, <2>5, <2>7, <2>8 DEF Complete, Entered
  <2> QED BY <2>2, <2>5, <2>9
<1> QED BY <1>1, LenProperties, DirTypes

LEMMA ListInvImplies == ASSUME ListInv PROVE Listing!TypeOK /\ Listing!Listed
<1>1. ListTypes /\ Calls /\ LinesRight /\ (Listing!Barred = {} => OnPath) BY DEF ListInv
<1>2. Listing!TypeOK
  <2>1. \A n \in 1..Len(frames) : frames[n].dir \in Dirs /\ frames[n].stat \in Tree \cup {Listing!Nothing}
    BY <1>1, CallIs
  <2> QED BY <1>1, <2>1 DEF ListTypes, Listing!TypeOK
<1>3. ASSUME Listing!Barred = {}
      PROVE  /\ pc \in {"open", "read", "close"} /\ frames # <<>> => cwd = Listing!Top.dir
             /\ pc = "end" /\ Len(argv) = 1 => cwd = Listing!Start
  BY <1>1, <1>3 DEF OnPath, Calls
<1>4. ASSUME pc = "end", Good PROVE \A p \in Tree : Under(p) => Shown(p)
  <2>1. Complete /\ frames = <<>> /\ argv \in Dirs BY <1>1, <1>4, DirTypes DEF ListInv, Calls, ListTypes
  <2> QED BY <1>4, <2>1, AllShown
<1>5. Listing!Listed BY <1>1, <1>3, <1>4 DEF Listing!Listed, LinesRight, Good, Shown, Under
<1> QED BY <1>2, <1>5

-----------------------------------------------------------------------------
(* All of them.                                                            *)

Inv ==
    /\ program \in DOMAIN ModuleOf
    /\ ModuleOf[program] = "FileCopy" => CopyInv
    /\ ModuleOf[program] = "FileModes" => ModesInv
    /\ ModuleOf[program] = "Listing" => ListInv
    /\ ModuleOf[program] = "Keyboard" => KeysInv
    /\ ModuleOf[program] = "Sensors" => SensorsInv

LEMMA InvInit == Init => Inv
BY CopyInit, ModesInit, ListInit, KeysInit, SensorsInit DEF Init, Inv

\* Only the module of the program that was started takes steps.
LEMMA OneModule ==
    ASSUME Next
    PROVE  \E m \in {"FileCopy", "FileModes", "Listing", "Keyboard", "Sensors"} :
             /\ ModuleOf[program] = m /\ Only(m)
             /\ m = "FileCopy" => FileCopy!Step \/ FileCopy!Environment
             /\ m = "FileModes" => FileModes!Step \/ FileModes!Environment
             /\ m = "Listing" => Listing!Step \/ Listing!Environment
             /\ m = "Keyboard" => Keyboard!Step \/ Keyboard!Environment
             /\ m = "Sensors" => Sensors!Convert \/ \E t \in Thread : Sensors!Step(t)
BY DEF Next, Step, Environment, Convert, Measure, Only

\* Whose invariant it is tells which module's program was started.
Belongs ==
    /\ CopyInv => program \in DOMAIN ModuleOf /\ ModuleOf[program] = "FileCopy"
    /\ ModesInv => program \in DOMAIN ModuleOf /\ ModuleOf[program] = "FileModes"
    /\ ListInv => program \in DOMAIN ModuleOf /\ ModuleOf[program] = "Listing"
    /\ KeysInv => program \in DOMAIN ModuleOf /\ ModuleOf[program] = "Keyboard"
    /\ SensorsInv => program \in DOMAIN ModuleOf /\ ModuleOf[program] = "Sensors"

LEMMA InvOf == Belongs
<1>1. CopyInv => program \in {"copy", "fcopy"} BY DEF CopyInv, CopyTypes
<1>2. ModesInv => program = "chmod" BY DEF ModesInv
<1>3. ListInv => program = "list" BY DEF ListInv, ListTypes
<1>4. KeysInv => program \in {"hitkey", "rpi6"} BY DEF KeysInv, KeyTypes
<1>5. SensorsInv => program \in {"pressure", "temperature"} BY DEF SensorsInv, SensorTypes
<1> QED BY <1>1, <1>2, <1>3, <1>4, <1>5 DEF Belongs, ModuleOf

LEMMA InvNext == Inv /\ [Next]_vars => Inv'
<1> SUFFICES ASSUME Inv, [Next]_vars PROVE Inv'
  OBVIOUS
<1>1. CASE UNCHANGED vars
  <2>1. UNCHANGED <<program, pc, ofCopy, ofModes, ofListing, ofKeyboard, ofSensors>> BY <1>1 DEF vars
  <2> QED BY <2>1, CopyFrame, ModesFrame, ListFrame, KeysFrame, SensorsFrame DEF Inv
<1>2. CASE Next
  <2>1. CopyInv' \/ ModesInv' \/ ListInv' \/ KeysInv' \/ SensorsInv'
    BY <1>2, OneModule, CopyStep, ModesStep, ListStep, KeysStep, SensorsConvert, SensorsStep DEF Inv
  <2>2. Belongs' BY InvOf, PTL
  <2> QED BY <2>1, <2>2 DEF Belongs, Inv
<1> QED BY <1>1, <1>2

LEMMA InvAlways == Spec => []Inv
BY InvInit, InvNext, PTL DEF Spec

\* Whatever program is started, its variables have their types: no more is in a
\* buffer than fits, no more directories are open than there are descriptors,
\* and what the functions compute are the numbers the registers can hold.
THEOREM TypeCorrect == Spec => []TypeOK
<1>1. Inv => TypeOK
  <2>1. program \in DOMAIN ModuleOf =>
          ModuleOf[program] \in {"FileCopy", "FileModes", "Listing", "Keyboard", "Sensors"}
    BY DEF ModuleOf
  <2> QED BY <2>1, CopyInvImplies, ModesInvImplies, ListInvImplies, KeysInvImplies, SensorsInvImplies
         DEF Inv, TypeOK
<1> QED BY <1>1, InvAlways, PTL

\* Copying keeps the order of the first file's bytes, and none is missing unless
\* a write has failed, which copy.c and fcopy.c do not see; but nothing that was
\* in it is left where both names are of one file.  chmod.c leaves 0644 with its
\* second file and changes two bits of its first, unless others change modes
\* meanwhile.  A line of list.c shows its own entry, and every entry below the
\* argument has one, unless something was removed, cannot be entered or read, or
\* the descriptors do not suffice.  Keys are taken in the order they are pressed,
\* none lost and none twice.
THEOREM KeptCorrect == Spec => []Kept
<1>1. Inv => Kept
  BY CopyInvImplies, ModesInvImplies, ListInvImplies, KeysInvImplies DEF Inv, Kept
<1> QED BY <1>1, InvAlways, PTL

\* What pressure and temperature compute is what the sensor has measured, for
\* all the registers can hold, unless two threads have measured at once or a
\* call has failed.
THEOREM MeasuredCorrect == Spec => []Measured
<1>1. Inv => Measured BY SensorsInvImplies DEF Inv, Measured
<1> QED BY <1>1, InvAlways, PTL
=============================================================================
