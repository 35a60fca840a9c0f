------------------------------ MODULE FileCopy ------------------------------
(***************************************************************************)
(* File/copy.c and File/fcopy.c: the first file is read buffer by buffer   *)
(* into the second.  Nobody looks at what write(), fwrite() or fclose()    *)
(* return, and a failed read() is taken for the end.  Meanwhile another    *)
(* process may append to the first file, or make room on a full device.    *)
(***************************************************************************)
EXTENDS Naturals, Sequences, SequencesExt

CONSTANTS Buf,      \* bytes in a buffer
          MaxLen,   \* bound: bytes that are ever in the first file
          MaxRoom   \* bound: bytes there is room for on the device

VARIABLES program,   \* copy or fcopy
          pc,        \* where it is
          same,      \* argv[1] and argv[2] are one file
          data,      \* the files; each byte that is ever written has a number
          size,      \* how many bytes the first file had at the start
          next,      \* the number of the next byte that is appended
          rpos,      \* the file offset of in
          wpos,      \* the file offset of out
          buf,       \* what the last read has put into the buffer
          stream,    \* fcopy: what fwrite() holds back
          room,      \* free bytes on the device
          lost       \* a call has failed, in part or as a whole

files == <<same, data, size, next, rpos, wpos, buf, stream, room, lost>>
vars  == <<program, pc, files>>

In  == "file1"
Out == IF same THEN "file1" ELSE "file2"

Init ==
    /\ program \in {"copy", "fcopy"}
    /\ pc = "open_in"
    /\ same \in BOOLEAN
    /\ size \in 0..MaxLen /\ next = size + 1
    /\ data = [file1 |-> [n \in 1..size |-> n], file2 |-> <<0>>]
    /\ rpos = 0 /\ wpos = 0
    /\ buf = <<>> /\ stream = <<>>
    /\ room \in 0..MaxRoom
    /\ lost = FALSE

Least(m, n) == IF m < n THEN m ELSE n

Going == pc \notin {"ok", "error", "killed"}

OpenIn ==
    /\ pc = "open_in"
    /\ pc' \in {"open_out", "error"}
    /\ UNCHANGED <<program, files>>

\* O_CREAT and O_TRUNC, or "w", if the file can be opened.
OpenOut ==
    /\ pc = "open_out"
    /\ \/ pc' = "read" /\ data' = [data EXCEPT ![Out] = <<>>]
       \/ pc' = "error" /\ UNCHANGED data
    /\ UNCHANGED <<program, same, size, next, rpos, wpos, buf, stream, room, lost>>

\* read() or fread(): 0 at the end, but also after an error, ends the loop.
Read ==
    /\ pc = "read"
    /\ \/ /\ rpos < Len(data[In])
          /\ buf' = SubSeq(data[In], rpos + 1, Least(rpos + Buf, Len(data[In])))
          /\ rpos' = rpos + Len(buf')
          /\ pc' = "write"
          /\ UNCHANGED lost
       \/ /\ pc' = "close"
          /\ lost' = (lost \/ rpos < Len(data[In]))
          /\ UNCHANGED <<rpos, buf>>
    /\ UNCHANGED <<program, same, data, size, next, wpos, stream, room>>

\* The kernel takes what there is room for, and says how much that is.
Put(bytes) ==
    LET n == Least(Len(bytes), room)
        d == data[Out]
        end == IF wpos + n > Len(d) THEN wpos + n ELSE Len(d)
    IN
    /\ data' = [data EXCEPT ![Out] =
                  [i \in 1..end |-> IF i \in wpos+1..wpos+n THEN bytes[i - wpos] ELSE d[i]]]
    /\ wpos' = wpos + n
    /\ room' = room - n
    /\ lost' = (lost \/ n < Len(bytes))

\* write(out, buf, n).
Write ==
    /\ program = "copy" /\ pc = "write"
    /\ Put(buf)
    /\ pc' = "read"
    /\ UNCHANGED <<program, same, size, next, rpos, buf, stream>>

\* fwrite(buf, sizeof(char), n, out) into the stream, which is flushed now
\* and then.
Fwrite ==
    /\ program = "fcopy" /\ pc = "write"
    /\ stream' = stream \o buf
    /\ pc' \in {"read", "flush"}
    /\ UNCHANGED <<program, same, data, size, next, rpos, wpos, buf, room, lost>>

Flush ==
    /\ pc = "flush"
    /\ Put(stream)
    /\ stream' = <<>>
    /\ pc' = "read"
    /\ UNCHANGED <<program, same, size, next, rpos, buf>>

\* close() of both, and return 0; fclose() flushes.
Close ==
    /\ pc = "close"
    /\ Put(stream)
    /\ stream' = <<>>
    /\ pc' = "ok"
    /\ UNCHANGED <<program, same, size, next, rpos, buf>>

Step == OpenIn \/ OpenOut \/ Read \/ Write \/ Fwrite \/ Flush \/ Close

-----------------------------------------------------------------------------

\* Another process appends to the first file.
Grow ==
    /\ Going /\ next <= MaxLen
    /\ data' = [data EXCEPT ![In] = Append(@, next)]
    /\ next' = next + 1
    /\ UNCHANGED <<program, pc, same, size, rpos, wpos, buf, stream, room, lost>>

\* Another process makes room.
Free ==
    /\ Going /\ room < MaxRoom
    /\ room' = room + 1
    /\ UNCHANGED <<program, pc, same, data, size, next, rpos, wpos, buf, stream, lost>>

\* The program is killed, and what the stream holds is gone.
Killed ==
    /\ Going
    /\ pc' = "killed"
    /\ stream' = <<>>
    /\ UNCHANGED <<program, same, data, size, next, rpos, wpos, buf, room, lost>>

Environment == Grow \/ Free \/ Killed

Next == Step \/ Environment

Spec == Init /\ [][Next]_vars

-----------------------------------------------------------------------------
(* Correctness.                                                            *)

\* Every variable has its type.
TypeOK ==
    /\ pc \in {"open_in", "open_out", "read", "write", "flush", "close", "ok", "error", "killed"}
    /\ \A f \in DOMAIN data : data[f] \in Seq(0..MaxLen)
    /\ rpos \in 0..MaxLen /\ wpos \in 0..MaxLen
    /\ Len(buf) <= Buf
    /\ room \in 0..MaxRoom

Increasing(s) == \A i, j \in DOMAIN s : i < j => s[i] < s[j]

\* From the first read() on, the second file is a beginning of the first one,
\* with a stream's bytes behind it, and all of it, as it was when it was read
\* for the last time, once 0 is returned; a call that fails leaves a gap but no
\* byte twice or in the wrong place.  If the two are one file, nothing is left
\* of it, and 0 is returned as well.
Copied ==
    pc \in {"read", "write", "flush", "close", "ok"} =>
      IF same
      THEN \A n \in DOMAIN data[Out] : data[Out][n] > size
      ELSE /\ Increasing(data[Out])
           /\ ~lost =>
                /\ IsPrefix(data[Out] \o stream, data[In])
                /\ pc \in {"close", "ok"} => Len(data[Out] \o stream) = rpos
=============================================================================
