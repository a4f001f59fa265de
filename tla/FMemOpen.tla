----------------------------- MODULE FMemOpen ------------------------------
(***************************************************************************)
(* The stream of src/fmemopen.c: a stdio stream over a fixed buffer, given *)
(* by the program or allocated by fmemopen.  The cookie keeps the size of  *)
(* the buffer, the length of the data and the offset, all of type size_t,  *)
(* whose differences wrap around.                                          *)
(***************************************************************************)
EXTENDS FMemSizes

Byte  == Bytes \cup {0}
Mode  == [kind : {"r", "w", "a"}, plus : BOOLEAN, bin : BOOLEAN]
Index == 0 .. Size - 1

VARIABLES
  state,   \* "none" before fmemopen, "open", "closed"
  mode,    \* what the mode argument says
  own,     \* the fields of struct fmemopen_cookie
  buf,
  len,
  off,
  last,    \* history: the last callback, where it began and how many bytes
  astray   \* history: a read has begun past the data

vars == <<state, mode, own, buf, len, off, last, astray>>

Nothing == [op |-> "none", from |-> 0, n |-> 0]

-----------------------------------------------------------------------------
\* a - b of two size_t values.
Minus(a, b) == (a - b) % SizeModulus

Smaller(a, b) == IF a < b THEN a ELSE b

\* funopen gets fmemopen_read unless the mode is write-only, and fmemopen_write
\* always, since flags & O_RDONLY is never set.
Readable(m) == m.kind = "r" \/ m.plus

\* strnlen(b, Size).
Strnlen(b) ==
  LET nulls == {i \in Index : b[i] = 0}
  IN IF nulls = {} THEN Size ELSE CHOOSE i \in nulls : \A j \in nulls : i <= j

\* memcpy(buf + at, bs, n); what falls outside of the buffer is not kept.
Copied(b, at, bs) ==
  [i \in Index |-> IF i - at + 1 \in DOMAIN bs THEN bs[i - at + 1] ELSE b[i]]

\* Mutant: w+ and allocated buffers keep their first byte.
OpenedBufUntouched(b, m, mine) == b

\* buf[0] = '\0' for a buffer of fmemopen's own and for mode w.
OpenedBuf(b, m, mine) ==
  [b EXCEPT ![0] = IF mine \/ m.kind = "w" THEN 0 ELSE @]

\* The length of the data of a stream just opened.
OpenedLen(b, m) ==
  CASE m.kind = "a" -> Strnlen(b)
    [] m.kind = "r" -> Size
    [] m.kind = "w" -> 0

-----------------------------------------------------------------------------
Init ==
  /\ state = "none"
  /\ mode \in Mode /\ own \in BOOLEAN
  /\ buf \in [Index -> Byte]
  /\ len = 0 /\ off = 0
  /\ last = Nothing /\ astray = FALSE

\* fmemopen.  Without a buffer the mode must allow reading and writing.
Open ==
  /\ state = "none"
  /\ own => mode.plus
  /\ state' = "open"
  /\ buf' = OpenedBuf(buf, mode, own)
  /\ len' = OpenedLen(buf', mode)
  /\ off' = IF mode.kind = "a" THEN len' ELSE 0
  /\ last' = [Nothing EXCEPT !.op = "open"]
  /\ UNCHANGED <<mode, own, astray>>

\* Mutant: a read is cut at the end of the buffer, not of the data.
ReadCountOfBuffer(nbytes) == Smaller(nbytes, Minus(Size, off))

\* How much of nbytes fmemopen_read gives.
ReadCount(nbytes) == Smaller(nbytes, Minus(len, off))

\* fmemopen_read.  Past the data the difference has wrapped around, and what is
\* given comes from behind the data, or from behind the buffer.
Read(nbytes) ==
  /\ state = "open" /\ Readable(mode)
  /\ ReadCount(nbytes) # 0
  /\ off + nbytes <= Reach
  /\ last' = [op |-> "read", from |-> off, n |-> ReadCount(nbytes)]
  /\ off' = off + ReadCount(nbytes)
  /\ astray' = (astray \/ off > len)
  /\ UNCHANGED <<state, mode, own, buf, len>>

\* Mutant: a write is not cut at all.
WriteCountUncut(nbytes, at) == nbytes

\* How much of nbytes fmemopen_write takes at offset at.
WriteCount(nbytes, at) == Smaller(nbytes, Minus(Size, at))

\* if (off > len) len = off.
NewLen(end) == IF end > len THEN end ELSE len

\* The null byte fmemopen_write puts after text.
Terminated(b, end) ==
  IF ~mode.bin /\ end < Size /\ b[end - 1] # 0
    THEN [b EXCEPT ![end] = 0] ELSE b

\* Mutant: SEEK_END goes to the last byte of the data.
EndOfDataOneLess == IF len = 0 THEN 0 ELSE len - 1

\* Where fmemopen_seek's SEEK_END 0 leads.
EndOfData == len

\* fmemopen_write.  An append stream (__SAPP) is first moved by stdio to
\* SEEK_END 0, also when nothing fits.
Write(bs) ==
  LET at == IF mode.kind = "a" THEN EndOfData ELSE off
      n  == WriteCount(Len(bs), at)
  IN /\ state = "open"
     /\ at + Len(bs) <= Reach
     /\ last' = [op |-> "write", from |-> at, n |-> n]
     /\ off' = at + n
     /\ \/ n = 0 /\ UNCHANGED <<len, buf>>
        \/ /\ n # 0
           /\ len' = NewLen(at + n)
           /\ buf' = Terminated(Copied(buf, at, SubSeq(bs, 1, n)), at + n)
     /\ UNCHANGED <<state, mode, own, astray>>

\* fmemopen_seek to offset pos: SEEK_SET up to the size of the buffer, SEEK_END
\* up to the length of the data.  stdio passes no negative SEEK_SET, and makes
\* SEEK_SET of SEEK_CUR unless it only asks for the offset.
Seek(pos) ==
  /\ state = "open"
  /\ pos <= Size \/ pos <= len
  /\ off' = pos
  /\ last' = Nothing
  /\ UNCHANGED <<state, mode, own, buf, len, astray>>

\* fmemopen_close.
Close ==
  /\ state = "open"
  /\ state' = "closed"
  /\ last' = Nothing
  /\ UNCHANGED <<mode, own, buf, len, off, astray>>

Next ==
  \/ Open \/ Close
  \/ \E nbytes \in 1 .. MaxCount : Read(nbytes)
  \/ \E n \in 1 .. MaxCount : \E bs \in [1 .. n -> Byte] : Write(bs)
  \/ \E pos \in 0 .. Reach : Seek(pos)

Spec == Init /\ [][Next]_vars

-----------------------------------------------------------------------------
TypeOK ==
  /\ state \in {"none", "open", "closed"}
  /\ mode \in Mode /\ own \in BOOLEAN
  /\ buf \in [Index -> Byte]
  /\ len \in 0 .. Reach /\ off \in 0 .. Reach
  /\ last \in [op : {"none", "open", "read", "write"}, from : Nat, n : Nat]
  /\ astray \in BOOLEAN

\* fmemopen_read and fmemopen_write touch nothing outside of the buffer, wherever
\* earlier seeks, reads and short writes have left the offset, up to the first read
\* that begins past the data.
WithinBuffer == ~astray => last.from + last.n <= Size

\* "a read operation doesn't go past the end of the data actually written".
ReadsStayInData == last.op = "read" => last.from + last.n <= len

\* It does not, up to the first read that begins past the data, where a seek has left
\* the offset (fmemopen_read): no read, write or seek on the way leads there.
ReadsWithinData == ~astray => ReadsStayInData

\* A text stream holds a null-terminated string: unless the data fills the
\* buffer there is a null byte in the data or right after it, whatever was
\* overwritten in between.
TextTerminated ==
  state # "none" /\ ~mode.bin /\ len < Size => \E i \in 0 .. len : buf[i] = 0

\* A step of an append stream leaves the bytes below len alone.
DataKept ==
  state = "open" /\ mode.kind = "a" =>
    \A i \in Index : i < len => buf'[i] = buf[i]

\* A stream opened for appending never changes what the buffer already holds
\* as data, wherever it has been moved in between.
AppendKeepsData == [][DataKept]_vars
=============================================================================
