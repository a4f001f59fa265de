------------------------------ MODULE Dprintf -------------------------------
(***************************************************************************)
(* vdprintf of src/dprintf.c: a stream is made for a descriptor, printed   *)
(* to and closed, and the descriptor must stay open. stdio writes when the *)
(* buffer that vdprintf brings is full and when the stream is closed.      *)
(***************************************************************************)
EXTENDS Integers

CONSTANT StdioBuf   \* BUFSIZ

\* An fdopen that worked: a FILE whose _cookie is itself, as far as is known.
Fdopen(asExpected) == [cookie |-> asExpected, close |-> TRUE]

\* The close function is taken out of a FILE that looks as expected.
NoClose(stream) == IF stream.cookie THEN [stream EXCEPT !.close = FALSE] ELSE stream

\* vfprintf of n characters: room is how many the file takes before write fails.
\* What is left is in the buffer.
VFPrintf(n, room) ==
  LET full == (n \div StdioBuf) * StdioBuf
  IN [ret |-> IF full <= room THEN n ELSE -1, written |-> IF full <= room THEN full ELSE room]

\* fclose: the rest of the buffer, then the close function, if there is one.
Fclose(stream, n, printed, room) ==
  LET ok == printed.ret >= 0 /\ n <= room
  IN [ret |-> IF ok THEN 0 ELSE -1, written |-> IF ok THEN n ELSE room, open |-> ~stream.close]

VDPrintf(fdopens, asExpected, n, room) ==
  LET stream  == NoClose(Fdopen(asExpected))
      printed == VFPrintf(n, room)
      closed  == Fclose(stream, n, printed, room)
  IN IF ~fdopens THEN [ret |-> -1, written |-> 0, open |-> TRUE]
     ELSE [ret |-> IF closed.ret # 0 THEN -1 ELSE printed.ret, written |-> closed.written, open |-> closed.open]

-----------------------------------------------------------------------------
\* A count that is returned is in the file when the call returns, also what was still in
\* the buffer, and the descriptor of a FILE with the known layout stays open.
PrintedAll(asExpected, n, room, r) ==
  /\ r.ret = -1 \/ (r.ret = n /\ r.written = n)
  /\ r.written <= room
  /\ asExpected => r.open
=============================================================================
