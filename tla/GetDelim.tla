------------------------------ MODULE GetDelim ------------------------------
(***************************************************************************)
(* getdelim.c and getline.c: lines of one stream read into a buffer that   *)
(* the calls keep and enlarge.                                             *)
(***************************************************************************)
EXTENDS Integers, Sequences

CONSTANTS
  Chars,      \* the characters of the stream, Delim among them
  Delim,
  BufSiz,     \* BUFSIZ
  FirstSizes, \* sizes of a buffer that the caller brings; 0 for none
  MaxInput,   \* bound: characters in the stream
  MaxLines    \* bound: calls

VARIABLES
  input,   \* what is left in the stream
  heap,    \* the buffer: its bytes, or NoBuf
  bufsiz,  \* *bufsiz
  ptr,     \* ptr - *buf
  line,    \* ghost: characters that this call has taken from the stream
  gpc,     \* "caller" or "loop"
  ret,     \* what the last call returned
  lines,   \* calls so far
  outside  \* ghost: a byte was written outside of the buffer

gvars == <<input, heap, bufsiz, ptr, line, gpc, ret, lines, outside>>

NoBuf == <<"none">>
Minus == -1
Junk == "junk"
Nul == "nul"
Filled(n) == [i \in 1 .. n |-> Junk]

Inputs == UNION {[1 .. n -> Chars] : n \in 0 .. MaxInput}

GInit ==
  /\ input \in Inputs
  /\ \E n \in FirstSizes : heap = (IF n = 0 THEN NoBuf ELSE Filled(n)) /\ bufsiz = n
  /\ ptr = 0 /\ line = <<>> /\ gpc = "caller" /\ ret = Minus /\ lines = 0 /\ outside = FALSE

Return(r) == gpc' = "caller" /\ ret' = r

(* The start of a call: a buffer is allocated when there is none.          *)
Begin ==
  /\ gpc = "caller" /\ lines < MaxLines
  /\ lines' = lines + 1 /\ ptr' = 0 /\ line' = <<>>
  /\ \/ /\ heap # NoBuf /\ bufsiz # 0
        /\ gpc' = "loop"
        /\ UNCHANGED <<heap, bufsiz, ret>>
     \/ /\ heap = NoBuf \/ bufsiz = 0
        /\ bufsiz' = BufSiz
        /\ \/ heap' = Filled(BufSiz) /\ gpc' = "loop" /\ UNCHANGED ret
           \/ heap' = NoBuf /\ Return(Minus)
  /\ UNCHANGED <<input, outside>>

Put(buf, i, c) == IF i \in DOMAIN buf THEN [buf EXCEPT ![i] = c] ELSE buf

NoRoom(p) == p + 2 >= bufsiz

\* Mutant: malloc instead of realloc.
EnlargedFresh(buf) == Filled(2 * Len(buf))

Enlarged(buf) == buf \o Filled(Len(buf))

(* realloc fails: the old buffer and its size stay together.               *)
Growth(buf) ==
  \/ heap' = Enlarged(buf) /\ bufsiz' = bufsiz * 2 /\ UNCHANGED <<gpc, ret>>
  \/ heap' = buf /\ Return(Minus) /\ UNCHANGED bufsiz

(* One character: stored, and the end of the line, more room, or the next. *)
GetChar ==
  /\ gpc = "loop" /\ input # <<>>
  /\ input' = Tail(input) /\ line' = Append(line, Head(input))
  /\ ptr' = ptr + 1
  /\ LET c == Head(input)
         stored == Put(heap, ptr + 1, c)
     IN /\ outside' = (outside \/ ptr + 1 > Len(heap) \/ (c = Delim /\ ptr + 2 > Len(heap)))
        /\ \/ /\ c = Delim
              /\ heap' = Put(stored, ptr + 2, Nul)
              /\ Return(ptr + 1)
              /\ UNCHANGED bufsiz
           \/ /\ c # Delim /\ NoRoom(ptr + 1)
              /\ Growth(stored)
           \/ /\ c # Delim /\ ~NoRoom(ptr + 1)
              /\ heap' = stored
              /\ UNCHANGED <<bufsiz, gpc, ret>>
  /\ UNCHANGED lines

(* The end of the file, or an error of the stream.                         *)
EndOfFile ==
  /\ gpc = "loop"
  /\ \/ input = <<>> /\ Return(IF ptr = 0 THEN Minus ELSE ptr)
     \/ Return(Minus)
  /\ UNCHANGED <<input, heap, bufsiz, ptr, line, lines, outside>>

GNext == Begin \/ GetChar \/ EndOfFile

-----------------------------------------------------------------------------
\* Every byte goes into the buffer, and the caller's size is the size of the buffer it
\* belongs to whenever the caller has it back, also when realloc failed in a line.
LineInBuffer ==
  /\ ~outside
  /\ gpc = "caller" /\ heap # NoBuf => bufsiz = Len(heap)

\* What a call has taken from the stream is at the start of the buffer, however often it
\* grew, and a count that is returned is the number of characters taken, up to a delimiter.
LineWhole ==
  gpc = "caller" /\ ret # Minus =>
    /\ ret = Len(line) /\ SubSeq(heap, 1, ret) = line
    /\ \A i \in 1 .. ret - 1 : line[i] # Delim
    /\ line[ret] = Delim => heap[ret + 1] = Nul

\* Every line that is returned is followed by a null, the last one of the file too
\* ("Read up to (and including) a DELIMITER from FP into *LINEPTR (and NUL-terminate it)").
LineTerminated ==
  gpc = "caller" /\ ret # Minus => heap[ret + 1] = Nul
=============================================================================
