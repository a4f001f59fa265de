----------------------------- MODULE MemStream -----------------------------
(***************************************************************************)
(* The stream of src/memstream.c: the callbacks stdio makes on the cookie  *)
(* of open_memstream, over a buffer that realloc moves and enlarges.       *)
(*                                                                         *)
(* A buffer is named by its capacity, which no two buffers of one stream   *)
(* share; the caller's *ptr is such a name, so a pointer to a buffer that  *)
(* realloc has given back shows as one.                                    *)
(***************************************************************************)
EXTENDS Integers, Sequences

CONSTANTS
  Capacity0,       \* the capacity of a new stream (4096)
  MaxDoublings,    \* bound: how often the capacity doubles
  MaxPosition,     \* bound: positions written or moved to
  MaxCount,        \* bound: bytes in one write or read
  Bytes,           \* bytes the program writes
  SizeModulus,     \* size_t counts modulo this
  BelowZero,       \* how far before the beginning SEEK_END may aim
  WriteMayFail,    \* whether realloc may fail in memstream_write
  SeekMayFail      \* whether realloc may fail in memstream_seek

Capacities == {Capacity0 * 2^k : k \in 0 .. MaxDoublings}
Byte       == Bytes \cup {0}

ASSUME SizeAssumption ==
  /\ Capacity0 \in Nat \ {0} /\ MaxDoublings \in Nat
  /\ MaxPosition \in Nat /\ MaxPosition < Capacity0 * 2^MaxDoublings
  /\ MaxCount \in Nat /\ BelowZero \in Nat
  /\ SizeModulus \in Nat /\ SizeModulus > MaxPosition
  /\ WriteMayFail \in BOOLEAN /\ SeekMayFail \in BOOLEAN

\* Powers are foreign to the provers: what they need to know of the capacities.
ASSUME CapacityAssumption ==
  /\ Capacities \subseteq Nat \ {0}
  /\ Capacity0 \in Capacities
  /\ \E c \in Capacities : c > MaxPosition

VARIABLES
  state,      \* "none" before open_memstream, "open", "closed"
  position,   \* the fields of struct memstream
  size,
  capacity,
  failed,     \* contents is NULL: realloc has failed
  buf,        \* the bytes of the one allocated buffer
  ptr,        \* the caller's *ptr, a capacity
  sizeloc,    \* the caller's *sizeloc
  got         \* history: what the last read returned, and what was at position

vars == <<state, position, size, capacity, failed, buf, ptr, sizeloc, got>>

-----------------------------------------------------------------------------
Least(a, b) == IF a < b THEN a ELSE b
SizeT(n)    == n % SizeModulus

\* The byte at index i of the buffer, -1 for whatever lies outside of it.
At(i) == IF i \in DOMAIN buf THEN buf[i] ELSE -1

\* The capacity memstream_grow doubles its way to.
NewCapacity(minsize) ==
  CHOOSE c \in Capacities :
    /\ c > capacity /\ c > minsize
    /\ \A d \in Capacities : d > capacity /\ d > minsize => c <= d

\* Mutant: the part realloc added is not cleared.
EnlargedUncleared(cap) ==
  [i \in 0 .. cap - 1 |-> IF i < capacity THEN buf[i]
                                          ELSE CHOOSE b \in Bytes : TRUE]

\* The buffer after realloc and memset, of cap >= capacity bytes.
Enlarged(cap) == [i \in 0 .. cap - 1 |-> IF i < capacity THEN buf[i] ELSE 0]

\* Mutant: *ptr is not told of the new buffer.
MovedPtrKept(cap) == ptr

\* *ptr after realloc gave a buffer of capacity cap.
MovedPtr(cap) == cap

\* memcpy(contents + at, bs, n); what falls outside of the buffer is not kept.
Copied(b, at, bs) ==
  [i \in DOMAIN b |-> LET k == i - at + 1
                      IN IF k \in DOMAIN bs THEN bs[k] ELSE b[i]]

\* if (size < position) *sizeloc = size = position, for the new position.
Extend(pos) ==
  /\ size' = IF size < pos THEN pos ELSE size
  /\ sizeloc' = IF size < pos THEN SizeT(pos) ELSE sizeloc

-----------------------------------------------------------------------------
Init ==
  /\ state = "none"
  /\ position = 0 /\ size = 0 /\ capacity = Capacity0
  /\ failed = FALSE
  /\ buf = [i \in 0 .. Capacity0 - 1 |-> 0]
  /\ ptr = 0 /\ sizeloc = 0
  /\ got = [bytes |-> <<>>, there |-> <<>>]

\* open_memstream; when an allocation or funopen fails it leaves nothing.
OpenMemstream ==
  /\ state = "none"
  /\ state' = "open"
  /\ ptr' = capacity
  /\ sizeloc' = SizeT(size)
  /\ UNCHANGED <<position, size, capacity, failed, buf, got>>

\* memstream_read: at most size - position bytes, taken from contents itself.
Read ==
  /\ state = "open" /\ ~failed
  /\ \E count \in 1 .. MaxCount :
       LET n == Least(size - position, count)
       IN /\ n >= 1
          /\ got' = [bytes |-> [i \in 1 .. n |-> At(i - 1)],
                     there |-> [i \in 1 .. n |-> At(position + i - 1)]]
          /\ position' = position + n
  /\ UNCHANGED <<state, size, capacity, failed, buf, ptr, sizeloc>>

\* Mutant: room for the bytes but not for the null that follows them.
NeedsGrowExact(end) == capacity < end

\* The test that makes memstream_write and memstream_seek grow the buffer.
NeedsGrow(end) == capacity <= end

\* memstream_write(bs).
Write(bs) ==
  LET end == position + Len(bs)
      cap == IF NeedsGrow(end) THEN NewCapacity(end) ELSE capacity
  IN /\ state = "open" /\ ~failed
     /\ end <= MaxPosition
     /\ \/ /\ buf' = Copied(Enlarged(cap), position, bs)
           /\ capacity' = cap
           /\ ptr' = IF NeedsGrow(end) THEN MovedPtr(cap) ELSE ptr
           /\ position' = end
           /\ Extend(end)
           /\ UNCHANGED failed
        \/ /\ NeedsGrow(end) /\ WriteMayFail
           /\ failed' = TRUE
           /\ UNCHANGED <<position, size, capacity, buf, ptr, sizeloc>>
     /\ UNCHANGED <<state, got>>

\* The positions memstream_seek is asked for.  stdio itself refuses a negative
\* SEEK_SET and turns SEEK_CUR into SEEK_SET (or passes SEEK_CUR 0, to learn
\* the position), but hands SEEK_END on with any offset.
SeekTargets == -BelowZero .. MaxPosition

\* memstream_seek to pos.  The result of memstream_grow is not looked at.
Seek(pos) ==
  LET cap == IF NeedsGrow(pos) THEN NewCapacity(pos) ELSE capacity
  IN /\ state = "open" /\ ~failed
     /\ \/ /\ buf' = Enlarged(cap)
           /\ capacity' = cap
           /\ ptr' = IF NeedsGrow(pos) THEN MovedPtr(cap) ELSE ptr
           /\ UNCHANGED failed
        \/ /\ NeedsGrow(pos) /\ SeekMayFail
           /\ failed' = TRUE
           /\ UNCHANGED <<capacity, buf, ptr>>
     /\ position' = pos
     /\ Extend(pos)
     /\ UNCHANGED <<state, got>>

\* memstream_close.
Close ==
  /\ state = "open"
  /\ state' = "closed"
  /\ IF failed THEN UNCHANGED <<size, buf, ptr, sizeloc>>
     ELSE /\ size' = Least(size, position)
          /\ ptr' = capacity
          /\ sizeloc' = SizeT(size')
          /\ buf' = [i \in DOMAIN buf |-> IF i = size' THEN 0 ELSE buf[i]]
  /\ UNCHANGED <<position, capacity, failed, got>>

Next ==
  \/ OpenMemstream \/ Read \/ Close
  \/ \E n \in 1 .. MaxCount : \E bs \in [1 .. n -> Bytes] : Write(bs)
  \/ \E pos \in SeekTargets : Seek(pos)

Spec == Init /\ [][Next]_vars

-----------------------------------------------------------------------------
TypeOK ==
  /\ state \in {"none", "open", "closed"}
  /\ position \in -BelowZero .. MaxPosition
  /\ size \in -BelowZero .. MaxPosition
  /\ capacity \in Capacities
  /\ failed \in BOOLEAN
  /\ buf \in [0 .. capacity - 1 -> Byte]
  /\ ptr \in Capacities \cup {0}
  /\ sizeloc \in 0 .. SizeModulus - 1

\* "A null byte is maintained at the end of the buffer": while the stream is
\* open every byte from size on is null and inside the buffer, which is what
\* the assertions of memstream_write and memstream_seek rest on, however often
\* the position moves back and forth.
NullAfterData ==
  state = "open" =>
    /\ size < capacity
    /\ \A i \in DOMAIN buf : i >= size => buf[i] = 0

\* What the caller finds: *ptr is the allocated buffer, also after a failed
\* realloc, and *sizeloc counts bytes inside it that are followed by a null.
CallerView ==
  state # "none" =>
    /\ ptr = capacity
    /\ sizeloc < capacity
    /\ buf[sizeloc] = 0

\* A read returns the bytes at the file position.
ReadsAtPosition == got.bytes = got.there

\* The bytes *ptr and *sizeloc show.
Shown(n) == [i \in 1 .. n |-> buf[i - 1]]

Stream == INSTANCE MemStreamSpec WITH
  MaxLength <- MaxPosition,
  state     <- IF state = "open" /\ failed THEN "failed" ELSE state,
  data      <- Shown(size),
  pos       <- position,
  visible   <- IF state = "none" \/ ptr = capacity THEN Shown(sizeloc)
                                                  ELSE <<-1>>

\* The callbacks implement the promised stream.
ImplementsStream == Stream!Spec
=============================================================================
