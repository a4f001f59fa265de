-------------------------- MODULE FMemOpenProofs ---------------------------
(***************************************************************************)
(* Proofs about FMemOpen, for every buffer size, mode and content, and for *)
(* streams that are moved and read past their data, too.                   *)
(***************************************************************************)
EXTENDS FMemOpen, WellFoundedInduction, TLAPS

\* Every non-empty set of naturals has a least element.
LEMMA LeastExists ==
  ASSUME NEW S, S \subseteq Nat, S # {}
  PROVE  \E c \in S : \A d \in S : c <= d
<1>1. PICK c \in S : \A d \in S : ~ (<<d, c>> \in OpToRel(<, Nat))
  BY WFMin, NatLessThanWellFounded
<1>2. \A d \in S : ~ (d < c)
  BY <1>1 DEF OpToRel
<1> QED
  BY <1>2

\* strnlen stops at a null byte or at the size.
LEMMA StrnlenWorks ==
  ASSUME NEW b \in [Index -> Byte]
  PROVE  /\ Strnlen(b) \in 0 .. Size
         /\ Strnlen(b) < Size => b[Strnlen(b)] = 0
<1> DEFINE nulls == {i \in Index : b[i] = 0}
<1>0. Size \in Nat /\ nulls \subseteq Nat
  BY FMemAssumption DEF Index
<1>1. CASE nulls = {}
  BY <1>0, <1>1 DEF Strnlen
<1>2. CASE nulls # {}
  <2>1. \E c \in nulls : \A d \in nulls : c <= d
    <3> HIDE DEF nulls
    <3> QED
      BY <1>0, <1>2, LeastExists
  <2>2. Strnlen(b) \in nulls
    BY <1>2, <2>1 DEF Strnlen
  <2> QED
    BY <1>0, <2>2 DEF Index
<1> QED
  BY <1>1, <1>2

\* The difference of two size_t values, where it does not wrap around.
LEMMA MinusExact ==
  ASSUME NEW a \in 0 .. Size, NEW b \in 0 .. Size, b <= a
  PROVE  Minus(a, b) = a - b
BY FMemAssumption DEF Minus

\* Any difference is a size_t.
LEMMA MinusType ==
  ASSUME NEW a \in Int, NEW b \in Int
  PROVE  Minus(a, b) \in Nat
BY FMemAssumption DEF Minus

\* memcpy of the first n bytes keeps the buffer's type.
LEMMA CopiedType ==
  ASSUME NEW b \in [Index -> Byte], NEW at \in Nat,
         NEW k \in Nat, NEW bs \in [1 .. k -> Byte], NEW n \in 0 .. k
  PROVE  Copied(b, at, SubSeq(bs, 1, n)) \in [Index -> Byte]
<1>1. bs \in Seq(Byte) /\ Len(bs) = k
  OBVIOUS
<1>2. /\ DOMAIN SubSeq(bs, 1, n) = 1 .. n
      /\ \A i \in 1 .. n : SubSeq(bs, 1, n)[i] \in Byte
  BY <1>1
<1> QED
  BY <1>2 DEF Copied

LEMMA TerminatedType ==
  ASSUME NEW b \in [Index -> Byte], NEW end
  PROVE  Terminated(b, end) \in [Index -> Byte]
BY DEF Terminated, Byte

-----------------------------------------------------------------------------
\* A stream that was never read past its data, or that only appends, ends in its buffer.
InBuffer == (~astray => off <= Size) /\ (~astray \/ mode.kind = "a" => len <= Size)

\* The inductive invariant of a stream.
FMemInv ==
  TypeOK /\ InBuffer /\ WithinBuffer /\ ReadsWithinData /\ TextTerminated

LEMMA FMemInit == Init => FMemInv
<1> SUFFICES ASSUME Init PROVE FMemInv
  OBVIOUS
<1>0. Size \in Nat /\ Reach \in Nat
  BY FMemAssumption
<1>1. last = [op |-> "none", from |-> 0, n |-> 0]
  BY DEF Init, Nothing
<1>2. own \in BOOLEAN /\ astray \in BOOLEAN
  BY Zenon DEF Init
<1>3. TypeOK
  BY <1>0, <1>1, <1>2 DEF Init, TypeOK
<1> QED
  BY <1>0, <1>1, <1>3
     DEF Init, FMemInv, InBuffer, WithinBuffer, ReadsWithinData, ReadsStayInData, TextTerminated

\* What fmemopen_write does at offset at, and how much of the data it takes: no more than
\* fits, if it begins in the buffer.
LEMMA WriteFacts ==
  ASSUME FMemInv, NEW k \in 1 .. MaxCount, NEW bs \in [1 .. k -> Byte],
         Write(bs)
  PROVE  LET at == IF mode.kind = "a" THEN len ELSE off
             n  == WriteCount(Len(bs), at)
         IN /\ at \in 0 .. Reach /\ n \in 0 .. k /\ at + n <= Reach
            /\ at <= Size => at + n <= Size
            /\ state = "open" /\ state' = "open" /\ mode' = mode /\ own' = own
            /\ last' = [op |-> "write", from |-> at, n |-> n]
            /\ off' = at + n /\ astray' = astray
            /\ Copied(buf, at, SubSeq(bs, 1, n)) \in [Index -> Byte]
            /\ \/ n = 0 /\ UNCHANGED <<len, buf>>
               \/ /\ n # 0
                  /\ len' = NewLen(at + n)
                  /\ buf' = Terminated(Copied(buf, at, SubSeq(bs, 1, n)), at + n)
<1> DEFINE at == IF mode.kind = "a" THEN len ELSE off
           n  == WriteCount(Len(bs), at)
<1>1. Size \in Nat /\ Reach \in Nat /\ MaxCount \in Nat /\ k \in Nat /\ Len(bs) = k
  BY FMemAssumption
<1>2. at \in 0 .. Reach
  BY DEF FMemInv, TypeOK
<1>3. Minus(Size, at) \in Nat /\ (at <= Size => Minus(Size, at) = Size - at)
  <2> HIDE DEF at, n
  <2>1. Minus(Size, at) \in Nat
    BY <1>1, <1>2, FMemAssumption DEF Minus
  <2>2. ASSUME at <= Size PROVE Minus(Size, at) = Size - at
    BY <1>1, <1>2, <2>2, MinusExact
  <2> QED
    BY <2>1, <2>2
<1>4. n \in 0 .. k /\ (at <= Size => at + n <= Size)
  BY <1>1, <1>2, <1>3 DEF WriteCount, Smaller
<1>5. Copied(buf, at, SubSeq(bs, 1, n)) \in [Index -> Byte]
  <2> HIDE DEF at, n
  <2>1. at \in Nat /\ buf \in [Index -> Byte]
    BY <1>1, <1>2 DEF FMemInv, TypeOK
  <2> QED
    BY <1>1, <1>4, <2>1, CopiedType
<1>6. at + n <= Reach
  BY <1>1, <1>2, <1>4 DEF Write, EndOfData
<1> QED
  BY <1>2, <1>4, <1>5, <1>6 DEF Write, EndOfData

\* Every step of a stream keeps the invariant.
LEMMA FMemStep == FMemInv /\ [Next]_vars => FMemInv'
<1> SUFFICES ASSUME FMemInv, [Next]_vars PROVE FMemInv'
  OBVIOUS
<1>0. /\ Size \in Nat /\ Size > 0 /\ MaxCount \in Nat /\ Reach \in Nat
      /\ Reach >= Size + MaxCount
  BY FMemAssumption
<1>1. CASE Open
  <2> DEFINE b == OpenedBuf(buf, mode, own)
  <2>1. b \in [Index -> Byte] /\ (own \/ mode.kind = "w" => b[0] = 0)
    BY <1>0 DEF OpenedBuf, FMemInv, TypeOK, Byte, Index
  <2>2. /\ buf' = b /\ len' = OpenedLen(b, mode)
        /\ off' = IF mode.kind = "a" THEN len' ELSE 0
        /\ state' = "open" /\ mode' = mode /\ own' = own /\ astray' = astray
        /\ last' = [op |-> "open", from |-> 0, n |-> 0]
    BY <1>1 DEF Open, Nothing
  <2>3. mode \in Mode /\ own \in BOOLEAN /\ astray \in BOOLEAN
    BY DEF FMemInv, TypeOK
  <2> HIDE DEF b
  <2>4. Strnlen(b) \in 0 .. Size /\ (Strnlen(b) < Size => b[Strnlen(b)] = 0)
    BY <2>1, StrnlenWorks
  <2>5. /\ len' \in 0 .. Size /\ off' \in {0, len'}
        /\ len' < Size => b[len'] = 0
    <3>1. CASE mode.kind = "a"
      BY <2>2, <2>4, <3>1 DEF OpenedLen
    <3>2. CASE mode.kind = "r"
      BY <1>0, <2>2, <3>2 DEF OpenedLen
    <3>3. CASE mode.kind = "w"
      BY <1>0, <2>1, <2>2, <3>3 DEF OpenedLen
    <3> QED
      BY <2>3, <3>1, <3>2, <3>3 DEF Mode
  <2>6. TypeOK' /\ InBuffer'
    BY <1>0, <2>1, <2>2, <2>3, <2>5 DEF TypeOK, InBuffer
  <2>7. WithinBuffer' /\ ReadsWithinData'
    BY <1>0, <2>2 DEF WithinBuffer, ReadsWithinData, ReadsStayInData
  <2>8. TextTerminated'
    BY <1>0, <2>2, <2>5 DEF TextTerminated
  <2> QED
    BY <2>6, <2>7, <2>8 DEF FMemInv
<1>2. CASE Close
  BY <1>0, <1>2 DEF Close, FMemInv, TypeOK, InBuffer, WithinBuffer, ReadsWithinData,
                    ReadsStayInData, TextTerminated, Nothing
<1>3. ASSUME NEW nbytes \in 1 .. MaxCount, Read(nbytes) PROVE FMemInv'
  <2>1. len \in 0 .. Reach /\ off \in 0 .. Reach /\ off + nbytes <= Reach
    BY <1>3 DEF Read, FMemInv, TypeOK
  <2>2. ReadCount(nbytes) \in 0 .. nbytes
    BY <1>0, <2>1, MinusType DEF ReadCount, Smaller
  <2>3. ~astray' => off + ReadCount(nbytes) <= len /\ len <= Size
    <3> SUFFICES ASSUME ~astray' PROVE off + ReadCount(nbytes) <= len /\ len <= Size
      OBVIOUS
    <3>1. ~astray /\ ~(off > len)
      BY <1>3, Zenon DEF Read
    <3>3. off <= len /\ len <= Size
      BY <1>0, <2>1, <3>1 DEF FMemInv, InBuffer
    <3>2. Minus(len, off) = len - off
      BY <1>0, <2>1, <3>3, MinusExact
    <3> QED
      BY <2>1, <3>2, <3>3 DEF ReadCount, Smaller
  <2> HIDE DEF ReadCount
  <2>4. /\ last' = [op |-> "read", from |-> off, n |-> ReadCount(nbytes)]
        /\ off' = off + ReadCount(nbytes)
        /\ astray' \in BOOLEAN
        /\ UNCHANGED <<state, mode, own, buf, len>>
    BY <1>3 DEF Read
  <2>5. TypeOK' /\ InBuffer'
    BY <1>0, <2>1, <2>2, <2>3, <2>4 DEF FMemInv, TypeOK, InBuffer
  <2> QED
    BY <1>0, <2>1, <2>2, <2>3, <2>4, <2>5
       DEF FMemInv, WithinBuffer, ReadsWithinData, ReadsStayInData, TextTerminated
<1>4. ASSUME NEW k \in 1 .. MaxCount, NEW bs \in [1 .. k -> Byte], Write(bs)
      PROVE  FMemInv'
  <2> DEFINE at == IF mode.kind = "a" THEN len ELSE off
             n  == WriteCount(Len(bs), at)
             b  == Copied(buf, at, SubSeq(bs, 1, n))
             end == at + n
  <2>1. /\ at \in 0 .. Reach /\ n \in Nat /\ end <= Reach /\ end \in Nat
        /\ at <= Size => end <= Size
        /\ state = "open" /\ state' = "open" /\ mode' = mode /\ own' = own
        /\ last' = [op |-> "write", from |-> at, n |-> n]
        /\ off' = end /\ astray' = astray
        /\ b \in [Index -> Byte]
        /\ \/ n = 0 /\ UNCHANGED <<len, buf>>
           \/ n # 0 /\ end >= 1 /\ len' = NewLen(end) /\ buf' = Terminated(b, end)
    BY <1>0, <1>4, WriteFacts
  <2>2. /\ len \in 0 .. Reach /\ off \in 0 .. Reach /\ mode \in Mode /\ own \in BOOLEAN
        /\ buf \in [Index -> Byte] /\ astray \in BOOLEAN
    BY DEF FMemInv, TypeOK
  <2>3. at = IF mode.kind = "a" THEN len ELSE off
    OBVIOUS
  <2>4. end = at + n
    OBVIOUS
  <2>5. ~astray \/ mode.kind = "a" => at <= Size
    BY <2>3 DEF FMemInv, InBuffer
  <2> HIDE DEF at, n, b, end
  <2>6. CASE n = 0
    <3>1. UNCHANGED <<len, buf>> /\ off' = at
      BY <2>1, <2>2, <2>4, <2>6
    <3> QED
      BY <1>0, <2>1, <2>2, <2>4, <2>5, <2>6, <3>1
         DEF FMemInv, TypeOK, InBuffer, WithinBuffer, ReadsWithinData, ReadsStayInData, TextTerminated
  <2>7. CASE n # 0
    <3>1. /\ end >= 1 /\ len' = NewLen(end) /\ buf' = Terminated(b, end)
      BY <2>1, <2>7
    <3>2. len' \in 0 .. Reach /\ end <= len' /\ len' \in {len, end}
      BY <1>0, <2>1, <2>2, <3>1 DEF NewLen
    <3>3. buf' \in [Index -> Byte]
      BY <2>1, <3>1, TerminatedType
    <3>4. TypeOK' /\ InBuffer' /\ WithinBuffer' /\ ReadsWithinData'
      <4>1. TypeOK'
        BY <2>1, <2>2, <3>2, <3>3 DEF TypeOK
      <4>2. InBuffer'
        BY <1>0, <2>1, <2>2, <2>5, <3>2 DEF FMemInv, InBuffer
      <4> QED
        BY <2>1, <2>4, <2>5, <4>1, <4>2 DEF WithinBuffer, ReadsWithinData, ReadsStayInData
    <3>5. ASSUME ~mode.bin, len' < Size PROVE \E i \in 0 .. len' : buf'[i] = 0
      <4>1. end \in Index /\ end - 1 \in Index /\ end \in 0 .. len' /\ end - 1 \in 0 .. len'
        BY <1>0, <2>1, <3>1, <3>2, <3>5 DEF Index
      <4>2. CASE b[end - 1] # 0
        <5>1. buf' = [b EXCEPT ![end] = 0]
          BY <1>0, <2>1, <3>1, <3>5, <4>1, <4>2 DEF Terminated, Index
        <5>2. buf'[end] = 0
          BY <2>1, <4>1, <5>1
        <5> QED
          BY <4>1, <5>2
      <4>3. CASE b[end - 1] = 0
        <5>1. buf' = b
          BY <3>1, <4>3 DEF Terminated
        <5> QED
          BY <4>1, <4>3, <5>1
      <4> QED
        BY <4>2, <4>3
    <3> QED
      BY <2>1, <3>4, <3>5 DEF FMemInv, TextTerminated
  <2> QED
    BY <2>6, <2>7
<1>5. ASSUME NEW pos \in 0 .. Reach, Seek(pos) PROVE FMemInv'
  BY <1>0, <1>5 DEF Seek, FMemInv, TypeOK, InBuffer, WithinBuffer, ReadsWithinData,
                    ReadsStayInData, TextTerminated, Nothing
<1>6. CASE UNCHANGED vars
  BY <1>6 DEF vars, FMemInv, TypeOK, InBuffer, WithinBuffer, ReadsWithinData,
              ReadsStayInData, TextTerminated
<1> QED
  BY <1>1, <1>2, <1>3, <1>4, <1>5, <1>6 DEF Next

\* The length, the offset and the bytes of the buffer keep their types.
THEOREM TypeCorrect == Spec => []TypeOK
<1>1. FMemInv => TypeOK
  BY DEF FMemInv
<1> QED
  BY <1>1, FMemInit, FMemStep, PTL DEF Spec

\* No callback touches memory outside of the buffer (fmemopen_read, fmemopen_write), up to
\* the first read that begins past the data.
THEOREM StaysWithinBuffer == Spec => []WithinBuffer
<1>1. FMemInv => WithinBuffer
  BY DEF FMemInv
<1> QED
  BY <1>1, FMemInit, FMemStep, PTL DEF Spec

\* A read gives nothing but data (fmemopen_read), up to the first that begins past it.
THEOREM ReadsStayWithinData == Spec => []ReadsWithinData
<1>1. FMemInv => ReadsWithinData
  BY DEF FMemInv
<1> QED
  BY <1>1, FMemInit, FMemStep, PTL DEF Spec

\* A text stream always holds a terminated string, unless it is full (fmemopen_write),
\* also one that was read past its data.
THEOREM TextIsTerminated == Spec => []TextTerminated
<1>1. FMemInv => TextTerminated
  BY DEF FMemInv
<1> QED
  BY <1>1, FMemInit, FMemStep, PTL DEF Spec

\* Each step of an append stream leaves its data alone.
LEMMA AppendStep == FMemInv /\ [Next]_vars => [DataKept]_vars
<1> SUFFICES ASSUME FMemInv, [Next]_vars, state = "open", mode.kind = "a",
                    NEW i \in Index, i < len
             PROVE  buf'[i] = buf[i]
  BY DEF DataKept
<1>1. ASSUME NEW k \in 1 .. MaxCount, NEW bs \in [1 .. k -> Byte], Write(bs)
      PROVE  buf'[i] = buf[i]
  <2> DEFINE n == WriteCount(Len(bs), len)
             b == Copied(buf, len, SubSeq(bs, 1, n))
  <2>1. /\ len \in 0 .. Size /\ n \in 0 .. k /\ len + n <= Size
        /\ b \in [Index -> Byte]
        /\ \/ n = 0 /\ UNCHANGED buf
           \/ n # 0 /\ buf' = Terminated(b, len + n)
    BY <1>1, WriteFacts DEF FMemInv, TypeOK, InBuffer
  <2>2. Size \in Nat /\ k \in Nat /\ i \in Nat /\ Len(bs) = k
    BY FMemAssumption DEF Index
  <2>3. DOMAIN SubSeq(bs, 1, n) = 1 .. n
    <3> HIDE DEF n
    <3>1. bs \in Seq(Byte)
      BY <2>2
    <3> QED
      BY <2>1, <2>2, <3>1
  <2>4. b[i] = buf[i]
    <3>1. i - len + 1 \notin DOMAIN SubSeq(bs, 1, n)
      BY <2>1, <2>2, <2>3
    <3> QED
      BY <3>1 DEF Copied
  <2> HIDE DEF n, b
  <2>5. n # 0 => Terminated(b, len + n)[i] = b[i]
    BY <2>1, <2>2 DEF Terminated
  <2> QED
    BY <2>1, <2>4, <2>5
<1>2. ASSUME NEW nbytes \in 1 .. MaxCount, Read(nbytes) PROVE buf'[i] = buf[i]
  BY <1>2 DEF Read
<1>3. ASSUME NEW pos \in 0 .. Reach, Seek(pos) PROVE buf'[i] = buf[i]
  BY <1>3 DEF Seek
<1>4. CASE Open
  BY <1>4 DEF Open
<1>5. CASE Close
  BY <1>5 DEF Close
<1>6. CASE UNCHANGED vars
  BY <1>6 DEF vars
<1> QED
  BY <1>1, <1>2, <1>3, <1>4, <1>5, <1>6 DEF Next

\* A stream opened for appending never changes the data it already holds.
THEOREM AppendOnlyAdds == Spec => AppendKeepsData
BY AppendStep, FMemInit, FMemStep, PTL DEF Spec, AppendKeepsData
=============================================================================
