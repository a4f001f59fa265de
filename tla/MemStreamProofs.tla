-------------------------- MODULE MemStreamProofs --------------------------
(***************************************************************************)
(* Proofs about MemStream, for every initial capacity, every bound and     *)
(* every set of bytes.                                                     *)
(***************************************************************************)
EXTENDS MemStream, SequenceTheorems, WellFoundedInduction, TLAPS

\* Every non-empty set of naturals has a least element.
LEMMA LeastOf ==
  ASSUME NEW S, S \subseteq Nat, S # {}
  PROVE  \E c \in S : \A d \in S : c <= d
<1>1. PICK c \in S : \A d \in S : ~ (<<d, c>> \in OpToRel(<, Nat))
  BY WFMin, NatLessThanWellFounded
<1>2. \A d \in S : ~ (d < c)
  BY <1>1 DEF OpToRel
<1> QED
  BY <1>2

\* memstream_grow finds a capacity above the old one and above what is asked.
LEMMA GrowWorks ==
  ASSUME capacity \in Capacities, NEW m \in Int, m <= MaxPosition,
         capacity <= m
  PROVE  /\ NewCapacity(m) \in Capacities
         /\ NewCapacity(m) > capacity
         /\ NewCapacity(m) > m
<1> DEFINE S == {c \in Capacities : c > capacity /\ c > m}
<1> Capacities \subseteq Nat
  BY CapacityAssumption
<1>1. S # {}
  <2>1. PICK c \in Capacities : c > MaxPosition
    BY CapacityAssumption
  <2>2. c > capacity /\ c > m
    BY <2>1, SizeAssumption
  <2> QED
    BY <2>2
<1>2. PICK c \in S : \A d \in S : c <= d
  <2> HIDE DEF S
  <2> S \subseteq Nat
    BY DEF S
  <2> QED
    BY <1>1, LeastOf
<1>3. \E x \in Capacities : /\ x > capacity /\ x > m
                            /\ \A d \in Capacities :
                                 d > capacity /\ d > m => x <= d
  BY <1>2
<1> QED
  BY <1>3 DEF NewCapacity

\* size_t values are what the modulus leaves.
LEMMA SizeTInRange ==
  ASSUME NEW n \in Int
  PROVE  SizeT(n) \in 0 .. SizeModulus - 1
BY SizeAssumption DEF SizeT

LEMMA SizeTExact ==
  ASSUME NEW n \in 0 .. MaxPosition
  PROVE  SizeT(n) = n
BY SizeAssumption DEF SizeT

-----------------------------------------------------------------------------
\* The constants' facts that the steps below use.
LEMMA Sizes ==
  /\ MaxPosition \in Nat /\ BelowZero \in Nat /\ MaxCount \in Nat
  /\ Capacities \subseteq Nat \ {0} /\ Capacity0 \in Capacities
  /\ 0 \in Byte /\ Bytes \subseteq Byte
BY SizeAssumption, CapacityAssumption DEF Byte

\* The capacity a callback ends with, whether it grew the buffer or not.
Settled(m) == IF NeedsGrow(m) THEN NewCapacity(m) ELSE capacity

LEMMA SettledWorks ==
  ASSUME capacity \in Capacities, NEW m \in Int, m <= MaxPosition
  PROVE  /\ Settled(m) \in Capacities
         /\ Settled(m) >= capacity
         /\ Settled(m) > m
<1>1. capacity \in Nat
  BY Sizes
<1>2. CASE capacity <= m
  <2>1. Settled(m) = NewCapacity(m)
    BY <1>2 DEF Settled, NeedsGrow
  <2>2. /\ NewCapacity(m) \in Capacities
        /\ NewCapacity(m) > capacity /\ NewCapacity(m) > m
    BY <1>2, GrowWorks
  <2>3. NewCapacity(m) \in Nat
    BY <2>2, Sizes
  <2> QED
    BY <1>1, <2>1, <2>2, <2>3
<1>3. CASE ~(capacity <= m)
  BY <1>1, <1>3 DEF Settled, NeedsGrow
<1> QED
  BY <1>2, <1>3

\* *sizeloc = size = position stays within the types.
LEMMA ExtendType ==
  ASSUME TypeOK, NEW pos \in -BelowZero .. MaxPosition, Extend(pos)
  PROVE  /\ size' \in -BelowZero .. MaxPosition
         /\ sizeloc' \in 0 .. SizeModulus - 1
<1>1. pos \in Int
  BY Sizes
<1>2. SizeT(pos) \in 0 .. SizeModulus - 1
  BY <1>1, SizeTInRange
<1>3. CASE size < pos
  BY <1>2, <1>3 DEF Extend
<1>4. CASE ~(size < pos)
  BY <1>4 DEF Extend, TypeOK
<1> QED
  BY <1>3, <1>4

\* realloc and memset give a buffer of the new capacity.
LEMMA EnlargedType ==
  ASSUME TypeOK, NEW c \in Nat, c >= capacity
  PROVE  Enlarged(c) \in [0 .. c - 1 -> Byte]
BY Sizes DEF TypeOK, Enlarged

LEMMA CopiedType ==
  ASSUME NEW c \in Nat, NEW b \in [0 .. c - 1 -> Byte], NEW at \in Int,
         NEW n \in Nat, NEW bs \in [1 .. n -> Bytes]
  PROVE  Copied(b, at, bs) \in [0 .. c - 1 -> Byte]
BY Sizes DEF Copied

\* Len of the bytes of a write.
LEMMA LenOf ==
  ASSUME NEW n \in Nat, NEW bs \in [1 .. n -> Bytes]
  PROVE  Len(bs) = n
OBVIOUS

\* Every step keeps the types.
LEMMA TypeStep == TypeOK /\ [Next]_vars => TypeOK'
<1> SUFFICES ASSUME TypeOK, [Next]_vars PROVE TypeOK'
  OBVIOUS
<1>1. CASE OpenMemstream
  BY <1>1, Sizes, SizeTInRange DEF OpenMemstream, TypeOK
<1>2. CASE Read
  BY <1>2, Sizes DEF Read, TypeOK, Least
<1>3. CASE Close
  <2>1. CASE failed
    BY <1>3, <2>1 DEF Close, TypeOK
  <2>2. CASE ~failed
    <3>1. size' \in -BelowZero .. MaxPosition
      BY <1>3, <2>2, Sizes DEF Close, TypeOK, Least
    <3>2. sizeloc' \in 0 .. SizeModulus - 1
      BY <1>3, <2>2, <3>1, Sizes, SizeTInRange DEF Close
    <3>3. buf' \in [0 .. capacity - 1 -> Byte]
      BY <1>3, <2>2, Sizes DEF Close, TypeOK
    <3> QED
      BY <1>3, <2>2, <3>1, <3>2, <3>3 DEF Close, TypeOK
  <2> QED
    BY <2>1, <2>2
<1>4. ASSUME NEW n \in 1 .. MaxCount, NEW bs \in [1 .. n -> Bytes], Write(bs)
      PROVE  TypeOK'
  <2> DEFINE end == position + Len(bs)
             cap == Settled(end)
  <2>1. end \in Int /\ end >= -BelowZero /\ end <= MaxPosition
    BY <1>4, LenOf, Sizes DEF TypeOK, Write
  <2>2. CASE failed' = TRUE
    BY <1>4, <2>2 DEF TypeOK, Write
  <2>3. CASE failed' # TRUE
    <3>1. /\ buf' = Copied(Enlarged(cap), position, bs) /\ capacity' = cap
          /\ ptr' \in {ptr, cap} /\ position' = end /\ Extend(end)
          /\ UNCHANGED <<state, failed>>
      BY <1>4, <2>3 DEF Write, Settled, MovedPtr
    <3>2. cap \in Capacities /\ cap >= capacity /\ cap \in Nat
      BY <2>1, SettledWorks, Sizes DEF TypeOK
    <3> HIDE DEF end, cap
    <3>3. Enlarged(cap) \in [0 .. cap - 1 -> Byte]
      BY <3>2, EnlargedType
    <3>4. buf' \in [0 .. capacity' - 1 -> Byte]
      BY <3>1, <3>2, <3>3, CopiedType, Sizes DEF TypeOK
    <3>5. size' \in -BelowZero .. MaxPosition /\ sizeloc' \in 0 .. SizeModulus - 1
      BY <3>1, <2>1, ExtendType, Sizes
    <3> QED
      BY <2>1, <3>1, <3>2, <3>4, <3>5, Sizes DEF TypeOK
  <2> QED
    BY <2>2, <2>3
<1>5. ASSUME NEW pos \in SeekTargets, Seek(pos)
      PROVE  TypeOK'
  <2>1. pos \in -BelowZero .. MaxPosition
    BY <1>5 DEF SeekTargets
  <2>2. size' \in -BelowZero .. MaxPosition /\ sizeloc' \in 0 .. SizeModulus - 1
    BY <1>5, <2>1, ExtendType DEF Seek
  <2>3. CASE UNCHANGED <<capacity, buf, ptr>>
    BY <1>5, <2>1, <2>2, <2>3, Sizes DEF Seek, TypeOK
  <2>4. CASE ~UNCHANGED <<capacity, buf, ptr>>
    <3> DEFINE cap == Settled(pos)
    <3>1. /\ buf' = Enlarged(cap) /\ capacity' = cap /\ ptr' \in {ptr, cap}
          /\ position' = pos /\ UNCHANGED <<state, failed>>
      BY <1>5, <2>4 DEF Seek, Settled, MovedPtr
    <3>2. cap \in Capacities /\ cap >= capacity /\ cap \in Nat
      <4>1. pos \in Int /\ pos <= MaxPosition /\ capacity \in Capacities
        BY <2>1, Sizes DEF TypeOK
      <4> QED
        BY <4>1, SettledWorks, Sizes
    <3> HIDE DEF cap
    <3>3. buf' \in [0 .. capacity' - 1 -> Byte]
      BY <3>1, <3>2, EnlargedType
    <3> QED
      BY <2>1, <2>2, <3>1, <3>2, <3>3, Sizes DEF TypeOK
  <2> QED
    BY <2>3, <2>4
<1>6. CASE UNCHANGED vars
  BY <1>6 DEF vars, TypeOK
<1> QED
  BY <1>1, <1>2, <1>3, <1>4, <1>5, <1>6 DEF Next

LEMMA TypeInit == Init => TypeOK
BY Sizes, SizeAssumption DEF Init, TypeOK

\* The types of the stream hold in every state, whatever fails and wherever
\* the program seeks.
THEOREM TypeCorrect == Spec => []TypeOK
BY TypeInit, TypeStep, PTL DEF Spec

-----------------------------------------------------------------------------
\* What the code relies on without checking it: realloc does not fail in
\* memstream_seek, and nobody seeks before the beginning.
SeeksAreSafe == ~SeekMayFail /\ BelowZero = 0

\* The bytes beyond the data are null, also after seeking back to overwrite.
ZeroTail == state # "closed" => \A i \in DOMAIN buf : i >= size => buf[i] = 0

\* The position is inside the data, the data leave room for a null, and the
\* caller's variables agree with the stream's.
Bookkeeping ==
  /\ 0 <= position /\ position <= size /\ size < capacity
  /\ buf[size] = 0
  /\ state # "none" => ptr = capacity /\ sizeloc = size

StreamInv == TypeOK /\ ZeroTail /\ Bookkeeping

LEMMA StreamInit == Init => StreamInv
BY Sizes, SizeAssumption, TypeInit DEF Init, StreamInv, ZeroTail, Bookkeeping

\* The stream's invariant is kept by each callback.
LEMMA StreamStep ==
  ASSUME SeeksAreSafe
  PROVE  StreamInv /\ [Next]_vars => StreamInv'
<1> SUFFICES ASSUME StreamInv, [Next]_vars PROVE (ZeroTail /\ Bookkeeping)'
  BY TypeStep DEF StreamInv
<1>0. /\ TypeOK /\ TypeOK' /\ BelowZero = 0 /\ ~SeekMayFail
      /\ capacity \in Nat /\ capacity > 0 /\ DOMAIN buf = 0 .. capacity - 1
      /\ position \in 0 .. MaxPosition /\ size \in 0 .. MaxPosition
      /\ MaxPosition \in Nat
  BY TypeStep, Sizes DEF StreamInv, TypeOK, SeeksAreSafe
<1>1. CASE OpenMemstream
  <2>1. SizeT(size) = size
    BY <1>0, SizeTExact
  <2> QED
    BY <1>0, <1>1, <2>1 DEF OpenMemstream, StreamInv, ZeroTail, Bookkeeping
<1>2. CASE Read
  BY <1>0, <1>2, Sizes DEF Read, StreamInv, ZeroTail, Bookkeeping, Least
<1>3. CASE Close
  <2>1. CASE failed
    BY <1>0, <1>3, <2>1 DEF Close, StreamInv, ZeroTail, Bookkeeping
  <2>2. CASE ~failed
    <3>1. size' = position
      BY <1>0, <1>3, <2>2 DEF Close, StreamInv, Bookkeeping, Least
    <3>2. sizeloc' = size' /\ size' \in 0 .. capacity - 1
      BY <1>0, <1>3, <2>2, <3>1, SizeTExact DEF Close, StreamInv, Bookkeeping
    <3>3. buf'[size'] = 0
      BY <1>0, <1>3, <2>2, <3>2 DEF Close
    <3> QED
      BY <1>0, <1>3, <2>2, <3>1, <3>2, <3>3 DEF Close, StreamInv, ZeroTail, Bookkeeping
  <2> QED
    BY <2>1, <2>2
<1>4. ASSUME NEW n \in 1 .. MaxCount, NEW bs \in [1 .. n -> Bytes], Write(bs)
      PROVE  (ZeroTail /\ Bookkeeping)'
  <2> DEFINE end == position + Len(bs)
             cap == Settled(end)
  <2>1. end \in 0 .. MaxPosition /\ Len(bs) = n /\ DOMAIN bs = 1 .. n
    BY <1>0, <1>4, LenOf, Sizes DEF Write
  <2>2. CASE failed' = TRUE
    BY <1>0, <1>4, <2>2 DEF Write, StreamInv, ZeroTail, Bookkeeping
  <2>3. CASE failed' # TRUE
    <3>1. /\ buf' = Copied(Enlarged(cap), position, bs) /\ capacity' = cap
          /\ ptr' = IF NeedsGrow(end) THEN cap ELSE ptr
          /\ position' = end /\ Extend(end)
          /\ state = "open" /\ state' = "open"
      BY <1>4, <2>3 DEF Write, Settled, MovedPtr
    <3>2. cap \in Nat /\ cap >= capacity /\ cap > end
      <4>1. end \in Int /\ end <= MaxPosition /\ capacity \in Capacities
        BY <1>0, <2>1 DEF TypeOK
      <4> QED
        BY <4>1, SettledWorks, Sizes
    <3>3. ptr' = capacity'
      BY <3>1 DEF Settled, StreamInv, Bookkeeping
    <3> HIDE DEF end, cap
    <3>4. /\ size' = IF size < end THEN end ELSE size
          /\ sizeloc' = size' /\ size' >= end /\ size' >= size
          /\ size' \in Nat /\ size' < cap
      BY <1>0, <2>1, <3>1, <3>2, SizeTExact DEF Extend, StreamInv, Bookkeeping
    <3>5. ASSUME NEW i \in 0 .. cap - 1, i >= size' PROVE buf'[i] = 0
      <4>1. Enlarged(cap)[i] = 0
        BY <1>0, <3>1, <3>4, <3>5 DEF Enlarged, StreamInv, ZeroTail
      <4>2. i - position + 1 \notin DOMAIN bs
        BY <1>0, <2>1, <3>4, <3>5 DEF end
      <4>3. DOMAIN Enlarged(cap) = 0 .. cap - 1
        BY DEF Enlarged
      <4> QED
        BY <3>1, <4>1, <4>2, <4>3 DEF Copied
    <3>6. DOMAIN buf' = 0 .. cap - 1
      BY <3>1 DEF Copied, Enlarged
    <3> QED
      BY <1>0, <2>1, <3>1, <3>2, <3>3, <3>4, <3>5, <3>6 DEF ZeroTail, Bookkeeping
  <2> QED
    BY <2>2, <2>3
<1>5. ASSUME NEW pos \in SeekTargets, Seek(pos)
      PROVE  (ZeroTail /\ Bookkeeping)'
  <2> DEFINE cap == Settled(pos)
  <2>1. pos \in 0 .. MaxPosition
    BY <1>0, <1>5 DEF SeekTargets
  <2>2. /\ buf' = Enlarged(cap) /\ capacity' = cap
        /\ ptr' = IF NeedsGrow(pos) THEN cap ELSE ptr
        /\ position' = pos /\ Extend(pos)
        /\ state = "open" /\ state' = "open"
    BY <1>0, <1>5 DEF Seek, Settled, MovedPtr
  <2>3. cap \in Nat /\ cap >= capacity /\ cap > pos
    <3>1. pos \in Int /\ pos <= MaxPosition /\ capacity \in Capacities
      BY <1>0, <2>1 DEF TypeOK
    <3> QED
      BY <3>1, SettledWorks, Sizes
  <2>4. ptr' = capacity'
    BY <2>2 DEF Settled, StreamInv, Bookkeeping
  <2> HIDE DEF cap
  <2>5. /\ sizeloc' = size' /\ size' >= pos /\ size' >= size
        /\ size' \in Nat /\ size' < cap
    BY <1>0, <2>1, <2>2, <2>3, SizeTExact DEF Extend, StreamInv, Bookkeeping
  <2>6. ASSUME NEW i \in 0 .. cap - 1, i >= size' PROVE buf'[i] = 0
    BY <1>0, <2>2, <2>5, <2>6 DEF Enlarged, StreamInv, ZeroTail
  <2>7. DOMAIN buf' = 0 .. cap - 1
    BY <2>2 DEF Enlarged
  <2> QED
    BY <1>0, <2>1, <2>2, <2>3, <2>4, <2>5, <2>6, <2>7 DEF ZeroTail, Bookkeeping
<1>6. CASE UNCHANGED vars
  BY <1>6 DEF vars, StreamInv, ZeroTail, Bookkeeping
<1> QED
  BY <1>1, <1>2, <1>3, <1>4, <1>5, <1>6 DEF Next

\* While the stream is open the data are followed by nulls inside the buffer:
\* the assertions of memstream_write and memstream_seek never fail.
THEOREM NullIsMaintained ==
  ASSUME SeeksAreSafe
  PROVE  Spec => []NullAfterData
<1>1. StreamInv => NullAfterData
  BY DEF StreamInv, ZeroTail, Bookkeeping, NullAfterData
<1> QED
  BY <1>1, StreamInit, StreamStep, PTL DEF Spec

\* The caller always finds the allocated buffer and a size inside it, followed
\* by a null, also after a realloc failed and after the stream is closed.
THEOREM CallerSeesBuffer ==
  ASSUME SeeksAreSafe
  PROVE  Spec => []CallerView
<1>1. StreamInv => CallerView
  BY DEF StreamInv, Bookkeeping, CallerView
<1> QED
  BY <1>1, StreamInit, StreamStep, PTL DEF Spec

-----------------------------------------------------------------------------
(* The refinement of MemStreamSpec.                                        *)

\* An array of bytes is a sequence of them.
LEMMA ArrayIsSeq ==
  ASSUME NEW n \in Nat, NEW S, NEW a \in [1 .. n -> S]
  PROVE  a \in Seq(S) /\ Len(a) = n /\ DOMAIN a = 1 .. n
OBVIOUS

\* A sequence is the array of its elements.
LEMMA SeqIsArray ==
  ASSUME NEW S, NEW s \in Seq(S), NEW n \in Nat, NEW a \in [1 .. n -> S], Len(s) = n,
         \A i \in 1 .. n : s[i] = a[i]
  PROVE  s = a
BY ArrayIsSeq, SeqEqual

\* Two sequences of bytes, one after the other.
LEMMA Joined ==
  \A a, b \in Seq(Byte) :
    /\ a \o b \in Seq(Byte) /\ Len(a \o b) = Len(a) + Len(b)
    /\ \A i \in 1 .. Len(a) : (a \o b)[i] = a[i]
    /\ \A i \in 1 .. Len(b) : (a \o b)[Len(a) + i] = b[i]
OBVIOUS

\* What Overwrite leaves: the new bytes at p, the old ones around them.
LEMMA OverwriteIs ==
  ASSUME NEW m \in Nat, NEW s \in [1 .. m -> Byte], NEW p \in 0 .. m,
         NEW n \in Nat, NEW bs \in [1 .. n -> Bytes]
  PROVE  Stream!Overwrite(s, p, bs) =
           [i \in 1 .. (IF m < p + n THEN p + n ELSE m) |->
              IF i - p \in 1 .. n THEN bs[i - p] ELSE s[i]]
<1>k. PICK k \in Nat : k = IF m < p + n THEN p + n ELSE m
  OBVIOUS
<1>r. PICK r : r = [i \in 1 .. k |-> IF i - p \in 1 .. n THEN bs[i - p] ELSE s[i]]
  OBVIOUS
<1>s. /\ r \in [1 .. k -> Byte]
      /\ \A i \in 1 .. k : r[i] = IF i - p \in 1 .. n THEN bs[i - p] ELSE s[i]
  BY <1>k, <1>r, Sizes
<1> DEFINE a == SubSeq(s, 1, p)
           c == SubSeq(s, p + n + 1, m)
<1>1. s \in Seq(Byte) /\ Len(s) = m /\ bs \in Seq(Byte) /\ Len(bs) = n
  BY ArrayIsSeq, Sizes
<1>2. /\ a \in Seq(Byte) /\ Len(a) = p
      /\ \A i \in 1 .. p : a[i] = s[i]
  BY SubSeqProperties
<1>3. /\ c \in Seq(Byte) /\ Len(c) = IF p + n < m THEN m - (p + n) ELSE 0
      /\ \A i \in 1 .. m - (p + n) : c[i] = s[p + n + i]
  <2>1. \A i \in p + n + 1 .. m : s[i] \in Byte
    OBVIOUS
  <2>2. /\ c \in Seq(Byte) /\ Len(c) = IF p + n + 1 <= m THEN m - (p + n + 1) + 1 ELSE 0
        /\ \A i \in 1 .. m - (p + n + 1) + 1 : c[i] = s[p + n + 1 + i - 1]
    BY <2>1, SubSeqProperties
  <2> QED
    BY <2>2
<1> HIDE DEF a, c
<1>4. PICK b : b = a \o bs
  OBVIOUS
<1>5. /\ b \in Seq(Byte) /\ Len(b) = Len(a) + Len(bs)
      /\ \A i \in 1 .. Len(a) : b[i] = a[i]
      /\ \A i \in 1 .. Len(bs) : b[Len(a) + i] = bs[i]
  <2>1. a \in Seq(Byte) /\ bs \in Seq(Byte)
    BY <1>1, <1>2
  <2> QED
    BY <1>4, <2>1, Joined, Zenon
<1>b. /\ Len(b) = p + n
      /\ \A i \in 1 .. p : b[i] = a[i]
      /\ \A i \in 1 .. n : b[p + i] = bs[i]
  BY <1>1, <1>2, <1>5, Zenon
<1>c. PICK w : w = b \o c
  OBVIOUS
<1>d. /\ w \in Seq(Byte) /\ Len(w) = Len(b) + Len(c)
      /\ \A i \in 1 .. Len(b) : w[i] = b[i]
      /\ \A i \in 1 .. Len(c) : w[Len(b) + i] = c[i]
  BY <1>3, <1>5, <1>c, Joined, Zenon
<1>6. PICK l \in Nat : l = Len(c) /\ l = IF p + n < m THEN m - (p + n) ELSE 0
  <2>1. Len(c) \in Nat
    BY <1>3
  <2> QED
    BY <1>3, <2>1, Zenon
<1>e. /\ Len(w) = p + n + l
      /\ \A i \in 1 .. p + n : w[i] = b[i]
      /\ \A i \in 1 .. l : w[p + n + i] = c[i]
  BY <1>6, <1>b, <1>d, Zenon
<1>7. \A i \in 1 .. k : w[i] = r[i]
  <2> SUFFICES ASSUME NEW i \in 1 .. k PROVE w[i] = r[i]
    OBVIOUS
  <2>1. CASE i <= p
    <3>1. i \in 1 .. p /\ i \in 1 .. p + n /\ i \in 1 .. m /\ ~(i - p \in 1 .. n)
      BY <2>1
    <3> QED
      BY <1>2, <1>b, <1>e, <1>s, <3>1
  <2>2. CASE i > p /\ i <= p + n
    <3>1. PICK h \in 1 .. n : i = p + h
      BY <2>2
    <3>2. w[i] = b[i] /\ b[i] = bs[h]
      BY <1>b, <1>e, <2>2, <3>1
    <3>3. i - p = h
      BY <3>1
    <3> QED
      BY <1>s, <3>2, <3>3
  <2>3. CASE i > p + n
    <3>1. PICK h \in 1 .. l : i = p + n + h
      BY <1>6, <1>k, <2>3
    <3>2. c[h] = s[i] /\ w[i] = c[h]
      BY <1>3, <1>6, <1>e, <3>1
    <3> QED
      BY <1>s, <2>3, <3>2
  <2> QED
    BY <2>1, <2>2, <2>3
<1>8. w = r
  <2>1. Len(w) = k
    BY <1>6, <1>e, <1>k
  <2> QED
    BY <1>7, <1>d, <1>s, <2>1, SeqIsArray
<1> QED
  BY <1>1, <1>4, <1>8, <1>c, <1>k, <1>r DEF Stream!Overwrite, a, c

\* Zeros added at the end.
LEMMA ZerosAdded ==
  ASSUME NEW m \in Nat, NEW s \in [1 .. m -> Byte], NEW p \in Nat
  PROVE  s \o Stream!Zeros(p - Len(s)) =
           [i \in 1 .. (IF m < p THEN p ELSE m) |-> IF i <= m THEN s[i] ELSE 0]
<1>k. PICK k \in Nat : k = IF m < p THEN p ELSE m
  OBVIOUS
<1>r. PICK r : r = [i \in 1 .. k |-> IF i <= m THEN s[i] ELSE 0]
  OBVIOUS
<1>s. /\ r \in [1 .. k -> Byte]
      /\ \A i \in 1 .. k : r[i] = IF i <= m THEN s[i] ELSE 0
  BY <1>k, <1>r, Sizes
<1>1. s \in Seq(Byte) /\ Len(s) = m
  BY ArrayIsSeq
<1>2. PICK z \in Nat : z = k - m
  BY <1>k
<1> DEFINE a == Stream!Zeros(p - Len(s))
<1>3. a \in [1 .. z -> Byte] /\ \A i \in 1 .. z : a[i] = 0
  <2>1. 1 .. p - m = 1 .. z
    BY <1>2, <1>k
  <2>2. a = [i \in 1 .. z |-> 0]
    BY <1>1, <2>1 DEF Stream!Zeros
  <2> HIDE DEF a
  <2> QED
    BY <2>2, Sizes
<1> HIDE DEF a
<1>4. a \in Seq(Byte) /\ Len(a) = z
  BY <1>3, ArrayIsSeq
<1>5. PICK w : w = s \o a
  OBVIOUS
<1>6. /\ w \in Seq(Byte) /\ Len(w) = Len(s) + Len(a)
      /\ \A i \in 1 .. Len(s) : w[i] = s[i]
      /\ \A i \in 1 .. Len(a) : w[Len(s) + i] = a[i]
  BY <1>1, <1>4, <1>5, Joined, Zenon
<1>7. /\ Len(w) = m + z
      /\ \A i \in 1 .. m : w[i] = s[i]
      /\ \A i \in 1 .. z : w[m + i] = a[i]
  BY <1>1, <1>4, <1>6, Zenon
<1>8. ASSUME NEW i \in 1 .. k PROVE w[i] = r[i]
  <2>1. CASE i <= m
    BY <1>7, <1>s, <2>1
  <2>2. CASE i > m
    <3>1. PICK h \in 1 .. z : i = m + h
      BY <1>2, <2>2
    <3>2. w[i] = 0
      BY <1>3, <1>7, <3>1
    <3> QED
      BY <1>s, <2>2, <3>2
  <2> QED
    BY <2>1, <2>2
<1>9. w = r
  <2>1. Len(w) = k
    BY <1>2, <1>7
  <2> QED
    BY <1>6, <1>8, <1>s, <2>1, SeqIsArray
<1> QED
  BY <1>5, <1>9, <1>k, <1>r DEF a

\* What the caller sees through *ptr and *sizeloc, the visible array of MemStreamSpec.
Visible == IF state = "none" \/ ptr = capacity THEN Shown(sizeloc) ELSE <<-1>>

\* The state of MemStreamSpec.
StateOf == IF state = "open" /\ failed THEN "failed" ELSE state

\* StreamInv, and what the variables are before the stream is opened.
RefInv == StreamInv /\ sizeloc = size /\ (state = "none" => ~failed)

\* The data are what the caller sees.
LEMMA DataVisible ==
  ASSUME SeeksAreSafe, RefInv
  PROVE  /\ Visible = Shown(size) /\ size \in Nat /\ size < capacity /\ capacity \in Nat
         /\ Shown(size) \in [1 .. size -> Byte]
<1>1. /\ size \in Nat /\ size < capacity /\ capacity \in Nat /\ buf \in [0 .. capacity - 1 -> Byte]
  BY Sizes DEF SeeksAreSafe, RefInv, StreamInv, TypeOK, Bookkeeping
<1>2. Shown(size) \in [1 .. size -> Byte]
  BY <1>1 DEF Shown
<1>3. Visible = Shown(size)
  BY DEF Visible, RefInv, StreamInv, Bookkeeping
<1> QED
  BY <1>1, <1>2, <1>3

\* *sizeloc follows size, also before open_memstream stores it.
LEMMA RefStep ==
  ASSUME SeeksAreSafe
  PROVE  RefInv /\ [Next]_vars => RefInv'
<1> SUFFICES ASSUME RefInv, [Next]_vars PROVE RefInv'
  OBVIOUS
<1>1. StreamInv' /\ StreamInv
  BY StreamStep DEF RefInv
<1>2. state' # "none" => sizeloc' = size'
  BY <1>1 DEF StreamInv, Bookkeeping
<1>3. state' = "none" => sizeloc' = sizeloc /\ size' = size /\ state = "none" /\ failed' = failed
  BY DEF Next, vars, OpenMemstream, Read, Close, Write, Seek
<1> QED
  BY <1>1, <1>2, <1>3 DEF RefInv

\* A write of the code is a write of the promised stream.
LEMMA WriteRefined ==
  ASSUME SeeksAreSafe, RefInv, RefInv',
         NEW n \in 1 .. MaxCount, NEW bs \in [1 .. n -> Bytes], Write(bs), failed' # TRUE
  PROVE  /\ Shown(size)' = Stream!Overwrite(Shown(size), position, bs)
         /\ position' = position + n /\ n \in 1 .. MaxPosition - position
         /\ state = "open" /\ state' = "open" /\ failed' = FALSE /\ failed = FALSE
<1> DEFINE end == position + Len(bs)
           cap == Settled(end)
<1>1. Len(bs) = n /\ n \in Nat /\ DOMAIN bs = 1 .. n
  BY LenOf, Sizes
<1>2. /\ TypeOK /\ TypeOK' /\ position \in Nat /\ position <= size
      /\ size < capacity /\ capacity \in Nat
  <2>1. TypeOK /\ TypeOK' /\ Bookkeeping
    BY DEF RefInv, StreamInv
  <2>2. position \in Nat /\ position <= size /\ size < capacity /\ capacity \in Nat
    <3> TypeOK /\ Bookkeeping
      BY <2>1
    <3> QED
      BY Sizes DEF TypeOK, Bookkeeping
  <2> QED
    BY <2>1, <2>2
<1>3. /\ buf' = Copied(Enlarged(cap), position, bs) /\ capacity' = cap
      /\ position' = end /\ size' = IF size < end THEN end ELSE size
      /\ state = "open" /\ state' = "open" /\ ~failed /\ UNCHANGED failed /\ end <= MaxPosition
  BY DEF Write, Settled, Extend
<1>4. failed = FALSE /\ failed' = FALSE
  BY <1>3
<1>5. cap \in Nat /\ cap >= capacity /\ cap > end
  <2>1. end \in Int /\ end <= MaxPosition /\ capacity \in Capacities
    BY <1>1, <1>2, <1>3 DEF TypeOK
  <2> QED
    BY <2>1, SettledWorks, Sizes
<1> HIDE DEF cap
<1>6. size \in Nat /\ end \in Nat /\ size' \in Nat /\ size' < cap /\ end = position + n
  BY <1>1, <1>2, <1>3, <1>5, DataVisible
<1>7. PICK s : s = Shown(size)
  OBVIOUS
<1>8. PICK r : r = Shown(size)'
  OBVIOUS
<1>9. PICK k \in Nat : k = size'
  BY <1>6
<1>10. s \in [1 .. size -> Byte] /\ \A i \in 1 .. size : s[i] = buf[i - 1]
  BY <1>7, DataVisible DEF Shown
<1>11. r \in [1 .. k -> Byte] /\ \A i \in 1 .. k : r[i] = buf'[i - 1]
  <2>1. Shown(size)' = [i \in 1 .. k |-> buf'[i - 1]]
    BY <1>9 DEF Shown
  <2>2. buf' \in [0 .. capacity' - 1 -> Byte]
    BY <1>2 DEF TypeOK
  <2> QED
    BY <1>3, <1>5, <1>6, <1>8, <1>9, <2>1, <2>2
<1>12. ASSUME NEW i \in 1 .. k
       PROVE  r[i] = IF i - position \in 1 .. n THEN bs[i - position] ELSE s[i]
  <2>1. i - 1 \in 0 .. cap - 1
    BY <1>5, <1>6, <1>9
  <2>2. DOMAIN Enlarged(cap) = 0 .. cap - 1
    BY DEF Enlarged
  <2>3. r[i] = LET h == (i - 1) - position + 1
               IN IF h \in 1 .. n THEN bs[h] ELSE Enlarged(cap)[i - 1]
    BY <1>1, <1>3, <1>11, <2>1, <2>2 DEF Copied
  <2>4. (i - 1) - position + 1 = i - position
    BY <1>2
  <2>5. r[i] = IF i - position \in 1 .. n THEN bs[i - position] ELSE Enlarged(cap)[i - 1]
    BY <2>3, <2>4
  <2>6. ASSUME ~(i - position \in 1 .. n) PROVE i <= size
    BY <1>2, <1>3, <1>6, <1>9, <2>6
  <2>7. ASSUME i <= size PROVE Enlarged(cap)[i - 1] = s[i]
    BY <1>2, <1>6, <1>10, <2>1, <2>7 DEF Enlarged
  <2> QED
    BY <2>5, <2>6, <2>7
<1>13. position \in 0 .. size /\ k = (IF size < position + n THEN position + n ELSE size)
  BY <1>2, <1>3, <1>6, <1>9
<1>14. Stream!Overwrite(s, position, bs) = r
  <2>1. PICK m \in Nat : m = size
    BY <1>6
  <2>2. PICK q \in 0 .. m : q = position
    BY <1>13, <2>1
  <2>3. s \in [1 .. m -> Byte] /\ k = (IF m < q + n THEN q + n ELSE m)
    BY <1>10, <1>13, <2>1, <2>2
  <2>4. \A i \in 1 .. k : r[i] = IF i - q \in 1 .. n THEN bs[i - q] ELSE s[i]
    BY <1>12, <2>2
  <2>5. r = [i \in 1 .. (IF m < q + n THEN q + n ELSE m) |->
               IF i - q \in 1 .. n THEN bs[i - q] ELSE s[i]]
    BY <1>11, <2>3, <2>4
  <2>6. Stream!Overwrite(s, q, bs) = r
    <3>1. n \in Nat /\ s \in [1 .. m -> Byte]
      BY <1>1, <2>3
    <3>2. Stream!Overwrite(s, q, bs) =
            [i \in 1 .. (IF m < q + n THEN q + n ELSE m) |->
               IF i - q \in 1 .. n THEN bs[i - q] ELSE s[i]]
      BY <3>1, OverwriteIs
    <3> QED
      BY <2>5, <3>2, Zenon
  <2> QED
    BY <2>2, <2>6
<1> QED
  BY <1>1, <1>2, <1>3, <1>4, <1>6, <1>7, <1>8, <1>14, Sizes

\* Moving the position past the end fills the gap with zeros.
LEMMA SeekRefined ==
  ASSUME SeeksAreSafe, RefInv, RefInv', NEW p \in SeekTargets, Seek(p)
  PROVE  /\ Shown(size)' = Shown(size) \o Stream!Zeros(p - Len(Shown(size)))
         /\ position' = p /\ p \in 0 .. MaxPosition
         /\ state = "open" /\ state' = "open" /\ failed' = FALSE /\ failed = FALSE
<1> DEFINE cap == Settled(p)
<1>1. p \in 0 .. MaxPosition /\ p \in Nat
  BY Sizes DEF SeekTargets, SeeksAreSafe
<1>2. /\ TypeOK /\ TypeOK' /\ ZeroTail /\ size < capacity /\ capacity \in Nat
  BY Sizes DEF RefInv, StreamInv, TypeOK, Bookkeeping
<1>3. /\ buf' = Enlarged(cap) /\ capacity' = cap
      /\ position' = p /\ size' = IF size < p THEN p ELSE size
      /\ state = "open" /\ state' = "open" /\ ~failed /\ UNCHANGED failed
  BY DEF Seek, Settled, Extend, SeeksAreSafe
<1>4. failed = FALSE /\ failed' = FALSE
  BY <1>3
<1>5. cap \in Nat /\ cap >= capacity /\ cap > p
  <2>1. p \in Int /\ p <= MaxPosition /\ capacity \in Capacities
    BY <1>1, <1>2 DEF TypeOK
  <2> QED
    BY <2>1, SettledWorks, Sizes
<1> HIDE DEF cap
<1>6. size \in Nat /\ size' \in Nat /\ size' < cap
  BY <1>1, <1>2, <1>3, <1>5, DataVisible
<1>7. PICK s : s = Shown(size)
  OBVIOUS
<1>8. PICK r : r = Shown(size)'
  OBVIOUS
<1>9. PICK k \in Nat : k = size'
  BY <1>6
<1>10. s \in [1 .. size -> Byte] /\ \A i \in 1 .. size : s[i] = buf[i - 1]
  BY <1>7, DataVisible DEF Shown
<1>11. r \in [1 .. k -> Byte] /\ \A i \in 1 .. k : r[i] = buf'[i - 1]
  <2>1. Shown(size)' = [i \in 1 .. k |-> buf'[i - 1]]
    BY <1>9 DEF Shown
  <2>2. buf' \in [0 .. capacity' - 1 -> Byte]
    BY <1>2 DEF TypeOK
  <2> QED
    BY <1>3, <1>5, <1>6, <1>8, <1>9, <2>1, <2>2
<1>12. ASSUME NEW i \in 1 .. k
       PROVE  r[i] = IF i <= size THEN s[i] ELSE 0
  <2>1. i - 1 \in 0 .. cap - 1
    BY <1>5, <1>6, <1>9
  <2>2. r[i] = IF i - 1 < capacity THEN buf[i - 1] ELSE 0
    BY <1>3, <1>11, <2>1 DEF Enlarged
  <2>3. ASSUME i - 1 < capacity, ~(i <= size) PROVE buf[i - 1] = 0
    BY <1>2, <1>3, <1>6, <2>3 DEF ZeroTail, TypeOK
  <2> QED
    BY <1>2, <1>6, <1>10, <2>2, <2>3
<1>13. k = (IF size < p THEN p ELSE size)
  BY <1>3, <1>9
<1>14. s \o Stream!Zeros(p - Len(s)) = r
  <2>1. PICK m \in Nat : m = size
    BY <1>6
  <2>2. s \in [1 .. m -> Byte] /\ k = (IF m < p THEN p ELSE m)
    BY <1>10, <1>13, <2>1
  <2>3. \A i \in 1 .. k : r[i] = IF i <= m THEN s[i] ELSE 0
    BY <1>12, <2>1
  <2>4. r = [i \in 1 .. (IF m < p THEN p ELSE m) |-> IF i <= m THEN s[i] ELSE 0]
    BY <1>11, <2>2, <2>3
  <2> QED
    BY <1>1, <2>2, <2>4, ZerosAdded, Zenon
<1> QED
  BY <1>1, <1>3, <1>4, <1>7, <1>8, <1>14

\* memstream_close cuts the data at the position, which is inside them.
LEMMA CloseRefined ==
  ASSUME SeeksAreSafe, RefInv, RefInv', Close, ~failed
  PROVE  Shown(size)' = SubSeq(Shown(size), 1, Stream!Smaller(Len(Shown(size)), position))
<1>1. /\ position \in Nat /\ position <= size /\ size \in Nat /\ size < capacity
      /\ capacity \in Nat /\ DOMAIN buf = 0 .. capacity - 1 /\ Shown(size) \in [1 .. size -> Byte]
  BY DataVisible, Sizes DEF RefInv, StreamInv, Bookkeeping, TypeOK, SeeksAreSafe
<1>2. size' = position /\ buf' = [i \in DOMAIN buf |-> IF i = size' THEN 0 ELSE buf[i]]
  BY <1>1 DEF Close, Least
<1>3. Stream!Smaller(Len(Shown(size)), position) = position
  BY <1>1, ArrayIsSeq DEF Stream!Smaller
<1>4. PICK s : s = Shown(size)
  OBVIOUS
<1>5. PICK k \in Nat : k = position
  BY <1>1
<1>6. SubSeq(s, 1, k) \in Seq(Byte) /\ Len(SubSeq(s, 1, k)) = k
      /\ \A i \in 1 .. k : SubSeq(s, 1, k)[i] = s[i]
  <2>1. \A i \in 1 .. k : s[i] \in Byte
    BY <1>1, <1>4, <1>5
  <2> QED
    BY <2>1, SubSeqProperties
<1>7. PICK r : r = Shown(size)'
  OBVIOUS
<1>8. r = [i \in 1 .. k |-> buf'[i - 1]]
  BY <1>2, <1>5, <1>7 DEF Shown
<1>9. \A i \in 1 .. k : r[i] = s[i] /\ r[i] \in Byte
  <2> SUFFICES ASSUME NEW i \in 1 .. k PROVE r[i] = s[i] /\ r[i] \in Byte
    OBVIOUS
  <2>1. i - 1 \in DOMAIN buf /\ i - 1 # size' /\ i \in 1 .. size
    BY <1>1, <1>2, <1>5
  <2>2. r[i] = buf[i - 1]
    BY <1>2, <1>8, <2>1
  <2>3. s[i] = buf[i - 1] /\ s[i] \in Byte
    BY <1>1, <1>4, <2>1 DEF Shown
  <2> QED
    BY <2>2, <2>3
<1>10. r \in [1 .. k -> Byte]
  BY <1>8, <1>9
<1>11. SubSeq(s, 1, k) = r
  <2>1. PICK w : w = SubSeq(s, 1, k)
    OBVIOUS
  <2>2. w \in Seq(Byte) /\ Len(w) = k /\ \A i \in 1 .. k : w[i] = r[i]
    BY <1>6, <1>9, <2>1
  <2> QED
    BY <1>10, <2>1, <2>2, SeqIsArray
<1> QED
  BY <1>3, <1>4, <1>5, <1>7, <1>11

\* Every step of the code is a step of the promised stream, or changes nothing of it.
LEMMA StepRefined ==
  ASSUME SeeksAreSafe, RefInv, RefInv', [Next]_vars
  PROVE  [Stream!Next]_(Stream!vars)
<1>v. Visible = Shown(size) /\ size \in Nat /\ Shown(size) \in [1 .. size -> Byte]
  BY DataVisible
<1>w. Visible' = Shown(size)'
  BY DEF Visible, RefInv, StreamInv, Bookkeeping
<1>1. CASE UNCHANGED vars
  <2>1. UNCHANGED <<StateOf, Shown(size), position, Visible>>
    BY <1>1 DEF vars, StateOf, Shown, Visible
  <2> QED
    BY <2>1 DEF Stream!vars, StateOf, Visible
<1>2. CASE OpenMemstream
  <2>1. StateOf = "none" /\ StateOf' = "open"
    BY <1>2 DEF OpenMemstream, StateOf, RefInv
  <2>2. position' = position /\ Shown(size)' = Shown(size)
    BY <1>2 DEF OpenMemstream, Shown
  <2>3. Visible' = Visible
    BY <1>v, <1>w, <2>2
  <2>4. Stream!Open
    BY <2>1, <2>2, <2>3 DEF Stream!Open, StateOf, Visible
  <2> QED
    BY <2>4 DEF Stream!Next
<1>3. CASE Read
  <2>1. PICK n \in 1 .. size - position : position' = position + n
    <3>1. size \in Int /\ position \in Int
      BY Sizes DEF RefInv, StreamInv, TypeOK
    <3>2. PICK count \in 1 .. MaxCount :
            /\ Least(size - position, count) >= 1
            /\ position' = position + Least(size - position, count)
      BY <1>3 DEF Read
    <3>3. Least(size - position, count) \in 1 .. size - position
      BY <3>1, <3>2, Sizes DEF Least
    <3> QED
      BY <3>2, <3>3
  <2>2. StateOf = "open" /\ StateOf' = StateOf
    BY <1>3 DEF Read, StateOf
  <2>3. Shown(size)' = Shown(size)
    BY <1>3 DEF Read, Shown
  <2>4. Visible' = Visible
    BY <1>v, <1>w, <2>3
  <2>5. Len(Shown(size)) = size
    BY <1>v, ArrayIsSeq
  <2>6. Stream!Read
    BY <2>1, <2>2, <2>3, <2>4, <2>5 DEF Stream!Read, StateOf, Visible
  <2> QED
    BY <2>6 DEF Stream!Next
<1>4. CASE Close
  <2>1. StateOf' = "closed" /\ StateOf \in {"open", "failed"} /\ position' = position
    BY <1>4 DEF Close, StateOf
  <2>2. Shown(size)' =
          IF StateOf = "open"
            THEN SubSeq(Shown(size), 1, Stream!Smaller(Len(Shown(size)), position))
            ELSE Shown(size)
    <3>1. CASE failed
      <4>1. StateOf = "failed"
        BY <1>4, <3>1 DEF Close, StateOf
      <4>2. Shown(size)' = Shown(size)
        BY <1>4, <3>1 DEF Close, Shown
      <4> QED
        BY <4>1, <4>2
    <3>2. CASE ~failed
      <4>1. StateOf = "open"
        BY <1>4, <3>2 DEF Close, StateOf
      <4> QED
        BY <1>4, <3>2, <4>1, CloseRefined
    <3> QED
      BY <3>1, <3>2
  <2>3. Stream!Close
    BY <1>w, <2>1, <2>2 DEF Stream!Close, StateOf, Visible
  <2> QED
    BY <2>3 DEF Stream!Next
<1>5. ASSUME NEW n \in 1 .. MaxCount, NEW bs \in [1 .. n -> Bytes], Write(bs)
      PROVE  Stream!Next
  <2>1. CASE failed' = TRUE
    <3>1. /\ state = "open" /\ state' = "open" /\ ~failed
          /\ UNCHANGED <<position, size, buf>>
      BY <1>5, <2>1 DEF Write
    <3>2. StateOf = "open" /\ StateOf' = "failed"
      BY <2>1, <3>1 DEF StateOf
    <3>3. Shown(size)' = Shown(size)
      BY <3>1 DEF Shown
    <3>4. Visible' = Visible
      BY <1>v, <1>w, <3>3
    <3>5. Stream!Fail
      BY <3>1, <3>2, <3>3, <3>4 DEF Stream!Fail, StateOf, Visible
    <3> QED
      BY <3>5 DEF Stream!Next
  <2>2. CASE failed' # TRUE
    <3>1. /\ Shown(size)' = Stream!Overwrite(Shown(size), position, bs)
          /\ position' = position + n /\ n \in 1 .. MaxPosition - position
          /\ state = "open" /\ state' = "open" /\ failed' = FALSE /\ failed = FALSE
      BY <1>5, <2>2, WriteRefined
    <3>2. StateOf = "open" /\ StateOf' = StateOf
      BY <3>1 DEF StateOf
    <3>3. Stream!Write
      BY <1>w, <3>1, <3>2 DEF Stream!Write, StateOf, Visible
    <3> QED
      BY <3>3 DEF Stream!Next
  <2> QED
    BY <2>1, <2>2
<1>6. ASSUME NEW p \in SeekTargets, Seek(p)
      PROVE  Stream!Next
  <2>1. /\ Shown(size)' = Shown(size) \o Stream!Zeros(p - Len(Shown(size)))
        /\ position' = p /\ p \in 0 .. MaxPosition
        /\ state = "open" /\ state' = "open" /\ failed' = FALSE /\ failed = FALSE
    BY <1>6, SeekRefined
  <2>2. StateOf = "open" /\ StateOf' = StateOf
    BY <2>1 DEF StateOf
  <2>3. Stream!Seek
    BY <1>w, <2>1, <2>2 DEF Stream!Seek, StateOf, Visible
  <2> QED
    BY <2>3 DEF Stream!Next
<1> QED
  BY <1>1, <1>2, <1>3, <1>4, <1>5, <1>6 DEF Next

\* The initial states of the code are those of the promised stream.
LEMMA InitRefined == Init => RefInv /\ Stream!Init
<1> SUFFICES ASSUME Init PROVE RefInv /\ Stream!Init
  OBVIOUS
<1>1. RefInv
  BY StreamInit DEF Init, RefInv
<1>2. Shown(0) = <<>>
  BY DEF Shown
<1> QED
  BY <1>1, <1>2 DEF Init, Stream!Init

\* The callbacks of memstream.c implement the stream the manual page promises: whatever is
\* written, wherever the position moves, however often realloc moves the buffer or fails in a
\* write, and what the caller finds is always what the stream holds.
THEOREM StreamImplemented ==
  ASSUME SeeksAreSafe
  PROVE  Spec => ImplementsStream
<1>1. Init => RefInv /\ Stream!Init
  BY InitRefined
<1>2. RefInv /\ [Next]_vars => RefInv'
  BY RefStep
<1>3. RefInv /\ RefInv' /\ [Next]_vars => [Stream!Next]_(Stream!vars)
  BY StepRefined
<1> QED
  BY <1>1, <1>2, <1>3, PTL DEF Spec, ImplementsStream, Stream!Spec
=============================================================================
