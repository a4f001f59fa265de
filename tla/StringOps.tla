----------------------------- MODULE StringOps -----------------------------
(***************************************************************************)
(* The string, wide character and bit functions of src/memmem.c,           *)
(* strnlen.c, strndup.c, stpncpy.c, stpncpy_chk.c, wcpcpy_family.c,        *)
(* wcscasecmp_family.c, wcsdup.c, wcsnlen.c and strings.c.                 *)
(*                                                                         *)
(* Memory is a sequence of characters, 0 being NUL; a pointer is an index  *)
(* counted from zero, -1 the null pointer.                                 *)
(***************************************************************************)
EXTENDS Integers, Sequences, FiniteSets, FiniteSetsExt

CONSTANTS
  Lower(_),    \* towlower_l
  Bits         \* width of the masks

Null == -1

\* The first index from a to b with P, or else.
First(P(_), a, b, else) == IF \E i \in a .. b : P(i) THEN Min({i \in a .. b : P(i)}) ELSE else

\* memchr, wmemchr.
MemChr(s, c, n) == LET Hit(i) == s[i + 1] = c IN First(Hit, 0, n - 1, Null)

MemCmp(l, at, s) == SubSeq(l, at + 1, at + Len(s)) = s

\* The last position where s may be found.
LastPosition(l, s) == Len(l) - Len(s)

\* memmem: an empty needle or haystack is never found.
MemMem(l, s) ==
  LET Hit(i) == l[i + 1] = s[1] /\ MemCmp(l, i, s)
  IN IF l = <<>> \/ s = <<>> \/ Len(l) < Len(s) THEN Null
     ELSE IF Len(s) = 1 THEN MemChr(l, s[1], Len(l))
     ELSE First(Hit, 0, LastPosition(l, s), Null)

\* strnlen: the loop stops at the limit or at a NUL.
StrNLen(s, n) == LET End(i) == i >= n \/ s[i + 1] = 0 IN First(End, 0, n, n)

\* wcsnlen.
WcsNLen(s, n) == IF MemChr(s, 0, n) = Null THEN n ELSE MemChr(s, 0, n)

\* strndup and wcsdup: a copy with its NUL, or nothing without memory.
StrNDup(s, n, nomem) == IF nomem THEN <<>> ELSE Append(SubSeq(s, 1, StrNLen(s, n)), 0)
WcsDup(s, nomem) == IF nomem THEN <<>> ELSE SubSeq(s, 1, MemChr(s, 0, Len(s)) + 1)

Zeros(n) == [i \in 1 .. n |-> 0]
Over(dst, part) == part \o SubSeq(dst, Len(part) + 1, Len(dst))

\* stpncpy: [dst, ret].
StpNCpy(dst, src, n) ==
  LET len == StrNLen(src, n)
  IN IF len < n THEN [dst |-> Over(dst, SubSeq(src, 1, len) \o Zeros(n - len)), ret |-> len]
     ELSE [dst |-> Over(dst, SubSeq(src, 1, n)), ret |-> n]

\* __stpncpy_chk ends the program rather than write past the target.
StpNCpyChk(dst, src, n, dstlen) ==
  IF dstlen < n THEN [dst |-> dst, ret |-> "abort"] ELSE StpNCpy(dst, src, n)

\* wcpncpy: characters while there are some, then wmemset of the rest.
WcpNCpy(dst, src, n) ==
  LET len == StrNLen(src, n)
  IN [dst |-> Over(dst, SubSeq(src, 1, len) \o Zeros(n - len)), ret |-> len]

\* wcpcpy: up to and with the NUL.
WcpCpy(dst, src) ==
  LET len == MemChr(src, 0, Len(src)) IN [dst |-> Over(dst, SubSeq(src, 1, len + 1)), ret |-> len]

\* Mutant: the comparison goes on past the end of the strings.
LastComparedLimit(l, r, n) == n - 1

\* The last index that the loop may look at: the limit, or where one string ends.
LastCompared(l, r, n) ==
  LET End(i) == i = n - 1 \/ l[i + 1] = 0 \/ r[i + 1] = 0 IN First(End, 0, n - 1, n - 1)

\* wcsncasecmp_l; the other three pass -1, the largest size_t, or no locale.
WcsNCaseCmp(l, r, n) ==
  LET Diff(i) == l[i + 1] # r[i + 1] /\ Lower(l[i + 1]) # Lower(r[i + 1])
      at == First(Diff, 0, LastCompared(l, r, n), Null)
  IN IF n = 0 \/ at = Null THEN 0 ELSE Lower(l[at + 1]) - Lower(r[at + 1])

\* The masks: two's complement numbers, shifted as unsigned ones.
Unsigned(mask) == mask % 2 ^ Bits
Shifted(mask, k) == Unsigned(mask) \div 2 ^ k

\* ffsl, ffsll.
Ffs(mask) == LET Odd(k) == Shifted(mask, k - 1) % 2 = 1 IN IF mask = 0 THEN 0 ELSE First(Odd, 1, Bits, 0)

\* fls, flsl, flsll: the loop ends at one.
Fls(mask) == LET One(k) == Shifted(mask, k - 1) = 1 IN IF mask = 0 THEN 0 ELSE First(One, 1, Bits, 0)

-----------------------------------------------------------------------------
Ends(s) == 0 \in {s[i] : i \in DOMAIN s}
Chars(s) == CHOOSE k \in 0 .. Len(s) - 1 : s[k + 1] = 0 /\ \A i \in 1 .. k : s[i] # 0

\* memmem finds the first occurrence of a needle that is not empty, and none where
\* there is none.
FoundFirst(l, s, at) ==
  s # <<>> =>
    LET occurrences == {i \in 0 .. Len(l) - Len(s) : \A k \in 1 .. Len(s) : l[i + k] = s[k]}
    IN at = IF occurrences = {} THEN Null ELSE Min(occurrences)

\* stpncpy and wcpncpy write exactly n characters: those of the source, then NULs;
\* they return the first NUL written, or the end of what they wrote.
CopiedN(dst, src, n, r) ==
  /\ Len(r.dst) = Len(dst)
  /\ \A i \in 1 .. Len(dst) :
       r.dst[i] = IF i > n THEN dst[i] ELSE IF \E j \in 1 .. i : src[j] = 0 THEN 0 ELSE src[i]
  /\ r.ret = IF Ends(SubSeq(src, 1, n)) THEN Chars(src) ELSE n

\* The case comparison has the sign of the first difference between the folded
\* strings, taken as ended by their NULs and cut at n.
Folded(s, n) == [i \in 1 .. n |-> IF \E j \in 1 .. i : s[j] = 0 THEN 0 ELSE Lower(s[i])]
ComparesFolded(l, r, n, c) ==
  LET d == {i \in 1 .. n : Folded(l, n)[i] # Folded(r, n)[i]}
  IN c = IF d = {} THEN 0 ELSE Folded(l, n)[Min(d)] - Folded(r, n)[Min(d)]

\* ffs and fls are the positions of the lowest and of the highest one bit.
BitFound(mask, low, high) ==
  LET ones == {k \in 1 .. Bits : Shifted(mask, k - 1) % 2 = 1}
  IN IF mask = 0 THEN low = 0 /\ high = 0 ELSE low = Min(ones) /\ high = Max(ones)
=============================================================================
