-------------------------- MODULE AlgorithmsProofs --------------------------
(***************************************************************************)
(* Proofs about the functions without state: the arithmetic of the clock   *)
(* functions for every width of a word, arc4random_uniform for every       *)
(* number of values, and the functions that look at the caller's memory    *)
(* and files for every size of a page, a stat and a buffer.                *)
(***************************************************************************)
EXTENDS MCAlgorithms, FiniteSetTheorems, TLAPS

(* A product grows with its factors.                                       *)
LEMMA TimesMono ==
  ASSUME NEW a \in Int, NEW b \in Int, NEW m \in Nat, a <= b
  PROVE  a * m <= b * m
<1>1. (b - a) * m >= 0
  OBVIOUS
<1>2. (b - a) * m = b * m - a * m
  OBVIOUS
<1> QED
  BY <1>1, <1>2

(* A product of naturals is one.                                           *)
LEMMA TimesNat ==
  ASSUME NEW a \in Nat, NEW b \in Nat
  PROVE  a * b \in Nat
OBVIOUS

(* Quotient and remainder of any number.                                   *)
LEMMA DivMod ==
  ASSUME NEW a \in Int, NEW m \in Nat \ {0}
  PROVE  a \div m \in Int /\ a % m \in 0 .. m - 1 /\ a = (a \div m) * m + (a % m)
OBVIOUS

(* Those of a natural number, by name.                                     *)
LEMMA DivModNat ==
  ASSUME NEW a \in Nat, NEW m \in Nat \ {0}
  PROVE  \E q \in Nat, r \in 0 .. m - 1 : a \div m = q /\ a % m = r /\ a = q * m + r
<1>1. a \div m \in Int /\ a % m \in 0 .. m - 1 /\ a = m * (a \div m) + (a % m)
  OBVIOUS
<1>2. a \div m \in Nat
  <2>1. SUFFICES ASSUME a \div m <= -1 PROVE FALSE
    BY <1>1
  <2>2. (a \div m) * m <= (-1) * m
    BY <2>1, <1>1, TimesMono
  <2> QED
    BY <1>1, <2>2
<1> QED
  BY <1>1, <1>2

(* They are the only ones.                                                 *)
LEMMA DivUnique ==
  ASSUME NEW a \in Int, NEW m \in Nat \ {0}, NEW q \in Int, NEW r \in 0 .. m - 1,
         a = q * m + r
  PROVE  a \div m = q /\ a % m = r
<1> DEFINE p == a \div m
           s == a % m
<1>1. p \in Int /\ s \in 0 .. m - 1 /\ a = p * m + s
  BY DivMod
<1> HIDE DEF p, s
<1>2. ~(p + 1 <= q)
  <2>1. SUFFICES ASSUME p + 1 <= q PROVE FALSE
    OBVIOUS
  <2>2. (p + 1) * m <= q * m /\ (p + 1) * m = p * m + m
    BY <1>1, <2>1, TimesMono
  <2> QED
    BY <1>1, <2>2
<1>3. ~(q + 1 <= p)
  <2>1. SUFFICES ASSUME q + 1 <= p PROVE FALSE
    OBVIOUS
  <2>2. (q + 1) * m <= p * m /\ (q + 1) * m = q * m + m
    BY <1>1, <2>1, TimesMono
  <2> QED
    BY <1>1, <2>2
<1>4. p = q
  BY <1>1, <1>2, <1>3
<1>5. s = r
  BY <1>1, <1>4
<1> QED
  BY <1>4, <1>5 DEF p, s

(* A number below the divisor is its own remainder.                         *)
LEMMA SmallMod ==
  ASSUME NEW m \in Nat \ {0}, NEW r \in 0 .. m - 1
  PROVE  r % m = r /\ r \div m = 0
<1>1. r = 0 * m + r
  OBVIOUS
<1> QED
  BY <1>1, DivUnique

(* Multiples do not count.                                                 *)
LEMMA ModShift ==
  ASSUME NEW a \in Int, NEW m \in Nat \ {0}, NEW q \in Int
  PROVE  (a + q * m) % m = a % m
<1> DEFINE p == a \div m
           s == a % m
<1>1. p \in Int /\ s \in 0 .. m - 1 /\ a = p * m + s
  BY DivMod
<1> HIDE DEF p, s
<1>2. a + q * m = (p + q) * m + s
  BY <1>1
<1>3. a + q * m \in Int /\ p + q \in Int
  BY <1>1
<1>4. (a + q * m) % m = s
  BY <1>1, <1>2, <1>3, DivUnique
<1> QED
  BY <1>4 DEF s

(* A quotient is below the factor that its number's bound has.             *)
LEMMA DivBelow ==
  ASSUME NEW q \in Nat, NEW r \in Nat, NEW m \in Nat \ {0}, NEW b \in Nat, q * m + r < b * m
  PROVE  q < b
<1>1. SUFFICES ASSUME b <= q PROVE FALSE
  OBVIOUS
<1>2. b * m <= q * m
  BY <1>1, TimesMono
<1> QED
  BY <1>2

-----------------------------------------------------------------------------
(* The product of two halves.                                              *)
LEMMA HalfProduct ==
  ASSUME NEW h \in Nat \ {0}, NEW x \in 0 .. h - 1, NEW y \in 0 .. h - 1
  PROVE  x * y \in Nat /\ x * y <= h * h - 2 * h + 1
<1>1. x * y <= (h - 1) * y
  BY TimesMono
<1>2. y * (h - 1) <= (h - 1) * (h - 1)
  BY TimesMono
<1>3. (h - 1) * (h - 1) = h * h - 2 * h + 1
  OBVIOUS
<1>4. x * y \in Nat
  BY TimesNat
<1> QED
  BY <1>1, <1>2, <1>3, <1>4

(* Nothing that mmul64 adds up outgrows a word.                            *)
LEMMA HalvesFit ==
  ASSUME NEW h \in Nat \ {0}, NEW a0 \in 0 .. h - 1, NEW a1 \in 0 .. h - 1,
         NEW b0 \in 0 .. h - 1, NEW b1 \in 0 .. h - 1,
         NEW l0 \in 0 .. h - 1, NEW l1 \in Nat, a0 * b0 = l1 * h + l0,
         NEW m0 \in 0 .. h - 1, NEW m1 \in Nat, a1 * b0 = m1 * h + m0,
         NEW n0 \in 0 .. h - 1, NEW n1 \in Nat, a0 * b1 + m0 + l1 = n1 * h + n0
  PROVE  /\ a0 * b0 \in 0 .. h * h - 1 /\ a1 * b0 \in 0 .. h * h - 1
         /\ a0 * b1 + m0 + l1 \in 0 .. h * h - 1
         /\ a1 * b1 \in 0 .. h * h - 1 /\ a1 * b1 + n1 + m1 \in 0 .. h * h - 1
<1>1. /\ a0 * b0 \in Nat /\ a0 * b0 <= h * h - 2 * h + 1
      /\ a1 * b0 \in Nat /\ a1 * b0 <= h * h - 2 * h + 1
      /\ a0 * b1 \in Nat /\ a0 * b1 <= h * h - 2 * h + 1
      /\ a1 * b1 \in Nat /\ a1 * b1 <= h * h - 2 * h + 1
  BY HalfProduct
<1>2. h * h \in Nat
  OBVIOUS
<1>3. l1 < h /\ m1 < h
  <2>1. l1 * h + l0 < h * h /\ m1 * h + m0 < h * h
    BY <1>1, <1>2
  <2> QED
    BY <2>1, DivBelow
<1>4. n1 < h
  <2>1. n1 * h + n0 < h * h
    BY <1>1, <1>2, <1>3
  <2> QED
    BY <2>1, DivBelow
<1>5. m1 <= h - 2 \/ m1 = 0
  <2>1. SUFFICES ASSUME m1 = h - 1, m1 # 0 PROVE FALSE
    BY <1>3
  <2>2. m1 * h = h * h - h
    BY <2>1
  <2> QED
    BY <1>1, <1>2, <2>1, <2>2
<1>6. a1 * b1 + n1 + m1 <= h * h - 1
  BY <1>1, <1>2, <1>3, <1>4, <1>5
<1> QED
  BY <1>1, <1>2, <1>3, <1>6

(* What mmul64 puts together is the product without its lowest half word.  *)
LEMMA HalvesMultiply ==
  ASSUME NEW h \in Nat, NEW a0 \in Nat, NEW a1 \in Nat, NEW b0 \in Nat, NEW b1 \in Nat,
         NEW l0 \in Nat, NEW l1 \in Nat, a0 * b0 = l1 * h + l0,
         NEW m0 \in Nat, NEW m1 \in Nat, a1 * b0 = m1 * h + m0,
         NEW n0 \in Nat, NEW n1 \in Nat, a0 * b1 + m0 + l1 = n1 * h + n0
  PROVE  (a1 * h + a0) * (b1 * h + b0) = ((a1 * b1 + n1 + m1) * h + n0) * h + l0
<1>1. (a1 * h + a0) * (b1 * h + b0) = (a1 * b1) * h * h + (a0 * b1) * h + (a1 * b0) * h + a0 * b0
  OBVIOUS
<1>2. ((a1 * b1 + n1 + m1) * h + n0) * h + l0
        = (a1 * b1) * h * h + (n1 * h + n0) * h + (m1 * h) * h + l0
  OBVIOUS
<1>3. (n1 * h + n0) * h = (a0 * b1 + m0 + l1) * h
  OBVIOUS
<1>4. (a0 * b1 + m0 + l1) * h = (a0 * b1) * h + m0 * h + l1 * h
  OBVIOUS
<1>5. (a1 * b0) * h = (m1 * h + m0) * h
  OBVIOUS
<1>6. (m1 * h + m0) * h = (m1 * h) * h + m0 * h
  OBVIOUS
<1> QED
  BY <1>1, <1>2, <1>3, <1>4, <1>5, <1>6

-----------------------------------------------------------------------------
(* The scale and the words of MachScale.                                   *)
LEMMA WordFacts ==
  /\ Clk!H \in Nat \ {0} /\ 1 < Clk!H /\ Clk!Word \in Nat \ {0} /\ Clk!Word = Clk!H * Clk!H
  /\ Clk!Billion \in Nat \ {0} /\ 1 < Clk!Billion /\ Clk!Billion <= Clk!H
  /\ Thousand \in Nat \ {0} /\ Million \in Nat \ {0} /\ Clk!Billion = Thousand * Million
<1>1. Clk!H \in Nat /\ 1 < Clk!Billion /\ Clk!Billion <= Clk!H /\ Clk!Billion \in Nat
  BY WordAssumption
<1>2. Clk!Word = Clk!H * Clk!H
  BY DEF Clk!Word
<1>3. Clk!Word \in Nat \ {0}
  BY <1>1, <1>2
<1>4. Thousand \in Nat /\ Million \in Nat /\ Clk!Billion = Thousand * Million
  BY WordAssumption DEF Clk!Billion
<1>5. Thousand # 0 /\ Million # 0
  BY <1>1, <1>4
<1> QED
  BY <1>1, <1>2, <1>3, <1>4, <1>5

(* mmul64 gives the middle word of the exact product.                      *)
LEMMA MiddleProductExact ==
  ASSUME NEW a \in 0 .. Clk!Word - 1, NEW b \in 0 .. Clk!Word - 1
  PROVE  Clk!MiddleExact(a, b, Clk!MiddleProduct(a, b))
<1>1. PICK h \in Nat \ {0}, w \in Nat \ {0} : h = Clk!H /\ w = Clk!Word /\ w = h * h
  BY WordFacts
<1>2. a \in Nat /\ b \in Nat /\ a < h * h /\ b < h * h
  BY <1>1
<1>3. PICK a1 \in Nat, a0 \in 0 .. h - 1 : a \div h = a1 /\ a % h = a0 /\ a = a1 * h + a0
  BY <1>2, DivModNat
<1>4. PICK b1 \in Nat, b0 \in 0 .. h - 1 : b \div h = b1 /\ b % h = b0 /\ b = b1 * h + b0
  BY <1>2, DivModNat
<1>5. a1 \in 0 .. h - 1 /\ b1 \in 0 .. h - 1
  <2>1. a1 < h
    BY <1>2, <1>3, DivBelow
  <2>2. b1 < h
    BY <1>2, <1>4, DivBelow
  <2> QED
    BY <2>1, <2>2
<1>6. PICK low \in Nat, mid2 \in Nat : low = a0 * b0 /\ mid2 = a1 * b0
  BY <1>5, TimesNat
<1>7. PICK l1 \in Nat, l0 \in 0 .. h - 1 : low \div h = l1 /\ low % h = l0 /\ low = l1 * h + l0
  BY DivModNat
<1>8. PICK m1 \in Nat, m0 \in 0 .. h - 1 : mid2 \div h = m1 /\ mid2 % h = m0 /\ mid2 = m1 * h + m0
  BY DivModNat
<1>9. PICK mid1 \in Nat : mid1 = a0 * b1 + m0 + l1
  BY <1>5
<1>10. PICK n1 \in Nat, n0 \in 0 .. h - 1 : mid1 \div h = n1 /\ mid1 % h = n0 /\ mid1 = n1 * h + n0
  BY DivModNat
<1>11. PICK p \in Nat, high \in Nat : p = a1 * b1 /\ high = p + n1 + m1
  BY <1>5
<1>12. /\ low \in 0 .. w - 1 /\ mid2 \in 0 .. w - 1 /\ mid1 \in 0 .. w - 1 /\ p \in 0 .. w - 1
       /\ high \in 0 .. w - 1
  <2>1. /\ a0 * b0 = l1 * h + l0 /\ a1 * b0 = m1 * h + m0 /\ a0 * b1 + m0 + l1 = n1 * h + n0
    BY <1>6, <1>7, <1>8, <1>9, <1>10
  <2>2. /\ a0 * b0 \in 0 .. h * h - 1 /\ a1 * b0 \in 0 .. h * h - 1
        /\ a0 * b1 + m0 + l1 \in 0 .. h * h - 1
        /\ a1 * b1 \in 0 .. h * h - 1 /\ a1 * b1 + n1 + m1 \in 0 .. h * h - 1
    BY <1>5, <2>1, HalvesFit
  <2> QED
    BY <1>1, <1>6, <1>9, <1>11, <2>2
<1>13. low % w = low /\ mid2 % w = mid2 /\ mid1 % w = mid1 /\ p % w = p /\ high % w = high
  BY <1>12, SmallMod
<1>14. Clk!MiddleProduct(a, b) = (high * h + n0) % w
  <2>1. Clk!Fold(p, mid1, mid2) = high
    BY <1>1, <1>8, <1>10, <1>11, <1>13, Zenon DEF Clk!Fold
  <2>2. ((a % Clk!H) * (b % Clk!H)) % Clk!Word = low
    BY <1>1, <1>3, <1>4, <1>6, <1>13, Zenon
  <2>3. ((a \div Clk!H) * (b % Clk!H)) % Clk!Word = mid2
    BY <1>1, <1>3, <1>4, <1>6, <1>13, Zenon
  <2>4. (((a % Clk!H) * (b \div Clk!H)) + (mid2 % Clk!H) + (low \div Clk!H)) % Clk!Word = mid1
    BY <1>1, <1>3, <1>4, <1>7, <1>8, <1>9, <1>13, Zenon
  <2>5. ((a \div Clk!H) * (b \div Clk!H)) % Clk!Word = p
    BY <1>1, <1>3, <1>4, <1>11, <1>13, Zenon
  <2> QED
    BY <1>1, <1>10, <2>1, <2>2, <2>3, <2>4, <2>5, Zenon DEF Clk!MiddleProduct
<1>15. a * b = (high * h + n0) * h + l0
  <2>1. (a1 * h + a0) * (b1 * h + b0) = ((a1 * b1 + n1 + m1) * h + n0) * h + l0
    <3>1. /\ a0 * b0 = l1 * h + l0 /\ a1 * b0 = m1 * h + m0 /\ a0 * b1 + m0 + l1 = n1 * h + n0
      BY <1>6, <1>7, <1>8, <1>9, <1>10
    <3>2. /\ a0 \in Nat /\ a1 \in Nat /\ b0 \in Nat /\ b1 \in Nat /\ l0 \in Nat /\ m0 \in Nat
          /\ n0 \in Nat /\ h \in Nat
      BY <1>5
    <3> QED
      BY <3>1, <3>2, HalvesMultiply
  <2> QED
    BY <1>3, <1>4, <1>11, <2>1
<1>16. (a * b) \div h = high * h + n0
  <2>1. PICK q \in Int : q = high * h + n0
    OBVIOUS
  <2>2. PICK x \in Int : x = a * b
    BY <1>2
  <2>3. x = q * h + l0
    BY <1>15, <2>1, <2>2
  <2>4. x \div h = q
    BY <2>3, DivUnique
  <2> QED
    BY <2>1, <2>2, <2>4, Zenon
<1> QED
  BY <1>1, <1>14, <1>16, Zenon DEF Clk!MiddleExact

(* nanorem: the remainder in half words is the exact one.                  *)
LEMMA TimespecIsExact ==
  ASSUME NEW nanos \in Nat
  PROVE  /\ Clk!TimespecExact(nanos, Clk!Nanos2Timespec(nanos))
         /\ nanos % Clk!Billion \in 0 .. Clk!Billion - 1 /\ nanos \div Clk!Billion \in Nat
         /\ nanos = (nanos \div Clk!Billion) * Clk!Billion + (nanos % Clk!Billion)
<1>1. PICK h \in Nat \ {0}, g \in Nat \ {0} : h = Clk!H /\ g = Clk!Billion /\ g <= h
  BY WordFacts
<1>2. PICK s \in Nat, r \in 0 .. g - 1 : nanos \div g = s /\ nanos % g = r /\ nanos = s * g + r
  BY DivModNat
<1>3. PICK n1 \in Nat, n0 \in 0 .. h - 1 : nanos \div h = n1 /\ nanos % h = n0 /\ nanos = n1 * h + n0
  BY DivModNat
<1>4. PICK s1 \in Nat, s0 \in 0 .. h - 1 : s \div h = s1 /\ s % h = s0 /\ s = s1 * h + s0
  BY DivModNat
<1>5. PICK x \in Int : x = n0 - s0 * g
  OBVIOUS
<1>6. PICK q \in Int : q = s1 * g - n1
  OBVIOUS
<1>7. x = q * h + r
  <2>1. n0 = s * g + r - n1 * h
    BY <1>2, <1>3
  <2>2. s * g = (s1 * g) * h + s0 * g
    BY <1>4
  <2>3. q * h = (s1 * g) * h - n1 * h
    BY <1>6
  <2> QED
    BY <1>5, <2>1, <2>2, <2>3
<1>8. x % h = r
  <2>1. r \in 0 .. h - 1
    BY <1>1
  <2> QED
    BY <1>7, <2>1, DivUnique
<1>9. Clk!NanoRemainder(nanos, s) = r
  BY <1>1, <1>3, <1>4, <1>5, <1>8, Zenon DEF Clk!NanoRemainder
<1>10. Clk!TimespecExact(nanos, Clk!Nanos2Timespec(nanos))
  BY <1>1, <1>2, <1>9, Zenon DEF Clk!TimespecExact, Clk!Nanos2Timespec
<1>11. /\ nanos % Clk!Billion = r /\ nanos \div Clk!Billion = s
       /\ nanos = s * Clk!Billion + r /\ r \in 0 .. Clk!Billion - 1
  BY <1>1, <1>2, Zenon
<1> QED
  BY <1>10, <1>11, Zenon

-----------------------------------------------------------------------------
(* Signed 32-bit seconds have the right difference when taken as unsigned.  *)
LEMMA SecondsApartRight ==
  ASSUME NEW now \in 0 .. Clk!H - 1, NEW boot \in 0 .. Clk!H - 1, NEW narrow \in BOOLEAN,
         boot <= now
  PROVE  Clk!SecondsApart(IF narrow THEN Clk!Signed(now) ELSE now,
                          IF narrow THEN Clk!Signed(boot) ELSE boot, narrow) = now - boot
<1>1. CASE ~narrow
  BY <1>1 DEF Clk!SecondsApart
<1>2. CASE narrow
  <2>1. PICK h \in Nat \ {0} : h = Clk!H
    BY WordFacts
  <2>2. PICK i \in {0, -1}, s \in Int : s = Clk!Signed(now) /\ s = now + i * h
    BY <2>1 DEF Clk!Signed
  <2>3. PICK j \in {0, -1}, t \in Int : t = Clk!Signed(boot) /\ t = boot + j * h
    BY <2>1 DEF Clk!Signed
  <2>4. PICK d \in 0 .. h - 1, q \in Int : d = now - boot /\ q = i - j
    BY <2>1
  <2>5. s - t = d + q * h
    BY <2>2, <2>3, <2>4
  <2>6. (s - t) % h = d
    <3>1. d \in Int
      OBVIOUS
    <3>2. (d + q * h) % h = d % h
      BY <3>1, ModShift
    <3>3. d % h = d
      BY SmallMod
    <3> QED
      BY <2>5, <3>2, <3>3
  <2> QED
    BY <1>2, <2>1, <2>2, <2>3, <2>4, <2>6, Zenon DEF Clk!SecondsApart
<1> QED
  BY <1>1, <1>2

(* Microseconds of less than a second, in nanoseconds.                     *)
LEMMA MicrosBelow ==
  ASSUME NEW u \in 0 .. Million - 1
  PROVE  u * Thousand \in 0 .. Clk!Billion - 1
<1>1. PICK k \in Nat \ {0}, m \in Nat \ {0}, g \in Nat :
        k = Thousand /\ m = Million /\ g = Clk!Billion /\ g = k * m
  BY WordFacts
<1>2. u \in Int /\ u <= m - 1 /\ m - 1 \in Int
  BY <1>1
<1>3. u * k <= (m - 1) * k /\ (m - 1) * k = g - k
  BY <1>1, <1>2, TimesMono
<1>4. u * k \in Nat
  BY <1>1, <1>2
<1> QED
  BY <1>1, <1>3, <1>4

(* What is off by one part in P is off by one part in 16.                  *)
LEMMA SixteenthPart ==
  ASSUME NEW P \in Nat, P >= 16, NEW x \in Int, NEW y \in Nat, P * x <= y
  PROVE  16 * x <= y
<1>1. CASE x <= 0
  BY <1>1
<1>2. CASE x >= 0
  <2>1. 16 * x <= P * x
    BY <1>2, TimesMono
  <2> QED
    BY <2>1
<1> QED
  BY <1>1, <1>2

(* The roundings of tvdiff2mach add up to four parts and some in P: s is the *)
(* rounded product S, t the rounded sum, p its rounded product with D.     *)
LEMMA RoundingsAddUp ==
  ASSUME NEW P \in Nat, P >= 16, NEW S \in Nat, NEW N \in Nat, NEW M \in Nat, NEW D \in Nat,
         S <= M, N <= M, NEW s \in Int, NEW u \in Nat, NEW t \in Nat, NEW p \in Int,
         P * (s - S) <= S, P * (S - s) <= S, u = N + (s - S),
         P * (t - u) <= u, P * (u - t) <= u,
         P * (p - t * D) <= t * D, P * (t * D - p) <= t * D
  PROVE  P * (p - N * D) + p <= 5 * (M * D) /\ P * (N * D - p) + p <= 5 * (M * D)
<1>1. 16 * (s - S) <= S
  BY SixteenthPart
<1>2. PICK e \in Int, f \in Int, i \in Int :
        e = P * (s - S) /\ f = P * (t - u) /\ i = P * (t - N) /\ i = e + f /\ -e <= S /\ -f <= u
  <2>1. P * (t - N) = P * (s - S) + P * (t - u)
    <3>1. t - N = (s - S) + (t - u)
      OBVIOUS
    <3>2. P * ((s - S) + (t - u)) = P * (s - S) + P * (t - u)
      OBVIOUS
    <3> QED
      BY <3>1, <3>2
  <2>2. P * (S - s) = -(P * (s - S)) /\ P * (u - t) = -(P * (t - u))
    OBVIOUS
  <2> QED
    BY <2>1, <2>2
<1>3. 16 * i <= 33 * M /\ 16 * (-i) <= 33 * M
  BY <1>1, <1>2
<1>4. 256 * t <= 289 * M
  <2>1. P * (16 * (t - N)) = 16 * i
    BY <1>2
  <2>2. 16 * (16 * (t - N)) <= 33 * M
    BY <1>3, <2>1, SixteenthPart
  <2> QED
    BY <2>2
<1>5. PICK c \in Nat, a \in Nat, A \in Nat : c = t * D /\ a = N * D /\ A = M * D
  BY TimesNat
<1>6. 256 * c <= 289 * A
  <2>1. (256 * t) * D <= (289 * M) * D
    BY <1>4, TimesMono
  <2>2. (256 * t) * D = 256 * (t * D) /\ (289 * M) * D = 289 * (M * D)
    OBVIOUS
  <2> QED
    BY <1>5, <2>1, <2>2
<1>7. PICK k \in Int : k = P * (c - a) /\ 16 * k <= 33 * A /\ 16 * (-k) <= 33 * A
  <2>1. (16 * i) * D <= (33 * M) * D /\ (16 * (-i)) * D <= (33 * M) * D
    BY <1>3, TimesMono
  <2>2. /\ (16 * i) * D = 16 * (i * D) /\ (16 * (-i)) * D = 16 * (-(i * D))
        /\ (33 * M) * D = 33 * (M * D)
    OBVIOUS
  <2>3. i * D = P * (c - a)
    <3>1. (t - N) * D = c - a
      BY <1>5
    <3>2. (P * (t - N)) * D = P * ((t - N) * D)
      OBVIOUS
    <3> QED
      BY <1>2, <3>1, <3>2
  <2> QED
    BY <1>5, <2>1, <2>2, <2>3
<1>8. PICK j \in Int : j = P * (p - c) /\ j <= c /\ -j <= c
  <2>1. P * (c - p) = -(P * (p - c))
    BY <1>5
  <2> QED
    BY <1>5, <2>1
<1>9. 16 * p <= 17 * c
  <2>1. 16 * (p - c) <= c
    BY <1>8, SixteenthPart
  <2> QED
    BY <2>1
<1>10. P * (p - a) = j + k /\ P * (a - p) = -(j + k)
  BY <1>7, <1>8
<1> QED
  BY <1>5, <1>6, <1>7, <1>8, <1>9, <1>10

(* How a natural number is rounded.                                        *)
LEMMA RoundedWithin ==
  ASSUME NEW n \in Nat, NEW r \in Clk!Rounded(n)
  PROVE  /\ r \in Nat /\ Precision * (r - n) <= n /\ Precision * (n - r) <= n
         /\ n < Precision => r = n
<1>1. PICK P \in Nat \ {0} : P = Precision
  BY DoubleAssumption
<1>2. PICK q \in Nat, m \in 0 .. P - 1 : n \div P = q /\ n % P = m /\ n = q * P + m
  BY DivModNat
<1>3. r \in n - q .. n + q
  BY <1>1, <1>2 DEF Clk!Rounded
<1>4. q <= n
  <2>1. q * 1 <= q * P
    BY TimesMono
  <2> QED
    BY <1>2, <2>1
<1>5. P * (r - n) <= P * q /\ P * (n - r) <= P * q
  <2>1. (r - n) * P <= q * P /\ (n - r) * P <= q * P
    BY <1>3, TimesMono
  <2> QED
    BY <1>3, <2>1
<1>6. n < P => q = 0
  BY <1>2, SmallMod
<1> QED
  BY <1>1, <1>2, <1>3, <1>4, <1>5, <1>6

(* How a quotient is rounded and truncated.                                *)
LEMMA TruncatedWithin ==
  ASSUME NEW p \in Nat, NEW n \in Nat \ {0}, NEW r \in Clk!Truncated(p, n)
  PROVE  /\ r \in Int
         /\ Precision * (r * n) <= Precision * p + p /\ Precision * p - p < Precision * ((r + 1) * n)
         /\ p < Precision => r * n <= p /\ p < (r + 1) * n
<1>1. PICK P \in Nat \ {0} : P = Precision
  BY DoubleAssumption
<1>2. PICK q \in Nat, m \in 0 .. n - 1 : p \div n = q /\ p % n = m /\ p = q * n + m
  BY DivModNat
<1>3. CASE m = 0
  <2>1. r \in Clk!Rounded(q)
    BY <1>2, <1>3, Zenon DEF Clk!Truncated
  <2>2. r \in Nat /\ P * (r - q) <= q /\ P * (q - r) <= q /\ (q < P => r = q)
    BY <1>1, <2>1, RoundedWithin
  <2>3. p = q * n
    BY <1>2, <1>3
  <2>4. (r - q) * n = r * n - p /\ (q - r) * n = p - r * n
    BY <2>2, <2>3
  <2>5. (P * (r - q)) * n <= q * n /\ (P * (q - r)) * n <= q * n
    <3>1. P * (r - q) \in Int /\ P * (q - r) \in Int
      BY <2>2
    <3> QED
      BY <2>2, <3>1, TimesMono
  <2>6. P * (r * n - p) <= p /\ P * (p - r * n) <= p
    <3>1. (P * (r - q)) * n = P * ((r - q) * n) /\ (P * (q - r)) * n = P * ((q - r) * n)
      BY <2>2
    <3> QED
      BY <2>3, <2>4, <2>5, <3>1
  <2>7. (r + 1) * n = r * n + n /\ P * (r * n + n) = P * (r * n) + P * n /\ P * n > 0
    BY <2>2
  <2>8. P * (r * n - p) = P * (r * n) - P * p /\ P * (p - r * n) = P * p - P * (r * n)
    BY <2>2
  <2>9. P * (r * n) <= P * p + p /\ P * p - p < P * ((r + 1) * n)
    <3>1. PICK x \in Int, y \in Int, z \in Int : x = P * (r * n) /\ y = P * p /\ z = P * n
      BY <2>2
    <3> QED
      BY <2>6, <2>7, <2>8, <3>1
  <2>10. ASSUME p < P PROVE r * n <= p /\ p < (r + 1) * n
    <3>1. q * 1 <= q * n
      BY TimesMono
    <3>2. q < P
      BY <2>3, <2>10, <3>1
    <3> QED
      BY <2>2, <2>3, <2>7, <3>2
  <2> QED
    BY <1>1, <2>2, <2>9, <2>10
<1>4. CASE m # 0
  <2>1. r \in (p * (P - 1)) \div (P * n) .. (p * (P + 1)) \div (P * n)
    BY <1>1, <1>2, <1>4, Zenon DEF Clk!Truncated
  <2>2. PICK w \in Nat \ {0}, x \in Nat, y \in Nat : w = P * n /\ x = p * (P - 1) /\ y = p * (P + 1)
    <3>1. P - 1 \in Nat /\ P * n \in Nat /\ P * n # 0
      OBVIOUS
    <3> QED
      BY <3>1, TimesNat
  <2>3. PICK xq \in Nat, xr \in 0 .. w - 1 : x \div w = xq /\ x % w = xr /\ x = xq * w + xr
    BY DivModNat
  <2>4. PICK yq \in Nat, yr \in 0 .. w - 1 : y \div w = yq /\ y % w = yr /\ y = yq * w + yr
    BY DivModNat
  <2>5. r \in Int /\ xq <= r /\ r <= yq
    BY <2>1, <2>2, <2>3, <2>4
  <2>6. r * w <= yq * w /\ (xq + 1) * w <= (r + 1) * w /\ (xq + 1) * w = xq * w + w
    <3>1. r * w <= yq * w
      BY <2>5, TimesMono
    <3>2. xq + 1 \in Int /\ r + 1 \in Int /\ xq + 1 <= r + 1 /\ w \in Nat
      BY <2>5
    <3>3. (xq + 1) * w <= (r + 1) * w
      BY <3>2, TimesMono
    <3> QED
      BY <3>1, <3>3
  <2>7. r * w <= y /\ x < (r + 1) * w
    <3>1. PICK a \in Int, b \in Int, c \in Int, d \in Int :
            a = r * w /\ b = (r + 1) * w /\ c = xq * w /\ d = yq * w
      BY <2>5
    <3>2. a <= d /\ c + w <= b /\ x = c + xr /\ y = d + yr
      BY <2>3, <2>4, <2>6, <3>1, Zenon
    <3> QED
      BY <3>1, <3>2
  <2>8. r * w = P * (r * n) /\ (r + 1) * w = P * ((r + 1) * n) /\ x = P * p - p /\ y = P * p + p
    BY <2>2, <2>5
  <2>9. ASSUME p < P PROVE r * n <= p /\ p < (r + 1) * n
    <3>1. PICK a \in Int, b \in Int : a = r * n /\ b = (r + 1) * n /\ b = a + n
      BY <2>5
    <3>2. a <= p
      <4>1. SUFFICES ASSUME p + 1 <= a PROVE FALSE
        BY <3>1
      <4>2. (p + 1) * P <= a * P /\ (p + 1) * P = p * P + P
        BY <3>1, <4>1, TimesMono
      <4> QED
        BY <2>7, <2>8, <2>9, <3>1, <4>2
    <3>3. b >= p
      <4>1. SUFFICES ASSUME b + 1 <= p PROVE FALSE
        BY <3>1
      <4>2. (b + 1) * P <= p * P /\ (b + 1) * P = b * P + P
        BY <3>1, <4>1, TimesMono
      <4> QED
        BY <2>7, <2>8, <2>9, <3>1, <4>2
    <3>4. b # p
      <4>1. SUFFICES ASSUME p = (r + 1) * n + 0 PROVE FALSE
        BY <3>1
      <4>2. p % n = 0
        BY <2>5, <4>1, DivUnique
      <4> QED
        BY <1>2, <1>4, <4>2
    <3> QED
      BY <3>1, <3>2, <3>3, <3>4
  <2> QED
    BY <1>1, <2>5, <2>7, <2>8, <2>9
<1> QED
  BY <1>3, <1>4

(* tvdiff2mach gives the mach units of the time between, up to the rounding *)
(* of doubles.                                                             *)
LEMMA DifferenceIsRight ==
  ASSUME NEW now \in 0 .. Clk!H - 1, NEW boot \in 0 .. Clk!H - 1, NEW narrow \in BOOLEAN,
         NEW u1 \in 0 .. Million - 1, NEW u2 \in 0 .. Million - 1,
         NEW numer \in Nat \ {0}, NEW denom \in Nat \ {0},
         NEW tv1, NEW tv2, tv1.usec = u1, tv2.usec = u2,
         tv1.sec = (IF narrow THEN Clk!Signed(now) ELSE now),
         tv2.sec = (IF narrow THEN Clk!Signed(boot) ELSE boot),
         NEW mach \in Clk!TvDiff2Mach(tv1, tv2, narrow, numer, denom)
  PROVE  Clk!DifferenceRight(now, boot, u1 - u2, numer, denom, mach)
<1>1. PICK g \in Nat, k \in Nat, P \in Nat :
        g = Clk!Billion /\ k = Thousand /\ P = Precision /\ P >= 16 /\ P >= 2 * g
  BY WordFacts, DoubleAssumption
<1>2. PICK S \in Int, v \in Int : S = (now - boot) * g /\ v = (u1 - u2) * k /\ -g < v /\ v < g
  <2>1. u1 * k \in 0 .. g - 1 /\ u2 * k \in 0 .. g - 1
    BY <1>1, MicrosBelow
  <2>2. (u1 - u2) * k = u1 * k - u2 * k
    BY <1>1, WordFacts
  <2> QED
    BY <1>1, <2>1, <2>2, WordFacts
<1>3. PICK N \in Int, M \in Int : N = S + v /\ M = N + g
  OBVIOUS
<1>4. SUFFICES ASSUME boot <= now, N >= 0
               PROVE  /\ M * denom < P => mach * numer <= N * denom /\ N * denom < (mach + 1) * numer
                      /\ P * (mach * numer) <= P * (N * denom) + 5 * (M * denom)
                      /\ P * (N * denom) < P * ((mach + 1) * numer) + 5 * (M * denom)
  BY <1>1, <1>2, <1>3, WordFacts, Zenon DEF Clk!DifferenceRight
<1>5. S \in Nat /\ N \in Nat /\ M \in Nat /\ S <= M /\ N <= M
  <2>1. S \in Nat
    <3>1. now - boot \in Nat
      BY <1>4, WordFacts
    <3> QED
      BY <1>2, <3>1, TimesNat
  <2> QED
    BY <1>2, <1>3, <1>4, <2>1
<1>6. Clk!SecondsApart(tv1.sec, tv2.sec, narrow) = now - boot
  BY <1>4, SecondsApartRight, Zenon
<1>7. PICK s, t, p :
        /\ s \in Clk!Rounded(S) /\ t \in Clk!Rounded(s + v) /\ p \in Clk!Rounded(t * denom)
        /\ mach \in (IF p >= 0 THEN Clk!Truncated(p, numer) ELSE {-q : q \in Clk!Truncated(-p, numer)})
  <2>1. PICK p \in UNION {Clk!Rounded(d * denom) : d \in
                             UNION {Clk!Rounded(i + v) : i \in Clk!Rounded(S)}} :
          mach \in (IF p >= 0 THEN Clk!Truncated(p, numer) ELSE {-q : q \in Clk!Truncated(-p, numer)})
    BY <1>1, <1>2, <1>6, ZenonT(60) DEF Clk!TvDiff2Mach
  <2>2. PICK t \in UNION {Clk!Rounded(i + v) : i \in Clk!Rounded(S)} : p \in Clk!Rounded(t * denom)
    BY Zenon
  <2>3. PICK s \in Clk!Rounded(S) : t \in Clk!Rounded(s + v)
    BY Zenon
  <2> QED
    BY <2>1, <2>2, <2>3, Zenon
<1>8. s \in Nat /\ P * (s - S) <= S /\ P * (S - s) <= S /\ (S < P => s = S)
  BY <1>1, <1>5, <1>7, RoundedWithin
<1>9. PICK u \in Nat : u = s + v /\ u = N + (s - S)
  <2>1. CASE S < P
    BY <1>3, <1>4, <1>8, <2>1
  <2>2. CASE S >= P
    <3>1. 16 * (S - s) <= S
      BY <1>1, <1>5, <1>8, SixteenthPart
    <3> QED
      BY <1>1, <1>2, <1>3, <1>5, <1>8, <2>2, <3>1
  <2> QED
    BY <2>1, <2>2, <1>1, <1>5
<1>10. t \in Nat /\ P * (t - u) <= u /\ P * (u - t) <= u /\ (u < P => t = u)
  BY <1>1, <1>7, <1>9, RoundedWithin
<1>11. PICK c \in Nat : c = t * denom
  BY <1>10, TimesNat
<1>12. p \in Nat /\ P * (p - c) <= c /\ P * (c - p) <= c /\ (c < P => p = c)
  BY <1>1, <1>7, <1>11, RoundedWithin
<1>13. mach \in Clk!Truncated(p, numer)
  BY <1>7, <1>12
<1>14. /\ mach \in Int
       /\ P * (mach * numer) <= P * p + p /\ P * p - p < P * ((mach + 1) * numer)
       /\ p < P => mach * numer <= p /\ p < (mach + 1) * numer
  BY <1>1, <1>12, <1>13, TruncatedWithin
<1>15. PICK a \in Nat, A \in Nat : a = N * denom /\ A = M * denom
  BY <1>5, TimesNat
<1>16. P * (p - a) + p <= 5 * A /\ P * (a - p) + p <= 5 * A
  BY <1>1, <1>5, <1>8, <1>9, <1>10, <1>11, <1>12, <1>15, RoundingsAddUp
<1>17. P * (mach * numer) <= P * a + 5 * A /\ P * a < P * ((mach + 1) * numer) + 5 * A
  <2>1. PICK x \in Int, y \in Int, z \in Int :
          x = P * (mach * numer) /\ y = P * p /\ z = P * ((mach + 1) * numer)
    BY <1>12, <1>14
  <2>2. P * (p - a) = y - P * a /\ P * (a - p) = P * a - y
    BY <1>12, <2>1
  <2> QED
    BY <1>12, <1>14, <1>16, <2>1, <2>2
<1>18. ASSUME A < P PROVE mach * numer <= a /\ a < (mach + 1) * numer
  <2>1. M * 1 <= M * denom /\ N * denom <= M * denom
    BY <1>5, TimesMono
  <2>2. S < P /\ N < P /\ a < P
    BY <1>5, <1>15, <1>18, <2>1
  <2>3. u = N /\ t = N
    BY <1>8, <1>9, <1>10, <2>2
  <2>4. c = a /\ p = a
    BY <1>11, <1>12, <1>15, <2>2, <2>3
  <2> QED
    BY <1>14, <2>2, <2>4
<1> QED
  BY <1>15, <1>17, <1>18, Zenon

-----------------------------------------------------------------------------
(* What a clock may be read from.                                          *)
Sources == [tod : TvSecs, utime : TvSecs, stime : TvSecs, mach : 0 .. Clk!Word - 1, mult : Nat,
            fails : Failing, hires : BOOLEAN]

(* The middle word is a number for every pair of factors.                   *)
LEMMA MiddleType ==
  ASSUME NEW a \in Nat, NEW b \in Nat
  PROVE  Clk!MiddleProduct(a, b) \in Nat
<1>1. PICK h \in Nat \ {0}, w \in Nat \ {0} : h = Clk!H /\ w = Clk!Word
  BY WordFacts
<1> DEFINE low == ((a % h) * (b % h)) % w
           mid2 == ((a \div h) * (b % h)) % w
           mid1 == (((a % h) * (b \div h)) + (mid2 % h) + (low \div h)) % w
           high == (((((a \div h) * (b \div h)) % w)) + (mid1 \div h) + (mid2 \div h)) % w
<1>2. a % h \in Int /\ a \div h \in Int /\ b % h \in Int /\ b \div h \in Int
  OBVIOUS
<1>3. low \in Int /\ mid2 \in Int /\ ((a \div h) * (b \div h)) % w \in Int
  BY <1>2
<1>4. low \div h \in Int /\ mid2 % h \in Int /\ mid2 \div h \in Int
  <2> HIDE DEF low, mid2
  <2> QED
    BY <1>3
<1>5. mid1 \in Int
  <2> HIDE DEF low, mid2
  <2> QED
    BY <1>2, <1>4
<1>6. mid1 \div h \in Int /\ mid1 % h \in Int
  <2> HIDE DEF mid1
  <2> QED
    BY <1>5
<1>7. high \in Int
  <2> HIDE DEF mid1, mid2
  <2> QED
    BY <1>3, <1>4, <1>6
<1>8. ((high * h) + (mid1 % h)) % w \in Nat
  <2> HIDE DEF high, mid1
  <2> QED
    BY <1>6, <1>7
<1>9. Clk!MiddleProduct(a, b) = ((high * h) + (mid1 % h)) % w
  BY <1>1, Zenon DEF Clk!MiddleProduct, Clk!Fold
<1> QED
  BY <1>8, <1>9

(* That of no count.                                                       *)
LEMMA MiddleOfNothing ==
  ASSUME NEW b \in Nat
  PROVE  Clk!MiddleProduct(0, b) = 0
<1>1. PICK h \in Nat \ {0}, w \in Nat \ {0} : h = Clk!H /\ w = Clk!Word
  BY WordFacts
<1>2. PICK b1 \in Nat, b0 \in 0 .. h - 1 : b \div h = b1 /\ b % h = b0
  BY DivModNat
<1>3. 0 % h = 0 /\ 0 \div h = 0 /\ 0 % w = 0
  BY SmallMod
<1>4. 0 * b0 = 0 /\ 0 * b1 = 0 /\ 0 + 0 = 0 /\ 0 * h = 0
  BY <1>2
<1> QED
  BY <1>1, <1>2, <1>3, <1>4, Zenon DEF Clk!MiddleProduct, Clk!Fold

(* Scaling to nanoseconds; of no count, or without a scale, there are none. *)
LEMMA NanosType ==
  ASSUME NEW mach \in 0 .. Clk!Word - 1, NEW mult \in Nat
  PROVE  /\ Clk!Mach2Nanos(mach, mult) \in Nat
         /\ mach = 0 \/ mult = 0 => Clk!Mach2Nanos(mach, mult) = 0
<1>1. PICK e \in Nat \ {0} : e = 2 ^ Extra
  BY WordAssumption
<1>2. PICK p \in Nat : p = Clk!MiddleProduct(mach, mult)
  BY MiddleType
<1>3. PICK q \in Nat, r \in 0 .. e - 1 : p \div e = q /\ p % e = r /\ p = q * e + r
  BY DivModNat
<1>4. Clk!Mach2Nanos(mach, mult) = (IF mult = Clk!NullScale THEN mach ELSE q)
  BY <1>1, <1>2, <1>3, Zenon DEF Clk!Mach2Nanos
<1>5. ASSUME mult = 0 PROVE q = 0
  <2>1. PICK h \in Nat \ {0}, w \in Nat \ {0} : h = Clk!H /\ w = Clk!Word
    BY WordFacts
  <2>3. mult \in 0 .. Clk!Word - 1
    BY <1>5, <2>1
  <2>4. p = ((mach * mult) \div h) % w
    BY <1>2, <2>1, <2>3, MiddleProductExact, Zenon DEF Clk!MiddleExact
  <2>5. mach * mult = 0
    BY <1>5
  <2>6. 0 \div h = 0 /\ 0 % w = 0
    BY SmallMod
  <2>7. p = 0
    BY <2>4, <2>5, <2>6, Zenon
  <2>8. 0 \div e = 0
    BY SmallMod
  <2> QED
    BY <1>3, <2>7, <2>8
<1>6. mult = 0 => mult # Clk!NullScale
  BY <1>1, WordFacts, WordAssumption
<1>7. ASSUME mach = 0 PROVE q = 0
  <2>1. p = 0
    BY <1>2, <1>7, MiddleOfNothing, Zenon
  <2>2. 0 \div e = 0
    BY SmallMod
  <2> QED
    BY <1>3, <2>1, <2>2
<1> QED
  BY <1>3, <1>4, <1>5, <1>6, <1>7

(* The sum of two times: the carry keeps the time and leaves less than a    *)
(* second of nanoseconds.                                                  *)
LEMMA CarryRight ==
  ASSUME NEW s \in Nat, NEW u1 \in 0 .. Million - 1, NEW u2 \in 0 .. Million - 1,
         NEW n, n = (u1 + u2) * Thousand, NEW ts, ts = Clk!Carry([sec |-> s, nsec |-> n])
  PROVE  /\ ts = [sec |-> ts.sec, nsec |-> ts.nsec]
         /\ ts.sec \in Nat /\ ts.nsec \in 0 .. Clk!Billion - 1
         /\ s * Clk!Billion + n = ts.sec * Clk!Billion + ts.nsec
<1>1. PICK g \in Nat \ {0} : g = Clk!Billion
  BY WordFacts
<1>2. u1 * Thousand \in 0 .. g - 1 /\ u2 * Thousand \in 0 .. g - 1
  BY <1>1, MicrosBelow
<1>3. n \in Nat /\ n < 2 * g
  <2>1. (u1 + u2) * Thousand = u1 * Thousand + u2 * Thousand
    BY WordFacts
  <2> QED
    BY <1>2, <2>1
<1>4. (s + 1) * g = s * g + g
  OBVIOUS
<1>5. CASE n >= g
  <2>1. ts = [sec |-> s + 1, nsec |-> n - g]
    BY <1>1, <1>5 DEF Clk!Carry
  <2>2. s * g + n = (s + 1) * g + (n - g)
    BY <1>3, <1>4
  <2>3. n - g \in 0 .. g - 1
    BY <1>3, <1>5
  <2> QED
    BY <1>1, <2>1, <2>2, <2>3
<1>6. CASE ~(n >= g)
  <2>1. ts = [sec |-> s, nsec |-> n]
    BY <1>1, <1>6 DEF Clk!Carry
  <2> QED
    BY <1>1, <1>3, <1>6, <2>1
<1> QED
  BY <1>5, <1>6

(* A clock that is scaled from mach units.                                 *)
LEMMA ScaledFormsAgree ==
  ASSUME NEW nanos \in Nat, NEW ret, ret = -1 => nanos = 0, ret \in {0, -1}
  PROVE  Clk!SameTime([ret |-> ret, ts |-> Clk!Nanos2Timespec(nanos)], nanos)
<1>1. PICK g \in Nat, s \in Nat, r \in 0 .. Clk!Billion - 1 :
        /\ g = Clk!Billion /\ Clk!Nanos2Timespec(nanos) = [sec |-> s, nsec |-> r]
        /\ nanos = s * g + r
  <2>1. Clk!Nanos2Timespec(nanos) = [sec |-> nanos \div Clk!Billion, nsec |-> nanos % Clk!Billion]
    BY TimespecIsExact DEF Clk!TimespecExact
  <2>2. Clk!Billion \in Nat
    BY WordFacts
  <2> QED
    BY <2>1, <2>2, TimespecIsExact, Zenon
<1> QED
  BY <1>1 DEF Clk!SameTime

(* clock_gettime and clock_gettime_nsec_np have the same time.             *)
LEMMA SameTimeRight ==
  ASSUME NEW clk \in Clk!Clocks, NEW src \in Sources
  PROVE  Clk!SameTime(Clk!ClockGettime(clk, src), Clk!ClockNsec(clk, src))
<1>1. /\ src.tod \in TvSecs /\ src.utime \in TvSecs /\ src.stime \in TvSecs
      /\ src.mach \in 0 .. Clk!Word - 1 /\ src.mult \in Nat /\ src.hires \in BOOLEAN
  BY DEF Sources
<1>2. /\ src.tod.sec \in Nat /\ src.tod.usec \in 0 .. Million - 1
      /\ src.utime.sec \in Nat /\ src.utime.usec \in 0 .. Million - 1
      /\ src.stime.sec \in Nat /\ src.stime.usec \in 0 .. Million - 1
  BY <1>1 DEF TvSecs
<1>3. PICK g \in Nat, k \in Nat \ {0} : g = Clk!Billion /\ k = Thousand /\ 1 < g
  BY WordFacts
<1>4. PICK s \in Nat, n \in Nat :
        s = src.utime.sec + src.stime.sec /\ n = (src.utime.usec + src.stime.usec) * k
  BY <1>2
<1>5. PICK ts : ts = Clk!Carry([sec |-> s, nsec |-> n])
  OBVIOUS
<1>6. /\ ts = [sec |-> ts.sec, nsec |-> ts.nsec] /\ ts.sec \in Nat /\ ts.nsec \in 0 .. g - 1
      /\ s * g + n = ts.sec * g + ts.nsec
  <2>1. PICK u1 \in 0 .. Million - 1, u2 \in 0 .. Million - 1 : n = (u1 + u2) * Thousand
    BY <1>2, <1>3, <1>4
  <2>2. /\ ts = [sec |-> ts.sec, nsec |-> ts.nsec]
        /\ ts.sec \in Nat /\ ts.nsec \in 0 .. Clk!Billion - 1
        /\ s * Clk!Billion + n = ts.sec * Clk!Billion + ts.nsec
    BY <1>5, <2>1, CarryRight
  <2> QED
    BY <1>3, <2>2
<1>7. CASE clk = "REALTIME"
  <2>1. src.tod.usec * k \in 0 .. g - 1
    BY <1>2, <1>3, MicrosBelow
  <2>2. Clk!ClockGettime(clk, src) = [ret |-> IF "gettimeofday" \in src.fails THEN -1 ELSE 0,
                                     ts |-> [sec |-> src.tod.sec, nsec |-> src.tod.usec * k]]
    BY <1>3, <1>7 DEF Clk!ClockGettime, Clk!MachClocks
  <2>3. Clk!ClockNsec(clk, src) = IF "gettimeofday" \in src.fails THEN 0 ELSE src.tod.sec * g + src.tod.usec * k
    BY <1>3, <1>7 DEF Clk!ClockNsec, Clk!MachClocks
  <2> QED
    BY <1>3, <2>1, <2>2, <2>3 DEF Clk!SameTime
<1>8. CASE clk = "PROCESS_CPUTIME"
  <2>1. Clk!ClockGettime(clk, src) = [ret |-> IF "getrusage" \in src.fails THEN -1 ELSE 0, ts |-> ts]
    BY <1>3, <1>4, <1>5, <1>8 DEF Clk!ClockGettime, Clk!MachClocks
  <2>2. Clk!ClockNsec(clk, src) = IF "getrusage" \in src.fails THEN 0 ELSE s * g + n
    BY <1>3, <1>4, <1>8 DEF Clk!ClockNsec, Clk!MachClocks
  <2> QED
    BY <1>3, <1>6, <2>1, <2>2 DEF Clk!SameTime
<1>9. CASE clk = "THREAD_CPUTIME" /\ ~src.hires
  <2>1. Clk!ClockGettime(clk, src) = Clk!ThreadUsageTs(src)
    BY <1>9 DEF Clk!ClockGettime, Clk!MachClocks
  <2>2. Clk!ThreadUsageTs(src)
          = [ret |-> IF "thread_info" \in src.fails THEN -1 ELSE 0,
             ts |-> IF ts = [sec |-> 0, nsec |-> 0] THEN [ts EXCEPT !.nsec = 1] ELSE ts]
    BY <1>3, <1>4, <1>5, <1>9 DEF Clk!ThreadUsageTs
  <2>3. Clk!ClockNsec(clk, src) = Clk!ThreadUsageNs(src)
    BY <1>9 DEF Clk!ClockNsec, Clk!MachClocks
  <2>4. PICK m \in Nat : m = s * g + n
    OBVIOUS
  <2>5. Clk!ThreadUsageNs(src) = IF "thread_info" \in src.fails THEN 0 ELSE IF m = 0 THEN 1 ELSE m
    BY <1>3, <1>4, <1>9, <2>4 DEF Clk!ThreadUsageNs
  <2>6. m = 0 <=> ts.sec = 0 /\ ts.nsec = 0
    <3>1. ASSUME m = 0 PROVE ts.sec = 0 /\ ts.nsec = 0
      <4>1. ts.sec * g \in Nat
        BY <1>6, TimesNat
      <4>2. ts.sec * g = 0 /\ ts.nsec = 0
        BY <1>6, <2>4, <3>1, <4>1
      <4> QED
        BY <1>3, <1>6, <4>2
    <3>2. ASSUME ts.sec = 0, ts.nsec = 0 PROVE m = 0
      BY <1>6, <2>4, <3>2
    <3> QED
      BY <3>1, <3>2
  <2>7. CASE m = 0
    <3>1. Clk!ThreadUsageTs(src).ts = [sec |-> 0, nsec |-> 1]
      <4>1. ts = [sec |-> 0, nsec |-> 0]
        BY <1>6, <2>6, <2>7
      <4>2. [ts EXCEPT !.nsec = 1] = [sec |-> 0, nsec |-> 1]
        BY <4>1
      <4> QED
        BY <2>2, <4>1, <4>2
    <3> QED
      BY <1>3, <2>1, <2>2, <2>3, <2>5, <2>7, <3>1 DEF Clk!SameTime
  <2>8. CASE m # 0
    <3>1. Clk!ThreadUsageTs(src).ts = ts
      BY <1>6, <2>2, <2>6, <2>8
    <3> QED
      BY <1>3, <1>6, <2>1, <2>2, <2>3, <2>4, <2>5, <2>8, <3>1 DEF Clk!SameTime
  <2> QED
    BY <2>7, <2>8
<1>10. PICK nanos \in Nat : nanos = Clk!Mach2Nanos(src.mach, src.mult) /\ (src.mach = 0 => nanos = 0)
         /\ (src.mult = 0 => nanos = 0)
  BY <1>1, NanosType
<1>11. Clk!ScaleError(src) = (IF src.mult = 0 THEN -1 ELSE 0)
  BY DEF Clk!ScaleError
<1>12. CASE clk = "MONOTONIC"
  <2>1. PICK q \in Nat, r \in 0 .. k - 1 : nanos \div k = q /\ nanos % k = r /\ nanos = q * k + r
    BY DivModNat
  <2>2. PICK m \in Nat : m = q * k
    OBVIOUS
  <2>3. nanos = 0 => m = 0
    BY <2>1, <2>2
  <2>4. Clk!ClockNsec(clk, src) = m
    BY <1>3, <1>10, <1>12, <2>1, <2>2 DEF Clk!ClockNsec, Clk!MachClocks
  <2>5. Clk!ClockGettime(clk, src) = [ret |-> Clk!ScaleError(src), ts |-> Clk!Nanos2Timespec(m)]
    BY <1>3, <1>10, <1>12, <2>1, <2>2 DEF Clk!ClockGettime, Clk!Monotonic, Clk!MachClocks
  <2> QED
    BY <1>10, <1>11, <2>3, <2>4, <2>5, ScaledFormsAgree
<1>13. CASE clk \in Clk!MachClocks
  <2>1. Clk!ClockNsec(clk, src) = nanos
    BY <1>10, <1>13 DEF Clk!ClockNsec, Clk!MachClocks
  <2>2. Clk!ClockGettime(clk, src) = [ret |-> Clk!ScaleError(src), ts |-> Clk!Nanos2Timespec(nanos)]
    BY <1>10, <1>13 DEF Clk!ClockGettime, Clk!MachClocks
  <2> QED
    BY <1>10, <1>11, <2>1, <2>2, ScaledFormsAgree
<1>14. CASE clk = "THREAD_CPUTIME" /\ src.hires
  <2>1. Clk!ClockNsec(clk, src) = nanos
    BY <1>10, <1>14 DEF Clk!ClockNsec, Clk!MachClocks, Clk!ThreadUsageNs, Clk!SelfusageNs
  <2>2. Clk!ClockGettime(clk, src) = [ret |-> IF src.mach = 0 THEN -1 ELSE 0,
                                     ts |-> Clk!Nanos2Timespec(nanos)]
    BY <1>10, <1>14 DEF Clk!ClockGettime, Clk!MachClocks, Clk!ThreadUsageTs, Clk!SelfusageTs
  <2> QED
    BY <1>10, <2>1, <2>2, ScaledFormsAgree
<1> QED
  BY <1>1, <1>7, <1>8, <1>9, <1>12, <1>13, <1>14 DEF Clk!Clocks

(* They tell of every error.                                               *)
LEMMA FormsAgreeRight ==
  ASSUME NEW clk \in Clk!Clocks, NEW src \in Sources
  PROVE  Clk!FormsAgree(clk, src, Clk!ClockGettime(clk, src), Clk!ClockNsec(clk, src))
<1>1. SUFFICES ASSUME Clk!Unreadable(clk, src)
               PROVE  /\ Clk!ClockNsec(clk, src) = 0
                      /\ \/ Clk!ClockGettime(clk, src).ret = -1
                         \/ clk = "THREAD_CPUTIME" /\ src.hires
  BY SameTimeRight DEF Clk!FormsAgree
<1>2. src.mach \in 0 .. Clk!Word - 1 /\ src.mult \in Nat
  BY DEF Sources
<1>3. src.mult = 0 => Clk!Mach2Nanos(src.mach, src.mult) = 0
  BY <1>2, NanosType
<1>4. (0 \div Thousand) * Thousand = 0
  <2>1. 0 \div Thousand = 0
    BY WordFacts, SmallMod
  <2> QED
    BY <2>1, WordFacts
<1>5. CASE clk = "REALTIME"
  BY <1>1, <1>5 DEF Clk!Unreadable, Clk!ClockNsec, Clk!ClockGettime, Clk!HasMachUnits, Clk!MachClocks
<1>6. CASE clk = "PROCESS_CPUTIME"
  BY <1>1, <1>6 DEF Clk!Unreadable, Clk!ClockNsec, Clk!ClockGettime, Clk!HasMachUnits, Clk!MachClocks
<1>7. CASE clk = "THREAD_CPUTIME" /\ ~src.hires
  BY <1>1, <1>7 DEF Clk!Unreadable, Clk!ClockNsec, Clk!ClockGettime, Clk!HasMachUnits, Clk!MachClocks,
     Clk!ThreadUsageNs, Clk!ThreadUsageTs
<1>8. CASE clk = "THREAD_CPUTIME" /\ src.hires
  BY <1>1, <1>3, <1>8 DEF Clk!Unreadable, Clk!ClockNsec, Clk!HasMachUnits, Clk!MachClocks,
     Clk!ThreadUsageNs, Clk!SelfusageNs
<1>9. CASE clk = "MONOTONIC"
  BY <1>1, <1>3, <1>4, <1>9 DEF Clk!Unreadable, Clk!ClockNsec, Clk!ClockGettime, Clk!MachClocks, Clk!ScaleError
<1>10. CASE clk \in Clk!MachClocks
  BY <1>1, <1>3, <1>10 DEF Clk!Unreadable, Clk!ClockNsec, Clk!ClockGettime, Clk!MachClocks, Clk!ScaleError
<1> QED
  BY <1>5, <1>6, <1>7, <1>8, <1>9, <1>10 DEF Clk!Clocks

(* Setting the clock to what it shows.                                     *)
LEMMA SetBack ==
  ASSUME NEW src \in Sources
  PROVE  /\ Clk!ClockSettime(Clk!ClockGettime("REALTIME", src).ts) = src.tod
         /\ Clk!TimespecGet(Clk!TimeUtc, src) = Clk!TimeUtc
              <=> Clk!ClockGettime("REALTIME", src).ret = 0
<1>1. src.tod \in TvSecs
  BY DEF Sources
<1>2. src.tod.usec \in Nat /\ src.tod = [sec |-> src.tod.sec, usec |-> src.tod.usec]
  BY <1>1 DEF TvSecs
<1>3. PICK k \in Nat \ {0}, u \in Nat : k = Thousand /\ u = src.tod.usec
  BY <1>2, WordFacts
<1>4. (u * k) \div k = u
  <2>1. u * k = u * k + 0 /\ u * k \in Int /\ u \in Int /\ 0 \in 0 .. k - 1
    OBVIOUS
  <2> QED
    BY <2>1, DivUnique
<1>5. Clk!ClockGettime("REALTIME", src).ts = [sec |-> src.tod.sec, nsec |-> u * k]
  BY <1>3 DEF Clk!ClockGettime, Clk!MachClocks
<1>6. Clk!ClockSettime(Clk!ClockGettime("REALTIME", src).ts) = [sec |-> src.tod.sec, usec |-> u]
  BY <1>3, <1>4, <1>5 DEF Clk!ClockSettime
<1> QED
  BY <1>2, <1>3, <1>6 DEF Clk!TimespecGet, Clk!TimeUtc

(* What clock_getres says.                                                 *)
LEMMA ResolutionRight ==
  ASSUME NEW clk \in Clk!Clocks, NEW src \in Sources
  PROVE  Clk!ResolutionKept(clk, Clk!ClockNsec(clk, src), Clk!ClockGetres(clk, src))
<1>1. /\ src.tod \in TvSecs /\ src.utime \in TvSecs /\ src.stime \in TvSecs
      /\ src.mach \in 0 .. Clk!Word - 1 /\ src.mult \in Nat
  BY DEF Sources
<1>2. /\ src.tod.sec \in Nat /\ src.tod.usec \in Nat /\ src.utime.sec \in Nat
      /\ src.utime.usec \in Nat /\ src.stime.sec \in Nat /\ src.stime.usec \in Nat
  BY <1>1 DEF TvSecs
<1>3. SUFFICES ASSUME clk \in {"REALTIME", "PROCESS_CPUTIME", "MONOTONIC"}
               PROVE  Clk!ClockNsec(clk, src) % Thousand = 0
  BY DEF Clk!ResolutionKept, Clk!ClockGetres, Clk!ResMicros, Clk!MachClocks, Clk!Clocks, Clk!HasMachUnits
<1>4. PICK k \in Nat \ {0}, m \in Nat, g \in Nat :
        k = Thousand /\ m = Million /\ g = Clk!Billion /\ g = k * m
  BY WordFacts
<1>5. \A q \in Nat : (q * k) % k = 0
  <2>1. ASSUME NEW q \in Nat PROVE (q * k) % k = 0
    <3>1. q * k = q * k + 0 /\ q * k \in Int /\ q \in Int /\ 0 \in 0 .. k - 1
      OBVIOUS
    <3> QED
      BY <3>1, DivUnique
  <2> QED
    BY <2>1
<1>6. \A s, u \in Nat : s * g + u * k = (s * m + u) * k /\ s * m + u \in Nat
  BY <1>4
<1>7. \A s, u \in Nat : (s * g + u * k) % k = 0
  <2>1. TAKE s \in Nat, u \in Nat
  <2>2. PICK q \in Nat : q = s * m + u /\ s * g + u * k = q * k
    BY <1>6
  <2> QED
    BY <1>5, <2>2
<1>8. 0 % k = 0
  BY SmallMod
<1>9. CASE clk = "REALTIME"
  <2>1. Clk!ClockNsec(clk, src) = IF "gettimeofday" \in src.fails THEN 0 ELSE src.tod.sec * g + src.tod.usec * k
    BY <1>4, <1>9 DEF Clk!ClockNsec, Clk!MachClocks
  <2>2. (src.tod.sec * g + src.tod.usec * k) % k = 0
    BY <1>2, <1>7
  <2> QED
    BY <1>4, <1>8, <2>1, <2>2, Zenon
<1>10. CASE clk = "PROCESS_CPUTIME"
  <2>1. PICK s \in Nat, u \in Nat : s = src.utime.sec + src.stime.sec /\ u = src.utime.usec + src.stime.usec
    BY <1>2
  <2>2. Clk!ClockNsec(clk, src) = IF "getrusage" \in src.fails THEN 0 ELSE s * g + u * k
    BY <1>4, <1>10, <2>1 DEF Clk!ClockNsec, Clk!MachClocks
  <2>3. (s * g + u * k) % k = 0
    BY <1>7
  <2> QED
    BY <1>4, <1>8, <2>2, <2>3, Zenon
<1>11. CASE clk = "MONOTONIC"
  <2>1. PICK nanos \in Nat : nanos = Clk!Mach2Nanos(src.mach, src.mult)
    BY <1>1, NanosType
  <2>2. PICK q \in Nat, r \in 0 .. k - 1 : nanos \div k = q /\ nanos % k = r /\ nanos = q * k + r
    BY DivModNat
  <2>3. Clk!ClockNsec(clk, src) = q * k
    BY <1>4, <1>11, <2>1, <2>2 DEF Clk!ClockNsec, Clk!MachClocks
  <2> QED
    BY <1>4, <1>5, <2>3, Zenon
<1> QED
  BY <1>3, <1>9, <1>10, <1>11

-----------------------------------------------------------------------------
(* A quotient rounded to the nearest.                                      *)
LEMMA Rounded ==
  ASSUME NEW x \in Nat, NEW d \in Nat \ {0}, NEW c \in Nat, c = d \div 2,
         NEW q \in Nat, NEW r \in 0 .. d - 1, x + c = q * d + r
  PROVE  /\ 2 * (q * d) <= 2 * x + d /\ 2 * x - d <= 2 * (q * d)
         /\ q <= x + c /\ 2 * c <= d
<1>1. 2 * c <= d /\ d <= 2 * c + 1
  OBVIOUS
<1>2. PICK y \in Nat : y = q * d
  BY TimesNat
<1>3. q <= y
  <2>1. 1 * q <= d * q
    BY TimesMono
  <2> QED
    BY <1>2, <2>1
<1>4. x + c = y + r
  BY <1>2
<1>5. 2 * y <= 2 * x + d /\ 2 * x - d <= 2 * y /\ q <= x + c
  BY <1>1, <1>3, <1>4
<1> QED
  BY <1>1, <1>2, <1>5

(* Two divisions one after the other are one by the product.               *)
LEMMA Truncated ==
  ASSUME NEW y \in Nat, NEW h \in Nat, NEW e \in Nat, NEW s,  s = h * e,
         NEW p \in Nat, NEW r \in 0 .. h - 1, y = p * h + r,
         NEW n \in Nat, NEW t \in 0 .. e - 1, p = n * e + t
  PROVE  n * s <= y /\ y < (n + 1) * s
<1>1. y = n * s + t * h + r
  <2>1. p * h = (n * e) * h + t * h
    OBVIOUS
  <2>2. (n * e) * h = n * s
    OBVIOUS
  <2> QED
    BY <2>1, <2>2
<1>2. t * h \in Nat
  OBVIOUS
<1>3. t * h + r < s
  <2>1. (t + 1) * h <= e * h
    BY TimesMono
  <2>2. (t + 1) * h = t * h + h /\ e * h = s
    OBVIOUS
  <2> QED
    BY <1>2, <2>1, <2>2
<1>4. (n + 1) * s = n * s + s /\ n * s \in Nat
  OBVIOUS
<1> QED
  BY <1>1, <1>2, <1>3, <1>4

(* From the multiplier's rounding to that of the scaled time.              *)
LEMMA Accurate ==
  ASSUME NEW mach \in Nat, NEW m \in Nat, NEW d \in Nat, NEW x \in Nat, NEW u \in Nat, NEW s \in Nat,
         NEW n \in Nat, n * s <= mach * m, mach * m <= (n + 1) * s,
         2 * (m * d) <= 2 * x + u, 2 * x - u <= 2 * (m * d)
  PROVE  /\ 2 * ((n - 1) * (d * s)) <= mach * (2 * x + u)
         /\ 2 * ((n + 1) * (d * s)) >= mach * (2 * x - u)
<1>1. PICK y \in Nat, z \in Nat, v \in Nat : y = mach * m /\ z = 2 * (m * d) /\ v = 2 * d
  OBVIOUS
<1>2. z * mach = y * v
  BY <1>1
<1>3. z * mach <= (2 * x + u) * mach
  BY <1>1, TimesMono
<1>4. (2 * x - u) * mach <= z * mach
  BY <1>1, TimesMono
<1>5. (n * s) * v <= y * v
  <2>1. n * s \in Int /\ y \in Int /\ n * s <= y
    BY <1>1
  <2> QED
    BY <2>1, TimesMono
<1>6. y * v <= ((n + 1) * s) * v
  <2>1. (n + 1) * s \in Int /\ y \in Int /\ y <= (n + 1) * s
    BY <1>1
  <2> QED
    BY <2>1, TimesMono
<1>7. ((n - 1) * s) * v <= (n * s) * v
  <2>1. (n - 1) * s \in Int /\ n * s \in Int /\ (n - 1) * s <= n * s
    BY TimesMono
  <2> QED
    BY <2>1, TimesMono
<1>8. ((n - 1) * s) * v = 2 * ((n - 1) * (d * s)) /\ ((n + 1) * s) * v = 2 * ((n + 1) * (d * s))
  BY <1>1
<1>9. 2 * ((n - 1) * (d * s)) <= (2 * x + u) * mach
  BY <1>2, <1>3, <1>5, <1>7, <1>8
<1>10. (2 * x - u) * mach <= 2 * ((n + 1) * (d * s))
  BY <1>2, <1>4, <1>6, <1>8
<1>11. (2 * x + u) * mach = mach * (2 * x + u) /\ (2 * x - u) * mach = mach * (2 * x - u)
  OBVIOUS
<1>12. 2 * ((n + 1) * (d * s)) \in Int /\ mach * (2 * x - u) \in Int
  OBVIOUS
<1> QED
  BY <1>9, <1>10, <1>11, <1>12

(* The shifted product fits in a word.                                     *)
LEMMA ProductFits ==
  ASSUME NEW mach \in Nat, NEW m \in Nat, NEW d \in Nat \ {0}, NEW h \in Nat, d <= h,
         NEW w \in Nat, NEW e \in Nat, NEW n \in Nat, NEW x \in Nat, x = n * (h * e),
         NEW u \in Nat, u <= e * d, 2 * (m * d) <= 2 * x + u,
         mach * n * e + mach * e < w * d
  PROVE  mach * m < w * h
<1>1. PICK y \in Nat, z \in Nat : y = mach * m /\ z = w * h
  OBVIOUS
<1>2. PICK a \in Nat, b \in Nat, c \in Nat : a = mach * n * e /\ b = mach * e /\ c = w * d
  OBVIOUS
<1>3. 2 * (m * d) * mach <= (2 * x + u) * mach
  <2>1. 2 * (m * d) \in Int /\ 2 * x + u \in Int
    OBVIOUS
  <2> QED
    BY <2>1, TimesMono
<1>4. 2 * (m * d) * mach = 2 * (y * d)
  BY <1>1
<1>5. (2 * x + u) * mach = 2 * (a * h) + u * mach
  <2>1. (2 * x + u) * mach = 2 * (x * mach) + u * mach
    OBVIOUS
  <2>2. x * mach = a * h
    BY <1>2
  <2> QED
    BY <2>1, <2>2
<1>6. u * mach <= b * h
  <2>1. u * mach <= (e * d) * mach
    BY TimesMono
  <2>2. (e * d) * mach = d * b
    BY <1>2
  <2>3. d * b <= h * b
    BY TimesMono
  <2> QED
    BY <2>1, <2>2, <2>3
<1>7. (a + b + 1) * h <= c * h
  <2>1. a + b + 1 \in Int /\ a + b + 1 <= c
    BY <1>2
  <2> QED
    BY <2>1, TimesMono
<1>8. (a + b + 1) * h = a * h + b * h + h /\ h > 0
  OBVIOUS
<1>9. c * h = z * d
  BY <1>1, <1>2
<1>10. b * h \in Nat /\ a * h \in Nat /\ y * d \in Nat /\ z * d \in Nat /\ u * mach \in Nat
  OBVIOUS
<1>11. 2 * (y * d) < 2 * (z * d)
  BY <1>3, <1>4, <1>5, <1>6, <1>7, <1>8, <1>9, <1>10
<1>12. SUFFICES ASSUME z <= y PROVE FALSE
  BY <1>1
<1>13. z * d <= y * d
  BY <1>12, TimesMono
<1> QED
  BY <1>10, <1>11, <1>13

(* The multiplier of setup_mach_mult: the fraction in NullScale parts, rounded, in a word. *)
LEMMA MultRounded ==
  ASSUME NEW numer \in 1 .. Clk!H - 1, NEW denom \in 1 .. Clk!H - 1,
         numer * 2 ^ Extra + denom < Clk!H * denom
  PROVE  LET m == Clk!MachMult(numer, denom)
             x == numer * Clk!NullScale
             u == (IF Clk!FitsShift(numer) THEN 1 ELSE 2 ^ Extra) * denom
         IN /\ m \in 0 .. Clk!Word - 1
            /\ 2 * (m * denom) <= 2 * x + u /\ 2 * x - u <= 2 * (m * denom)
<1>1. PICK h \in Nat \ {0}, w \in Nat \ {0} : h = Clk!H /\ w = Clk!Word /\ w = h * h
  BY WordFacts
<1>2. PICK e \in Nat \ {0}, s \in Nat, k \in Nat :
        /\ e = 2 ^ Extra /\ s = Clk!NullScale /\ k = 2 ^ (2 * Half - Clk!HighShift)
        /\ e <= h /\ s = h * e /\ k * s = w
  BY <1>1, WordAssumption
<1>3. numer \in Nat \ {0} /\ denom \in Nat \ {0} /\ numer < h /\ denom < h
  BY <1>1
<1>4. PICK c \in Nat : c = denom \div 2
  BY <1>3
<1>5. 2 * c <= denom
  BY <1>3, <1>4
<1>6. CASE Clk!FitsShift(numer)
  <2>1. numer + 1 <= k
    BY <1>2, <1>3, <1>6 DEF Clk!FitsShift
  <2>2. PICK x \in Nat : x = numer * s /\ x + s <= w
    <3>1. (numer + 1) * s <= k * s
      BY <1>3, <2>1, TimesMono
    <3>2. (numer + 1) * s = numer * s + s /\ numer * s \in Nat
      BY <1>3
    <3> QED
      BY <1>2, <3>1, <3>2
  <2>3. h <= s
    <3>1. 1 * h <= e * h
      BY <1>2, TimesMono
    <3> QED
      BY <1>2, <3>1
  <2>4. x % w = x
    <3>1. x \in 0 .. w - 1
      BY <2>2, <2>3
    <3> QED
      BY <3>1, SmallMod
  <2>5. PICK y \in Nat : y = x + c
    OBVIOUS
  <2>6. PICK q \in Nat, r \in 0 .. denom - 1 : y \div denom = q /\ y % denom = r /\ y = q * denom + r
    BY <1>3, DivModNat
  <2>7. Clk!MachMult(numer, denom) = q
    BY <1>1, <1>2, <1>4, <1>6, <2>2, <2>4, <2>5, <2>6, Zenon DEF Clk!MachMult
  <2>8. 2 * (q * denom) <= 2 * x + denom /\ 2 * x - denom <= 2 * (q * denom) /\ q <= x + c
    BY <1>3, <1>4, <2>5, <2>6, Rounded
  <2>9. q \in 0 .. w - 1
    BY <1>3, <1>5, <2>2, <2>3, <2>8
  <2>10. 1 * denom = denom
    BY <1>3
  <2> QED
    BY <1>1, <1>2, <1>6, <2>2, <2>7, <2>8, <2>9, <2>10, Zenon
<1>7. CASE ~Clk!FitsShift(numer)
  <2>1. PICK v \in Nat : v = numer * h /\ v < w
    <3>1. (numer + 1) * h <= h * h
      BY <1>3, TimesMono
    <3>2. (numer + 1) * h = numer * h + h /\ numer * h \in Nat
      BY <1>3
    <3> QED
      BY <1>1, <3>1, <3>2
  <2>2. v % w = v
    BY <2>1, SmallMod
  <2>3. PICK y \in Nat : y = v + c
    OBVIOUS
  <2>4. PICK q \in Nat, r \in 0 .. denom - 1 : y \div denom = q /\ y % denom = r /\ y = q * denom + r
    BY <1>3, DivModNat
  <2>5. 2 * (q * denom) <= 2 * v + denom /\ 2 * v - denom <= 2 * (q * denom)
    BY <1>3, <1>4, <2>3, <2>4, Rounded
  <2>6. PICK m \in Nat : m = q * e
    BY TimesNat
  <2>7. PICK x \in Nat : x = numer * s /\ x = v * e
    BY <1>2, <1>3, <2>1
  <2>8. PICK z \in Nat : z = q * denom
    BY <1>3, TimesNat
  <2>9. m * denom = z * e
    BY <1>3, <2>6, <2>8
  <2>10. 2 * (m * denom) <= 2 * x + e * denom /\ 2 * x - e * denom <= 2 * (m * denom)
    <3>1. (2 * z) * e <= (2 * v + denom) * e /\ (2 * v - denom) * e <= (2 * z) * e
      <4>1. 2 * z \in Int /\ 2 * v + denom \in Int /\ 2 * v - denom \in Int
        BY <1>3
      <4> QED
        BY <2>5, <2>8, <4>1, TimesMono
    <3>2. /\ (2 * z) * e = 2 * (z * e)
          /\ (2 * v + denom) * e = 2 * (v * e) + e * denom /\ (2 * v - denom) * e = 2 * (v * e) - e * denom
      BY <1>3
    <3> QED
      BY <2>7, <2>9, <3>1, <3>2
  <2>11. m < w
    <3>1. PICK f \in Nat, g \in Nat, j \in Nat :
            f = numer * e /\ g = h * denom /\ j = e * denom /\ f + denom < g
      <4>1. numer * e + denom < h * denom
        BY <1>1, <1>2, Zenon
      <4>2. numer * e \in Nat /\ h * denom \in Nat /\ e * denom \in Nat
        BY <1>3, TimesNat
      <4> QED
        BY <4>1, <4>2
    <3>2. j <= g
      <4>1. e * denom <= h * denom
        BY <1>2, <1>3, TimesMono
      <4> QED
        BY <3>1, <4>1
    <3>3. x = f * h
      BY <1>3, <2>1, <2>7, <3>1
    <3>4. (f + denom + 1) * h <= g * h
      BY <1>3, <3>1, TimesMono
    <3>5. (f + denom + 1) * h = f * h + g + h /\ g * h = w * denom
      BY <1>1, <1>3, <3>1
    <3>6. PICK o \in Nat, t \in Nat, fh \in Nat : o = m * denom /\ t = w * denom /\ fh = f * h
      BY <1>3, TimesNat
    <3>7. o < t
      BY <1>1, <2>10, <3>1, <3>2, <3>3, <3>4, <3>5, <3>6
    <3>8. SUFFICES ASSUME w <= m PROVE FALSE
      OBVIOUS
    <3>9. w * denom <= m * denom
      BY <1>3, <3>8, TimesMono
    <3> QED
      BY <3>6, <3>7, <3>9
  <2>12. m % w = m
    BY <2>11, SmallMod
  <2>13. Clk!MachMult(numer, denom) = m
    BY <1>1, <1>2, <1>4, <1>7, <2>1, <2>2, <2>3, <2>4, <2>6, <2>12, Zenon DEF Clk!MachMult
  <2>14. m \in 0 .. w - 1
    BY <2>11
  <2> QED
    BY <1>1, <1>2, <1>7, <2>7, <2>10, <2>13, <2>14, Zenon
<1> QED
  BY <1>6, <1>7, Zenon

(* mach2nanos with that multiplier.                                        *)
LEMMA ScaleIsAccurate ==
  ASSUME NEW mach \in 0 .. Clk!Word - 1, NEW numer \in 1 .. Clk!H - 1, NEW denom \in 1 .. Clk!H - 1
  PROVE  Clk!ScaleAccurate(mach, numer, denom,
                           Clk!Mach2Nanos(mach, Clk!MachMult(numer, denom)))
<1>1. PICK h \in Nat \ {0}, w \in Nat \ {0} : h = Clk!H /\ w = Clk!Word /\ w = h * h
  BY WordFacts
<1>2. PICK e \in Nat \ {0}, s \in Nat : e = 2 ^ Extra /\ s = Clk!NullScale /\ s = h * e
  BY <1>1, WordAssumption
<1>3. PICK unit \in {1, e} : unit = IF Clk!FitsShift(numer) THEN 1 ELSE e
  OBVIOUS
<1>4. numer \in Nat /\ denom \in Nat \ {0} /\ denom <= h /\ mach \in Nat
  BY <1>1
<1>5. PICK nanos : nanos = Clk!Mach2Nanos(mach, Clk!MachMult(numer, denom))
  OBVIOUS
<1>6. SUFFICES ASSUME mach * numer * e + mach * e < w * denom, numer * e + denom < h * denom
               PROVE  /\ (nanos - 1) * denom * s * 2 <= mach * (2 * numer * s + unit * denom)
                      /\ (nanos + 1) * denom * s * 2 >= mach * (2 * numer * s - unit * denom)
  BY <1>1, <1>2, <1>3, <1>5, Zenon DEF Clk!ScaleAccurate
<1>7. PICK x \in Nat, u \in Nat : x = numer * s /\ u = unit * denom /\ u <= e * denom
  <2>1. unit \in Nat /\ unit <= e
    BY <1>3
  <2>2. unit * denom <= e * denom
    BY <1>4, <2>1, TimesMono
  <2>3. unit * denom \in Nat /\ numer * s \in Nat
    BY <1>4, <2>1, TimesNat
  <2> QED
    BY <2>2, <2>3
<1>8. PICK m \in 0 .. w - 1 : /\ m = Clk!MachMult(numer, denom)
                              /\ 2 * (m * denom) <= 2 * x + u /\ 2 * x - u <= 2 * (m * denom)
  <2>1. numer * 2 ^ Extra + denom < Clk!H * denom
    BY <1>1, <1>2, <1>6, Zenon
  <2>2. LET m == Clk!MachMult(numer, denom)
            v == numer * Clk!NullScale
            t == (IF Clk!FitsShift(numer) THEN 1 ELSE 2 ^ Extra) * denom
        IN /\ m \in 0 .. Clk!Word - 1
           /\ 2 * (m * denom) <= 2 * v + t /\ 2 * v - t <= 2 * (m * denom)
    BY <2>1, MultRounded
  <2> QED
    BY <1>1, <1>2, <1>3, <1>7, <2>2, Zenon
<1>9. nanos \in Nat /\ nanos * s <= mach * m /\ mach * m <= (nanos + 1) * s
  <2>1. CASE m = s
    <3>1. nanos = mach
      BY <1>2, <1>5, <1>8, <2>1, Zenon DEF Clk!Mach2Nanos
    <3>2. (mach + 1) * s = mach * s + s
      BY <1>4
    <3> QED
      BY <1>4, <2>1, <3>1, <3>2
  <2>2. CASE m # s
    <3>1. PICK y \in Nat : y = mach * m /\ y < w * h
      <4>1. m \in Nat
        OBVIOUS
      <4>2. x = numer * (h * e)
        BY <1>2, <1>7
      <4>3. mach * m < w * h
        BY <1>4, <1>6, <1>7, <1>8, <4>1, <4>2, ProductFits
      <4> QED
        BY <1>4, <4>1, <4>3
    <3>2. PICK p \in Nat, r \in 0 .. h - 1 : y \div h = p /\ y % h = r /\ y = p * h + r
      BY DivModNat
    <3>3. p < w
      BY <3>1, <3>2, DivBelow
    <3>4. p % w = p
      BY <3>3, SmallMod
    <3>5. Clk!MiddleProduct(mach, m) = p
      BY <1>1, <3>1, <3>2, <3>4, MiddleProductExact, Zenon DEF Clk!MiddleExact
    <3>6. PICK n \in Nat, t \in 0 .. e - 1 : p \div e = n /\ p % e = t /\ p = n * e + t
      BY DivModNat
    <3>7. nanos = n
      BY <1>2, <1>5, <1>8, <2>2, <3>5, <3>6, Zenon DEF Clk!Mach2Nanos
    <3>8. n * s <= y /\ y < (n + 1) * s
      <4>1. y \in Nat /\ h \in Nat /\ e \in Nat /\ s = h * e
        BY <1>2
      <4>2. y = p * h + r /\ p = n * e + t
        BY <3>2, <3>6
      <4> QED
        BY <4>1, <4>2, Truncated, Zenon
    <3>9. (n + 1) * s \in Int
      OBVIOUS
    <3> QED
      BY <3>1, <3>7, <3>8, <3>9
  <2> QED
    BY <2>1, <2>2
<1>10. /\ 2 * ((nanos - 1) * (denom * s)) <= mach * (2 * x + u)
       /\ 2 * ((nanos + 1) * (denom * s)) >= mach * (2 * x - u)
  <2>1. m \in Nat
    OBVIOUS
  <2> QED
    BY <1>4, <1>8, <1>9, <2>1, Accurate
<1>11. /\ (nanos - 1) * denom * s * 2 = 2 * ((nanos - 1) * (denom * s))
       /\ (nanos + 1) * denom * s * 2 = 2 * ((nanos + 1) * (denom * s))
  BY <1>4, <1>9
<1>12. 2 * numer * s = 2 * x
  BY <1>4, <1>7
<1> QED
  BY <1>7, <1>10, <1>11, <1>12, Zenon

-----------------------------------------------------------------------------
(* The values that are not rejected, by what they stand for: as many for   *)
(* every number below the bound.                                           *)
LEMMA EquallyOften ==
  ASSUME NEW u \in Nat \ {0}, NEW lo \in 0 .. u - 1, NEW k \in Nat, NEW w \in Nat, w = k * u + lo,
         NEW x \in 0 .. u - 1
  PROVE  Cardinality({r \in lo .. w - 1 : r % u = x}) = k
<1> DEFINE S == {r \in lo .. w - 1 : r % u = x}
           b == IF x < lo THEN 1 ELSE 0
           f == [j \in 0 .. k - 1 |-> (j + b) * u + x]
<1>1. b \in {0, 1}
  OBVIOUS
<1>2. \A j \in 0 .. k - 1 : f[j] = (j + b) * u + x
  OBVIOUS
<1>3. ASSUME NEW j \in 0 .. k - 1 PROVE (j + b) * u + x \in S
  <2>1. PICK q \in Nat : q = j + b
    BY <1>1
  <2>2. PICK r \in Nat : r = q * u + x
    OBVIOUS
  <2>3. r % u = x
    <3>1. q \in Int /\ r \in Int
      OBVIOUS
    <3> QED
      BY <2>2, <3>1, DivUnique
  <2>4. lo <= r
    <3>1. CASE x < lo
      <4>1. 1 * u <= q * u
        BY <2>1, <3>1, TimesMono
      <4> QED
        BY <2>2, <4>1
    <3>2. CASE ~(x < lo)
      <4>1. 0 * u <= q * u
        BY TimesMono
      <4> QED
        BY <2>2, <3>2, <4>1
    <3> QED
      BY <3>1, <3>2
  <2>5. r < w
    <3>1. CASE x < lo
      <4>1. q * u <= k * u
        BY <2>1, <3>1, TimesMono
      <4> QED
        BY <2>2, <3>1, <4>1
    <3>2. CASE ~(x < lo)
      <4>1. (q + 1) * u <= k * u /\ (q + 1) * u = q * u + u
        BY <2>1, <3>2, TimesMono
      <4> QED
        BY <2>2, <3>2, <4>1
    <3> QED
      BY <3>1, <3>2
  <2>6. r \in S
    BY <2>3, <2>4, <2>5
  <2> QED
    BY <2>1, <2>2, <2>6, Zenon
<1>4. ASSUME NEW r \in S PROVE \E j \in 0 .. k - 1 : (j + b) * u + x = r
  <2>1. r \in Nat /\ lo <= r /\ r < w /\ r % u = x
    OBVIOUS
  <2>2. PICK q \in Nat, t \in 0 .. u - 1 : r \div u = q /\ r % u = t /\ r = q * u + t
    BY <2>1, DivModNat
  <2>3. r = q * u + x
    BY <2>1, <2>2
  <2>4. b <= q
    <3>1. SUFFICES ASSUME x < lo, q = 0 PROVE FALSE
      OBVIOUS
    <3> QED
      BY <2>1, <2>3, <3>1
  <2>5. q - b < k
    <3>1. CASE x < lo
      <4>1. SUFFICES ASSUME k + 1 <= q PROVE FALSE
        BY <3>1
      <4>2. (k + 1) * u <= q * u /\ (k + 1) * u = k * u + u
        BY <4>1, TimesMono
      <4> QED
        BY <2>1, <2>3, <4>2
    <3>2. CASE ~(x < lo)
      <4>1. SUFFICES ASSUME k <= q PROVE FALSE
        BY <3>2
      <4>2. k * u <= q * u
        BY <4>1, TimesMono
      <4> QED
        BY <2>1, <2>3, <3>2, <4>2
    <3> QED
      BY <3>1, <3>2
  <2>6. q - b \in 0 .. k - 1 /\ q - b + b = q
    BY <1>1, <2>4, <2>5
  <2> QED
    BY <2>3, <2>6
<1>5. ASSUME NEW i \in 0 .. k - 1, NEW j \in 0 .. k - 1, (i + b) * u + x = (j + b) * u + x PROVE i = j
  <2>1. PICK p \in Int, q \in Int : p = i + b /\ q = j + b
    BY <1>1
  <2>2. PICK v \in Int : v = p * u + x
    OBVIOUS
  <2>3. v = q * u + x
    BY <1>5, <2>1, <2>2, Zenon
  <2>4. v \div u = p /\ v \div u = q
    BY <2>2, <2>3, DivUnique
  <2> QED
    BY <1>1, <2>1, <2>4
<1>6. ExistsBijection(0 .. k - 1, S)
  <2> HIDE DEF S, b
  <2>1. f \in [0 .. k - 1 -> S]
    BY <1>3
  <2>2. f \in Injection(0 .. k - 1, S)
    <3>1. ASSUME NEW i \in 0 .. k - 1, NEW j \in 0 .. k - 1, f[i] = f[j] PROVE i = j
      BY <1>2, <1>5, <3>1
    <3> HIDE DEF f
    <3> QED
      BY <2>1, <3>1, Zenon DEF Injection, IsInjective
  <2>3. f \in Surjection(0 .. k - 1, S)
    BY <1>2, <1>4, <2>1 DEF Surjection
  <2> QED
    BY <2>2, <2>3 DEF ExistsBijection, Bijection
<1>7. IsFiniteSet(0 .. k - 1) /\ Cardinality(0 .. k - 1) = k
  <2>1. 0 \in Int /\ k - 1 \in Int
    OBVIOUS
  <2>2. IsFiniteSet(0 .. k - 1) /\ Cardinality(0 .. k - 1) = IF 0 > k - 1 THEN 0 ELSE k - 1 - 0 + 1
    BY <2>1, FS_Interval
  <2> QED
    BY <2>2
<1> QED
  <2> HIDE DEF S
  <2>1. Cardinality(S) = k
    BY <1>6, <1>7, FS_Bijection
  <2> QED
    BY <2>1 DEF S

(* The instance's Cardinality is the one of this module.                   *)
LEMMA SameCardinality ==
  ASSUME NEW S
  PROVE  Uni!Cardinality(S) = Cardinality(S)
BY Zenon DEF Uni!Cardinality, Cardinality

(* arc4random_uniform is fair for every bound.                             *)
LEMMA UniformIsUnbiased ==
  ASSUME NEW upper \in 0 .. UWord - 1
  PROVE  Uni!Unbiased(upper, Uni!RandomUniform(upper))
<1>1. PICK w \in Nat \ {0} : w = UWord
  BY UWordAssumption
<1>2. PICK of : of = Uni!RandomUniform(upper)
  OBVIOUS
<1>3. CASE upper < 2
  <2>1. of = [r \in 0 .. w - 1 |-> 0]
    BY <1>1, <1>2, <1>3 DEF Uni!RandomUniform
  <2>2. DOMAIN of = 0 .. w - 1 /\ \A r \in 0 .. w - 1 : of[r] = 0
    BY <2>1
  <2>3. PICK numbers : numbers = 0 .. (IF upper = 0 THEN 0 ELSE upper - 1)
    OBVIOUS
  <2>4. numbers = {0}
    BY <1>3, <2>3
  <2>5. Cardinality(0 .. w - 1) = w
    <3>1. 0 \in Int /\ w - 1 \in Int /\ ~(0 > w - 1)
      OBVIOUS
    <3>2. Cardinality(0 .. w - 1) = IF 0 > w - 1 THEN 0 ELSE w - 1 - 0 + 1
      BY <3>1, FS_Interval
    <3> QED
      BY <3>2
  <2>6. \A x, y \in numbers :
          Cardinality({r \in DOMAIN of : of[r] = x}) = Cardinality({r \in DOMAIN of : of[r] = y})
    BY <2>4, Zenon
  <2>7. \A r \in DOMAIN of : of[r] \in numbers
    BY <2>2, <2>4
  <2>8. 2 * Cardinality(DOMAIN of) > w
    BY <2>2, <2>5
  <2> QED
    <3>1. \A x, y \in 0 .. (IF upper = 0 THEN 0 ELSE upper - 1) :
            Cardinality({r \in DOMAIN of : of[r] = x}) = Cardinality({r \in DOMAIN of : of[r] = y})
      BY <2>3, <2>6, Zenon
    <3>2. \A r \in DOMAIN of : of[r] \in 0 .. (IF upper = 0 THEN 0 ELSE upper - 1)
      BY <2>3, <2>7, Zenon
    <3>3. 2 * Cardinality(DOMAIN of) > UWord
      BY <1>1, <2>8, Zenon
    <3>4. Uni!Unbiased(upper, of)
      BY <3>1, <3>2, <3>3, SameCardinality, Zenon DEF Uni!Unbiased
    <3> QED
      BY <1>2, <3>4, Zenon
<1>4. CASE ~(upper < 2)
  <2>1. PICK u \in Nat \ {0} : u = upper /\ u < w /\ u >= 2
    BY <1>1, <1>4
  <2>2. PICK a \in Nat : a = w - u
    BY <2>1
  <2>3. PICK q \in Nat, lo \in 0 .. u - 1 : a \div u = q /\ a % u = lo /\ a = q * u + lo
    BY DivModNat
  <2>4. Uni!LowestTaken(upper) = lo
    BY <1>1, <2>1, <2>2, <2>3, Zenon DEF Uni!LowestTaken
  <2>5. PICK k \in Nat : k = q + 1
    OBVIOUS
  <2>6. w = k * u + lo
    <3>1. (q + 1) * u = q * u + u
      OBVIOUS
    <3> QED
      BY <2>2, <2>3, <2>5, <3>1
  <2>7. of = [r \in lo .. w - 1 |-> r % u]
    BY <1>1, <1>2, <1>4, <2>1, <2>4, Zenon DEF Uni!RandomUniform
  <2>8. DOMAIN of = lo .. w - 1 /\ \A r \in lo .. w - 1 : of[r] = r % u
    BY <2>7
  <2>9. PICK numbers : numbers = 0 .. (IF upper = 0 THEN 0 ELSE upper - 1)
    OBVIOUS
  <2>10. numbers = 0 .. u - 1
    BY <2>1, <2>9
  <2>11. ASSUME NEW x \in numbers PROVE Cardinality({r \in DOMAIN of : of[r] = x}) = k
    <3>1. {r \in DOMAIN of : of[r] = x} = {r \in lo .. w - 1 : r % u = x}
      BY <2>8
    <3>2. Cardinality({r \in lo .. w - 1 : r % u = x}) = k
      BY <2>6, <2>10, EquallyOften
    <3> QED
      BY <3>1, <3>2
  <2>12. \A x, y \in numbers :
          Cardinality({r \in DOMAIN of : of[r] = x}) = Cardinality({r \in DOMAIN of : of[r] = y})
    BY <2>11, Zenon
  <2>13. \A r \in DOMAIN of : of[r] \in numbers
    <3>1. ASSUME NEW r \in lo .. w - 1 PROVE r % u \in 0 .. u - 1
      <4>1. r \in Int
        OBVIOUS
      <4> QED
        BY <4>1, DivMod
    <3> QED
      BY <2>8, <2>10, <3>1
  <2>14. 2 * lo < w
    <3>1. CASE q = 0
      <4>1. w = u + lo
        BY <2>2, <2>3, <3>1
      <4> QED
        BY <4>1
    <3>2. CASE q >= 1
      <4>1. 1 * u <= q * u
        BY <3>2, TimesMono
      <4> QED
        BY <2>2, <2>3, <4>1
    <3> QED
      BY <3>1, <3>2
  <2>15. Cardinality(lo .. w - 1) = w - lo
    <3>1. lo \in Int /\ w - 1 \in Int /\ ~(lo > w - 1)
      BY <2>14
    <3>2. Cardinality(lo .. w - 1) = IF lo > w - 1 THEN 0 ELSE w - 1 - lo + 1
      BY <3>1, FS_Interval
    <3> QED
      BY <3>1, <3>2
  <2>16. 2 * Cardinality(DOMAIN of) > w
    BY <2>8, <2>14, <2>15
  <2> QED
    <3>1. \A x, y \in 0 .. (IF upper = 0 THEN 0 ELSE upper - 1) :
            Cardinality({r \in DOMAIN of : of[r] = x}) = Cardinality({r \in DOMAIN of : of[r] = y})
      BY <2>9, <2>12, Zenon
    <3>2. \A r \in DOMAIN of : of[r] \in 0 .. (IF upper = 0 THEN 0 ELSE upper - 1)
      BY <2>9, <2>13, Zenon
    <3>3. 2 * Cardinality(DOMAIN of) > UWord
      BY <1>1, <2>16, Zenon
    <3>4. Uni!Unbiased(upper, of)
      BY <3>1, <3>2, <3>3, SameCardinality, Zenon DEF Uni!Unbiased
    <3> QED
      BY <1>2, <3>4, Zenon
<1> QED
  BY <1>3, <1>4

-----------------------------------------------------------------------------
(* The first of the pages from one on that are there.                      *)
LEMMA RegionIs ==
  ASSUME NEW mem \in Memories, NEW page \in Nat
  PROVE  LET q == Sta!Region(mem, page)
         IN \/ q = Sta!NoAdr /\ \A p \in 0 .. 4 : p >= page => mem[p] = "none"
            \/ /\ q \in 0 .. 4 /\ q >= page /\ mem[q] # "none"
               /\ \A p \in 0 .. 4 : p >= page /\ p < q => mem[p] = "none"
<1> DEFINE v == {p \in DOMAIN mem : p >= page /\ mem[p] # "none"}
<1>1. DOMAIN mem = 0 .. 4
  BY DEF Memories
<1>2. CASE v = {}
  BY <1>1, <1>2 DEF Sta!Region
<1>3. CASE v # {}
  <2>1. v \subseteq 0 .. 4
    BY <1>1
  <2>2. \E x \in v : \A y \in v : x =< y
    <3>1. 0 \in v \/ 1 \in v \/ 2 \in v \/ 3 \in v \/ 4 \in v
      BY <1>3, <2>1
    <3>2. \A y \in v : y = 0 \/ y = 1 \/ y = 2 \/ y = 3 \/ y = 4
      BY <2>1
    <3> HIDE DEF v
    <3> QED
      BY <3>1, <3>2
  <2>3. Sta!Region(mem, page) = CHOOSE x \in v : \A y \in v : x =< y
    BY <1>3 DEF Sta!Region, Sta!Min
  <2>4. PICK q : q = Sta!Region(mem, page) /\ q \in v /\ \A y \in v : q =< y
    BY <2>2, <2>3
  <2> QED
    BY <1>1, <2>4
<1> QED
  BY <1>2, <1>3

(* What the walk over the regions computes, one step of it.                *)
Walk(mem, end, f) ==
  [p \in 0 .. 6 |->
     \/ end <= p * VmPage
     \/ LET q == Sta!Region(mem, p)
        IN q # Sta!NoAdr /\ q * VmPage < end /\ mem[q] = "rw" /\ f[q + 1]]

LEMMA WalkAgrees ==
  ASSUME NEW mem \in Memories, NEW end, NEW f, NEW g, NEW k \in 0 .. 5,
         \A p \in 0 .. 5 : p >= k + 1 => f[p] = g[p]
  PROVE  \A p \in 0 .. 6 : p >= k => Walk(mem, end, f)[p] = Walk(mem, end, g)[p]
<1> SUFFICES ASSUME NEW p \in 0 .. 6, p >= k
             PROVE  Walk(mem, end, f)[p] = Walk(mem, end, g)[p]
  OBVIOUS
<1>1. PICK q : q = Sta!Region(mem, p)
  OBVIOUS
<1>2. q = Sta!NoAdr \/ (q \in 0 .. 4 /\ q >= p)
  BY <1>1, RegionIs
<1>3. q # Sta!NoAdr => f[q + 1] = g[q + 1]
  BY <1>2
<1> QED
  BY <1>1, <1>3 DEF Walk

(* The walk ends: it only goes on to later regions.                        *)
LEMMA WalkExists ==
  ASSUME NEW mem \in Memories, NEW end
  PROVE  \E f : f = Walk(mem, end, f)
<1> DEFINE f0 == [p \in 0 .. 6 |-> TRUE]
           f1 == Walk(mem, end, f0)
           f2 == Walk(mem, end, f1)
           f3 == Walk(mem, end, f2)
           f4 == Walk(mem, end, f3)
           f5 == Walk(mem, end, f4)
           f6 == Walk(mem, end, f5)
           f7 == Walk(mem, end, f6)
<1>1. \A p \in 0 .. 6 : p >= 5 => f1[p] = f2[p]
  BY WalkAgrees
<1>2. \A p \in 0 .. 6 : p >= 4 => f2[p] = f3[p]
  <2> HIDE DEF f1
  <2> QED
    BY <1>1, WalkAgrees
<1>3. \A p \in 0 .. 6 : p >= 3 => f3[p] = f4[p]
  <2> HIDE DEF f2
  <2> QED
    BY <1>2, WalkAgrees
<1>4. \A p \in 0 .. 6 : p >= 2 => f4[p] = f5[p]
  <2> HIDE DEF f3
  <2> QED
    BY <1>3, WalkAgrees
<1>5. \A p \in 0 .. 6 : p >= 1 => f5[p] = f6[p]
  <2> HIDE DEF f4
  <2> QED
    BY <1>4, WalkAgrees
<1>6. \A p \in 0 .. 6 : p >= 0 => f6[p] = f7[p]
  <2> HIDE DEF f5
  <2> QED
    BY <1>5, WalkAgrees
<1>7. f6 = f7
  <2>1. f6 = [p \in 0 .. 6 |-> f6[p]]
    BY DEF Walk
  <2>2. f7 = [p \in 0 .. 6 |-> f7[p]]
    BY DEF Walk
  <2> HIDE DEF f6, f7
  <2> QED
    BY <1>6, <2>1, <2>2
<1> QED
  BY <1>7, Zenon

LEMMA CoveredIs ==
  ASSUME NEW mem \in Memories, NEW end \in Int
  PROVE  \E f : f = Walk(mem, end, f) /\ \A page \in 0 .. 6 : Sta!Covered(mem, page, end) = f[page]
<1> DEFINE w == CHOOSE f : f = Walk(mem, end, f)
<1>1. w = Walk(mem, end, w)
  BY WalkExists, Zenon
<1>2. 0 .. Sta!Max(DOMAIN mem) + 2 = 0 .. 6
  <2>1. DOMAIN mem = 0 .. 4
    BY DEF Memories
  <2>2. Sta!Max(0 .. 4) = CHOOSE x \in 0 .. 4 : \A y \in 0 .. 4 : x >= y
    BY DEF Sta!Max
  <2>3. \E x \in 0 .. 4 : \A y \in 0 .. 4 : x >= y
    <3>1. 4 \in 0 .. 4 /\ \A y \in 0 .. 4 : 4 >= y
      OBVIOUS
    <3> QED
      BY <3>1
  <2>4. Sta!Max(0 .. 4) = 4
    BY <2>2, <2>3
  <2> QED
    BY <2>1, <2>4
<1>3. ASSUME NEW page PROVE Sta!Covered(mem, page, end) = w[page]
  BY <1>2 DEF Sta!Covered, Walk
<1> QED
  BY <1>1, <1>3

(* The page of an address.                                                 *)
LEMMA PageIs ==
  ASSUME NEW a \in Int
  PROVE  /\ Sta!PageOf(a) \in Int
         /\ Sta!PageOf(a) * VmPage <= a /\ a < Sta!PageOf(a) * VmPage + VmPage
<1>1. VmPage \in Nat \ {0}
  BY PageAssumption
<1>2. a \div VmPage \in Int /\ a % VmPage \in 0 .. VmPage - 1
      /\ a = (a \div VmPage) * VmPage + (a % VmPage)
  BY <1>1, DivMod
<1> QED
  BY <1>1, <1>2 DEF Sta!PageOf

LEMMA PageUnique ==
  ASSUME NEW a \in Int, NEW k \in Int, k * VmPage <= a, a < k * VmPage + VmPage
  PROVE  Sta!PageOf(a) = k
<1>1. VmPage \in Nat \ {0}
  BY PageAssumption
<1>2. PICK r \in Int : r = a - k * VmPage
  BY <1>1
<1>3. r \in 0 .. VmPage - 1 /\ a = k * VmPage + r
  BY <1>1, <1>2
<1> QED
  BY <1>1, <1>3, DivUnique DEF Sta!PageOf

(* The pages of a range that is no longer than one.                        *)
LEMMA PagesOfRange ==
  ASSUME NEW start \in Int, NEW size \in 1 .. VmPage, NEW s, s = Sta!PageOf(start)
  PROVE  /\ s \in Int /\ start + size < (s + 2) * VmPage
         /\ \A a \in start .. start + size - 1 :
              Sta!PageOf(a) = IF a < (s + 1) * VmPage THEN s ELSE s + 1
<1>1. VmPage \in Nat \ {0}
  BY PageAssumption
<1>2. s \in Int /\ s * VmPage <= start /\ start < s * VmPage + VmPage
  BY PageIs
<1>3. (s + 1) * VmPage = s * VmPage + VmPage /\ (s + 2) * VmPage = s * VmPage + 2 * VmPage
  BY <1>1, <1>2
<1>4. s * VmPage \in Int
  BY <1>1, <1>2
<1>5. start + size < (s + 2) * VmPage
  BY <1>1, <1>2, <1>3, <1>4
<1>6. ASSUME NEW a \in start .. start + size - 1
      PROVE  Sta!PageOf(a) = IF a < (s + 1) * VmPage THEN s ELSE s + 1
  <2>1. CASE a < (s + 1) * VmPage
    <3>1. a \in Int /\ s * VmPage <= a /\ a < s * VmPage + VmPage
      BY <1>2, <1>3, <1>4, <2>1
    <3> QED
      BY <1>2, <2>1, <3>1, PageUnique
  <2>2. CASE ~(a < (s + 1) * VmPage)
    <3>1. a \in Int /\ s + 1 \in Int /\ (s + 1) * VmPage <= a /\ a < (s + 1) * VmPage + VmPage
      BY <1>1, <1>2, <1>3, <1>4, <1>5, <2>2
    <3> QED
      BY <2>2, <3>1, PageUnique
  <2> QED
    BY <2>1, <2>2
<1> QED
  BY <1>2, <1>5, <1>6

(* Such a range is writable if the pages of its ends are.                  *)
LEMMA WritableIs ==
  ASSUME NEW mem \in Memories, NEW start \in Int, NEW size \in 1 .. VmPage, NEW s, s = Sta!PageOf(start)
  PROVE  Sta!Writable(mem, start, size) <=>
           /\ s \in 0 .. 4 /\ mem[s] = "rw"
           /\ \/ start + size <= (s + 1) * VmPage
              \/ s + 1 \in 0 .. 4 /\ mem[s + 1] = "rw"
<1>1. DOMAIN mem = 0 .. 4
  BY DEF Memories
<1>2. VmPage \in Nat \ {0} /\ s \in Int /\ s * VmPage <= start /\ start < s * VmPage + VmPage
  BY PageIs, PageAssumption
<1>3. (s + 1) * VmPage = s * VmPage + VmPage /\ (s + 1) * VmPage \in Int /\ s * VmPage \in Int
  BY <1>2
<1>4. PICK e \in Int : e = (s + 1) * VmPage
  BY <1>3
<1>5. start < e
  BY <1>2, <1>3, <1>4
<1>6. \A a \in start .. start + size - 1 : Sta!PageOf(a) = IF a < e THEN s ELSE s + 1
  <2>1. \A a \in start .. start + size - 1 :
          Sta!PageOf(a) = IF a < (s + 1) * VmPage THEN s ELSE s + 1
    BY PagesOfRange, Zenon
  <2> QED
    BY <1>4, <2>1, Zenon
<1>7. start \in start .. start + size - 1
  BY <1>2
<1>8. ~(start + size <= e) => e \in start .. start + size - 1
  BY <1>2, <1>5
<1>9. Sta!Writable(mem, start, size) <=>
        \A a \in start .. start + size - 1 : Sta!PageOf(a) \in 0 .. 4 /\ mem[Sta!PageOf(a)] = "rw"
  BY <1>1 DEF Sta!Writable
<1>10. ASSUME Sta!Writable(mem, start, size)
       PROVE  /\ s \in 0 .. 4 /\ mem[s] = "rw"
              /\ start + size <= e \/ (s + 1 \in 0 .. 4 /\ mem[s + 1] = "rw")
  <2>1. s \in 0 .. 4 /\ mem[s] = "rw"
    BY <1>5, <1>6, <1>7, <1>9, <1>10
  <2>2. CASE ~(start + size <= e)
    <3>1. Sta!PageOf(e) = s + 1
      BY <1>6, <1>8, <2>2
    <3> QED
      BY <1>8, <1>9, <1>10, <2>1, <2>2, <3>1
  <2> QED
    BY <2>1, <2>2
<1>11. ASSUME s \in 0 .. 4, mem[s] = "rw",
              start + size <= e \/ (s + 1 \in 0 .. 4 /\ mem[s + 1] = "rw"),
              NEW a \in start .. start + size - 1
       PROVE  Sta!PageOf(a) \in 0 .. 4 /\ mem[Sta!PageOf(a)] = "rw"
  <2>1. Sta!PageOf(a) = s \/ (Sta!PageOf(a) = s + 1 /\ ~(a < e))
    BY <1>6
  <2>2. ~(a < e) => ~(start + size <= e)
    BY <1>2
  <2> QED
    BY <1>11, <2>1, <2>2
<1> QED
  BY <1>4, <1>9, <1>10, <1>11

(* For one byte.                                                           *)
LEMMA ByteIsWritable ==
  ASSUME NEW mem \in Memories, NEW a \in Int
  PROVE  Sta!Writable(mem, a, 1) <=> Sta!PageOf(a) \in 0 .. 4 /\ mem[Sta!PageOf(a)] = "rw"
<1>1. DOMAIN mem = 0 .. 4 /\ a .. a + 1 - 1 = {a}
  BY DEF Memories
<1> QED
  BY <1>1 DEF Sta!Writable

(* The walk over the regions that follow the first one looks at no more than the next page.  *)
LEMMA NextPageCovered ==
  ASSUME NEW mem \in Memories, NEW start \in Int, NEW size \in 1 .. VmPage,
         NEW s \in 0 .. 4, s = Sta!PageOf(start)
  PROVE  Sta!Covered(mem, s + 1, start + size) <=>
           \/ start + size <= (s + 1) * VmPage
           \/ s + 1 \in 0 .. 4 /\ mem[s + 1] = "rw"
<1> DEFINE end == start + size
           q == Sta!Region(mem, s + 1)
<1>1. VmPage \in Nat \ {0} /\ end \in Int /\ end < (s + 2) * VmPage
  <2>1. VmPage \in Nat \ {0} /\ start + size \in Int
    BY PageAssumption
  <2>2. start + size < (s + 2) * VmPage
    BY PagesOfRange, Zenon
  <2> QED
    BY <2>1, <2>2
<1>2. PICK f : f = Walk(mem, end, f) /\ \A page \in 0 .. 6 : Sta!Covered(mem, page, end) = f[page]
  BY <1>1, CoveredIs
<1>3. s + 1 \in 0 .. 6 /\ s + 2 \in 0 .. 6 /\ s + 1 \in Nat
  OBVIOUS
<1> HIDE DEF end
<1>4. f[s + 1] = (\/ end <= (s + 1) * VmPage
                  \/ q # Sta!NoAdr /\ q * VmPage < end /\ mem[q] = "rw" /\ f[q + 1])
  BY <1>2, <1>3 DEF Walk
<1>5. f[s + 2] = TRUE
  <2>1. f[s + 2] = (\/ end <= (s + 2) * VmPage
                    \/ LET r == Sta!Region(mem, s + 2)
                       IN r # Sta!NoAdr /\ r * VmPage < end /\ mem[r] = "rw" /\ f[r + 1])
    BY <1>2, <1>3 DEF Walk
  <2>2. end <= (s + 2) * VmPage
    BY <1>1
  <2> QED
    BY <2>1, <2>2
<1>6. \/ q = Sta!NoAdr /\ \A p \in 0 .. 4 : p >= s + 1 => mem[p] = "none"
      \/ /\ q \in 0 .. 4 /\ q >= s + 1 /\ mem[q] # "none"
         /\ \A p \in 0 .. 4 : p >= s + 1 /\ p < q => mem[p] = "none"
  BY <1>3, RegionIs
<1> HIDE DEF q
<1>7. q \in 0 .. 4 /\ q * VmPage < end => q < s + 2
  <2> SUFFICES ASSUME q \in 0 .. 4, s + 2 <= q PROVE ~(q * VmPage < end)
    OBVIOUS
  <2>1. (s + 2) * VmPage <= q * VmPage
    BY <1>1, TimesMono
  <2> QED
    BY <1>1, <2>1
<1>8. q = s + 1 => q * VmPage = (s + 1) * VmPage /\ q + 1 = s + 2
  OBVIOUS
<1>9. (s + 1) * VmPage \in Int
  BY <1>1
<1>10. Sta!Covered(mem, s + 1, end) = f[s + 1]
  BY <1>2, <1>3
<1>11. ASSUME ~(end <= (s + 1) * VmPage), s + 1 \in 0 .. 4, mem[s + 1] = "rw"
       PROVE  q = s + 1 /\ q # Sta!NoAdr
  BY <1>6, <1>11 DEF Sta!NoAdr
<1>12. ASSUME q # Sta!NoAdr, q * VmPage < end PROVE q = s + 1 /\ s + 1 \in 0 .. 4
  BY <1>6, <1>7, <1>12
<1>13. f[s + 1] = ((end <= (s + 1) * VmPage) \/ (s + 1 \in 0 .. 4 /\ mem[s + 1] = "rw"))
  <2>1. CASE end <= (s + 1) * VmPage
    BY <1>4, <2>1
  <2>2. CASE ~(end <= (s + 1) * VmPage)
    <3>1. CASE s + 1 \in 0 .. 4 /\ mem[s + 1] = "rw"
      <4>1. q = s + 1 /\ q # Sta!NoAdr
        BY <1>11, <2>2, <3>1
      <4>2. q * VmPage < end /\ f[q + 1] = TRUE
        BY <1>1, <1>5, <1>8, <1>9, <2>2, <4>1
      <4> QED
        BY <1>4, <3>1, <4>1, <4>2
    <3>2. CASE ~(s + 1 \in 0 .. 4 /\ mem[s + 1] = "rw")
      <4>1. ~(q # Sta!NoAdr /\ q * VmPage < end /\ mem[q] = "rw")
        BY <1>12, <3>2
      <4> QED
        BY <1>4, <2>2, <3>2, <4>1
    <3> QED
      BY <3>1, <3>2
  <2> QED
    BY <2>1, <2>2
<1> QED
  BY <1>10, <1>13 DEF end

(* For every size of a page and every range that is not longer, the check of the caller's    *)
(* memory accepts exactly what is writable.                                                  *)
LEMMA CheckIsExact ==
  ASSUME NEW mem \in Memories, NEW start \in Nat, NEW size \in 1 .. VmPage, NEW okadr \in Int,
         okadr # Sta!NoAdr => Sta!Writable(mem, okadr, 1)
  PROVE  Sta!CheckAccess(mem, start, size, okadr) <=> Sta!Writable(mem, start, size)
<1> DEFINE s == Sta!PageOf(start)
<1>1. VmPage \in Nat \ {0} /\ s \in Int /\ s * VmPage <= start /\ start < s * VmPage + VmPage
  BY PageIs, PageAssumption
<1>2. s \in Nat
  <2> HIDE DEF s
  <2>1. SUFFICES ASSUME s <= -1 PROVE FALSE
    BY <1>1
  <2>2. s * VmPage <= (-1) * VmPage
    BY <1>1, <2>1, TimesMono
  <2> QED
    BY <1>1, <2>2
<1>3. ASSUME Sta!SamePage(start, size, okadr) PROVE Sta!Writable(mem, start, size)
  <2>1. Sta!PageOf(okadr) = s /\ Sta!PageOf(start + size - 1) = s /\ okadr # Sta!NoAdr
    BY <1>3 DEF Sta!SamePage
  <2>2. s \in 0 .. 4 /\ mem[s] = "rw"
    BY <2>1, ByteIsWritable
  <2>3. start + size - 1 \in Int /\ start + size - 1 < s * VmPage + VmPage
    BY <1>1, <2>1, PageIs
  <2> HIDE DEF s
  <2>4. start + size <= (s + 1) * VmPage
    <3>1. (s + 1) * VmPage = s * VmPage + VmPage /\ s * VmPage \in Int
      BY <1>1
    <3> QED
      BY <1>1, <2>3, <3>1
  <2> QED
    BY <2>2, <2>4, WritableIs DEF s
<1>4. Sta!Region(mem, s) = s <=> s \in 0 .. 4 /\ mem[s] # "none"
  <2> HIDE DEF s
  <2>1. PICK q : q = Sta!Region(mem, s)
    OBVIOUS
  <2>2. \/ q = Sta!NoAdr /\ \A p \in 0 .. 4 : p >= s => mem[p] = "none"
        \/ /\ q \in 0 .. 4 /\ q >= s /\ mem[q] # "none"
           /\ \A p \in 0 .. 4 : p >= s /\ p < q => mem[p] = "none"
    BY <1>2, <2>1, RegionIs
  <2> QED
    BY <1>2, <2>1, <2>2 DEF Sta!NoAdr
<1>5. CASE ~(s \in 0 .. 4)
  BY <1>3, <1>4, <1>5, WritableIs DEF Sta!CheckAccess
<1>6. CASE s \in 0 .. 4
  <2>1. Sta!Covered(mem, s + 1, start + size) <=>
           \/ start + size <= (s + 1) * VmPage
           \/ s + 1 \in 0 .. 4 /\ mem[s + 1] = "rw"
    BY <1>6, NextPageCovered
  <2>2. Sta!Writable(mem, start, size) <=> mem[s] = "rw" /\ Sta!Covered(mem, s + 1, start + size)
    BY <1>6, <2>1, WritableIs
  <2>3. mem[s] = "rw" => mem[s] # "none"
    OBVIOUS
  <2> QED
    BY <1>3, <1>4, <1>6, <2>2, <2>3 DEF Sta!CheckAccess
<1> QED
  BY <1>5, <1>6

-----------------------------------------------------------------------------
(* A range is writable if its two parts are.                               *)
LEMMA WritableParts ==
  ASSUME NEW mem, NEW adr \in Int, NEW n \in Nat, NEW m \in Nat
  PROVE  /\ Sta!Writable(mem, adr, n + m) <=> Sta!Writable(mem, adr, n) /\ Sta!Writable(mem, adr + n, m)
         /\ Sta!Writable(mem, adr, n) => \A a \in adr .. adr + n - 1 : Sta!Writable(mem, a, 1)
<1>1. adr .. adr + (n + m) - 1 = (adr .. adr + n - 1) \cup ((adr + n) .. (adr + n) + m - 1)
  OBVIOUS
<1>2. \A a \in adr .. adr + n - 1 : a .. a + 1 - 1 = {a}
  OBVIOUS
<1> QED
  BY <1>1, <1>2 DEF Sta!Writable

(* The birth time is not after any other.                                  *)
LEMMA BirthIsFirst ==
  ASSUME NEW st, st.mtime[1] \in Int, st.mtime[2] \in Int, st.ctime[1] \in Int, st.ctime[2] \in Int
  PROVE  ~Sta!Before(st.mtime, Sta!BirthTime(st)) /\ ~Sta!Before(st.ctime, Sta!BirthTime(st))
BY DEF Sta!Before, Sta!BirthTime

(* convert_stat reads the times of the system's structure and fills in the rest of the       *)
(* larger one, all of it or nothing.                                                         *)
LEMMA StatIsWhole ==
  ASSUME NEW mem \in Memories, NEW adr \in Nat, NEW mtime \in Times, NEW ctime \in Times,
         NEW fails \in BOOLEAN, NEW ppc64 \in BOOLEAN, NEW st,
         st = [atime |-> <<3, 3>>, mtime |-> mtime, ctime |-> ctime, rest |-> "rest"]
  PROVE  Sta!StatWhole(mem, adr, st, fails, ppc64, Sta!Stat64(mem, adr, st, fails, ppc64))
<1> DEFINE given == IF ppc64 THEN Sta!FixStat(st) ELSE st
           extra == Sta!ExtraOk(mem, adr)
           r == Sta!Stat64(mem, adr, st, fails, ppc64)
<1>1. /\ VmPage \in Nat \ {0} /\ StatSize \in Nat \ {0} /\ Stat64Size \in Nat
      /\ Stat64Size - StatSize \in 1 .. VmPage /\ StatSize \in 1 .. VmPage
  BY PageAssumption
<1>2. PICK n \in Nat, m \in 1 .. VmPage : n = StatSize /\ m = Stat64Size - StatSize
  BY <1>1
<1>3. n + m = Stat64Size /\ m \in Nat /\ n >= 1
  BY <1>1, <1>2
<1>4. /\ Sta!Writable(mem, adr, Stat64Size) <=>
           Sta!Writable(mem, adr, StatSize) /\ Sta!Writable(mem, adr + StatSize, m)
      /\ Sta!Writable(mem, adr, StatSize) => Sta!Writable(mem, adr, 1)
      /\ Sta!Writable(mem, adr, Stat64Size) =>
           \A a \in adr .. adr + Stat64Size - 1 : Sta!Writable(mem, a, 1)
  <2>1. /\ Sta!Writable(mem, adr, n + m) <=> Sta!Writable(mem, adr, n) /\ Sta!Writable(mem, adr + n, m)
        /\ Sta!Writable(mem, adr, n) => \A a \in adr .. adr + n - 1 : Sta!Writable(mem, a, 1)
    <3>1. adr \in Int
      OBVIOUS
    <3> QED
      BY <1>3, <3>1, WritableParts, Zenon
  <2>2. Sta!Writable(mem, adr, Stat64Size) => \A a \in adr .. adr + Stat64Size - 1 : Sta!Writable(mem, a, 1)
    BY <1>1, WritableParts
  <2>3. adr \in adr .. adr + n - 1
    BY <1>3
  <2> QED
    BY <1>2, <1>3, <2>1, <2>2, <2>3
<1>5. Sta!Writable(mem, adr, StatSize) => (extra <=> Sta!Writable(mem, adr + StatSize, m))
  <2> SUFFICES ASSUME Sta!Writable(mem, adr, 1)
               PROVE  extra <=> Sta!Writable(mem, adr + StatSize, m)
    BY <1>4
  <2>1. adr + StatSize \in Nat /\ adr \in Int
    BY <1>1
  <2>2. Sta!CheckAccess(mem, adr + StatSize, m, adr) <=> Sta!Writable(mem, adr + StatSize, m)
    BY <2>1, CheckIsExact
  <2> QED
    BY <1>2, <2>2 DEF Sta!ExtraOk
<1> HIDE DEF extra
<1>6. /\ given.rest = st.rest /\ given.mtime[1] = st.mtime[1] /\ given.ctime[1] = st.ctime[1]
      /\ given.mtime[1] \in Int /\ given.mtime[2] \in Int /\ given.ctime[1] \in Int /\ given.ctime[2] \in Int
      /\ ~ppc64 => given = st
  <2>1. mtime \in Int \X Int /\ ctime \in Int \X Int
    BY DEF Times
  <2>2. CASE ppc64
    BY <2>1, <2>2 DEF Sta!FixStat
  <2>3. CASE ~ppc64
    BY <2>1, <2>3
  <2> QED
    BY <2>2, <2>3
<1>7. ~Sta!Before(given.mtime, Sta!BirthTime(given)) /\ ~Sta!Before(given.ctime, Sta!BirthTime(given))
  BY <1>6, BirthIsFirst
<1> HIDE DEF given
<1>8. r = Sta!ConvertStat(Sta!OsStat(mem, adr, st, fails), mem, adr, given, extra)
  BY DEF Sta!Stat64, given, extra
<1> SUFFICES Sta!StatWhole(mem, adr, st, fails, ppc64, r)
  OBVIOUS
<1> HIDE DEF r
<1>9. CASE ~fails /\ Sta!Writable(mem, adr, Stat64Size)
  <2>1. Sta!Writable(mem, adr, StatSize) /\ extra
    BY <1>4, <1>5, <1>9
  <2>2. Sta!OsStat(mem, adr, st, fails).ret = 0
    BY <1>9, <2>1 DEF Sta!OsStat
  <2>3. r = [ret |-> 0, errno |-> "OK", written |-> adr .. adr + Stat64Size - 1,
             st |-> [atime |-> given.atime, mtime |-> given.mtime, ctime |-> given.ctime,
                     birthtime |-> Sta!BirthTime(given), rest |-> given.rest]]
    BY <1>8, <2>1, <2>2 DEF Sta!ConvertStat
  <2>4. r.ret = 0 /\ r.written = adr .. adr + Stat64Size - 1
    BY <2>3
  <2>5. /\ r.st.rest = given.rest /\ r.st.mtime = given.mtime /\ r.st.ctime = given.ctime
        /\ r.st.atime = given.atime /\ r.st.birthtime = Sta!BirthTime(given)
    BY <2>3
  <2> QED
    BY <1>4, <1>6, <1>7, <1>9, <2>4, <2>5, Zenon DEF Sta!StatWhole
<1>10. CASE ~(~fails /\ Sta!Writable(mem, adr, Stat64Size))
  <2>1. Sta!OsStat(mem, adr, st, fails).ret = 0 => ~extra
    BY <1>4, <1>5, <1>10 DEF Sta!OsStat
  <2>2. Sta!OsStat(mem, adr, st, fails).ret \in {-1, 0}
    BY DEF Sta!OsStat
  <2>3. r.ret = -1 /\ r.written = {}
    BY <1>8, <2>1, <2>2 DEF Sta!ConvertStat
  <2>4. r.ret # 0
    BY <2>3
  <2> QED
    BY <1>10, <2>3, <2>4, Zenon DEF Sta!StatWhole
<1> QED
  BY <1>9, <1>10

(* The path goes to the caller's buffer, or through the static one, if it may be written.    *)
LEMMA PathIsAnswered ==
  ASSUME NEW mem \in Memories, NEW adr \in Nat
  PROVE  Sta!PathAnswered(mem, adr, Sta!GetPath(mem, adr))
<1>1. MaxPathLen \in 1 .. VmPage /\ LowLimit \in Int
  BY PageAssumption
<1>2. Sta!NoAdr \in Int
  BY DEF Sta!NoAdr
<1>3. Sta!CheckAccess(mem, adr, MaxPathLen, Sta!NoAdr) <=> Sta!Writable(mem, adr, MaxPathLen)
  BY <1>1, <1>2, CheckIsExact
<1> QED
  BY <1>1, <1>3 DEF Sta!PathAnswered, Sta!GetPath, Sta!OsGetPath

(* Swapping the bytes twice changes nothing.                               *)
LEMMA SwapTwice ==
  ASSUME NEW n \in 0 .. 15
  PROVE  SwapBytes(SwapBytes(n)) = n
BY DEF SwapBytes

(* A descriptor is swapped when and only when Rosetta swaps it again.      *)
LEMMA FdIsRight ==
  ASSUME NEW fd \in 0 .. 15, NEW fsec \in BOOLEAN, NEW known \in BOOLEAN, NEW env, NEW cached,
         cached = IF known THEN Sta!IsTigerRosetta(env) ELSE 0
  PROVE  Sta!RightFd(fd, fsec, Sta!FdPassed(cached, fsec, fd, env), env)
<1>1. SwapBytes(SwapBytes(fd)) = fd
  BY SwapTwice
<1>2. Sta!IsTigerRosetta(env) \in {1, -1}
  BY DEF Sta!IsTigerRosetta
<1>3. CASE Sta!IsTigerRosetta(env) = 1
  BY <1>1, <1>3 DEF Sta!RightFd, Sta!FdPassed, Sta!FdSeen
<1>4. CASE Sta!IsTigerRosetta(env) = -1
  BY <1>4 DEF Sta!RightFd, Sta!FdPassed, Sta!FdSeen
<1> QED
  BY <1>2, <1>3, <1>4

(* What dprintf says is what it wrote.                                     *)
LEMMA DprintfIsRight ==
  ASSUME NEW fdopens \in BOOLEAN, NEW asExpected \in BOOLEAN, NEW n \in Nat, NEW room \in Nat
  PROVE  Dp!PrintedAll(asExpected, n, room, Dp!VDPrintf(fdopens, asExpected, n, room))
<1>1. PICK full : full = (n \div StdioBuf) * StdioBuf
  OBVIOUS
<1>2. full \in Int /\ full <= n
  <2>1. PICK q \in Nat, r \in 0 .. StdioBuf - 1 : n \div StdioBuf = q /\ n = q * StdioBuf + r
    BY StdioAssumption, DivModNat
  <2>2. q * StdioBuf \in Int
    BY StdioAssumption
  <2> QED
    BY <1>1, <2>1, <2>2, StdioAssumption
<1>3. PICK printed : printed = Dp!VFPrintf(n, room)
  OBVIOUS
<1>4. printed.ret = (IF full <= room THEN n ELSE -1)
  BY <1>1, <1>3 DEF Dp!VFPrintf
<1>5. PICK stream : stream = Dp!NoClose(Dp!Fdopen(asExpected))
  OBVIOUS
<1>6. asExpected => stream.close = FALSE
  BY <1>5 DEF Dp!NoClose, Dp!Fdopen
<1>7. PICK closed : closed = Dp!Fclose(stream, n, printed, room)
  OBVIOUS
<1>8. /\ closed.ret = (IF printed.ret >= 0 /\ n <= room THEN 0 ELSE -1)
      /\ closed.written = (IF printed.ret >= 0 /\ n <= room THEN n ELSE room)
      /\ closed.open = ~stream.close
  BY <1>7 DEF Dp!Fclose
<1>9. CASE ~fdopens
  BY <1>9 DEF Dp!PrintedAll, Dp!VDPrintf
<1>10. CASE fdopens
  <2>1. Dp!VDPrintf(fdopens, asExpected, n, room) =
          [ret |-> IF closed.ret # 0 THEN -1 ELSE printed.ret, written |-> closed.written, open |-> closed.open]
    BY <1>3, <1>5, <1>7, <1>10, Zenon DEF Dp!VDPrintf
  <2>2. asExpected => closed.open
    BY <1>6, <1>8
  <2>3. closed.written <= room /\ (closed.ret # 0 \/ (printed.ret = n /\ closed.written = n))
    BY <1>2, <1>4, <1>8
  <2> QED
    BY <2>1, <2>2, <2>3 DEF Dp!PrintedAll
<1> QED
  BY <1>9, <1>10

-----------------------------------------------------------------------------
(* The attributes that are set, and their values in the buffer.            *)
LEMMA AttributesCounted ==
  ASSUME NEW mod \in BOOLEAN, NEW acc \in BOOLEAN, NEW attrs,
         attrs \subseteq {"ACCTIME", "MODTIME"},
         "MODTIME" \in attrs <=> mod, "ACCTIME" \in attrs <=> acc
  PROVE  /\ attrs = {} <=> ~mod /\ ~acc
         /\ Cardinality(attrs) = (IF mod THEN 1 ELSE 0) + (IF acc THEN 1 ELSE 0)
<1>1. CASE mod /\ acc
  <2>1. attrs = {"ACCTIME"} \cup {"MODTIME"}
    BY <1>1
  <2>2. Cardinality({"ACCTIME"}) = 1 /\ IsFiniteSet({"ACCTIME"})
    BY FS_Singleton
  <2>3. "MODTIME" \notin {"ACCTIME"}
    OBVIOUS
  <2>4. Cardinality({"ACCTIME"} \cup {"MODTIME"}) = Cardinality({"ACCTIME"}) + 1
    BY <2>2, <2>3, FS_AddElement
  <2> QED
    BY <1>1, <2>1, <2>2, <2>4
<1>2. CASE mod /\ ~acc
  <2>1. attrs = {"MODTIME"}
    BY <1>2
  <2>2. Cardinality({"MODTIME"}) = 1
    BY FS_Singleton
  <2> QED
    BY <1>2, <2>1, <2>2
<1>3. CASE ~mod /\ acc
  <2>1. attrs = {"ACCTIME"}
    BY <1>3
  <2>2. Cardinality({"ACCTIME"}) = 1
    BY FS_Singleton
  <2> QED
    BY <1>3, <2>1, <2>2
<1>4. CASE ~mod /\ ~acc
  <2>1. attrs = {}
    BY <1>4
  <2>2. Cardinality({}) = 0
    BY FS_EmptySet
  <2> QED
    BY <1>4, <2>1, <2>2
<1> QED
  BY <1>1, <1>2, <1>3, <1>4

(* The buffer has the values of those that are set.                        *)
LEMMA BufferIs ==
  ASSUME NEW n, NEW b, NEW mod \in BOOLEAN, NEW acc \in BOOLEAN, NEW buf,
         buf = (IF mod THEN <<n>> ELSE <<>>) \o (IF acc THEN <<b>> ELSE <<>>)
  PROVE  /\ Len(buf) = (IF mod THEN 1 ELSE 0) + (IF acc THEN 1 ELSE 0)
         /\ mod => buf[1] = n
         /\ acc => buf[Len(buf)] = b
         /\ ~mod /\ ~acc => buf = <<>>
<1>1. CASE mod /\ acc
  <2>1. buf = <<n>> \o <<b>>
    BY <1>1
  <2>2. Len(buf) = 2
    BY <2>1
  <2>3. buf[1] = n
    BY <2>1
  <2>4. buf[2] = b
    BY <2>1
  <2> QED
    BY <1>1, <2>2, <2>3, <2>4
<1>2. CASE mod /\ ~acc
  <2>1. buf = <<n>>
    BY <1>2
  <2> QED
    BY <1>2, <2>1
<1>3. CASE ~mod /\ acc
  <2>1. buf = <<b>>
    BY <1>3
  <2> QED
    BY <1>3, <2>1
<1>4. CASE ~mod /\ ~acc
  <2>1. buf = <<>>
    BY <1>4
  <2> QED
    BY <1>4, <2>1
<1> QED
  BY <1>1, <1>2, <1>3, <1>4

(* The instance's Cardinality is the one of this module.                   *)
LEMMA FtCardinality ==
  ASSUME NEW S
  PROVE  Ft!Cardinality(S) = Cardinality(S)
BY Zenon DEF Ft!Cardinality, Cardinality

(* utimensat packs the times in the order in which the kernel takes them.  *)
LEMMA TimesAreSet ==
  ASSUME NEW file, NEW times, NEW now, NEW faulty \in BOOLEAN, NEW nomem \in BOOLEAN,
         NEW a, NEW m, Ft!TimesIn(times) = <<a, m>>,
         a.nsec \in Int, m.nsec \in Int, now.nsec \in Nat,
         file = [atime |-> file.atime, mtime |-> file.mtime]
  PROVE  Ft!TimesSet(file, times, now, nomem, Ft!UTimens(file, times, now, faulty, nomem))
<1> DEFINE b == Ft!Resolve(a, now)
           n == Ft!Resolve(m, now)
           acc == Ft!Given(a)
           mod == Ft!Given(m)
           p == Ft!PrepareTimes(<<a, m>>, now)
           r == Ft!UTimens(file, times, now, faulty, nomem)
           want(t, old) == CASE t.nsec = Ft!UtimeNow -> now [] t.nsec = Ft!UtimeOmit -> old [] OTHER -> t
<1>1. (Ft!Given(b) <=> acc) /\ (Ft!Given(n) <=> mod)
  BY DEF Ft!Resolve, Ft!Given, Ft!UtimeNow, Ft!UtimeOmit
<1>2. /\ \A old : want(a, old) = IF acc THEN b ELSE old
      /\ \A old : want(m, old) = IF mod THEN n ELSE old
  BY DEF Ft!Resolve, Ft!Given, Ft!UtimeNow, Ft!UtimeOmit
<1>3. r = Ft!SetAttrList(file, p.attrs, p.buf, faulty, nomem)
  BY Zenon DEF Ft!UTimens
<1>4. /\ p.attrs = {x \in {"ACCTIME", "MODTIME"} : IF x = "ACCTIME" THEN acc ELSE mod}
      /\ p.buf = (IF mod THEN <<n>> ELSE <<>>) \o (IF acc THEN <<b>> ELSE <<>>)
  <2> DEFINE ts == [i \in 1 .. 2 |-> Ft!Resolve(<<a, m>>[i], now)]
  <2>1. ts[1] = b /\ ts[2] = n
    OBVIOUS
  <2>2. CASE ~acc /\ ~mod
    <3>1. p = [attrs |-> {}, buf |-> <<>>]
      BY <2>2 DEF Ft!PrepareTimes
    <3> HIDE DEF acc, mod, p
    <3>2. <<>> \o <<>> = <<>>
      OBVIOUS
    <3> QED
      BY <2>2, <3>1, <3>2
  <2>3. CASE acc \/ mod
    <3>1. p = [attrs |-> {x \in {"ACCTIME", "MODTIME"} : Ft!Given(ts[IF x = "ACCTIME" THEN 1 ELSE 2])},
               buf |-> Ft!Packed(ts)]
      BY <2>3 DEF Ft!PrepareTimes, Ft!AccessTime, Ft!ModTime
    <3>2. Ft!Packed(ts) = (IF mod THEN <<n>> ELSE <<>>) \o (IF acc THEN <<b>> ELSE <<>>)
      <4>1. Ft!Packed(ts) = (IF Ft!Given(ts[2]) THEN <<ts[2]>> ELSE <<>>) \o (IF Ft!Given(ts[1]) THEN <<ts[1]>> ELSE <<>>)
        BY DEF Ft!Packed, Ft!AccessTime, Ft!ModTime
      <4> HIDE DEF ts, b, n, acc, mod
      <4> QED
        BY <1>1, <2>1, <4>1
    <3> HIDE DEF p, ts, b, n, acc, mod
    <3> QED
      BY <1>1, <2>1, <3>1, <3>2
  <2> QED
    BY <2>2, <2>3
<1>5. acc \in BOOLEAN /\ mod \in BOOLEAN
  BY DEF Ft!Given
<1>6. Ft!TimesSet(file, times, now, nomem, r) <=>
        /\ r.ret = IF nomem /\ ~(~acc /\ ~mod) THEN "ENOMEM" ELSE "OK"
        /\ r.file = IF r.ret = "OK" THEN [atime |-> want(a, file.atime), mtime |-> want(m, file.mtime)]
                    ELSE file
  BY DEF Ft!TimesSet
<1> HIDE DEF b, n, acc, mod, p
<1> DEFINE attrs == p.attrs
           buf == p.buf
<1>7. /\ "MODTIME" \in attrs <=> mod
      /\ "ACCTIME" \in attrs <=> acc
      /\ attrs = {} <=> ~mod /\ ~acc
      /\ Cardinality(attrs) = (IF mod THEN 1 ELSE 0) + (IF acc THEN 1 ELSE 0)
  <2>1. /\ attrs \subseteq {"ACCTIME", "MODTIME"}
        /\ "MODTIME" \in attrs <=> mod
        /\ "ACCTIME" \in attrs <=> acc
    BY <1>4
  <2> HIDE DEF attrs
  <2> QED
    BY <1>5, <2>1, AttributesCounted
<1>8. /\ Len(buf) = (IF mod THEN 1 ELSE 0) + (IF acc THEN 1 ELSE 0)
      /\ mod => buf[1] = n
      /\ acc => buf[Len(buf)] = b
      /\ ~mod /\ ~acc => buf = <<>>
  BY <1>4, <1>5, BufferIs
<1> HIDE DEF attrs, buf
<1>9. r = Ft!SetAttrList(file, attrs, buf, faulty, nomem)
  BY <1>3 DEF attrs, buf
<1> SUFFICES Ft!TimesSet(file, times, now, nomem, r)
  OBVIOUS
<1> HIDE DEF r
<1>10. CASE nomem
  <2>1. r = [[file |-> file, ret |-> "ENOMEM"] EXCEPT !.ret = Ft!FixRet("ENOMEM", attrs, buf)]
    BY <1>9, <1>10 DEF Ft!SetAttrList
  <2>2. r.file = file /\ r.ret = Ft!FixRet("ENOMEM", attrs, buf)
    BY <2>1
  <2>3. CASE ~mod /\ ~acc
    <3>1. r.ret = "OK"
      BY <1>7, <1>8, <2>2, <2>3 DEF Ft!FixRet
    <3> QED
      BY <1>2, <1>6, <2>2, <2>3, <3>1
  <2>4. CASE mod \/ acc
    <3>1. r.ret = "ENOMEM"
      BY <1>7, <2>2, <2>4 DEF Ft!FixRet
    <3> QED
      BY <1>6, <1>10, <2>2, <2>4, <3>1
  <2> QED
    BY <1>5, <2>3, <2>4
<1>11. CASE ~nomem
  <2>1. PICK k : k = Ft!KernelSetAttrList(file, attrs, buf, faulty)
    OBVIOUS
  <2>2. r = IF k.ret # "ENOMEM" THEN k ELSE [k EXCEPT !.ret = Ft!FixRet(k.ret, attrs, buf)]
    BY <1>9, <1>11, <2>1, Zenon DEF Ft!SetAttrList
  <2>3. CASE ~mod /\ ~acc
    <3>1. k = [file |-> file, ret |-> IF faulty THEN "ENOMEM" ELSE "OK"]
      BY <1>7, <2>1, <2>3 DEF Ft!KernelSetAttrList
    <3>2. r.ret = "OK" /\ r.file = file
      BY <1>7, <1>8, <2>2, <2>3, <3>1 DEF Ft!FixRet
    <3> QED
      BY <1>2, <1>6, <2>3, <3>2
  <2>4. CASE mod \/ acc
    <3>1. attrs # {} /\ Len(buf) = Cardinality(attrs)
      BY <1>7, <1>8, <2>4
    <3> DEFINE set == [ret |-> "OK",
                       file |-> [mtime |-> IF "MODTIME" \in attrs THEN buf[1] ELSE file.mtime,
                                 atime |-> IF "ACCTIME" \in attrs THEN buf[Len(buf)] ELSE file.atime]]
    <3>2. k = set
      <4>1. k = IF attrs = {} THEN [file |-> file, ret |-> IF faulty THEN "ENOMEM" ELSE "OK"]
                ELSE IF Len(buf) # Cardinality(attrs) THEN [file |-> file, ret |-> "EINVAL"] ELSE set
        BY <2>1, FtCardinality, Zenon DEF Ft!KernelSetAttrList
      <4> HIDE DEF set
      <4> QED
        BY <3>1, <4>1
    <3>3. r = k /\ r.ret = "OK"
      BY <2>2, <3>2
    <3>4. r.file = [mtime |-> IF mod THEN n ELSE file.mtime, atime |-> IF acc THEN b ELSE file.atime]
      BY <1>7, <1>8, <3>2, <3>3
    <3>5. want(a, file.atime) = (IF acc THEN b ELSE file.atime)
          /\ want(m, file.mtime) = (IF mod THEN n ELSE file.mtime)
      BY <1>2, Zenon
    <3> HIDE DEF want
    <3> QED
      BY <1>6, <1>11, <3>3, <3>4, <3>5
  <2> QED
    BY <1>5, <2>3, <2>4
<1> QED
  BY <1>10, <1>11

-----------------------------------------------------------------------------
(* A sequence whose beginning is replaced.                                 *)
LEMMA BeginningReplaced ==
  ASSUME NEW v \in Seq(Int), NEW s \in Seq(Int), Len(v) <= Len(s)
  PROVE  LET b == v \o SubSeq(s, Len(v) + 1, Len(s))
         IN /\ b \in Seq(Int) /\ Len(b) = Len(s)
            /\ \A i \in 1 .. Len(s) : b[i] = IF i <= Len(v) THEN v[i] ELSE s[i]
<1> DEFINE t == SubSeq(s, Len(v) + 1, Len(s))
           b == v \o t
<1>1. /\ t \in Seq(Int) /\ Len(t) = Len(s) - Len(v)
      /\ \A i \in 1 .. Len(t) : t[i] = s[Len(v) + i]
  OBVIOUS
<1> HIDE DEF t
<1>2. b \in Seq(Int) /\ Len(b) = Len(v) + Len(t)
  BY <1>1
<1>3. Len(v) \in Nat /\ Len(s) \in Nat /\ Len(t) \in Nat
  BY <1>1
<1>4. ASSUME NEW i \in 1 .. Len(s) PROVE b[i] = IF i <= Len(v) THEN v[i] ELSE s[i]
  <2>1. CASE i <= Len(v)
    BY <1>1, <2>1
  <2>2. CASE ~(i <= Len(v))
    <3>1. i - Len(v) \in 1 .. Len(t)
      BY <1>1, <1>3, <2>2
    <3>2. b[i] = t[i - Len(v)]
      BY <1>1, <1>2, <2>2, <3>1
    <3>3. t[i - Len(v)] = s[Len(v) + (i - Len(v))]
      BY <1>1, <3>1
    <3>4. Len(v) + (i - Len(v)) = i
      OBVIOUS
    <3> QED
      BY <2>2, <3>2, <3>3, <3>4
  <2> QED
    BY <2>1, <2>2
<1> QED
  BY <1>1, <1>2, <1>4 DEF t

(* fix_boottime makes a timeval of what the kernel gave, within the length it was given.     *)
LEMMA BoottimeIsRight ==
  ASSUME NEW buf \in Seq(Int), NEW oldlen \in 0 .. Len(buf), NEW tv, tv.sec \in Int, tv.usec \in Int,
         NEW kernel32 \in BOOLEAN
  PROVE  Sys!BoottimeRight(buf, oldlen, tv, Sys!Sysctl(TRUE, buf, oldlen, tv, kernel32))
<1> DEFINE value == IF kernel32 THEN <<tv.sec, tv.usec>> ELSE <<tv.sec, 0, tv.usec, 0>>
           k == Sys!KernelBoottime(buf, oldlen, tv, kernel32)
           r == Sys!Sysctl(TRUE, buf, oldlen, tv, kernel32)
<1> SUFFICES Sys!BoottimeRight(buf, oldlen, tv, r)
  OBVIOUS
<1>1. r = IF k.ret # 0 THEN k ELSE Sys!FixBoottime(k, oldlen)
  BY DEF Sys!Sysctl
<1>2. CASE buf = <<>>
  <2>1. k.ret = 0 /\ k.buf = <<>>
    BY <1>2 DEF Sys!KernelBoottime, Sys!NoBuffer
  <2> HIDE DEF r, k
  <2>2. r = k
    BY <1>1, <2>1 DEF Sys!FixBoottime, Sys!WantedTimeval, Sys!NoBuffer
  <2>3. oldlen + 1 .. Len(buf) = {}
    BY <1>2
  <2> QED
    BY <1>2, <2>1, <2>2, <2>3 DEF Sys!BoottimeRight, Sys!NoBuffer
<1>3. CASE buf # <<>> /\ oldlen < Len(value)
  <2>1. k.ret = -1 /\ k.buf = buf
    BY <1>3 DEF Sys!KernelBoottime, Sys!NoBuffer
  <2> HIDE DEF r, k
  <2>2. r = k /\ r.ret # 0
    BY <1>1, <2>1
  <2> QED
    BY <2>1, <2>2 DEF Sys!BoottimeRight
<1>4. CASE buf # <<>> /\ ~(oldlen < Len(value))
  <2>1. k = [ret |-> 0, len |-> Len(value), buf |-> value \o SubSeq(buf, Len(value) + 1, Len(buf))]
    BY <1>4 DEF Sys!KernelBoottime, Sys!NoBuffer
  <2>2. value \in Seq(Int) /\ Len(value) = IF kernel32 THEN 2 ELSE 4
    OBVIOUS
  <2>3. /\ value[1] = tv.sec
        /\ kernel32 => value[2] = tv.usec
        /\ ~kernel32 => value[2] = 0 /\ value[3] = tv.usec
    OBVIOUS
  <2> HIDE DEF r, k, value
  <2>4. k.ret = 0 /\ k.len = Len(value) /\ k.buf = value \o SubSeq(buf, Len(value) + 1, Len(buf))
    BY <2>1
  <2>5. Len(value) <= oldlen /\ oldlen <= Len(buf)
    BY <1>4, <2>2
  <2>6. /\ k.buf \in Seq(Int) /\ Len(k.buf) = Len(buf)
        /\ \A i \in 1 .. Len(buf) : k.buf[i] = IF i <= Len(value) THEN value[i] ELSE buf[i]
    <3>1. Len(value) <= Len(buf)
      BY <2>2, <2>5
    <3> DEFINE glued == value \o SubSeq(buf, Len(value) + 1, Len(buf))
    <3>2. /\ glued \in Seq(Int) /\ Len(glued) = Len(buf)
          /\ \A i \in 1 .. Len(buf) : glued[i] = IF i <= Len(value) THEN value[i] ELSE buf[i]
      BY <2>2, <3>1, BeginningReplaced, Zenon
    <3>3. k.buf = glued
      BY <2>4, Zenon
    <3> HIDE DEF glued
    <3> QED
      BY <3>2, <3>3, Zenon
  <2>7. CASE kernel32 /\ oldlen >= 4
    <3> DEFINE wide == <<k.buf[1], 0, k.buf[2], k.buf[4]>>
    <3>1. k.buf # <<>>
      BY <2>5, <2>6, <2>7
    <3>2. r = [k EXCEPT !.buf = wide \o SubSeq(k.buf, 4 + 1, Len(k.buf)), !.len = 4]
      BY <1>1, <2>2, <2>4, <2>7, <3>1 DEF Sys!FixBoottime, Sys!WantedTimeval, Sys!NoBuffer, Sys!TvSize, Sys!Tv32Size
    <3>3. r.len = 4 /\ r.buf = wide \o SubSeq(k.buf, 4 + 1, Len(k.buf))
      BY <2>1, <3>2
    <3>4. k.buf[1] = tv.sec /\ k.buf[2] = tv.usec /\ k.buf[4] \in Int
      <4>1. 1 \in 1 .. Len(buf) /\ 2 \in 1 .. Len(buf) /\ 4 \in 1 .. Len(buf) /\ Len(value) = 2
        BY <2>2, <2>5, <2>7
      <4>2. k.buf[4] \in Int
        BY <2>6, <4>1
      <4>3. k.buf[1] = value[1] /\ k.buf[2] = value[2]
        BY <2>6, <4>1
      <4> QED
        BY <2>3, <2>7, <4>2, <4>3
    <3>5. wide \in Seq(Int) /\ Len(wide) = 4 /\ wide[1] = tv.sec /\ wide[2] = 0 /\ wide[3] = tv.usec
      BY <3>4
    <3> HIDE DEF wide
    <3>6. \A i \in 1 .. Len(k.buf) : r.buf[i] = IF i <= Len(wide) THEN wide[i] ELSE k.buf[i]
      <4>1. Len(wide) <= Len(k.buf) /\ r.buf = wide \o SubSeq(k.buf, Len(wide) + 1, Len(k.buf))
        BY <2>5, <2>6, <2>7, <3>3, <3>5
      <4> DEFINE glued == wide \o SubSeq(k.buf, Len(wide) + 1, Len(k.buf))
      <4>2. \A i \in 1 .. Len(k.buf) : glued[i] = IF i <= Len(wide) THEN wide[i] ELSE k.buf[i]
        BY <2>6, <3>5, <4>1, BeginningReplaced, Zenon
      <4>3. r.buf = glued
        BY <4>1, Zenon
      <4> HIDE DEF glued
      <4> QED
        BY <4>2, <4>3, Zenon
    <3>7. r.buf[1] = tv.sec /\ r.buf[2] = 0 /\ r.buf[3] = tv.usec
      <4>1. Len(k.buf) \in Nat /\ Len(k.buf) >= 4
        BY <2>5, <2>6, <2>7
      <4>2. 1 \in 1 .. Len(k.buf) /\ 2 \in 1 .. Len(k.buf) /\ 3 \in 1 .. Len(k.buf)
        BY <4>1
      <4>3. r.buf[1] = wide[1] /\ r.buf[2] = wide[2] /\ r.buf[3] = wide[3]
        BY <3>5, <3>6, <4>2
      <4> QED
        BY <3>5, <4>3
    <3>8. \A i \in oldlen + 1 .. Len(buf) : r.buf[i] = buf[i]
      BY <2>2, <2>5, <2>6, <2>7, <3>5, <3>6
    <3> QED
      BY <3>3, <3>7, <3>8 DEF Sys!BoottimeRight, Sys!TvSize
  <2>8. CASE ~(kernel32 /\ oldlen >= 4)
    <3>1. r = k
      BY <1>1, <2>2, <2>4, <2>8 DEF Sys!FixBoottime, Sys!WantedTimeval, Sys!TvSize, Sys!Tv32Size
    <3>2. \A i \in oldlen + 1 .. Len(buf) : r.buf[i] = buf[i]
      BY <2>2, <2>5, <2>6, <3>1
    <3>3. oldlen >= 4 => r.len = 4 /\ r.buf[1] = tv.sec /\ r.buf[2] = 0 /\ r.buf[3] = tv.usec
      <4> SUFFICES ASSUME oldlen >= 4
                   PROVE  r.len = 4 /\ r.buf[1] = tv.sec /\ r.buf[2] = 0 /\ r.buf[3] = tv.usec
        OBVIOUS
      <4>1. ~kernel32 /\ Len(value) = 4
        BY <2>2, <2>8
      <4>2. 1 \in 1 .. Len(buf) /\ 2 \in 1 .. Len(buf) /\ 3 \in 1 .. Len(buf)
        BY <2>5
      <4>3. k.buf[1] = value[1] /\ k.buf[2] = value[2] /\ k.buf[3] = value[3]
        <5>1. 1 <= Len(value) /\ 2 <= Len(value) /\ 3 <= Len(value)
          BY <4>1
        <5> QED
          BY <2>6, <4>2, <5>1, Zenon
      <4> QED
        BY <2>3, <2>4, <3>1, <4>1, <4>3
    <3> QED
      BY <3>2, <3>3 DEF Sys!BoottimeRight, Sys!TvSize
  <2> QED
    BY <2>7, <2>8
<1> QED
  BY <1>2, <1>3, <1>4

-----------------------------------------------------------------------------
(* The calls that ClocksExact is about.                                    *)
ClockCalls == {"mmul64", "mach2nanos", "nanos2timespec", "tvdiff2mach", "clock"}

(* A step that reads a clock reads it from some source.                    *)
LEMMA ClockIsRead ==
  ASSUME ReadClock
  PROVE  \E clk \in Clk!Clocks, src \in Sources :
           fn' = "clock" /\ in' = <<clk, src>> /\ out' = Readings(clk, src)
<1>1. PICK clk \in Clk!Clocks, tod \in TvSecs, utime \in TvSecs, stime \in TvSecs,
           mach \in {0, 3, Clk!Word - 3}, mult \in {0, 37, Clk!NullScale}, fails \in Failing,
           hires \in BOOLEAN :
        LET src == [tod |-> tod, utime |-> utime, stime |-> stime, mach |-> mach, mult |-> mult,
                    fails |-> fails, hires |-> hires]
        IN /\ hires => clk = "THREAD_CPUTIME"
           /\ (mach = 3 /\ mult = 0) \/ clk = "MONOTONIC" \/ Clk!HasMachUnits(clk, src)
           /\ clk # "REALTIME" => tod.sec = 1 /\ tod.usec = 0
           /\ hires \/ clk \notin {"PROCESS_CPUTIME", "THREAD_CPUTIME"} =>
                utime.sec = 0 /\ utime.usec = 0 /\ stime = utime
           /\ Calls("clock", <<clk, src>>, Readings(clk, src))
  BY DEF ReadClock
<1>2. PICK src : src = [tod |-> tod, utime |-> utime, stime |-> stime, mach |-> mach, mult |-> mult,
                        fails |-> fails, hires |-> hires]
  OBVIOUS
<1>3. Calls("clock", <<clk, src>>, Readings(clk, src))
  BY <1>1, <1>2
<1>4. mach \in 0 .. Clk!Word - 1
  <2>1. PICK h \in Nat : h = Clk!H /\ h >= 2 /\ Clk!Word = h * h
    BY WordFacts
  <2>2. 2 * 2 <= h * 2 /\ 2 * h <= h * h
    BY <2>1, TimesMono
  <2> QED
    BY <2>1, <2>2
<1>5. mult \in Nat
  <2>1. Clk!NullScale = Clk!H * 2 ^ Extra /\ Clk!H \in Nat /\ 2 ^ Extra \in Nat
    BY WordAssumption
  <2> QED
    BY <2>1
<1>6. src \in Sources
  BY <1>2, <1>4, <1>5 DEF Sources
<1> QED
  BY <1>3, <1>6, Zenon DEF Calls

(* The four that compute call what they are named after.                   *)
LEMMA ComputedIs ==
  /\ MiddleWord => fn' = "mmul64"
  /\ Scale => fn' = "mach2nanos"
  /\ Timespec => fn' = "nanos2timespec"
  /\ SinceBoot => fn' = "tvdiff2mach"
<1>1. MiddleWord => fn' = "mmul64"
  BY Zenon DEF MiddleWord, Calls
<1>2. Scale => fn' = "mach2nanos"
  BY Zenon DEF Scale, Calls
<1>3. Timespec => fn' = "nanos2timespec"
  BY Zenon DEF Timespec, Calls
<1>4. SinceBoot => fn' = "tvdiff2mach"
  BY ZenonT(60) DEF SinceBoot, Calls
<1> QED
  BY <1>1, <1>2, <1>3, <1>4

(* Every action calls the function that it is named after.                 *)
LEMMA CalledIs ==
  ASSUME Next
  PROVE  \/ (MiddleWord /\ fn' = "mmul64") \/ (Scale /\ fn' = "mach2nanos")
         \/ (Timespec /\ fn' = "nanos2timespec") \/ (SinceBoot /\ fn' = "tvdiff2mach")
         \/ (ReadClock /\ fn' = "clock")
         \/ (PackUnpack /\ fn' = "copyfile") \/ (PointerTest /\ fn' = "pointers")
         \/ (Receive /\ fn' = "recvmsg") \/ (ReceiveRosetta /\ fn' = "recvmsg_ppc")
         \/ (FindString /\ fn' = "memmem") \/ (CopyString /\ fn' = "stpncpy")
         \/ (CompareCase /\ fn' = "wcsncasecmp") \/ (FindBit /\ fn' = "ffs")
         \/ (Boottime /\ fn' = "sysctl") \/ (Memalign /\ fn' = "posix_memalign")
         \/ (SetTimes /\ fn' = "utimensat")
         \/ (SystemConf /\ fn' = "sysconf") \/ (PrintToFd /\ fn' = "dprintf")
         \/ (CheckMemory /\ fn' = "check_access")
         \/ (StatFile /\ fn' = "stat") \/ (StatDescriptor /\ fn' = "fstatx_np")
         \/ (FilePath /\ fn' = "getpath") \/ (FindCommand /\ fn' = "which")
         \/ (DrawBelow /\ fn' = "uniform") \/ (SampleClock /\ fn' = "clock_hist")
         \/ (CompareClock /\ fn' = "clock_hist2") \/ (Return /\ fn' = "idle")
<1>1. /\ PackUnpack => fn' = "copyfile"
      /\ PointerTest => fn' = "pointers"
      /\ Receive => fn' = "recvmsg"
      /\ ReceiveRosetta => fn' = "recvmsg_ppc"
  BY Zenon DEF PackUnpack, PointerTest, Receive, ReceiveRosetta, Calls
<1>2. /\ FindString => fn' = "memmem"
      /\ CopyString => fn' = "stpncpy"
      /\ CompareCase => fn' = "wcsncasecmp"
      /\ FindBit => fn' = "ffs"
  BY Zenon DEF FindString, CopyString, CompareCase, FindBit, Calls
<1>3. /\ Boottime => fn' = "sysctl"
      /\ Memalign => fn' = "posix_memalign"
      /\ SetTimes => fn' = "utimensat"
  BY Zenon DEF Boottime, Memalign, SetTimes, Calls
<1>4. /\ SystemConf => fn' = "sysconf"
      /\ PrintToFd => fn' = "dprintf"
      /\ CheckMemory => fn' = "check_access"
  BY Zenon DEF SystemConf, PrintToFd, CheckMemory, Calls
<1>5. /\ StatFile => fn' = "stat"
      /\ StatDescriptor => fn' = "fstatx_np"
      /\ FilePath => fn' = "getpath"
      /\ FindCommand => fn' = "which"
  BY Zenon DEF StatFile, StatDescriptor, FilePath, FindCommand, Calls
<1>6. /\ DrawBelow => fn' = "uniform"
      /\ SampleClock => fn' = "clock_hist"
      /\ CompareClock => fn' = "clock_hist2"
      /\ Return => fn' = "idle"
  BY Zenon DEF DrawBelow, SampleClock, CompareClock, Return, Calls
<1>7. ReadClock => fn' = "clock"
  BY ClockIsRead
<1>8. \/ MiddleWord \/ Scale \/ Timespec \/ SinceBoot \/ ReadClock
      \/ PackUnpack \/ PointerTest \/ Receive \/ ReceiveRosetta
      \/ FindString \/ CopyString \/ CompareCase \/ FindBit
      \/ Boottime \/ Memalign \/ SetTimes \/ SystemConf \/ PrintToFd
      \/ CheckMemory \/ StatFile \/ StatDescriptor \/ FilePath
      \/ FindCommand \/ DrawBelow \/ SampleClock \/ CompareClock \/ Return
  BY Zenon DEF Next
<1> QED
  BY <1>1, <1>2, <1>3, <1>4, <1>5, <1>6, <1>7, <1>8, ComputedIs

(* Only the actions named after them call the clock functions and          *)
(* arc4random_uniform.                                                     *)
LEMMA OtherCalls ==
  ASSUME Next, ~MiddleWord, ~Scale, ~Timespec, ~SinceBoot, ~ReadClock, ~DrawBelow
  PROVE  fn' \notin ClockCalls \cup {"uniform"}
BY CalledIs DEF ClockCalls

(* All other calls leave it true.                                          *)
LEMMA ClocksExactElsewhere ==
  ASSUME fn' \notin ClockCalls
  PROVE  ClocksExact'
BY DEF ClocksExact, MulExact, ScaledRight, SplitExact, SinceBootRight, ClockFormsAgree, ClockResolution,
       ClockCalls

(* And so does each of these, by its own lemma.                            *)
LEMMA ClocksExactStep ==
  ASSUME ClocksExact, [Next]_vars
  PROVE  ClocksExact'
<1>1. CASE MiddleWord
  <2>1. PICK a \in 0 .. Clk!Word - 1, b \in 0 .. Clk!Word - 1 :
          fn' = "mmul64" /\ in' = <<a, b>> /\ out' = Clk!MiddleProduct(a, b)
    BY <1>1 DEF MiddleWord, Calls
  <2>2. Clk!MiddleExact(a, b, Clk!MiddleProduct(a, b))
    BY MiddleProductExact
  <2>3. in'[1] = a /\ in'[2] = b
    BY <2>1
  <2>4. MulExact'
    BY <2>1, <2>2, <2>3, Zenon DEF MulExact
  <2> QED
    BY <2>1, <2>4 DEF ClocksExact, ScaledRight, SplitExact, SinceBootRight, ClockFormsAgree, ClockResolution
<1>2. CASE Scale
  <2>1. PICK mach \in 0 .. Clk!Word - 1, numer \in 1 .. Clk!H - 1, denom \in 1 .. Clk!H - 1 :
          /\ fn' = "mach2nanos" /\ in' = <<mach, numer, denom>>
          /\ out' = Clk!Mach2Nanos(mach, Clk!MachMult(numer, denom))
    BY <1>2 DEF Scale, Calls
  <2>2. Clk!ScaleAccurate(mach, numer, denom, Clk!Mach2Nanos(mach, Clk!MachMult(numer, denom)))
    BY ScaleIsAccurate
  <2>3. in'[1] = mach /\ in'[2] = numer /\ in'[3] = denom
    BY <2>1
  <2>4. ScaledRight'
    BY <2>1, <2>2, <2>3, Zenon DEF ScaledRight
  <2> QED
    BY <2>1, <2>4 DEF ClocksExact, MulExact, SplitExact, SinceBootRight, ClockFormsAgree, ClockResolution
<1>3. CASE Timespec
  <2>1. PICK nanos \in 0 .. Clk!Word - 1 :
          fn' = "nanos2timespec" /\ in' = nanos /\ out' = Clk!Nanos2Timespec(nanos)
    BY <1>3 DEF Timespec, Calls
  <2>2. Clk!TimespecExact(nanos, Clk!Nanos2Timespec(nanos))
    <3>1. nanos \in Nat
      BY WordFacts
    <3> QED
      BY <3>1, TimespecIsExact
  <2>3. SplitExact'
    BY <2>1, <2>2, Zenon DEF SplitExact
  <2> QED
    BY <2>1, <2>3 DEF ClocksExact, MulExact, ScaledRight, SinceBootRight, ClockFormsAgree, ClockResolution
<1>4. CASE SinceBoot
  <2>1. PICK now \in 0 .. Clk!H - 1, boot \in 0 .. Clk!H - 1, u1 \in 0 .. Million - 1,
             u2 \in 0 .. Million - 1, narrow \in BOOLEAN, numer \in 1 .. 2, denom \in 1 .. 2 :
          \E diff \in Clk!TvDiff2Mach([sec |-> IF narrow THEN Clk!Signed(now) ELSE now, usec |-> u1],
                                       [sec |-> IF narrow THEN Clk!Signed(boot) ELSE boot, usec |-> u2],
                                       narrow, numer, denom) :
            fn' = "tvdiff2mach" /\ in' = <<now, boot, u1 - u2, numer, denom>> /\ out' = diff
    BY <1>4, Zenon DEF SinceBoot, Calls
  <2>2. PICK tv1, tv2 :
          /\ tv1 = [sec |-> IF narrow THEN Clk!Signed(now) ELSE now, usec |-> u1]
          /\ tv2 = [sec |-> IF narrow THEN Clk!Signed(boot) ELSE boot, usec |-> u2]
    OBVIOUS
  <2>3. /\ tv1.usec = u1 /\ tv2.usec = u2
        /\ tv1.sec = (IF narrow THEN Clk!Signed(now) ELSE now)
        /\ tv2.sec = (IF narrow THEN Clk!Signed(boot) ELSE boot)
    BY <2>2
  <2>4. numer \in Nat \ {0} /\ denom \in Nat \ {0}
    OBVIOUS
  <2>5. ASSUME NEW mach \in Clk!TvDiff2Mach(tv1, tv2, narrow, numer, denom)
        PROVE  Clk!DifferenceRight(now, boot, u1 - u2, numer, denom, mach)
    BY <2>3, <2>4, DifferenceIsRight, Zenon
  <2>6. in'[1] = now /\ in'[2] = boot /\ in'[3] = u1 - u2 /\ in'[4] = numer /\ in'[5] = denom
    BY <2>1
  <2>7. out' \in Clk!TvDiff2Mach(tv1, tv2, narrow, numer, denom)
    BY <2>1, <2>2, Zenon
  <2>8. SinceBootRight'
    BY <2>5, <2>6, <2>7, Zenon DEF SinceBootRight
  <2> QED
    BY <2>1, <2>8 DEF ClocksExact, MulExact, ScaledRight, SplitExact, ClockFormsAgree, ClockResolution
<1>5. CASE ReadClock
  <2>1. PICK clk \in Clk!Clocks, src \in Sources :
          fn' = "clock" /\ in' = <<clk, src>> /\ out' = Readings(clk, src)
    BY <1>5, ClockIsRead
  <2>2. in'[1] = clk /\ in'[2] = src
    BY <2>1
  <2>3. PICK g, n, set, utc, res :
          /\ g = Clk!ClockGettime(clk, src) /\ n = Clk!ClockNsec(clk, src)
          /\ set = Clk!ClockSettime(g.ts) /\ utc = Clk!TimespecGet(Clk!TimeUtc, src)
          /\ res = Clk!ClockGetres(clk, src)
    OBVIOUS
  <2>4. out' = [ts |-> g, ns |-> n, set |-> set, utc |-> utc, res |-> res]
    BY <2>1, <2>3, Zenon DEF Readings
  <2>5. out'.ts = g /\ out'.ns = n /\ out'.set = set /\ out'.utc = utc /\ out'.res = res
    BY <2>4
  <2>6. Clk!FormsAgree(clk, src, g, n)
    BY <2>3, FormsAgreeRight, Zenon
  <2>7. clk = "REALTIME" => set = src.tod /\ (utc = Clk!TimeUtc <=> g.ret = 0)
    BY <2>3, SetBack, Zenon
  <2>8. Clk!ResolutionKept(clk, n, res)
    BY <2>3, ResolutionRight, Zenon
  <2>9. ClockFormsAgree'
    BY <2>2, <2>5, <2>6, <2>7, Zenon DEF ClockFormsAgree
  <2>10. ClockResolution'
    BY <2>2, <2>5, <2>8, Zenon DEF ClockResolution
  <2> QED
    BY <2>1, <2>9, <2>10 DEF ClocksExact, MulExact, ScaledRight, SplitExact, SinceBootRight
<1>6. CASE DrawBelow
  <2>1. fn' = "uniform"
    BY <1>6 DEF DrawBelow, Calls
  <2> QED
    BY <2>1, ClocksExactElsewhere DEF ClockCalls
<1>7. CASE Next /\ ~MiddleWord /\ ~Scale /\ ~Timespec /\ ~SinceBoot /\ ~ReadClock /\ ~DrawBelow
  BY <1>7, OtherCalls, ClocksExactElsewhere
<1>8. CASE UNCHANGED vars
  BY <1>8, Zenon DEF vars, ClocksExact, MulExact, ScaledRight, SplitExact, SinceBootRight, ClockFormsAgree,
     ClockResolution
<1> QED
  BY <1>1, <1>2, <1>3, <1>4, <1>5, <1>6, <1>7, <1>8, Zenon

(* For every width of a word, every multiplier that setup_mach_mult makes and every reading, *)
(* the half-word arithmetic of time.c is exact: mmul64 is the middle of the product, the     *)
(* scaled time is off by less than a nanosecond and the multiplier's rounding, the           *)
(* remainder of nanos2timespec is right, the time since boot is up to the rounding of        *)
(* doubles of any precision, and the two forms of every clock agree on time and errors (but  *)
(* for the thread's clock without a scale) and keep the resolution that clock_getres states. *)
THEOREM ClocksAreExact == Spec => []ClocksExact
<1>1. Init => ClocksExact
  BY DEF Init, ClocksExact, MulExact, ScaledRight, SplitExact, SinceBootRight, ClockFormsAgree,
         ClockResolution
<1>2. ClocksExact /\ [Next]_vars => ClocksExact'
  BY ClocksExactStep
<1> QED
  BY <1>1, <1>2, PTL DEF Spec

-----------------------------------------------------------------------------
(* However many values the generator has and whatever the bound, each number below the bound *)
(* stands for equally many of the values that arc4random_uniform does not reject, and fewer   *)
(* than half are rejected.                                                                   *)
THEOREM UniformIsFair == Spec => []NoModuloBias
<1>1. Init => NoModuloBias
  BY DEF Init, NoModuloBias
<1>2. ASSUME NoModuloBias, [Next]_vars PROVE NoModuloBias'
  <2>1. CASE DrawBelow
    <3>1. PICK upper \in 0 .. UWord - 1 : in' = upper /\ out' = Uni!RandomUniform(upper)
      BY <2>1 DEF DrawBelow, Calls
    <3>2. Uni!Unbiased(upper, Uni!RandomUniform(upper))
      BY UniformIsUnbiased
    <3> QED
      BY <3>1, <3>2, Zenon DEF NoModuloBias
  <2>2. ASSUME MiddleWord \/ Scale \/ Timespec \/ SinceBoot \/ ReadClock PROVE fn' # "uniform"
    <3>1. ASSUME MiddleWord \/ Scale \/ Timespec \/ SinceBoot PROVE fn' # "uniform"
      BY <3>1, ComputedIs
    <3>2. ASSUME ReadClock PROVE fn' = "clock"
      BY <3>2, ClockIsRead
    <3> QED
      BY <2>2, <3>1, <3>2
  <2>3. CASE Next /\ ~DrawBelow
    <3>1. fn' # "uniform"
      BY <2>2, <2>3, OtherCalls, Zenon
    <3> QED
      BY <3>1 DEF NoModuloBias
  <2>4. CASE UNCHANGED vars
    BY <1>2, <2>4, Zenon DEF vars, NoModuloBias
  <2> QED
    BY <1>2, <2>1, <2>3, <2>4
<1> QED
  BY <1>1, <1>2, PTL DEF Spec

-----------------------------------------------------------------------------
(* The calls that FilesRight is about.                                     *)
FileCalls == {"check_access", "stat", "fstatx_np", "getpath", "utimensat", "dprintf"}

LEMMA FilesRightElsewhere ==
  ASSUME fn' \notin FileCalls
  PROVE  FilesRight'
BY DEF FilesRight, MemoryChecked, StatConverted, DescriptorKept, PathForGoodBuffers, TimesAsAsked,
       DprintfRight, FileCalls

(* Each of them is right, by its own lemma.                                *)
LEMMA FilesRightStep ==
  ASSUME FilesRight, [Next]_vars
  PROVE  FilesRight'
<1> USE DEF FilesRight, MemoryChecked, StatConverted, DescriptorKept, PathForGoodBuffers, TimesAsAsked,
            DprintfRight
<1>1. CASE CheckMemory
  <2>1. PICK mem \in Memories, start \in Bytes, size \in 1 .. VmPage + 1, okadr \in {Sta!NoAdr} \cup Bytes :
          /\ okadr # Sta!NoAdr => okadr \in {start, start - 1}
          /\ fn' = "check_access" /\ in' = <<mem, start, size, okadr>>
          /\ out' = Sta!CheckAccess(mem, start, size, okadr)
    BY <1>1, Zenon DEF CheckMemory, Calls
  <2>2. start \in Nat /\ okadr \in Int
    BY PageAssumption DEF Bytes, Sta!NoAdr
  <2>3. Sta!AccessExact(mem, start, size, okadr, Sta!CheckAccess(mem, start, size, okadr))
    BY <2>2, CheckIsExact, Zenon DEF Sta!AccessExact
  <2>4. in'[1] = mem /\ in'[2] = start /\ in'[3] = size /\ in'[4] = okadr
    BY <2>1
  <2>5. Sta!AccessExact(in[1], in[2], in[3], in[4], out)'
    BY <2>1, <2>3, <2>4, Zenon
  <2> QED
    BY <2>1, <2>5
<1>2. CASE StatFile
  <2>1. PICK mem \in Memories, adr \in 0 .. 3 * VmPage, mtime \in Times, ctime \in Times,
             fails \in BOOLEAN, ppc64 \in BOOLEAN :
          LET st == [atime |-> <<3, 3>>, mtime |-> mtime, ctime |-> ctime, rest |-> "rest"]
          IN /\ mem[3] = "none" /\ mem[4] = "none"
             /\ fn' = "stat" /\ in' = <<mem, adr, st, fails, ppc64>>
             /\ out' = Sta!Stat64(mem, adr, st, fails, ppc64)
    BY <1>2 DEF StatFile, Calls
  <2>2. PICK st : st = [atime |-> <<3, 3>>, mtime |-> mtime, ctime |-> ctime, rest |-> "rest"]
    OBVIOUS
  <2>3. /\ fn' = "stat" /\ in' = <<mem, adr, st, fails, ppc64>>
        /\ out' = Sta!Stat64(mem, adr, st, fails, ppc64)
    BY <2>1, <2>2, Zenon
  <2>4. adr \in Nat
    BY PageAssumption
  <2>5. Sta!StatWhole(mem, adr, st, fails, ppc64, Sta!Stat64(mem, adr, st, fails, ppc64))
    BY <2>2, <2>4, StatIsWhole, Zenon
  <2>6. in'[1] = mem /\ in'[2] = adr /\ in'[3] = st /\ in'[4] = fails /\ in'[5] = ppc64
    BY <2>3
  <2>7. Sta!StatWhole(in[1], in[2], in[3], in[4], in[5], out)'
    BY <2>3, <2>5, <2>6, Zenon
  <2> QED
    BY <2>3, <2>7
<1>3. CASE StatDescriptor
  <2>1. PICK fd \in 0 .. 15, fsec \in BOOLEAN, sysctlFails \in BOOLEAN, native \in BOOLEAN,
             tiger \in BOOLEAN, known \in BOOLEAN :
          LET env == [sysctlFails |-> sysctlFails, native |-> native, tiger |-> tiger]
              cached == IF known THEN Sta!IsTigerRosetta(env) ELSE 0
          IN /\ fn' = "fstatx_np" /\ in' = <<fd, fsec, env>>
             /\ out' = Sta!FdPassed(cached, fsec, fd, env)
    BY <1>3, Zenon DEF StatDescriptor, Calls
  <2>2. PICK env : env = [sysctlFails |-> sysctlFails, native |-> native, tiger |-> tiger]
    OBVIOUS
  <2>3. PICK cached : cached = IF known THEN Sta!IsTigerRosetta(env) ELSE 0
    OBVIOUS
  <2>4. fn' = "fstatx_np" /\ in' = <<fd, fsec, env>> /\ out' = Sta!FdPassed(cached, fsec, fd, env)
    BY <2>1, <2>2, <2>3, Zenon
  <2>5. Sta!RightFd(fd, fsec, Sta!FdPassed(cached, fsec, fd, env), env)
    BY <2>3, FdIsRight, Zenon
  <2>6. in'[1] = fd /\ in'[2] = fsec /\ in'[3] = env
    BY <2>4
  <2>7. Sta!RightFd(in[1], in[2], out, in[3])'
    BY <2>4, <2>5, <2>6, Zenon
  <2> QED
    BY <2>4, <2>7
<1>4. CASE FilePath
  <2>1. PICK mem \in Memories, adr \in 0 .. 5 * VmPage - MaxPathLen :
          fn' = "getpath" /\ in' = <<mem, adr>> /\ out' = Sta!GetPath(mem, adr)
    BY <1>4, Zenon DEF FilePath, Calls
  <2>2. adr \in Nat
    BY PageAssumption
  <2>3. Sta!PathAnswered(mem, adr, Sta!GetPath(mem, adr))
    BY <2>2, PathIsAnswered, Zenon
  <2>4. in'[1] = mem /\ in'[2] = adr
    BY <2>1
  <2>5. Sta!PathAnswered(in[1], in[2], out)'
    BY <2>1, <2>3, <2>4, Zenon
  <2> QED
    BY <2>1, <2>5
<1>5. CASE SetTimes
  <2> DEFINE file == [atime |-> [sec |-> 0, nsec |-> 1], mtime |-> [sec |-> 0, nsec |-> 2]]
             now == [sec |-> 2, nsec |-> 3]
             Asked == [sec : {1}, nsec : {Ft!UtimeNow, Ft!UtimeOmit, 5}]
  <2>1. PICK a \in Asked, m \in Asked, null \in BOOLEAN, faulty \in BOOLEAN, nomem \in BOOLEAN :
          LET times == IF null THEN <<>> ELSE <<a, m>>
          IN /\ fn' = "utimensat" /\ in' = <<file, times, now, nomem>>
             /\ out' = Ft!UTimens(file, times, now, faulty, nomem)
    BY <1>5, Zenon DEF SetTimes, Calls
  <2>2. PICK times : times = IF null THEN <<>> ELSE <<a, m>>
    OBVIOUS
  <2>3. \E x, y : Ft!TimesIn(times) = <<x, y>> /\ x.nsec \in Int /\ y.nsec \in Int
    <3>1. CASE null
      <4> DEFINE z == [sec |-> 0, nsec |-> Ft!UtimeNow]
      <4>1. Ft!TimesIn(times) = <<z, z>>
        BY <2>2, <3>1 DEF Ft!TimesIn
      <4>2. z.nsec \in Int
        BY DEF Ft!UtimeNow
      <4> QED
        BY <4>1, <4>2, Zenon
    <3>2. CASE ~null
      <4>1. <<a, m>> # <<>>
        OBVIOUS
      <4>2. Ft!TimesIn(times) = <<a, m>>
        BY <2>2, <3>2, <4>1, Zenon DEF Ft!TimesIn
      <4>3. a.nsec \in Int /\ m.nsec \in Int
        BY DEF Ft!UtimeNow, Ft!UtimeOmit
      <4> QED
        BY <4>2, <4>3, Zenon
    <3> QED
      BY <3>1, <3>2
  <2>4. PICK x, y : Ft!TimesIn(times) = <<x, y>> /\ x.nsec \in Int /\ y.nsec \in Int
    BY <2>3, Zenon
  <2>5. now.nsec \in Nat /\ file = [atime |-> file.atime, mtime |-> file.mtime]
    OBVIOUS
  <2> HIDE DEF file, now
  <2>6. fn' = "utimensat" /\ in' = <<file, times, now, nomem>>
        /\ out' = Ft!UTimens(file, times, now, faulty, nomem)
    BY <2>1, <2>2, Zenon
  <2>7. Ft!TimesSet(file, times, now, nomem, Ft!UTimens(file, times, now, faulty, nomem))
    BY <2>4, <2>5, TimesAreSet, Zenon
  <2>8. in'[1] = file /\ in'[2] = times /\ in'[3] = now /\ in'[4] = nomem
    BY <2>6
  <2>9. Ft!TimesSet(in[1], in[2], in[3], in[4], out)'
    BY <2>6, <2>7, <2>8, Zenon
  <2> QED
    BY <2>6, <2>9
<1>6. CASE PrintToFd
  <2>1. PICK fdopens \in BOOLEAN, asExpected \in BOOLEAN, n \in 0 .. 3 * StdioBuf, room \in 0 .. 3 * StdioBuf :
          /\ fn' = "dprintf" /\ in' = <<asExpected, n, room>>
          /\ out' = Dp!VDPrintf(fdopens, asExpected, n, room)
    BY <1>6, Zenon DEF PrintToFd, Calls
  <2>2. n \in Nat /\ room \in Nat
    BY StdioAssumption
  <2>3. Dp!PrintedAll(asExpected, n, room, Dp!VDPrintf(fdopens, asExpected, n, room))
    BY <2>2, DprintfIsRight, Zenon
  <2>4. in'[1] = asExpected /\ in'[2] = n /\ in'[3] = room
    BY <2>1
  <2>5. Dp!PrintedAll(in[1], in[2], in[3], out)'
    BY <2>1, <2>3, <2>4, Zenon
  <2> QED
    BY <2>1, <2>5
<1>7. CASE Next /\ ~CheckMemory /\ ~StatFile /\ ~StatDescriptor /\ ~FilePath /\ ~SetTimes /\ ~PrintToFd
  <2>1. fn' \notin FileCalls
    BY <1>7, CalledIs DEF FileCalls
  <2> QED
    BY <2>1, FilesRightElsewhere
<1>8. CASE UNCHANGED vars
  BY <1>8, Zenon DEF vars
<1> QED
  BY <1>1, <1>2, <1>3, <1>4, <1>5, <1>6, <1>7, <1>8, Zenon

(* For every size of a page, of a stat and of a path that is not longer than a page, and of  *)
(* stdio's buffer: the check of the caller's memory lets exactly the writable ranges through, *)
(* a stat is whole or not there, F_GETPATH answers for every good buffer and for no other,   *)
(* the descriptor is the caller's, file times are those asked for, and dprintf has written   *)
(* what it says.                                                                             *)
THEOREM FilesAreRight == Spec => []FilesRight
<1>1. Init => FilesRight
  BY DEF Init, FilesRight, MemoryChecked, StatConverted, DescriptorKept, PathForGoodBuffers, TimesAsAsked,
         DprintfRight
<1>2. FilesRight /\ [Next]_vars => FilesRight'
  BY FilesRightStep
<1> QED
  BY <1>1, <1>2, PTL DEF Spec

-----------------------------------------------------------------------------
(* ClocksExact for every word size, and the boot time for both kernels and every buffer.     *)
THEOREM ClocksAreRight == Spec => []ClocksRight
<1>1. Init => BoottimeFixed
  BY DEF Init, BoottimeFixed
<1>2. ASSUME BoottimeFixed, [Next]_vars PROVE BoottimeFixed'
  <2>1. CASE Boottime
    <3>1. PICK size \in 0 .. 5, oldlen \in 0 .. 5, kernel32 \in BOOLEAN, isBoottime \in BOOLEAN :
            LET buf == [i \in 1 .. size |-> 9]
                tv == [sec |-> 6, usec |-> 3]
            IN /\ oldlen <= size /\ fn' = "sysctl" /\ in' = <<buf, oldlen, tv, isBoottime>>
               /\ out' = Sys!Sysctl(isBoottime, buf, oldlen, tv, kernel32)
      BY <2>1, Zenon DEF Boottime, Calls
    <3>2. PICK buf, tv : buf = [i \in 1 .. size |-> 9] /\ tv = [sec |-> 6, usec |-> 3]
      OBVIOUS
    <3>3. /\ oldlen <= size /\ fn' = "sysctl" /\ in' = <<buf, oldlen, tv, isBoottime>>
          /\ out' = Sys!Sysctl(isBoottime, buf, oldlen, tv, kernel32)
      BY <3>1, <3>2, Zenon
    <3>4. in'[1] = buf /\ in'[2] = oldlen /\ in'[3] = tv /\ in'[4] = isBoottime
      BY <3>3
    <3>5. buf \in Seq(Int) /\ Len(buf) = size
      BY <3>2
    <3>6. oldlen \in 0 .. Len(buf) /\ tv.sec \in Int /\ tv.usec \in Int
      BY <3>2, <3>3, <3>5
    <3>7. Sys!BoottimeRight(buf, oldlen, tv, Sys!Sysctl(TRUE, buf, oldlen, tv, kernel32))
      BY <3>5, <3>6, BoottimeIsRight, Zenon
    <3>8. isBoottime => isBoottime = TRUE
      OBVIOUS
    <3> QED
      BY <3>3, <3>4, <3>7, <3>8, Zenon DEF BoottimeFixed
  <2>2. CASE Next /\ ~Boottime
    <3>1. fn' # "sysctl"
      BY <2>2, CalledIs DEF FileCalls
    <3> QED
      BY <3>1 DEF BoottimeFixed
  <2>3. CASE UNCHANGED vars
    BY <1>2, <2>3, Zenon DEF vars, BoottimeFixed
  <2> QED
    BY <1>2, <2>1, <2>2, <2>3
<1> QED
  BY <1>1, <1>2, ClocksAreExact, PTL DEF Spec, ClocksRight
=============================================================================
