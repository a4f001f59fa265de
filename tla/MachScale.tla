----------------------------- MODULE MachScale -----------------------------
(***************************************************************************)
(* The arithmetic of the clock functions, src/time.c: mach units scaled to *)
(* nanoseconds with a fixed-point multiplier in double words, nanoseconds  *)
(* split with single words, and the two forms in which a clock is read.    *)
(*                                                                         *)
(* A half word has Half bits (32 in the code) and a word twice as many;    *)
(* every result that the code keeps in a word or half word is cut to it.   *)
(***************************************************************************)
EXTENDS Integers

CONSTANTS
  Half,        \* bits of a half word
  Extra,       \* EXTRA_SHIFT
  Thousand,    \* nanoseconds in a microsecond
  Million,     \* microseconds in a second
  Precision    \* the whole numbers up to here are doubles (2^53)

H == 2 ^ Half
Word == H * H
Billion == Thousand * Million
HighShift == Half + Extra
NullScale == 2 ^ HighShift

\* The resolution of the clocks, in nanoseconds (res_micros).
ResMicros == Thousand

\* A numerator fits if it has none of the bits of NUMERATOR_MASK.
FitsShift(numer) == numer < 2 ^ (2 * Half - HighShift)

\* setup_mach_mult: numer / denom as a fixed-point multiplier.
MachMult(numer, denom) ==
  IF FitsShift(numer)
  THEN (((numer * NullScale) % Word) + (denom \div 2)) \div denom
  ELSE (((((numer * H) % Word) + (denom \div 2)) \div denom) * 2 ^ Extra) % Word

\* The carries into the high product: the shifts come before the additions.
Fold(high, mid1, mid2) == (high + (mid1 \div H) + (mid2 \div H)) % Word

\* mmul64: the middle word of the product of two words.
MiddleProduct(a, b) ==
  LET low == ((a % H) * (b % H)) % Word
      mid2 == ((a \div H) * (b % H)) % Word
      mid1 == (((a % H) * (b \div H)) + (mid2 % H) + (low \div H)) % Word
      high == Fold(((a \div H) * (b \div H)) % Word, mid1, mid2)
  IN ((high * H) + (mid1 % H)) % Word

Mach2Nanos(mach, mult) ==
  IF mult = NullScale THEN mach ELSE MiddleProduct(mach, mult) \div (2 ^ Extra)

\* Mutant: the remainder is taken from the low half of the nanoseconds alone.
NanoRemainderLow(nanos, secs) == (nanos % H) % Billion

\* nanorem: multiplied and subtracted in half words.
NanoRemainder(nanos, secs) == ((nanos % H) - ((secs % H) * Billion)) % H

Nanos2Timespec(nanos) ==
  [sec |-> nanos \div Billion, nsec |-> NanoRemainder(nanos, nanos \div Billion)]

\* res_mach: nanoseconds per count, rounded up.
ResMach(mult) == ((mult + NullScale - 1) % Word) \div NullScale

-----------------------------------------------------------------------------
(* The clocks.  What they are read from, src: tod, utime and stime are     *)
(* timevals [sec, usec], mach is the count of a clock that has one, mult   *)
(* the multiplier (0 without a scale), fails the calls that fail, hires    *)
(* whether the build has __thread_selfusage (10.10 on).                    *)

MachClocks == {"MONOTONIC_RAW", "MONOTONIC_RAW_APPROX", "UPTIME_RAW", "UPTIME_RAW_APPROX"}
Clocks == MachClocks \cup {"REALTIME", "PROCESS_CPUTIME", "THREAD_CPUTIME", "MONOTONIC"}

\* The microseconds of two times may make a second more.
Carry(ts) == IF ts.nsec >= Billion THEN [sec |-> ts.sec + 1, nsec |-> ts.nsec - Billion] ELSE ts

\* get_thread_usage_ns and get_thread_usage_ts from 10.10 on: a count of 0 is an
\* error, and a scale that could not be obtained is none for the second.
SelfusageNs(src) == Mach2Nanos(src.mach, src.mult)
SelfusageTs(src) ==
  [ret |-> IF src.mach = 0 THEN -1 ELSE 0, ts |-> Nanos2Timespec(Mach2Nanos(src.mach, src.mult))]

\* Before: a usage of nothing is one nanosecond, 0 being an error.
ThreadUsageNs(src) ==
  LET n == (src.utime.sec + src.stime.sec) * Billion
           + (src.utime.usec + src.stime.usec) * Thousand
  IN IF src.hires THEN SelfusageNs(src)
     ELSE IF "thread_info" \in src.fails THEN 0 ELSE IF n = 0 THEN 1 ELSE n

ThreadUsageTs(src) ==
  LET ts == Carry([sec |-> src.utime.sec + src.stime.sec,
                   nsec |-> (src.utime.usec + src.stime.usec) * Thousand])
  IN IF src.hires THEN SelfusageTs(src)
     ELSE [ret |-> IF "thread_info" \in src.fails THEN -1 ELSE 0,
           ts |-> IF ts = [sec |-> 0, nsec |-> 0] THEN [ts EXCEPT !.nsec = 1] ELSE ts]

\* clock_gettime_nsec_np; 0 is an error.
ClockNsec(clk, src) ==
  CASE clk = "REALTIME" ->
         IF "gettimeofday" \in src.fails THEN 0 ELSE src.tod.sec * Billion + src.tod.usec * Thousand
    [] clk = "PROCESS_CPUTIME" ->
         IF "getrusage" \in src.fails THEN 0
         ELSE (src.utime.sec + src.stime.sec) * Billion + (src.utime.usec + src.stime.usec) * Thousand
    [] clk = "THREAD_CPUTIME" -> ThreadUsageNs(src)
    [] clk = "MONOTONIC" -> (Mach2Nanos(src.mach, src.mult) \div Thousand) * Thousand
    [] clk \in MachClocks -> Mach2Nanos(src.mach, src.mult)
    [] OTHER -> 0

Monotonic(src) == Nanos2Timespec((Mach2Nanos(src.mach, src.mult) \div Thousand) * Thousand)

\* The error of a scale that could not be obtained.
ScaleError(src) == IF src.mult = 0 THEN -1 ELSE 0

\* clock_gettime.
ClockGettime(clk, src) ==
  CASE clk = "REALTIME" ->
         [ret |-> IF "gettimeofday" \in src.fails THEN -1 ELSE 0,
          ts |-> [sec |-> src.tod.sec, nsec |-> src.tod.usec * Thousand]]
    [] clk = "PROCESS_CPUTIME" ->      \* timeradd, TIMEVAL_TO_TIMESPEC
         [ret |-> IF "getrusage" \in src.fails THEN -1 ELSE 0,
          ts |-> Carry([sec |-> src.utime.sec + src.stime.sec,
                        nsec |-> (src.utime.usec + src.stime.usec) * Thousand])]
    [] clk = "THREAD_CPUTIME" -> ThreadUsageTs(src)
    [] clk = "MONOTONIC" -> [ret |-> ScaleError(src), ts |-> Monotonic(src)]
    [] clk \in MachClocks ->
         [ret |-> ScaleError(src), ts |-> Nanos2Timespec(Mach2Nanos(src.mach, src.mult))]
    [] OTHER -> [ret |-> -1, ts |-> [sec |-> 0, nsec |-> 0]]

\* HIRES_THREAD_TIME puts the thread's clock among those that have mach units.
HasMachUnits(clk, src) == clk \in MachClocks \/ (clk = "THREAD_CPUTIME" /\ src.hires)

\* clock_getres.
ClockGetres(clk, src) ==
  CASE HasMachUnits(clk, src) -> [ret |-> ScaleError(src), nsec |-> ResMach(src.mult)]
    [] clk \in Clocks /\ ~HasMachUnits(clk, src) -> [ret |-> 0, nsec |-> ResMicros]
    [] OTHER -> [ret |-> -1, nsec |-> 0]

\* clock_settime of the real time: what settimeofday gets.
ClockSettime(ts) == [sec |-> ts.sec, usec |-> ts.nsec \div Thousand]

\* timespec_get.
TimeUtc == 1
TimespecGet(base, src) ==
  IF base = TimeUtc /\ ClockGettime("REALTIME", src).ret = 0 THEN base ELSE 0

-----------------------------------------------------------------------------
\* A time of day in a 32-bit time_t.
Signed(sec) == IF sec < H \div 2 THEN sec ELSE sec - H

\* 32-bit seconds are taken as unsigned, as is their difference.
SecondsApart(sec1, sec2, narrow) == IF narrow THEN (sec1 - sec2) % H ELSE sec1 - sec2

\* What a whole number may become as a double: what is not above Precision stays
\* exact, anything else is off by one part in Precision at most.  How it is
\* rounded is left open, since compilers may fuse a product and a sum.
Rounded(n) ==
  LET off == (IF n >= 0 THEN n ELSE -n) \div Precision
  IN n - off .. n + off

\* A quotient, rounded likewise and then truncated to a whole number.
Truncated(n, d) ==
  IF n % d = 0 THEN Rounded(n \div d)
  ELSE (n * (Precision - 1)) \div (Precision * d) .. (n * (Precision + 1)) \div (Precision * d)

\* tvdiff2mach: what it may return.
TvDiff2Mach(tv1, tv2, narrow, numer, denom) ==
  LET seconds == Rounded(SecondsApart(tv1.sec, tv2.sec, narrow) * Billion)
      tvdiffs == UNION {Rounded(s + (tv1.usec - tv2.usec) * Thousand) : s \in seconds}
      scaled  == UNION {Rounded(d * denom) : d \in tvdiffs}
  IN UNION {IF p >= 0 THEN Truncated(p, numer) ELSE {-q : q \in Truncated(-p, numer)} :
              p \in scaled}

-----------------------------------------------------------------------------
\* mmul64 is the middle word of the exact product.
MiddleExact(a, b, r) == r = ((a * b) \div H) % Word

\* The scaled time is off by less than a nanosecond and the rounding of the
\* multiplier (half a unit per count), while the shifted product fits in a word.
ScaleAccurate(mach, numer, denom, nanos) ==
  LET unit == IF FitsShift(numer) THEN 1 ELSE 2 ^ Extra
  IN mach * numer * 2 ^ Extra + mach * 2 ^ Extra < Word * denom
     /\ numer * 2 ^ Extra + denom < H * denom =>
       /\ (nanos - 1) * denom * NullScale * 2 <= mach * (2 * numer * NullScale + unit * denom)
       /\ (nanos + 1) * denom * NullScale * 2 >= mach * (2 * numer * NullScale - unit * denom)

\* The timespec of a number of nanoseconds is that number, its nanoseconds less
\* than a second (nanos2timespec).
TimespecExact(nanos, ts) ==
  ts = [sec |-> nanos \div Billion, nsec |-> nanos % Billion]

\* What keeps a clock from being read: the call that reads it fails, or there is
\* no scale.
Unreadable(clk, src) ==
  \/ clk = "REALTIME" /\ "gettimeofday" \in src.fails
  \/ clk = "PROCESS_CPUTIME" /\ "getrusage" \in src.fails
  \/ clk = "THREAD_CPUTIME" /\ ~src.hires /\ "thread_info" \in src.fails
  \/ (HasMachUnits(clk, src) \/ clk = "MONOTONIC") /\ src.mult = 0

\* The two forms have the same time, with nanoseconds below a second, or both an error.
SameTime(g, n) ==
  IF g.ret = 0
  THEN g.ts.nsec \in 0 .. Billion - 1 /\ n = g.ts.sec * Billion + g.ts.nsec
  ELSE n = 0

\* clock_gettime and clock_gettime_nsec_np read the same time from the same
\* sources and tell of every error; only the thread's time without a scale is no
\* error for the first on 10.10 and later.
FormsAgree(clk, src, g, n) ==
  /\ SameTime(g, n)
  /\ Unreadable(clk, src) =>
       n = 0 /\ (g.ret = -1 \/ (clk = "THREAD_CPUTIME" /\ src.hires))

\* What clock_getres says a clock's readings are multiples of, they are.
ResolutionKept(clk, n, res) ==
  clk \in {"REALTIME", "PROCESS_CPUTIME", "MONOTONIC"} => n % res.nsec = 0

\* The difference of a time and one that is not of a later second, seconds being
\* counted without a sign, in whole mach units: exact as long as a double can hold
\* the nanoseconds, and otherwise off by the five operations' roundings.
DifferenceRight(now, boot, usecs, numer, denom, mach) ==
  LET ns     == (now - boot) * Billion + usecs * Thousand
      within == (ns + Billion) * denom
  IN now >= boot /\ ns >= 0 =>
       /\ within < Precision => mach * numer <= ns * denom /\ ns * denom < (mach + 1) * numer
       /\ Precision * (mach * numer) <= Precision * (ns * denom) + 5 * within
       /\ Precision * (ns * denom) < Precision * ((mach + 1) * numer) + 5 * within
=============================================================================
