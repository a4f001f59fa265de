----------------------------- MODULE ClockInfo ------------------------------
(***************************************************************************)
(* What tools/clock_info.c measures: samples of a clock, alone or between  *)
(* samples of mach_absolute_time, and the histogram of their differences.  *)
(* An instant is in nanoseconds; at is the sequence of instants at which   *)
(* the calls of one run are made, fail the call that fails (0 for none).   *)
(***************************************************************************)
EXTENDS Integers, Sequences, TLC

CONSTANTS Micro, MachUnit   \* nanoseconds of a microsecond and of a mach time unit

ClockTypes == {"mach", "timeofday", "gettime", "gettime_ns"}

\* The unit a clock of this type counts in.
UnitNs(type) == CASE type = "mach" -> MachUnit [] type = "timeofday" -> Micro [] OTHER -> 1

\* tv2nsec, mt2nsec and ts2nsec of what a clock that is ahead by skew shows.
ReadNs(type, instant, skew) == ((instant + skew) \div UnitNs(type)) * UnitNs(type)

\* Only the mach functions cannot fail.
CallFails(type, k, fail) == type # "mach" /\ k = fail

\* clock_collect: the first call warms up and its result is not looked at.
Collect(type, at, n, skew, fail) ==
  [err |-> \E k \in 2 .. n + 2 : CallFails(type, k, fail),
   ns  |-> [i \in 1 .. n + 1 |-> ReadNs(type, at[i + 1], skew)]]

\* clock_compare: two calls to warm up, then a reference before and after each of
\* n samples.
Compare(type, at, n, skew, fail) ==
  [err |-> \E i \in 1 .. n : CallFails(type, 2 * i + 2, fail),
   ns  |-> [i \in 1 .. n |-> ReadNs(type, at[2 * i + 2], skew)],
   ref |-> [i \in 1 .. n + 1 |-> ReadNs("mach", at[2 * i + 1], 0)]]

\* gen_deltas.
Deltas(ns) == [i \in 1 .. Len(ns) - 1 |-> ns[i + 1] - ns[i]]

\* gen_offsets: the mean difference of the ends, which is taken off again.
MeanDiff(ns, ref) ==
  LET n == Len(ns) IN (ns[1] + ns[n]) \div 2 - (ref[1] + ref[2] + ref[n] + ref[n + 1]) \div 4

Offsets(ns, ref) ==
  [i \in 1 .. Len(ns) |-> ns[i] - (ref[i] + ref[i + 1]) \div 2 - MeanDiff(ns, ref)]

\* hsort_diff.
SortDiffs(diffs) ==
  SortSeq([i \in 1 .. Len(diffs) |-> [diff |-> diffs[i], count |-> 0]],
          LAMBDA h1, h2 : h1.diff < h2.diff)

\* One turn of hcoll_diff's loop, which reads and writes the same buffer.
CollapseStep(p) ==
  IF p.buf[p.in].diff = p.buf[p.out].diff
  THEN [p EXCEPT !.buf[p.out].count = @ + 1, !.in = @ + 1]
  ELSE [p EXCEPT !.buf[p.out + 1] = p.buf[p.in], !.out = @ + 1]

\* hcoll_diff, in no more than two turns for an entry.
Collapse(h) ==
  LET turn[k \in 0 .. 2 * Len(h)] ==
        IF k = 0 THEN [buf |-> h, in |-> 1, out |-> 1]
        ELSE IF turn[k - 1].in > Len(h) THEN turn[k - 1] ELSE CollapseStep(turn[k - 1])
      end == turn[2 * Len(h)]
  IN SubSeq(end.buf, 1, end.out)

\* gen_hist and gen_hist2, after their differences.
Histogram(diffs) == Collapse(SortDiffs(diffs))

-----------------------------------------------------------------------------
\* The differences that occur, each once and in order, with how often they occur.
HistogramOf(diffs, h) ==
  /\ \A i \in 1 .. Len(h) - 1 : h[i].diff < h[i + 1].diff
  /\ {h[i].diff : i \in DOMAIN h} = {diffs[i] : i \in DOMAIN diffs}
  /\ \A i \in DOMAIN h :
       h[i].count = Len(SelectSeq(diffs, LAMBDA d : d = h[i].diff))

\* What an offset says of a clock that is skew ahead is right up to half of the
\* time between the two references and the units of the clocks.
OffsetsRight(type, skew, c, offsets) ==
  \A i \in DOMAIN offsets :
    LET found == offsets[i] + MeanDiff(c.ns, c.ref) - skew
        slack == (c.ref[i + 1] - c.ref[i] + 1) \div 2 + UnitNs(type) + MachUnit
    IN -slack <= found /\ found <= slack
=============================================================================
