------------------------------ MODULE ClockSet ------------------------------
(***************************************************************************)
(* manual_tests/libtest_settime.c, which sets the system's clock forward   *)
(* and back again with clock_settime while it reads the other clocks, and  *)
(* must leave the clock as it was, whatever fails. Times are in units of   *)
(* which Gran are a microsecond. Time passes between any two calls. The    *)
(* threads that keep the processors busy, the readings that are only       *)
(* printed and the mach clock, which cannot fail, are left out.            *)
(***************************************************************************)
EXTENDS Integers, Sequences

CONSTANTS
  Gran,     \* a microsecond
  Bump,     \* TIME_BUMP_MS
  Fudge,    \* FUDGE_NS
  Cycle,    \* ALIGN_CYCLE_NS
  Limit,    \* ALIGN_CYCLE_LIMIT_NS
  Extras,   \* values of the -x option
  Skews,    \* by how much clock_settime misses
  Lead,    \* by how much the clock is ahead of the raw one when it is right
  MaxLags   \* bound: units of time that pass between calls

VARIABLES
  raw,      \* CLOCK_MONOTONIC_RAW
  ahead,    \* the time of day minus raw
  cpc,      \* the next call of do_test
  info,     \* info_t, with the time at which the clock was found aligned
  orig,     \* orig_tv and when it was read; NoTime if tverr
  opts,     \* the -x option, and the library's error in setting the clock
  lags,
  excuse,   \* history: why do_test cannot put the clock back
  verdict   \* what main says

cvars == <<raw, ahead, cpc, info, orig, opts, lags, excuse, verdict>>

Readings == <<"init_raw", "init_mono", "init_boot", "init_real", "set1",
              "first_real", "middle_raw", "middle_mono", "middle_boot", "middle_real", "set2",
              "second_real", "final_mono", "final_boot", "final_raw", "restore">>
Boots == {"init_boot", "middle_boot", "final_boot"}
NoTime == [tv |-> -1, at |-> 0]

Micros(t) == t - (t % Gran)
TimeOfDay == Micros(raw + ahead)

CInit ==
  /\ raw = 0 /\ ahead = Lead /\ cpc = "align" /\ lags = 0
  /\ info = [r \in {Readings[i] : i \in DOMAIN Readings} \cup {"aligned"} |-> 0]
  /\ orig = NoTime /\ excuse = {} /\ verdict = "none"
  /\ opts \in [extra : Extras, skew : Skews]

Lag ==
  /\ cpc # "done" /\ lags < MaxLags
  /\ raw' = raw + 1 /\ lags' = lags + 1
  /\ UNCHANGED <<ahead, cpc, info, orig, opts, excuse, verdict>>

-----------------------------------------------------------------------------
\* Where in a cycle the test begins with -x.
Target(extra) == (Cycle + (extra - 1) * (Cycle \div 2) - Bump \div 2) % Cycle

\* The loop that waits for the target: usleep takes microseconds.
Align ==
  /\ cpc = "align"
  /\ LET target == Target(opts.extra)
         tod    == TimeOfDay % Cycle
         found  == opts.extra = 0
                   \/ (tod >= target /\ tod < (target + Limit) % Cycle)
     IN /\ cpc' = IF found THEN "save" ELSE cpc
        /\ info' = [info EXCEPT !["aligned"] = raw]
        /\ raw' = IF found THEN raw ELSE raw + Micros((target + Cycle - tod) % Cycle)
  /\ UNCHANGED <<ahead, orig, opts, lags, excuse, verdict>>

\* gettimeofday may fail, which is only remembered.
Save ==
  /\ cpc = "save" /\ cpc' = Readings[1]
  /\ orig' \in {NoTime, [tv |-> TimeOfDay, at |-> raw]}
  /\ UNCHANGED <<raw, ahead, info, opts, lags, excuse, verdict>>

\* The call after this one; boot times are only read with -x.
After(r) ==
  LET i == CHOOSE i \in DOMAIN Readings : Readings[i] = r
  IN IF Readings[i + 1] \in Boots /\ opts.extra = 0 THEN Readings[i + 2] ELSE Readings[i + 1]

Middle == {"first_real", "middle_raw", "middle_mono", "middle_real", "set2"}

\* do_test returns an error: without settimeofday the clock is as clock_settime left
\* it, and "middle_boot" returns although the clock is ahead.
ReturnError(r) ==
  /\ cpc' = "done" /\ verdict' = "error"
  /\ excuse' = excuse \cup (IF r = "middle_boot" THEN {"boottime"} ELSE {})
                      \cup (IF r \notin {"set1", "undo"} /\ opts.skew # 0 THEN {"skew"} ELSE {})

Reads(r) ==
  CASE r \in {"init_raw", "middle_raw", "final_raw"} -> raw
    [] r \in {"init_mono", "middle_mono", "final_mono"} -> Micros(raw)
    [] r \in {"init_real", "first_real", "middle_real", "second_real"} -> TimeOfDay
    [] OTHER -> 0

\* clock_getns takes a reading of 0 for an error only when errno says so, which the clocks
\* that count in mach units do not set.
Unset == {"init_raw", "init_mono", "middle_raw", "middle_mono", "final_mono", "final_raw"}

\* clock_getns and get_boottime_ns.
ReadClock ==
  /\ cpc \in {Readings[i] : i \in DOMAIN Readings} \ {"set1", "set2", "restore"}
  /\ \/ /\ info' = [info EXCEPT ![cpc] = Reads(cpc)]
        /\ cpc' = After(cpc)
        /\ UNCHANGED <<excuse, verdict>>
     \/ /\ cpc \in Unset
        /\ info' = [info EXCEPT ![cpc] = 0]
        /\ cpc' = After(cpc)
        /\ excuse' = excuse \cup {"unread"}
        /\ UNCHANGED verdict
     \/ cpc \in Middle /\ cpc' = "undo" /\ UNCHANGED <<info, excuse, verdict>>
     \/ cpc \notin Middle /\ ReturnError(cpc) /\ UNCHANGED info
  /\ UNCHANGED <<raw, ahead, orig, opts, lags>>

\* clock_setns.
SetTo(t) == ahead' = Micros(t) + opts.skew - raw

\* The clock forward, then back.
SetClock ==
  /\ cpc \in {"set1", "set2"}
  /\ LET t == IF cpc = "set1" THEN info["init_real"] + Bump ELSE info["middle_real"] - Bump
     IN \/ SetTo(t) /\ info' = [info EXCEPT ![cpc] = t] /\ cpc' = After(cpc) /\ UNCHANGED <<excuse, verdict>>
        \/ /\ IF cpc = "set1" THEN ReturnError(cpc) ELSE cpc' = "undo" /\ UNCHANGED <<excuse, verdict>>
           /\ UNCHANGED <<ahead, info>>
  /\ UNCHANGED <<raw, orig, opts, lags>>

\* Mutant: the saved time is not put back.
PutBackNot(t) == UNCHANGED ahead

\* settimeofday.
PutBack(t) == ahead' = t - raw

\* What went wrong while the clock was ahead is undone, by the time it was.
Undo ==
  /\ cpc = "undo"
  /\ \/ orig # NoTime /\ PutBack(orig.tv) /\ UNCHANGED excuse
     \/ UNCHANGED ahead /\ excuse' = excuse \cup {"settimeofday"}
  /\ cpc' = "done" /\ verdict' = "error"
  /\ UNCHANGED <<raw, info, orig, opts, lags>>

\* A reading of the clock that was set, and the time around setting and reading it.
Plausible(dur, diff) == dur >= 0 /\ diff <= dur + Fudge /\ -diff <= dur + Fudge

Passed ==
  /\ Plausible(info["middle_raw"] - info["init_raw"], info["first_real"] - info["set1"])
  /\ Plausible(info["final_raw"] - info["middle_raw"], info["second_real"] - info["set2"])
  /\ info["init_mono"] <= info["middle_mono"] /\ info["middle_mono"] <= info["final_mono"]

\* The saved time and what has passed since then are set; main looks at the readings.
Restore ==
  /\ cpc = "restore"
  /\ \/ orig # NoTime /\ PutBack(orig.tv + Micros(info["final_raw"] - info["init_raw"])) /\ UNCHANGED excuse
     \/ /\ UNCHANGED ahead
        /\ excuse' = excuse \cup (IF opts.skew = 0 THEN {} ELSE {"skew"})
  /\ cpc' = "done" /\ verdict' = IF Passed THEN "passed" ELSE "failed"
  /\ UNCHANGED <<raw, info, orig, opts, lags>>

CNext == Lag \/ Align \/ Save \/ ReadClock \/ SetClock \/ Undo \/ Restore

-----------------------------------------------------------------------------
\* The clock is never left ahead, and never behind by more than the test took and two
\* roundings, whatever failed and however clock_settime works ("While clock is futzed,
\* try to undo it on any error"). Left open: an error of settimeofday or gettimeofday,
\* a boot time that cannot be read while the clock is ahead, errors after the clock was set
\* back by a clock_settime that misses, and a mach clock that gives 0 (clock_getns).
ClockPutBack ==
  cpc = "done" /\ excuse = {} =>
    /\ ahead <= Lead
    /\ ahead >= Lead - lags - 2 * (Gran - 1)

\* The test passes when clock_settime is right and fails when it misses by more than
\* twice the time the test took, however long that was, if no mach clock gave 0.
VerdictRight ==
  LET took == info["final_raw"] - info["init_raw"]
      miss == IF opts.skew < 0 THEN -opts.skew ELSE opts.skew
  IN "unread" \notin excuse =>
     /\ verdict = "passed" => miss <= 2 * took + Fudge + Gran
     /\ verdict = "failed" => miss # 0

\* With -x the step forward crosses a second, or the middle of one, when the clock is
\* set soon after the wait ("align time to a suitable boundary").
BoundaryCrossed ==
  opts.extra > 0 /\ info["set1"] # 0
  /\ raw - info["aligned"] <= Bump \div 2 - Limit =>
    \E b \in (info["init_real"] + 1) .. info["set1"] : b % Cycle = ((opts.extra - 1) * (Cycle \div 2)) % Cycle
=============================================================================
