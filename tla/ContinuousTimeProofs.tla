------------------------ MODULE ContinuousTimeProofs ------------------------
(***************************************************************************)
(* Proofs about mach_continuous_time in builds that load and store a       *)
(* uint64_t at once, for any number of threads, any word, any sleep and    *)
(* any outcome of the calls into the system: continuous time never goes    *)
(* back, is not ahead of the time since boot, and counts the sleep before  *)
(* the launch.                                                             *)
(*                                                                         *)
(* The hypothesis Regular says which systems these are: the clock is set   *)
(* forward only, whether the boot time follows it or not; no sample's      *)
(* offset is negative, and none comes near the range of a uint64_t.        *)
(***************************************************************************)
EXTENDS ContinuousTime, TLAPS

\* The numbers a uint64_t can have.
Range64 == Word * Word

Regular ==
  /\ MaxSteps = 0 \/ Steps \subseteq Nat
  /\ \A j \in Jitters :
       /\ SleptBefore + j >= Delay
       /\ MaxAsleep + MaxStray + j + MaxNow + MinAdvance + (Range64 \div DriftDivisor) < Range64
  /\ MaxAsleep + MaxStray + MaxNow + MinAdvance + (Range64 \div DriftDivisor) < Range64

-----------------------------------------------------------------------------
(* Arithmetic.                                                             *)

\* A uint64_t has a range, and what is in it is kept.
LEMMA InRange ==
  /\ Range64 \in Nat \ {0}
  /\ \A n \in Int : Uint64(n) \in 0 .. Range64 - 1
  /\ \A n \in 0 .. Range64 - 1 : Uint64(n) = n
  <1>1. Range64 \in Nat \ {0}
    BY TimeAssumption DEF Range64
  <1> DEFINE m == Range64
  <1>2. \A n \in Int : n % m \in 0 .. m - 1
    <2> HIDE DEF m
    <2> QED
      BY <1>1 DEF m
  <1>3. \A n \in 0 .. m - 1 : n % m = n
    <2> m \in Nat \ {0}
      BY <1>1
    <2> HIDE DEF m
    <2> QED
      OBVIOUS
  <1> QED
    BY <1>1, <1>2, <1>3 DEF Uint64, Range64

\* Two words make up the number they come from.
LEMMA Words ==
  ASSUME NEW n \in 0 .. Range64 - 1
  PROVE  /\ HighWord(n) \in 0 .. Word - 1 /\ LowWord(n) \in 0 .. Word - 1
         /\ HighWord(n) * Word + LowWord(n) = n
  <1> DEFINE q == n \div Word
             r == n % Word
  <1>1. Word \in Nat \ {0} /\ n \in Nat /\ Range64 \in Nat /\ n <= Range64 - 1
    BY TimeAssumption, InRange
  <1>2. q \in Nat /\ r \in 0 .. Word - 1
    BY <1>1
  <1>3. q * Word + r = n
    <2>1. ASSUME NEW x \in Nat, x = n \div Word, NEW y \in Nat, y = n % Word
          PROVE  n = x * Word + y
      BY <1>1, <2>1
    <2> QED
      BY <1>2, <2>1
  <1>4. q \in 0 .. Word - 1
    <2>1. n \in 0 .. Word * Word - 1
      BY <1>1 DEF Range64
    <2> QED
      BY <1>1, <2>1
  <1> QED
    BY <1>2, <1>3, <1>4 DEF HighWord, LowWord

\* The quotient grows with the dividend.
LEMMA Quotients ==
  ASSUME NEW m \in Nat, NEW n \in Nat, m <= n
  PROVE  m \div DriftDivisor \in Nat /\ m \div DriftDivisor <= n \div DriftDivisor
  BY TimeAssumption

-----------------------------------------------------------------------------
(* Types.                                                                  *)

PCs == {"idle", "scale", "boot", "sample", "check", "drift", "lock", "apply", "store",
        "clock", "load", "return"}

\* What the constants are, without the products.
LEMMA Numbers ==
  /\ MinAdvance \in Nat /\ MaxNow \in Nat /\ MaxAsleep \in Nat /\ SleptBefore \in Nat
  /\ MaxSteps \in Nat /\ MaxStray \in Nat /\ BootFollows \subseteq BOOLEAN /\ Steps \subseteq Int /\ Jitters \subseteq Int /\ Word \in Nat \ {0}
  /\ Delay \in Nat /\ DriftDivisor \in Nat \ {0} /\ NoThread \notin Threads /\ Main \in Threads
  /\ SleptBefore <= MaxAsleep
  BY TimeAssumption

\* TypeOK with the numbers of a uint64_t by name.
Typed ==
  /\ now \in 0 .. MaxNow /\ asleep \in SleptBefore .. MaxAsleep
  /\ shift \in Int /\ boot \in Int /\ steps \in 0 .. MaxSteps
  /\ valid \in BOOLEAN /\ launched \in BOOLEAN /\ measured \in BOOLEAN
  /\ high \in 0 .. Word - 1 /\ low \in 0 .. Word - 1
  /\ first \in Int /\ before \in 0 .. MaxNow
  /\ owner \in Threads \cup {NoThread}
  /\ pc \in [Threads -> PCs]
  /\ si \in [Threads -> [boot : Int, raw : Int, mach : 0 .. MaxNow]]
  /\ adj \in [Threads -> Nat] /\ todo \in [Threads -> SUBSET Stores]
  /\ new \in [Threads -> 0 .. Range64 - 1]
  /\ got \in [Threads -> [mach : 0 .. MaxNow, high : -1 .. Word - 1, low : -1 .. Word - 1]]
  /\ top \in Nat /\ floor \in [Threads -> Nat] /\ back \in BOOLEAN

\* The two type invariants say the same, before a step and after it.
LEMMA TypedIsTypeOK == (Typed <=> TypeOK) /\ (Typed' <=> TypeOK')
  BY DEF Typed, TypeOK, Range64, PCs

\* get_sleep_offset returns with its samples gone.
LEMMA ReturnTyped ==
  ASSUME Typed, NEW t \in Threads, Return(t)
  PROVE  /\ pc' \in [Threads -> PCs] /\ launched' \in BOOLEAN
         /\ si' \in [Threads -> [boot : Int, raw : Int, mach : 0 .. MaxNow]]
         /\ adj' \in [Threads -> Nat] /\ new' \in [Threads -> 0 .. Range64 - 1]
  BY Numbers, InRange DEF Typed, Return, Goto, PCs, NoSample

\* The variables of mach_continuous_time and of its setup keep their types, in every build.
LEMMA TypeStep == Typed /\ [Next]_vars => Typed'
  <1> SUFFICES ASSUME Typed, [Next]_vars PROVE Typed'
    OBVIOUS
  <1>b. split' = split => Stores' = Stores
    BY DEF Stores
  <1>1. CASE UNCHANGED vars
    BY <1>1, <1>b DEF Typed, vars, kernel, cached, setup, history
  <1>2. CASE UNCHANGED split /\ (Tick \/ Sleep \/ \E d \in Steps : SetClock(d))
    BY <1>2, <1>b, Numbers DEF Typed, Tick, Sleep, SetClock, cached, setup, history
  <1>3. ASSUME NEW t \in Threads, UNCHANGED split, Call(t)
        PROVE  Typed'
    BY <1>3, <1>b DEF Typed, Call, kernel, cached, setup, Goto, PCs
  <1>4. ASSUME NEW t \in Threads, UNCHANGED split, ReadClock(t)
        PROVE  Typed'
    <2>1. got' \in [Threads -> [mach : 0 .. MaxNow, high : -1 .. Word - 1, low : -1 .. Word - 1]]
      BY <1>4, Numbers DEF Typed, ReadClock, Unread
    <2> QED
      BY <1>4, <1>b, <2>1 DEF Typed, ReadClock, kernel, cached, setup, history, Goto, PCs
  <1>5. ASSUME NEW t \in Threads, UNCHANGED split, LockFails(t)
        PROVE  Typed'
    BY <1>5, <1>b, ReturnTyped DEF Typed, LockFails, kernel, cached, history
  <1>6. ASSUME NEW t \in Threads, UNCHANGED split, Lock(t)
        PROVE  Typed'
    BY <1>6, <1>b DEF Typed, Lock, kernel, cached, setup, history, Goto, PCs
  <1>7. ASSUME NEW t \in Threads, UNCHANGED split, GetScale(t)
        PROVE  Typed'
    BY <1>7, <1>b, ReturnTyped DEF Typed, GetScale, kernel, cached, history, Goto, PCs
  <1>8. ASSUME NEW t \in Threads, BoottimeFails(t)
        PROVE  /\ valid' \in BOOLEAN
    BY <1>8 DEF Typed, BoottimeFails
  <1>9. ASSUME NEW t \in Threads, UNCHANGED split, GetBoottime(t) \/ CheckBoottime(t)
        PROVE  Typed'
    <2>1. CASE BoottimeFails(t)
      BY <1>9, <1>b, <1>8, <2>1, ReturnTyped DEF Typed, GetBoottime, CheckBoottime, BoottimeFails, kernel,
                history
    <2>2. CASE ~BoottimeFails(t)
      <3>1. si' = [si EXCEPT ![t].boot = boot] /\ Goto(t, pc'[t]) /\ pc'[t] \in PCs
        BY <1>9, <2>2 DEF Typed, GetBoottime, CheckBoottime, Goto, PCs
      <3>2. si' \in [Threads -> [boot : Int, raw : Int, mach : 0 .. MaxNow]]
        BY <3>1 DEF Typed
      <3> QED
        BY <1>9, <1>b, <2>2, <3>1, <3>2 DEF Typed, GetBoottime, CheckBoottime, kernel, history, Goto
    <2> QED
      BY <2>1, <2>2
  <1>10. ASSUME NEW t \in Threads, UNCHANGED split, GetTodmach(t)
         PROVE  Typed'
    <2>1. CASE Return(t)
      BY <1>10, <1>b, <2>1, ReturnTyped DEF Typed, GetTodmach, kernel, cached, history
    <2>2. ASSUME NEW j \in Jitters,
                 si' = [si EXCEPT ![t].raw = shift + asleep + j, ![t].mach = now],
                 Goto(t, "check"), UNCHANGED <<launched, adj, new>>
          PROVE  Typed'
      <3>a. PICK r \in Int : r = shift + asleep + j
        BY Numbers DEF Typed
      <3> DEFINE s1 == [si EXCEPT ![t].raw = r]
      <3>b. s1 \in [Threads -> [boot : Int, raw : Int, mach : 0 .. MaxNow]]
        BY DEF Typed
      <3>c. si' = [s1 EXCEPT ![t].mach = now]
        BY <2>2, <3>a
      <3> HIDE DEF s1
      <3>1. si' \in [Threads -> [boot : Int, raw : Int, mach : 0 .. MaxNow]]
        BY <3>b, <3>c DEF Typed
      <3> QED
        BY <1>10, <1>b, <2>2, <3>1 DEF Typed, GetTodmach, kernel, cached, history, Goto, PCs
    <2> QED
      BY <1>10, <2>1, <2>2 DEF GetTodmach
  <1>11. ASSUME NEW t \in Threads, UNCHANGED split, GetDrift(t)
         PROVE  Typed'
    <2>1. CASE Toddiff(t) < 0
      BY <1>11, <1>b, <2>1, ReturnTyped DEF Typed, GetDrift, kernel, history
    <2>2. CASE ~(Toddiff(t) < 0)
      <3>1. PICK b \in SeenBefore(t) :
              LET maxdrift == Uint64(si[t].mach - b) \div DriftDivisor
              IN adj' = [adj EXCEPT ![t] = IF maxdrift > MinAdvance THEN maxdrift ELSE MinAdvance]
        BY <1>11, <2>2 DEF GetDrift
      <3>2. b \in Int /\ si[t].mach \in Int
        BY Numbers DEF SeenBefore, Typed
      <3>3. Uint64(si[t].mach - b) \in Nat
        BY <3>2, InRange
      <3>4. Uint64(si[t].mach - b) \div DriftDivisor \in Nat
        BY <3>3, Quotients
      <3>5. adj' \in [Threads -> Nat]
        BY <3>1, <3>4, Numbers DEF Typed
      <3> QED
        BY <1>11, <1>b, <2>2, <3>5 DEF Typed, GetDrift, kernel, history, Goto, PCs
    <2> QED
      BY <2>1, <2>2
  <1>12. ASSUME NEW t \in Threads, UNCHANGED split, Apply(t)
         PROVE  Typed'
    <2>1. Offset(t) \in Int /\ Baseline(t) \in Int
      BY DEF Typed, Offset, Baseline
    <2>2. Uint64(Offset(t) - Baseline(t)) \in 0 .. Range64 - 1
      BY <2>1, InRange
    <2>3. todo' \in [Threads -> SUBSET Stores]
      BY <1>12 DEF Typed, Apply, Stores
    <2> QED
      BY <1>12, <1>b, <2>1, <2>2, <2>3 DEF Typed, Apply, kernel, history, Goto, PCs
  <1>13. ASSUME NEW t \in Threads, UNCHANGED split, Unlock(t)
         PROVE  Typed'
    BY <1>13, <1>b, ReturnTyped DEF Typed, Unlock, kernel, cached
  <1>14. ASSUME NEW t \in Threads, UNCHANGED split, NEW s, Store(t, s)
         PROVE  Typed'
    <2>1. new[t] \in 0 .. Range64 - 1 /\ si[t].mach \in 0 .. MaxNow
      BY DEF Typed
    <2>2. high' \in 0 .. Word - 1 /\ low' \in 0 .. Word - 1 /\ before' \in 0 .. MaxNow
      BY <1>14, <2>1, Words DEF Typed, Store
    <2>3. valid' \in BOOLEAN
      BY <1>14 DEF Typed, Store
    <2> QED
      BY <1>14, <1>b, <2>2, <2>3 DEF Typed, Store, kernel, history
  <1>15. ASSUME NEW t \in Threads, UNCHANGED split, Load(t)
         PROVE  Typed'
    <2> DEFINE Got == [Threads -> [mach : 0 .. MaxNow, high : -1 .. Word - 1, low : -1 .. Word - 1]]
               g1 == [got EXCEPT ![t].high = high]
               g2 == [got EXCEPT ![t].low = low]
    <2>a. high \in -1 .. Word - 1 /\ low \in -1 .. Word - 1 /\ got \in Got
      BY Numbers DEF Typed
    <2>b. g1 \in Got /\ g2 \in Got
      BY <2>a
    <2>c. got' = [g1 EXCEPT ![t].low = low] \/ got' = g1 \/ got' = g2
      BY <1>15 DEF Load
    <2>1. got' \in Got
      <3> HIDE DEF g1, g2
      <3> QED
        BY <2>a, <2>b, <2>c
    <2> QED
      BY <1>15, <1>b, <2>1 DEF Typed, Load, kernel, cached, setup, history, Goto, PCs
  <1>16. ASSUME NEW t \in Threads, UNCHANGED split, ReturnTime(t)
         PROVE  Typed'
    <2>1. got' \in [Threads -> [mach : 0 .. MaxNow, high : -1 .. Word - 1, low : -1 .. Word - 1]]
      BY <1>16, Numbers DEF Typed, ReturnTime, Unread
    <2>2. got[t].mach \in Int /\ got[t].high \in Int /\ got[t].low \in Int
      BY Numbers DEF Typed
    <2>3. got[t].high * Word \in Int
      BY <2>2, Numbers
    <2>4. Uint64(got[t].mach + got[t].high * Word + got[t].low) \in Nat
      BY <2>2, <2>3, InRange
    <2>5. top' \in Nat /\ floor' \in [Threads -> Nat]
      BY <1>16, <2>4 DEF Typed, ReturnTime
    <2>6. back' \in BOOLEAN
      BY <1>16 DEF Typed, ReturnTime
    <2> QED
      BY <1>16, <1>b, <2>1, <2>5, <2>6 DEF Typed, ReturnTime, kernel, cached, setup, Goto, PCs
  <1> QED
    BY <1>1, <1>2, <1>3, <1>4, <1>5, <1>6, <1>7, <1>9, <1>10, <1>11, <1>12, <1>13, <1>14, <1>15, <1>16
       DEF Next, Thread

-----------------------------------------------------------------------------
(* The inductive invariants.                                               *)

\* What the samples taken so far may say about the time asleep.
Offsets == {a - Delay + s + j : a \in SleptBefore .. asleep, s \in 0 .. Stray, j \in Jitters}

\* The boot time is the time of day of the start, up to the delay, or behind it.
ClockInv == Stray \in 0 .. MaxStray

\* The lock is held in the locked section, and only there are stores under way.
LockInv ==
  \A t \in Threads : /\ owner = t <=> pc[t] \in {"apply", "store"}
                     /\ pc[t] # "store" => todo[t] = {}

\* A sample that passed the comparison of the boot times is right.
SampleInv ==
  \A t \in Threads :
    /\ pc[t] \in {"sample", "check"} => si[t].boot <= boot
    /\ pc[t] = "check" => \E b \in Int : si[t].boot <= b /\ b <= boot /\ si[t].raw - b \in Offsets
    /\ pc[t] \in {"drift", "lock", "apply", "store"} => Offset(t) \in Offsets

\* The cached offset comes from a sample, and the one about to be stored is larger.
CacheInv ==
  /\ first = 0 /\ sleep_offset \in Offsets \cup {0}
  /\ \A t \in Threads :
       /\ adj[t] <= MinAdvance + (Range64 \div DriftDivisor)
       /\ pc[t] = "store" => new[t] \in Offsets
       /\ "offset" \in todo[t] => sleep_offset < new[t]

\* The time a call has loaded.
Loaded(t) == got[t].high * Word + got[t].low

\* What was returned is behind the clock, and what a call will return is not behind what
\* was returned before it began.
TimeInv ==
  /\ ~back /\ top <= now + sleep_offset
  /\ \A t \in Threads :
       /\ floor[t] <= top
       /\ pc[t] = "load" => got[t].mach <= now /\ floor[t] <= got[t].mach + sleep_offset
       /\ pc[t] = "return" => /\ got[t].mach <= now /\ got[t].high >= 0 /\ got[t].low >= 0
                              /\ Loaded(t) \in 0 .. sleep_offset
                              /\ floor[t] <= got[t].mach + Loaded(t)

\* The inductive invariant of the time that is returned.
IInv == TypeOK /\ ClockInv /\ LockInv /\ SampleInv /\ CacheInv /\ TimeInv

\* The cached offset counts the sleep before the launch.
Counted == sleep_offset + MinAdvance + (MaxNow \div DriftDivisor) + Delay >= SleptBefore

\* The holder of the lock is about to store the offset.
Pending == owner # NoThread /\ "offset" \in todo[owner]

\* The inductive invariant of SleepCounted: a drift that is too large comes from a sleep_info
\* that another thread has stored, which has stored the offset before it gives up the lock.
CountInv ==
  /\ measured => Counted
  /\ before > 0 => Counted \/ Pending
  /\ \A t \in Threads :
       /\ pc[t] \in {"lock", "apply"} /\ adj[t] > MinAdvance + (MaxNow \div DriftDivisor)
            => Counted \/ Pending
       /\ pc[t] = "store" => Counted \/ "offset" \in todo[t]

-----------------------------------------------------------------------------
(* Offsets.                                                                *)

\* The offset of a sample is not negative and far from the end of the range, and not ahead
\* of the time asleep by more than the sample's error.
LEMMA OffsetRange ==
  ASSUME Regular, Typed, ClockInv, NEW x \in Offsets
  PROVE  /\ x \in Int /\ x >= 0
         /\ x + MaxNow + MinAdvance + (Range64 \div DriftDivisor) < Range64
         /\ \E j \in Jitters : x <= asleep + Stray + j
         /\ Jitters \subseteq Nat => x + Delay >= SleptBefore
  <1>1. PICK a \in SleptBefore .. asleep, s \in 0 .. Stray, j \in Jitters : x = a - Delay + s + j
    BY DEF Offsets
  <1>2. /\ SleptBefore + j >= Delay
        /\ MaxAsleep + MaxStray + j + MaxNow + MinAdvance + (Range64 \div DriftDivisor) < Range64
    BY DEF Regular
  <1>3. Range64 \div DriftDivisor \in Nat /\ Range64 \in Nat
    BY InRange, Quotients
  <1>4. /\ j \in Int /\ a \in Int /\ SleptBefore <= a /\ a <= asleep /\ asleep \in Int /\ asleep <= MaxAsleep
        /\ s \in Int /\ 0 <= s /\ s <= Stray /\ Stray \in Int /\ Stray <= MaxStray
    BY <1>1, Numbers DEF Typed, ClockInv
  <1> HIDE DEF Range64
  <1> QED
    BY <1>1, <1>2, <1>3, <1>4, Numbers

\* Time passes.
LEMMA Passes ==
  ASSUME Regular, Typed, ClockInv, [Next]_vars
  PROVE  /\ now \in Int /\ now' \in Int /\ now <= now' /\ Offsets \subseteq Offsets'
         /\ boot \in Int /\ boot' \in Int /\ boot <= boot' /\ ClockInv'
         /\ split' = split
  <1>1. CASE UNCHANGED <<kernel, split>>
    BY <1>1 DEF Typed, kernel, ClockInv, Offsets, Stray
  <1>2. CASE Tick /\ UNCHANGED split
    BY <1>2, Numbers DEF Typed, Tick, ClockInv, Offsets, Stray
  <1>3. CASE Sleep /\ UNCHANGED split
    <2>1. asleep \in Int /\ asleep' = asleep + 1 /\ Stray' = Stray
      BY <1>3, Numbers DEF Sleep, Typed, Stray
    <2>2. Offsets \subseteq Offsets'
      <3>1. SleptBefore .. asleep \subseteq SleptBefore .. asleep'
        BY <2>1, Numbers
      <3> QED
        BY <2>1, <3>1 DEF Offsets
    <2> QED
      BY <1>3, <2>1, <2>2 DEF Typed, Sleep, ClockInv
  <1>4. ASSUME NEW d \in Steps, SetClock(d), UNCHANGED split
        PROVE  /\ now \in Int /\ now' \in Int /\ now <= now' /\ Offsets \subseteq Offsets'
               /\ boot \in Int /\ boot' \in Int /\ boot <= boot' /\ ClockInv'
    <2>1. MaxSteps # 0
      BY <1>4, Numbers DEF SetClock, Typed
    <2>2. d \in Nat
      BY <2>1 DEF Regular
    <2>3. PICK follows \in BootFollows : /\ boot' = IF follows THEN boot + d ELSE boot
                                         /\ follows \/ Stray + d <= MaxStray
      BY <1>4 DEF SetClock
    <2>4. shift' = shift + d /\ asleep' = asleep /\ now' = now
      BY <1>4 DEF SetClock
    <2>5. shift \in Int /\ boot \in Int /\ now \in Int /\ Delay \in Int /\ Stray \in 0 .. MaxStray
      BY Numbers DEF Typed, ClockInv
    <2>6. CASE follows
      <3>1. boot' = boot + d /\ Stray' = Stray
        BY <2>3, <2>4, <2>5, <2>6, <2>2 DEF Stray
      <3> QED
        BY <2>2, <2>4, <2>5, <3>1 DEF Offsets, ClockInv
    <2>7. CASE ~follows
      <3>1. boot' = boot /\ Stray' = Stray + d /\ Stray + d <= MaxStray
        BY <2>2, <2>3, <2>4, <2>5, <2>7 DEF Stray
      <3>2. Stray' \in 0 .. MaxStray /\ 0 .. Stray \subseteq 0 .. Stray'
        BY <2>2, <2>5, <3>1, Numbers
      <3> QED
        BY <2>2, <2>4, <2>5, <3>1, <3>2 DEF Offsets, ClockInv
    <2> QED
      BY <2>6, <2>7
  <1> QED
    BY <1>1, <1>2, <1>3, <1>4 DEF Next, Thread, vars, GetScale,
           GetBoottime, BoottimeFails, GetTodmach, CheckBoottime, GetDrift, Lock, LockFails, Apply,
           Store, Unlock, Call, ReadClock, Load, ReturnTime

\* The cached offset only changes when it is stored, and then grows.
LEMMA OffsetGrows ==
  ASSUME Regular, Typed, ClockInv, CacheInv, ~split, [Next]_vars
  PROVE  /\ sleep_offset \in Nat /\ sleep_offset' \in Nat
         /\ \/ sleep_offset' = sleep_offset
            \/ \E t \in Threads : /\ Store(t, "offset") /\ sleep_offset' = new[t]
                                  /\ sleep_offset < new[t]
  <1>1. sleep_offset \in Nat
    BY OffsetRange DEF CacheInv
  <1>2. CASE UNCHANGED <<high, low>>
    BY <1>1, <1>2 DEF sleep_offset
  <1>3. ASSUME NEW t \in Threads, NEW s, Store(t, s), s # "offset"
        PROVE  UNCHANGED <<high, low>>
    BY <1>3 DEF Store, Typed, Stores
  <1>4. ASSUME NEW t \in Threads, Store(t, "offset")
        PROVE  sleep_offset' = new[t] /\ sleep_offset < new[t] /\ new[t] \in Nat
    <2>1. new[t] \in 0 .. Range64 - 1
      BY DEF Typed
    <2>2. HighWord(new[t]) * Word + LowWord(new[t]) = new[t]
      BY <2>1, Words
    <2>3. high' = HighWord(new[t]) /\ low' = LowWord(new[t])
      BY <1>4 DEF Store
    <2>4. sleep_offset' = new[t]
      BY <2>2, <2>3 DEF sleep_offset
    <2>5. sleep_offset < new[t]
      BY <1>4 DEF Store, CacheInv
    <2> QED
      BY <2>1, <2>4, <2>5, InRange
  <1>5. UNCHANGED <<high, low>> \/ \E t \in Threads, s \in {"offset", "high", "low", "info", "valid"} : Store(t, s)
    BY DEF Next, Thread, vars, cached, Tick, Sleep, SetClock, GetScale,
           GetBoottime, BoottimeFails, GetTodmach, CheckBoottime, GetDrift, Lock, LockFails, Apply,
           Unlock, Call, ReadClock, Load, ReturnTime
  <1> QED
    BY <1>1, <1>2, <1>3, <1>4, <1>5

-----------------------------------------------------------------------------
(* Steps of a thread.                                                      *)

\* One of the calls and stores that a thread makes next.
Moves(t) ==
  \/ Call(t) \/ LockFails(t) \/ GetScale(t) \/ GetBoottime(t) \/ GetTodmach(t)
  \/ CheckBoottime(t) \/ GetDrift(t) \/ Lock(t) \/ Apply(t) \/ Unlock(t)
  \/ \E s \in {"offset", "high", "low", "info", "valid"} : Store(t, s)
  \/ ReadClock(t) \/ Load(t) \/ ReturnTime(t)

\* The threads' own variables and the lock.
threads == <<owner, launched, pc, setup, got, top, floor, back, measured, before, first>>

\* A step is one of the kernel's, which leaves the threads alone, or one of a thread.
LEMMA WhoSteps == [Next]_vars => UNCHANGED threads \/ \E t \in Threads : Moves(t)
  BY DEF Next, Thread, Moves, threads, vars, setup, cached, history, Tick, Sleep, SetClock

\* A thread changes its own variables only.
LEMMA OthersKept ==
  ASSUME Typed, NEW t \in Threads, Moves(t), NEW u \in Threads, u # t
  PROVE  /\ pc'[u] = pc[u] /\ si'[u] = si[u] /\ adj'[u] = adj[u] /\ todo'[u] = todo[u]
         /\ new'[u] = new[u] /\ got'[u] = got[u] /\ floor'[u] = floor[u]
  <1>1. pc'[u] = pc[u]
    BY DEF Typed, Moves, Return, Goto, Call, LockFails, GetScale, GetBoottime, BoottimeFails, GetTodmach,
           CheckBoottime, GetDrift, Lock, Apply, Unlock, Store, ReadClock, Load, ReturnTime
  <1>2. si'[u] = si[u]
    BY DEF Typed, Moves, Return, setup, Call, LockFails, GetScale, GetBoottime, BoottimeFails,
           GetTodmach, CheckBoottime, GetDrift, Lock, Apply, Unlock, Store, ReadClock, Load, ReturnTime
  <1>3. adj'[u] = adj[u] /\ new'[u] = new[u]
    BY DEF Typed, Moves, Return, setup, Call, LockFails, GetScale, GetBoottime, BoottimeFails,
           GetTodmach, CheckBoottime, GetDrift, Lock, Apply, Unlock, Store, ReadClock, Load, ReturnTime
  <1>4. todo'[u] = todo[u]
    BY DEF Typed, Moves, setup, Call, LockFails, GetScale, GetBoottime, BoottimeFails,
           GetTodmach, CheckBoottime, GetDrift, Lock, Apply, Unlock, Store, ReadClock, Load, ReturnTime
  <1>5. got'[u] = got[u] /\ floor'[u] = floor[u]
    BY DEF Typed, Moves, history, Call, LockFails, GetScale, GetBoottime, BoottimeFails,
           GetTodmach, CheckBoottime, GetDrift, Lock, Apply, Unlock, Store, ReadClock, Load, ReturnTime
  <1> QED
    BY <1>1, <1>2, <1>3, <1>4, <1>5

\* get_sleep_offset returns to the call, or out of the constructor.
LEMMA ReturnsTo ==
  ASSUME Typed, NEW t \in Threads, Return(t)
  PROVE  pc'[t] \in {"clock", "idle"} /\ adj'[t] = 0
  BY DEF Typed, Return, Goto

\* The lock is kept between pthread_mutex_lock and pthread_mutex_unlock.
LEMMA LockStep == Typed /\ LockInv /\ [Next]_vars => LockInv'
  <1> SUFFICES ASSUME Typed, LockInv, [Next]_vars PROVE LockInv'
    OBVIOUS
  <1>1. CASE UNCHANGED threads
    BY <1>1 DEF LockInv, threads, setup
  <1>2. ASSUME NEW t \in Threads, Moves(t)
        PROVE  LockInv'
    <2>1. /\ owner' = t <=> pc'[t] \in {"apply", "store"}
          /\ pc'[t] # "store" => todo'[t] = {}
          /\ owner' = owner \/ (owner = NoThread /\ owner' = t) \/ (owner = t /\ owner' = NoThread)
      <3> USE DEF LockInv, Typed, Goto
      <3> NoThread # t
        BY Numbers
      <3>1. CASE Call(t) \/ ReadClock(t) \/ Load(t) \/ ReturnTime(t)
        BY <3>1 DEF Call, ReadClock, Load, ReturnTime, setup
      <3>2. CASE LockFails(t) \/ GetScale(t) \/ GetTodmach(t)
        BY <3>2, ReturnsTo DEF LockFails, GetScale, GetTodmach
      <3>3. CASE GetBoottime(t) \/ CheckBoottime(t)
        BY <3>3, ReturnsTo DEF GetBoottime, CheckBoottime, BoottimeFails
      <3>4. CASE GetDrift(t)
        BY <3>4, ReturnsTo DEF GetDrift
      <3>5. CASE Lock(t) \/ Apply(t)
        BY <3>5 DEF Lock, Apply, setup
      <3>6. CASE Unlock(t)
        BY <3>6, ReturnsTo DEF Unlock
      <3>7. CASE \E s \in {"offset", "high", "low", "info", "valid"} : Store(t, s)
        BY <3>7 DEF Store
      <3> QED
        BY <1>2, <3>1, <3>2, <3>3, <3>4, <3>5, <3>6, <3>7 DEF Moves
    <2>2. ASSUME NEW u \in Threads, u # t
          PROVE  /\ owner' = u <=> pc'[u] \in {"apply", "store"}
                 /\ pc'[u] # "store" => todo'[u] = {}
      BY <1>2, <2>1, <2>2, OthersKept, Numbers DEF LockInv
    <2> QED
      BY <2>1, <2>2 DEF LockInv
  <1> QED
    BY <1>1, <1>2, WhoSteps

\* What SampleInv says of one thread.
SampleOf(t) ==
  /\ pc[t] \in {"sample", "check"} => si[t].boot <= boot
  /\ pc[t] = "check" => \E b \in Int : si[t].boot <= b /\ b <= boot /\ si[t].raw - b \in Offsets
  /\ pc[t] \in {"drift", "lock", "apply", "store"} => Offset(t) \in Offsets

\* A sample is right if the boot time was the same before and after it.
LEMMA SampleStep ==
  Regular /\ Typed /\ ClockInv /\ SampleInv /\ [Next]_vars => SampleInv'
  <1> SUFFICES ASSUME Regular, Typed, ClockInv, SampleInv, [Next]_vars PROVE SampleInv'
    OBVIOUS
  <1>p. /\ Offsets \subseteq Offsets' /\ boot \in Int /\ boot' \in Int /\ boot <= boot'
    BY Passes
  <1>s. \A u \in Threads : si[u].boot \in Int /\ si[u].raw \in Int /\ SampleOf(u)
    BY DEF Typed, SampleInv, SampleOf
  <1>1. ASSUME NEW u \in Threads, pc'[u] = pc[u], si'[u] = si[u]
        PROVE  SampleOf(u)'
    BY <1>1, <1>p, <1>s DEF SampleOf, Offset
  <1>2. ASSUME NEW t \in Threads, Moves(t)
        PROVE  SampleOf(t)'
    <2>1. CASE si'[t] = si[t] /\ pc'[t] \in {pc[t], "idle", "scale", "boot", "clock", "load", "return"}
      BY <1>1, <2>1 DEF SampleOf
    <2>2. CASE GetBoottime(t)
      <3>1. CASE BoottimeFails(t)
        BY <3>1, ReturnsTo DEF BoottimeFails, SampleOf
      <3>2. CASE ~BoottimeFails(t)
        <4>1. pc'[t] = "sample" /\ si'[t].boot = boot /\ boot' = boot
          BY <2>2, <3>2 DEF GetBoottime, Typed, Goto, kernel
        <4> QED
          BY <1>p, <4>1 DEF SampleOf
      <3> QED
        BY <3>1, <3>2
    <2>3. CASE GetTodmach(t)
      <3>1. CASE Return(t)
        BY <3>1, ReturnsTo DEF SampleOf
      <3>2. ASSUME NEW j \in Jitters, Goto(t, "check"),
                   si' = [si EXCEPT ![t].raw = shift + asleep + j, ![t].mach = now]
            PROVE  SampleOf(t)'
        <4>1. /\ pc'[t] = "check" /\ si'[t].boot = si[t].boot /\ si'[t].raw = shift + asleep + j
              /\ boot' = boot
          BY <2>3, <3>2 DEF GetTodmach, Typed, Goto, kernel
        <4>2. si[t].boot <= boot
          BY <1>s, <2>3 DEF GetTodmach, SampleOf
        <4>3. /\ j \in Int /\ asleep \in Int /\ shift \in Int /\ Delay \in Int
              /\ asleep \in SleptBefore .. asleep /\ Stray \in 0 .. Stray
          BY Numbers DEF Typed, ClockInv
        <4>4. asleep - Delay + Stray + j \in Offsets
          BY <4>3 DEF Offsets
        <4>5. si'[t].raw - boot = asleep - Delay + Stray + j
          BY <1>p, <4>1, <4>3 DEF Stray
        <4>6. si'[t].boot <= boot' /\ boot <= boot' /\ si'[t].raw - boot \in Offsets'
          BY <1>p, <4>1, <4>2, <4>4, <4>5
        <4> QED
          BY <1>p, <4>1, <4>2, <4>6 DEF SampleOf
      <3> QED
        BY <2>3, <3>1, <3>2 DEF GetTodmach
    <2>4. CASE CheckBoottime(t)
      <3>1. CASE BoottimeFails(t)
        BY <3>1, ReturnsTo DEF BoottimeFails, SampleOf
      <3>2. CASE ~BoottimeFails(t)
        <4>1. /\ pc[t] = "check" /\ si'[t].boot = boot /\ boot' = boot /\ si'[t].raw = si[t].raw
              /\ pc'[t] = IF boot = si[t].boot THEN "drift" ELSE "sample"
          BY <2>4, <3>2 DEF CheckBoottime, Typed, Goto, kernel
        <4>2. PICK b \in Int : si[t].boot <= b /\ b <= boot /\ si[t].raw - b \in Offsets
          BY <1>s, <4>1 DEF SampleOf
        <4>3. boot = si[t].boot => b = boot
          BY <1>p, <1>s, <4>2
        <4> QED
          BY <1>p, <4>1, <4>2, <4>3 DEF SampleOf, Offset
      <3> QED
        BY <3>1, <3>2
    <2>5. CASE GetDrift(t)
      BY <1>p, <1>s, <2>5, ReturnsTo DEF GetDrift, SampleOf, Typed, Goto, Offset
    <2>6. CASE Lock(t) \/ Apply(t)
      BY <1>p, <1>s, <2>6 DEF Lock, Apply, SampleOf, Typed, Goto, Offset, setup
    <2>7. CASE Unlock(t) \/ LockFails(t)
      BY <2>7, ReturnsTo DEF Unlock, LockFails, SampleOf
    <2>8. CASE GetScale(t)
      BY <2>8, ReturnsTo DEF GetScale, SampleOf, Typed, Goto
    <2>9. CASE Call(t) \/ ReadClock(t) \/ Load(t) \/ ReturnTime(t)
      BY <2>1, <2>9 DEF Call, ReadClock, Load, ReturnTime, Typed, Goto, setup
    <2>10. CASE \E s \in {"offset", "high", "low", "info", "valid"} : Store(t, s)
      BY <2>1, <2>10 DEF Store, Typed
    <2> QED
      BY <1>2, <2>2, <2>3, <2>4, <2>5, <2>6, <2>7, <2>8, <2>9, <2>10 DEF Moves
  <1>3. \A u \in Threads : SampleOf(u)'
    <2>1. CASE UNCHANGED threads
      BY <1>1, <2>1 DEF threads, setup
    <2>2. ASSUME NEW t \in Threads, Moves(t)
          PROVE  \A u \in Threads : SampleOf(u)'
      BY <1>1, <1>2, <2>2, OthersKept
    <2> QED
      BY <2>1, <2>2, WhoSteps
  <1> QED
    BY <1>3 DEF SampleInv, SampleOf

\* What CacheInv says of one thread.
CacheOf(t) ==
  /\ adj[t] <= MinAdvance + (Range64 \div DriftDivisor)
  /\ pc[t] = "store" => new[t] \in Offsets
  /\ "offset" \in todo[t] => sleep_offset < new[t]

\* The locked section: an offset is stored only if it is larger than the one that is there,
\* whatever the least advance was worked out from.
LEMMA ApplyAdvances ==
  ASSUME Regular, Typed, ClockInv, CacheInv, SampleInv, NEW t \in Threads, Apply(t)
  PROVE  /\ first' = 0 /\ new'[t] = Offset(t) /\ Offset(t) \in Offsets
         /\ Advances(Offset(t), t) <=> Offset(t) > sleep_offset + adj[t]
         /\ todo'[t] = IF Offset(t) > sleep_offset + adj[t] THEN Stores ELSE {"valid"}
         /\ pc'[t] = "store"
  <1>1. Offset(t) \in Offsets
    BY DEF SampleInv, Apply
  <1>2. /\ Offset(t) \in Int /\ Offset(t) >= 0
        /\ Offset(t) + MaxNow + MinAdvance + (Range64 \div DriftDivisor) < Range64
    BY <1>1, OffsetRange
  <1>3. Baseline(t) = 0
    BY <1>2 DEF Baseline, CacheInv
  <1>4. Range64 \in Nat /\ Range64 \div DriftDivisor \in Nat
    BY InRange, Quotients
  <1>5. Uint64(Offset(t)) = Offset(t)
    <2>1. Offset(t) \in 0 .. Range64 - 1
      BY <1>2, <1>4, Numbers
    <2> QED
      BY <2>1, InRange
  <1>6. Uint64(sleep_offset + adj[t]) = sleep_offset + adj[t]
    <2>1. /\ sleep_offset \in Nat /\ adj[t] \in Nat /\ adj[t] <= MinAdvance + (Range64 \div DriftDivisor)
          /\ sleep_offset + MaxNow + MinAdvance + (Range64 \div DriftDivisor) < Range64
      <3>1. CASE sleep_offset = 0
        <4>1. PICK q \in Nat : q = Range64 \div DriftDivisor
          BY <1>4
        <4>2. 0 + MaxNow + MinAdvance + q < Range64
          BY <1>2, <1>4, <4>1, Numbers
        <4>3. adj[t] \in Nat /\ adj[t] <= MinAdvance + q
          BY <4>1 DEF CacheInv, Typed
        <4> QED
          BY <3>1, <4>1, <4>2, <4>3
      <3>2. CASE sleep_offset \in Offsets
        BY <3>2, OffsetRange DEF CacheInv, Typed
      <3> QED
        BY <3>1, <3>2 DEF CacheInv
    <2>2. sleep_offset + adj[t] \in 0 .. Range64 - 1
      BY <1>4, <2>1, Numbers
    <2> QED
      BY <2>2, InRange
  <1>7. Offset(t) - 0 = Offset(t)
    BY <1>2
  <1> QED
    BY <1>1, <1>3, <1>5, <1>6, <1>7 DEF Apply, Advances, Typed, Goto

\* The least advance is at most a part of the range.
LEMMA DriftBound ==
  ASSUME Typed, NEW t \in Threads, GetDrift(t), ~split
  PROVE  /\ adj'[t] <= MinAdvance + (Range64 \div DriftDivisor)
         /\ adj'[t] \in {0, MinAdvance, Uint64(si[t].mach - before) \div DriftDivisor}
  <1>1. CASE Return(t)
    <2>1. adj'[t] = 0
      BY <1>1, ReturnsTo
    <2> QED
      BY <2>1, Numbers, InRange, Quotients
  <1>2. CASE ~Return(t)
    <2>1. \E b \in SeenBefore(t) :
              LET maxdrift == Uint64(si[t].mach - b) \div DriftDivisor
              IN adj' = [adj EXCEPT ![t] = IF maxdrift > MinAdvance THEN maxdrift ELSE MinAdvance]
      BY <1>2 DEF GetDrift
    <2>2. SeenBefore(t) = {before}
      BY DEF SeenBefore
    <2>3. PICK m : m = Uint64(si[t].mach - before) \div DriftDivisor
      OBVIOUS
    <2>4. adj'[t] = m \/ adj'[t] = MinAdvance
      BY <2>1, <2>2, <2>3 DEF Typed
    <2>5. si[t].mach - before \in Int
      BY Numbers DEF Typed
    <2>6. Uint64(si[t].mach - before) \in Nat /\ Uint64(si[t].mach - before) <= Range64 /\ Range64 \in Nat
      BY <2>5, InRange
    <2>7. m \in Nat /\ m <= Range64 \div DriftDivisor
      BY <2>3, <2>6, Quotients
    <2>8. Range64 \div DriftDivisor \in Nat
      BY <2>6, Quotients
    <2> QED
      BY <2>3, <2>4, <2>7, <2>8, Numbers
  <1> QED
    BY <1>1, <1>2

\* The cached offset stays one of a sample, and the next one stays larger.
LEMMA CacheStep ==
  Regular /\ ~split /\ IInv /\ [Next]_vars => CacheInv'
  <1> SUFFICES ASSUME Regular, ~split, IInv, [Next]_vars PROVE CacheInv'
    OBVIOUS
  <1>t. Typed /\ CacheInv /\ SampleInv /\ LockInv /\ ClockInv
    BY TypedIsTypeOK DEF IInv
  <1>p. /\ Offsets \subseteq Offsets' /\ split' = split
    BY <1>t, Passes
  <1>g. /\ sleep_offset \in Nat /\ sleep_offset' \in Nat
        /\ \/ sleep_offset' = sleep_offset
           \/ \E t \in Threads : /\ Store(t, "offset") /\ sleep_offset' = new[t]
                                 /\ sleep_offset < new[t]
    BY <1>t, OffsetGrows
  <1>s. \A u \in Threads : CacheOf(u)
    BY <1>t DEF CacheInv, CacheOf
  <1>1. sleep_offset' \in Offsets' \cup {0}
    BY <1>g, <1>p, <1>t DEF CacheInv, Store
  <1>2. first' = 0
    <2>1. CASE UNCHANGED first
      BY <1>t, <2>1 DEF CacheInv
    <2>2. ASSUME NEW t \in Threads, Apply(t)
          PROVE  first' = 0
      BY <1>t, <2>2, ApplyAdvances
    <2> QED
      BY <2>1, <2>2, WhoSteps DEF threads, Moves, cached, Call, LockFails, GetScale, GetBoottime,
         BoottimeFails, GetTodmach, CheckBoottime, GetDrift, Lock, Unlock, Store, ReadClock, Load,
         ReturnTime
  <1>3. ASSUME NEW u \in Threads, adj'[u] = adj[u], todo'[u] = todo[u], new'[u] = new[u],
               pc'[u] = pc[u], ~Store(u, "offset")
        PROVE  CacheOf(u)'
    <2>1. "offset" \in todo[u] => owner = u
      BY <1>t DEF LockInv
    <2>2. "offset" \in todo[u] => sleep_offset' = sleep_offset
      BY <1>3, <1>g, <1>t, <2>1 DEF LockInv, Store
    <2> QED
      BY <1>3, <1>p, <1>s, <2>2 DEF CacheOf
  <1>4. ASSUME NEW t \in Threads, Moves(t)
        PROVE  CacheOf(t)'
    <2>1. CASE adj'[t] = adj[t] /\ todo'[t] = todo[t] /\ todo[t] = {} /\ pc'[t] # "store"
      BY <1>s, <2>1 DEF CacheOf
    <2>2. CASE Return(t) /\ todo'[t] = todo[t] /\ todo[t] = {}
      BY <2>2, <1>t, ReturnsTo, InRange, Quotients, Numbers DEF CacheOf
    <2>3. CASE Call(t) \/ ReadClock(t) \/ Load(t) \/ ReturnTime(t)
      BY <2>1, <2>3, <1>t DEF Call, ReadClock, Load, ReturnTime, Typed, Goto, setup, LockInv
    <2>4. CASE LockFails(t) \/ GetScale(t) \/ GetTodmach(t) \/ Unlock(t)
      BY <2>1, <2>2, <2>4, <1>t DEF LockFails, GetScale, GetTodmach, Unlock, Typed, Goto, LockInv
    <2>5. CASE GetBoottime(t) \/ CheckBoottime(t)
      BY <2>1, <2>2, <2>5, <1>t DEF GetBoottime, CheckBoottime, BoottimeFails, Typed, Goto, LockInv
    <2>6. CASE GetDrift(t)
      <3>1. todo'[t] = {} /\ pc'[t] # "store"
        BY <2>6, <1>t, ReturnsTo DEF GetDrift, LockInv, Typed, Goto
      <3>2. adj'[t] <= MinAdvance + (Range64 \div DriftDivisor)
        BY <2>6, <1>t, <1>s, DriftBound DEF CacheOf
      <3> QED
        BY <3>1, <3>2 DEF CacheOf
    <2>7. CASE Lock(t)
      BY <2>1, <2>7, <1>t DEF Lock, setup, Typed, Goto, LockInv
    <2>8. CASE Apply(t)
      <3>1. /\ new'[t] = Offset(t) /\ Offset(t) \in Offsets
            /\ todo'[t] = IF Offset(t) > sleep_offset + adj[t] THEN Stores ELSE {"valid"}
        BY <2>8, <1>t, ApplyAdvances
      <3>2. adj'[t] = adj[t] /\ sleep_offset' = sleep_offset
        BY <2>8 DEF Apply, sleep_offset
      <3>3. Offset(t) \in Int /\ adj[t] \in Nat
        BY <3>1, <1>t, OffsetRange DEF Typed
      <3> QED
        BY <1>p, <1>g, <1>s, <3>1, <3>2, <3>3 DEF CacheOf
    <2>9. ASSUME NEW s \in {"offset", "high", "low", "info", "valid"}, Store(t, s)
          PROVE  CacheOf(t)'
      <3>1. /\ adj'[t] = adj[t] /\ new'[t] = new[t] /\ pc'[t] = pc[t]
            /\ todo'[t] = todo[t] \ {s} /\ owner = t
        BY <2>9, <1>t DEF Store, Typed, LockInv
      <3>2. "offset" \in todo'[t] => sleep_offset' = sleep_offset
        <4>1. ASSUME "offset" \in todo'[t] PROVE ~Store(t, "offset")
          BY <4>1, <1>t DEF Store, Typed
        <4>2. \A u \in Threads : Store(u, "offset") => u = t
          BY <3>1, <1>t DEF LockInv, Store
        <4> QED
          BY <4>1, <4>2, <1>g
      <3> QED
        BY <1>p, <1>s, <3>1, <3>2 DEF CacheOf
    <2> QED
      BY <1>4, <2>3, <2>4, <2>5, <2>6, <2>7, <2>8, <2>9 DEF Moves
  <1>5. \A u \in Threads : CacheOf(u)'
    <2>1. CASE UNCHANGED threads
      <3>1. \A u \in Threads : ~Store(u, "offset")
        BY <2>1, <1>t DEF Store, threads, setup, Typed
      <3> QED
        BY <1>3, <2>1, <3>1 DEF threads, setup
    <2>2. ASSUME NEW t \in Threads, Moves(t)
          PROVE  \A u \in Threads : CacheOf(u)'
      <3>1. ASSUME NEW u \in Threads, u # t PROVE CacheOf(u)'
        <4>1. ~Store(u, "offset")
          BY <2>2, <3>1, <1>t, OthersKept DEF Store, Typed
        <4> QED
          BY <1>3, <1>t, <2>2, <3>1, <4>1, OthersKept
      <3> QED
        BY <1>4, <2>2, <3>1
    <2> QED
      BY <2>1, <2>2, WhoSteps
  <1> QED
    BY <1>1, <1>2, <1>5 DEF CacheInv, CacheOf

\* What TimeInv says of one thread.
TimeOf(t) ==
  /\ floor[t] <= top
  /\ pc[t] = "load" => got[t].mach <= now /\ floor[t] <= got[t].mach + sleep_offset
  /\ pc[t] = "return" => /\ got[t].mach <= now /\ got[t].high >= 0 /\ got[t].low >= 0
                         /\ Loaded(t) \in 0 .. sleep_offset
                         /\ floor[t] <= got[t].mach + Loaded(t)

\* A call returns no less than its clock and its offset, without a carry out of the range.
LEMMA ReturnedTime ==
  ASSUME Regular, ~split, Typed, ClockInv, CacheInv, TimeInv, NEW t \in Threads, ReturnTime(t)
  PROVE  /\ Uint64(got[t].mach + got[t].high * Word + got[t].low) = got[t].mach + Loaded(t)
         /\ got[t].mach + Loaded(t) \in Nat
         /\ floor[t] <= got[t].mach + Loaded(t)
         /\ got[t].mach + Loaded(t) <= now + sleep_offset
  <1>1. /\ got[t].mach <= now /\ Loaded(t) \in 0 .. sleep_offset
        /\ floor[t] <= got[t].mach + Loaded(t)
    BY DEF TimeInv, ReturnTime
  <1>2. /\ sleep_offset \in Nat
        /\ sleep_offset = 0 \/ sleep_offset + MaxNow + MinAdvance + (Range64 \div DriftDivisor) < Range64
    BY OffsetRange DEF CacheInv
  <1>3. /\ Range64 \in Nat /\ Range64 \div DriftDivisor \in Nat
        /\ MaxAsleep + MaxStray + MaxNow + MinAdvance + (Range64 \div DriftDivisor) < Range64
    BY InRange, Quotients DEF Regular
  <1>4. sleep_offset + MaxNow < Range64
    BY <1>2, <1>3, Numbers
  <1>5. /\ got[t].mach \in 0 .. MaxNow /\ got[t].high \in Int /\ got[t].low \in Int /\ now \in 0 .. MaxNow
        /\ Word \in Int
    BY Numbers DEF Typed
  <1>6. got[t].mach + got[t].high * Word + got[t].low = got[t].mach + Loaded(t)
    <2>1. PICK h : h = got[t].high * Word
      OBVIOUS
    <2>2. h \in Int
      BY <1>5, <2>1
    <2> QED
      BY <1>5, <2>1, <2>2 DEF Loaded
  <1>7. got[t].mach + Loaded(t) \in 0 .. Range64 - 1
    BY <1>1, <1>2, <1>3, <1>4, <1>5, Numbers
  <1> QED
    BY <1>1, <1>2, <1>5, <1>6, <1>7, InRange

\* A time that has been reached stays reached.
LEMMA StaysReached ==
  ASSUME NEW x \in Int, NEW n \in Int, NEW n1 \in Int, NEW o \in Int, NEW o1 \in Int,
         n <= n1, o <= o1, x <= n + o
  PROVE  x <= n1 + o1
  OBVIOUS

\* No call returns less than what was returned before it began.
LEMMA TimeStep ==
  Regular /\ ~split /\ IInv /\ [Next]_vars => TimeInv'
  <1> SUFFICES ASSUME Regular, ~split, IInv, [Next]_vars PROVE TimeInv'
    OBVIOUS
  <1>t. Typed /\ CacheInv /\ SampleInv /\ LockInv /\ ClockInv /\ TimeInv
    BY TypedIsTypeOK DEF IInv
  <1>p. now \in Int /\ now' \in Int /\ now <= now'
    BY <1>t, Passes
  <1>g. /\ sleep_offset \in Nat /\ sleep_offset' \in Nat /\ sleep_offset <= sleep_offset'
    BY <1>t, OffsetGrows DEF Typed
  <1>s. \A u \in Threads : /\ TimeOf(u) /\ floor[u] \in Nat
                           /\ got[u].mach \in Int /\ got[u].high \in Int /\ got[u].low \in Int
    BY <1>t, Numbers DEF TimeInv, TimeOf, Typed
  <1>u. top \in Nat /\ top <= now + sleep_offset
    BY <1>t DEF Typed, TimeInv
  <1>v. ~back
    BY <1>t DEF TimeInv
  <1>1. ASSUME NEW t \in Threads, ReturnTime(t)
        PROVE  top' \in Nat /\ top <= top' /\ top' <= now' + sleep_offset' /\ ~back'
    <2>1. PICK x : x = got[t].mach + Loaded(t)
      OBVIOUS
    <2>2. /\ x \in Nat /\ floor[t] <= x /\ x <= now + sleep_offset
          /\ top' = (IF x > top THEN x ELSE top) /\ back' = (back \/ x < floor[t])
      BY <1>1, <1>t, <2>1, ReturnedTime DEF ReturnTime
    <2>3. ~(x < floor[t])
      BY <1>s, <2>2
    <2>4. ~back'
      BY <1>v, <2>2, <2>3
    <2>5. top <= now' + sleep_offset' /\ x <= now' + sleep_offset'
      <3>1. x \in Int /\ top \in Int /\ sleep_offset \in Int /\ sleep_offset' \in Int
        BY <1>g, <1>u, <2>2
      <3> QED
        BY <1>p, <1>g, <1>u, <2>2, <3>1, StaysReached, Zenon
    <2>6. top' \in Nat /\ top <= top'
      BY <1>u, <2>2
    <2> QED
      BY <2>2, <2>4, <2>5, <2>6
  <1>2. ASSUME top' = top, back' = back
        PROVE  top' \in Nat /\ top <= top' /\ top' <= now' + sleep_offset' /\ ~back'
    <2>1. top' \in Nat /\ top <= now' + sleep_offset' /\ top <= top'
      <3>1. top \in Int /\ sleep_offset \in Int /\ sleep_offset' \in Int
        BY <1>g, <1>u
      <3>2. top <= now' + sleep_offset'
        BY <1>p, <1>g, <1>u, <3>1, StaysReached, Zenon
      <3> QED
        BY <1>u, <1>2, <3>2
    <2>2. ~back'
      BY <1>v, <1>2
    <2> QED
      BY <1>2, <2>1, <2>2
  <1>3. top' \in Nat /\ top <= top' /\ top' <= now' + sleep_offset' /\ ~back'
    <2>1. UNCHANGED <<top, back>> \/ \E t \in Threads : ReturnTime(t)
      <3>1. CASE UNCHANGED threads
        BY <3>1 DEF threads
      <3>2. ASSUME NEW t \in Threads, Moves(t), ~ReturnTime(t) PROVE UNCHANGED <<top, back>>
        <4>1. CASE Call(t) \/ LockFails(t) \/ GetScale(t) \/ GetBoottime(t) \/ GetTodmach(t)
          BY <4>1, Zenon DEF Call, LockFails, GetScale, GetBoottime, GetTodmach, history
        <4>2. CASE CheckBoottime(t) \/ GetDrift(t) \/ Lock(t) \/ Apply(t) \/ Unlock(t)
          BY <4>2, Zenon DEF CheckBoottime, GetDrift, Lock, Apply, Unlock, history
        <4>3. CASE \/ \E s \in {"offset", "high", "low", "info", "valid"} : Store(t, s)
                   \/ ReadClock(t) \/ Load(t)
          BY <4>3, Zenon DEF Store, ReadClock, Load, history
        <4> QED
          BY <3>2, <4>1, <4>2, <4>3 DEF Moves
      <3> QED
        BY <3>1, <3>2, WhoSteps
    <2> QED
      BY <1>1, <1>2, <1>p, <1>g, <1>u, <2>1
  <1>4. ASSUME NEW u \in Threads, pc'[u] = pc[u], got'[u] = got[u], floor'[u] = floor[u]
        PROVE  TimeOf(u)'
    <2>1. Loaded(u)' = Loaded(u)
      BY <1>4 DEF Loaded
    <2> QED
      BY <1>3, <1>4, <1>p, <1>g, <1>s, <1>u, <2>1 DEF TimeOf
  <1>5. ASSUME NEW t \in Threads, Moves(t)
        PROVE  TimeOf(t)'
    <2>1. CASE floor'[t] = floor[t] /\ pc'[t] \notin {"load", "return"}
      BY <1>3, <1>s, <1>u, <2>1 DEF TimeOf
    <2>2. CASE Call(t)
      BY <2>2, <1>t, <1>u DEF Call, Typed, Goto, TimeOf
    <2>3. CASE ReadClock(t)
      <3>1. /\ got'[t].mach = now /\ pc'[t] = "load" /\ floor'[t] = floor[t] /\ now' = now
            /\ top' = top
        BY <2>3, <1>t DEF ReadClock, Typed, Goto, history, kernel, Unread
      <3> QED
        BY <3>1, <1>p, <1>g, <1>s, <1>u DEF TimeOf
    <2>4. CASE Load(t)
      <3>1. /\ got'[t].mach = got[t].mach /\ got'[t].high = high /\ got'[t].low = low
            /\ floor'[t] = floor[t] /\ now' = now /\ top' = top /\ high' = high /\ low' = low
            /\ pc[t] = "load"
        BY <2>4, <1>t DEF Load, Typed, history, kernel, cached
      <3>2. high \in Int /\ low \in Int /\ high >= 0 /\ low >= 0
        BY <1>t, Numbers DEF Typed
      <3>3. pc'[t] = "return"
        BY <2>4, <3>1, <3>2, <1>t DEF Load, Typed, Goto
      <3>4. Loaded(t)' = sleep_offset /\ sleep_offset' = sleep_offset
        BY <3>1 DEF Loaded, sleep_offset
      <3> QED
        BY <1>p, <1>g, <1>s, <1>u, <3>1, <3>2, <3>3, <3>4 DEF TimeOf
    <2>5. CASE ReturnTime(t)
      BY <1>3, <2>5, <1>t DEF ReturnTime, Typed, Goto, TimeOf
    <2>6. CASE LockFails(t) \/ GetScale(t) \/ GetTodmach(t) \/ Unlock(t)
      BY <2>1, <2>6, <1>t, ReturnsTo DEF LockFails, GetScale, GetTodmach, Unlock, Typed, Goto, history
    <2>7. CASE GetBoottime(t) \/ CheckBoottime(t)
      BY <2>1, <2>7, <1>t, ReturnsTo DEF GetBoottime, CheckBoottime, BoottimeFails, Typed, Goto, history
    <2>8. CASE GetDrift(t)
      BY <2>1, <2>8, <1>t, ReturnsTo DEF GetDrift, Typed, Goto, history
    <2>9. CASE Lock(t) \/ Apply(t)
      BY <2>1, <2>9, <1>t DEF Lock, Apply, Typed, Goto, history
    <2>10. CASE \E s \in {"offset", "high", "low", "info", "valid"} : Store(t, s)
      BY <2>1, <2>10, <1>t DEF Store, Typed, history
    <2> QED
      BY <1>5, <2>2, <2>3, <2>4, <2>5, <2>6, <2>7, <2>8, <2>9, <2>10 DEF Moves
  <1>6. \A u \in Threads : TimeOf(u)'
    <2>1. CASE UNCHANGED threads
      BY <1>4, <2>1 DEF threads
    <2>2. ASSUME NEW t \in Threads, Moves(t)
          PROVE  \A u \in Threads : TimeOf(u)'
      BY <1>4, <1>5, <1>t, <2>2, OthersKept
    <2> QED
      BY <2>1, <2>2, WhoSteps
  <1> QED
    BY <1>3, <1>6 DEF TimeInv, TimeOf

\* A sleep that is counted stays counted when the offset grows.
LEMMA StaysCounted ==
  ASSUME NEW o \in Int, NEW o1 \in Int, o <= o1,
         o + MinAdvance + (MaxNow \div DriftDivisor) + Delay >= SleptBefore
  PROVE  o1 + MinAdvance + (MaxNow \div DriftDivisor) + Delay >= SleptBefore
  <1>1. PICK q \in Nat : q = MaxNow \div DriftDivisor
    BY Numbers, Quotients
  <1> QED
    BY <1>1, Numbers

\* An offset of a sample counts the sleep before the launch, and so does one that it does not
\* advance by more than the least advance.
LEMMA SampleCounts ==
  ASSUME Regular, Jitters \subseteq Nat, Typed, ClockInv, NEW x \in Offsets, NEW o \in Int,
         NEW d \in Int, d <= MinAdvance + (MaxNow \div DriftDivisor), x <= o + d
  PROVE  o + MinAdvance + (MaxNow \div DriftDivisor) + Delay >= SleptBefore
  <1>1. PICK q \in Nat : q = MaxNow \div DriftDivisor
    BY Numbers, Quotients
  <1>2. x \in Int /\ x + Delay >= SleptBefore
    BY OffsetRange
  <1> QED
    BY <1>1, <1>2, Numbers

\* A least advance beyond the drift of the whole time comes from a later sleep_info.
LEMMA LargeDrift ==
  ASSUME Typed, ~split, NEW t \in Threads, GetDrift(t),
         adj'[t] > MinAdvance + (MaxNow \div DriftDivisor)
  PROVE  before > 0
  <1> SUFFICES ASSUME ~(before > 0) PROVE FALSE
    OBVIOUS
  <1>1. before = 0 /\ si[t].mach \in 0 .. MaxNow
    BY Numbers DEF Typed
  <1>2. MaxNow < Range64 /\ Range64 \in Nat
    <2>1. Range64 > 2 * (MaxNow + MaxAsleep + MinAdvance)
      BY TimeAssumption DEF Range64
    <2> QED
      BY <2>1, Numbers, InRange
  <1>3. si[t].mach - before = si[t].mach /\ si[t].mach \in 0 .. Range64 - 1
    BY <1>1, <1>2, Numbers
  <1>4. Uint64(si[t].mach - before) = si[t].mach
    BY <1>3, InRange
  <1>5. PICK m : m = si[t].mach \div DriftDivisor
    OBVIOUS
  <1>6. PICK q \in Nat : q = MaxNow \div DriftDivisor
    BY Numbers, Quotients
  <1>7. m \in Nat /\ m <= q
    BY <1>1, <1>5, <1>6, Numbers, Quotients
  <1>8. adj'[t] \in {0, MinAdvance, m}
    BY <1>4, <1>5, DriftBound
  <1>9. adj'[t] > MinAdvance + q
    BY <1>6
  <1>10. PICK a : a = adj'[t]
    OBVIOUS
  <1> QED
    BY <1>6, <1>7, <1>8, <1>9, <1>10, Numbers

\* What CountInv says of one thread.
CountOf(t) ==
  /\ pc[t] \in {"lock", "apply"} /\ adj[t] > MinAdvance + (MaxNow \div DriftDivisor)
       => Counted \/ Pending
  /\ pc[t] = "store" => Counted \/ "offset" \in todo[t]

\* A setup that has run to its end has left an offset that counts the sleep.
LEMMA CountStep ==
  Regular /\ Jitters \subseteq Nat /\ ~split /\ IInv /\ CountInv /\ [Next]_vars => CountInv'
  <1> SUFFICES ASSUME Regular, Jitters \subseteq Nat, ~split, IInv, CountInv, [Next]_vars
               PROVE  CountInv'
    OBVIOUS
  <1>t. Typed /\ CacheInv /\ SampleInv /\ LockInv /\ ClockInv
    BY TypedIsTypeOK DEF IInv
  <1>l. LockInv'
    BY <1>t, LockStep
  <1>g. sleep_offset \in Int /\ sleep_offset' \in Int /\ sleep_offset <= sleep_offset'
    BY <1>t, OffsetGrows DEF Typed
  <1>c. Counted => Counted'
    <2>1. Counted' <=> sleep_offset' + MinAdvance + (MaxNow \div DriftDivisor) + Delay >= SleptBefore
      BY DEF Counted
    <2> QED
      BY <1>g, <2>1, StaysCounted, Zenon DEF Counted
  <1>s. \A u \in Threads : CountOf(u)
    BY DEF CountInv, CountOf
  <1>1. ASSUME NEW t \in Threads, Store(t, "offset") PROVE Counted'
    <2>1. sleep_offset' = new[t] /\ new[t] \in Offsets
      <3>1. new[t] \in 0 .. Range64 - 1
        BY <1>t DEF Typed
      <3>2. sleep_offset' = new[t]
        BY <1>1, <3>1, Words DEF Store, sleep_offset
      <3> QED
        BY <1>1, <1>t, <3>2 DEF CacheInv, Store
    <2>2. new[t] \in Int
      BY <1>t, <2>1, OffsetRange
    <2>3. 0 <= MinAdvance + (MaxNow \div DriftDivisor) /\ new[t] <= new[t] + 0
      <3>1. PICK q \in Nat : q = MaxNow \div DriftDivisor
        BY Numbers, Quotients
      <3> QED
        BY <2>2, <3>1, Numbers
    <2>4. new[t] + MinAdvance + (MaxNow \div DriftDivisor) + Delay >= SleptBefore
      BY <1>t, <2>1, <2>2, <2>3, SampleCounts
    <2> QED
      BY <2>1, <2>4 DEF Counted
  <1>2. ASSUME NEW t \in Threads, "offset" \in todo[t]
        PROVE  Counted' \/ (Pending' /\ "offset" \in todo'[t])
    <2>1. owner = t /\ pc[t] = "store" /\ t # NoThread
      BY <1>2, <1>t, Numbers DEF LockInv
    <2>2. CASE UNCHANGED threads
      BY <1>2, <2>1, <2>2 DEF threads, setup, Pending
    <2>3. ASSUME NEW u \in Threads, Moves(u)
          PROVE  Counted' \/ (Pending' /\ "offset" \in todo'[t])
      <3>1. CASE u # t
        <4>1. todo'[t] = todo[t] /\ pc'[t] = pc[t]
          BY <1>t, <2>3, <3>1, OthersKept
        <4>2. owner' = t
          BY <1>l, <2>1, <4>1 DEF LockInv
        <4> QED
          BY <1>2, <2>1, <4>1, <4>2 DEF Pending
      <3>2. CASE u = t
        <4>1. \E s \in {"offset", "high", "low", "info", "valid"} : Store(t, s)
          BY <1>2, <2>1, <2>3, <3>2 DEF Moves, Call, LockFails, GetScale, GetBoottime, GetTodmach,
             CheckBoottime, GetDrift, Lock, Apply, Unlock, ReadClock, Load, ReturnTime
        <4>2. ASSUME NEW s, Store(t, s), s # "offset"
              PROVE  Pending' /\ "offset" \in todo'[t]
          BY <1>2, <1>t, <2>1, <4>2 DEF Store, Typed, Pending
        <4> QED
          BY <1>1, <4>1, <4>2
      <3> QED
        BY <3>1, <3>2
    <2> QED
      BY <2>2, <2>3, WhoSteps
  <1>3. Pending => Counted' \/ Pending'
    <2>1. Pending => owner \in Threads
      BY <1>t DEF Pending, Typed
    <2> QED
      BY <1>2, <2>1 DEF Pending
  <1>4. measured' => Counted'
    <2>1. measured' => measured \/ \E t \in Threads : Unlock(t)
      <3>1. CASE UNCHANGED threads
        BY <3>1 DEF threads
      <3>2. ASSUME NEW t \in Threads, Moves(t), ~Unlock(t) PROVE measured' = measured
        <4>1. CASE Call(t) \/ LockFails(t) \/ GetScale(t) \/ GetBoottime(t) \/ GetTodmach(t)
          BY <4>1, Zenon DEF Call, LockFails, GetScale, GetBoottime, GetTodmach, history
        <4>2. CASE CheckBoottime(t) \/ GetDrift(t) \/ Lock(t) \/ Apply(t)
          BY <4>2, Zenon DEF CheckBoottime, GetDrift, Lock, Apply, history
        <4>3. CASE \/ \E s \in {"offset", "high", "low", "info", "valid"} : Store(t, s)
                   \/ ReadClock(t) \/ Load(t) \/ ReturnTime(t)
          BY <4>3, Zenon DEF Store, ReadClock, Load, ReturnTime, history
        <4> QED
          BY <3>2, <4>1, <4>2, <4>3 DEF Moves
      <3> QED
        BY <3>1, <3>2, WhoSteps
    <2>2. ASSUME NEW t \in Threads, Unlock(t) PROVE Counted
      BY <1>s, <2>2 DEF Unlock, CountOf
    <2> QED
      BY <1>c, <2>1, <2>2 DEF CountInv
  <1>5. before' > 0 => Counted' \/ Pending'
    <2>1. before' = before \/ \E t \in Threads : Store(t, "info")
      <3>1. CASE UNCHANGED threads
        BY <3>1 DEF threads
      <3>2. ASSUME NEW t \in Threads, Moves(t), ~Store(t, "info") PROVE before' = before
        <4>1. CASE Call(t) \/ LockFails(t) \/ GetScale(t) \/ GetBoottime(t) \/ GetTodmach(t)
          BY <4>1, Zenon DEF Call, LockFails, GetScale, GetBoottime, GetTodmach, cached
        <4>2. CASE CheckBoottime(t) \/ GetDrift(t) \/ Lock(t) \/ Apply(t) \/ Unlock(t)
          BY <4>2, Zenon DEF CheckBoottime, GetDrift, Lock, Apply, Unlock, cached
        <4>3. CASE ReadClock(t) \/ Load(t) \/ ReturnTime(t)
          BY <4>3, Zenon DEF ReadClock, Load, ReturnTime, cached
        <4>4. ASSUME NEW s \in {"offset", "high", "low", "info", "valid"}, Store(t, s)
              PROVE  before' = before
          BY <3>2, <4>4 DEF Store
        <4> QED
          BY <3>2, <4>1, <4>2, <4>3, <4>4 DEF Moves
      <3> QED
        BY <3>1, <3>2, WhoSteps
    <2>2. ASSUME NEW t \in Threads, Store(t, "info") PROVE Counted \/ "offset" \in todo[t]
      BY <1>s, <2>2 DEF Store, CountOf
    <2> QED
      BY <1>2, <1>3, <1>c, <2>1, <2>2 DEF CountInv
  <1>6. ASSUME NEW u \in Threads, pc'[u] = pc[u] \/ (pc[u] = "lock" /\ pc'[u] = "apply"),
               adj'[u] = adj[u]
        PROVE  CountOf(u)'
    <2>1. CountOf(u)' <=>
            /\ pc'[u] \in {"lock", "apply"} /\ adj'[u] > MinAdvance + (MaxNow \div DriftDivisor)
                 => Counted' \/ Pending'
            /\ pc'[u] = "store" => Counted' \/ "offset" \in todo'[u]
      BY DEF CountOf
    <2>2. pc'[u] \in {"lock", "apply"} /\ adj'[u] > MinAdvance + (MaxNow \div DriftDivisor)
             => Counted \/ Pending
      BY <1>6, <1>s DEF CountOf
    <2>3. pc'[u] = "store" => Counted \/ "offset" \in todo[u]
      BY <1>6, <1>s DEF CountOf
    <2> QED
      BY <1>2, <1>3, <1>c, <2>1, <2>2, <2>3
  <1>7. ASSUME NEW t \in Threads, Moves(t)
        PROVE  CountOf(t)'
    <2>1. CASE pc'[t] \notin {"lock", "apply", "store"}
      BY <2>1 DEF CountOf
    <2>2. CASE GetDrift(t)
      <3>1. pc'[t] # "store"
        BY <2>2, <1>t, ReturnsTo DEF GetDrift, Typed, Goto
      <3>2. adj'[t] > MinAdvance + (MaxNow \div DriftDivisor) => Counted \/ Pending
        BY <2>2, <1>t, LargeDrift DEF CountInv
      <3> QED
        BY <1>3, <1>c, <3>1, <3>2 DEF CountOf
    <2>3. CASE Lock(t)
      BY <1>6, <1>t, <2>3 DEF Lock, Typed, Goto, setup
    <2>4. CASE Apply(t)
      <3>1. /\ Offset(t) \in Offsets /\ pc'[t] = "store"
            /\ todo'[t] = IF Offset(t) > sleep_offset + adj[t] THEN Stores ELSE {"valid"}
        BY <2>4, <1>t, ApplyAdvances
      <3>2. "offset" \in Stores
        BY DEF Stores
      <3>3. ASSUME ~(Offset(t) > sleep_offset + adj[t]) PROVE Counted
        <4>1. CASE adj[t] > MinAdvance + (MaxNow \div DriftDivisor)
          <5>1. Counted \/ Pending
            BY <1>s, <2>4, <4>1 DEF Apply, CountOf
          <5>2. owner = t /\ todo[t] = {}
            BY <1>t, <2>4 DEF Apply, LockInv
          <5> QED
            BY <5>1, <5>2 DEF Pending
        <4>2. CASE ~(adj[t] > MinAdvance + (MaxNow \div DriftDivisor))
          <5>1. PICK q \in Nat : q = MaxNow \div DriftDivisor
            BY Numbers, Quotients
          <5>2. adj[t] \in Int /\ Offset(t) \in Int
            BY <1>t, <3>1, OffsetRange DEF Typed
          <5>3. adj[t] <= MinAdvance + (MaxNow \div DriftDivisor) /\ Offset(t) <= sleep_offset + adj[t]
            BY <1>g, <3>3, <4>2, <5>1, <5>2, Numbers
          <5> QED
            BY <1>g, <1>t, <3>1, <5>2, <5>3, SampleCounts DEF Counted
        <4> QED
          BY <4>1, <4>2
      <3> QED
        BY <1>c, <3>1, <3>2, <3>3 DEF CountOf
    <2>5. CASE \E s \in {"offset", "high", "low", "info", "valid"} : Store(t, s)
      BY <1>6, <1>t, <2>5 DEF Store
    <2>6. CASE LockFails(t) \/ GetScale(t) \/ GetTodmach(t) \/ Unlock(t)
      BY <2>1, <2>6, <1>t, ReturnsTo DEF LockFails, GetScale, GetTodmach, Unlock, Typed, Goto
    <2>7. CASE GetBoottime(t) \/ CheckBoottime(t)
      BY <2>1, <2>7, <1>t, ReturnsTo DEF GetBoottime, CheckBoottime, BoottimeFails, Typed, Goto
    <2>8. CASE Call(t) \/ ReadClock(t) \/ Load(t) \/ ReturnTime(t)
      BY <2>1, <2>8, <1>t DEF Call, ReadClock, Load, ReturnTime, Typed, Goto
    <2> QED
      BY <1>7, <2>2, <2>3, <2>4, <2>5, <2>6, <2>7, <2>8 DEF Moves
  <1>8. \A u \in Threads : CountOf(u)'
    <2>1. CASE UNCHANGED threads
      BY <1>6, <2>1 DEF threads, setup
    <2>2. ASSUME NEW t \in Threads, Moves(t)
          PROVE  \A u \in Threads : CountOf(u)'
      BY <1>6, <1>7, <1>t, <2>2, OthersKept
    <2> QED
      BY <2>1, <2>2, WhoSteps
  <1> QED
    BY <1>4, <1>5, <1>8 DEF CountInv, CountOf

-----------------------------------------------------------------------------
(* The theorems.                                                           *)

\* The types hold at the launch.
LEMMA InitTyped == Init => Typed
  <1> SUFFICES ASSUME Init PROVE Typed
    OBVIOUS
  <1>1. Range64 \in Nat \ {0}
    BY InRange
  <1>2. /\ now \in 0 .. MaxNow /\ asleep \in SleptBefore .. MaxAsleep
        /\ shift \in Int /\ boot \in Int /\ steps \in 0 .. MaxSteps
        /\ high \in 0 .. Word - 1 /\ low \in 0 .. Word - 1
        /\ first \in Int /\ before \in 0 .. MaxNow /\ top \in Nat
    BY Numbers DEF Init
  <1>3. /\ pc \in [Threads -> PCs] /\ owner \in Threads \cup {NoThread}
        /\ todo \in [Threads -> SUBSET Stores]
    BY DEF Init, PCs
  <1>4. /\ si \in [Threads -> [boot : Int, raw : Int, mach : 0 .. MaxNow]]
        /\ got \in [Threads -> [mach : 0 .. MaxNow, high : -1 .. Word - 1, low : -1 .. Word - 1]]
    BY Numbers DEF Init, NoSample, Unread
  <1>5. /\ adj \in [Threads -> Nat] /\ new \in [Threads -> 0 .. Range64 - 1]
        /\ floor \in [Threads -> Nat]
    BY <1>1 DEF Init
  <1> QED
    BY <1>2, <1>3, <1>4, <1>5 DEF Typed, Init

\* The variables of time.c keep their types, the two words of sleep_offset among them, in
\* every build and whatever the system answers.
THEOREM TypeCorrect == Spec => []TypeOK
  <1>1. Init => TypeOK
    BY InitTyped, TypedIsTypeOK
  <1>2. TypeOK /\ [Next]_vars => TypeOK'
    BY TypeStep, TypedIsTypeOK
  <1> QED
    BY <1>1, <1>2, PTL DEF Spec

\* The inductive invariants hold at the launch.
LEMMA InitIInv == Init => IInv /\ CountInv
  <1> SUFFICES ASSUME Init PROVE IInv /\ CountInv
    OBVIOUS
  <1>1. TypeOK
    BY InitTyped, TypedIsTypeOK
  <1>2. ClockInv
    BY Numbers DEF Init, ClockInv, Stray
  <1>3. LockInv /\ SampleInv
    BY Numbers DEF Init, LockInv, SampleInv
  <1>4. sleep_offset = 0
    BY Numbers DEF Init, sleep_offset
  <1>5. CacheInv
    <2>1. 0 <= MinAdvance + (Range64 \div DriftDivisor)
      <3>1. PICK q \in Nat : q = Range64 \div DriftDivisor
        BY InRange, Quotients
      <3> QED
        BY <3>1, Numbers
    <2> QED
      BY <1>4, <2>1 DEF Init, CacheInv
  <1>6. TimeInv
    <2>1. ~back
      BY DEF Init
    <2>2. top <= now + sleep_offset /\ \A t \in Threads : floor[t] <= top
      BY <1>4 DEF Init
    <2>3. \A t \in Threads : pc[t] \notin {"load", "return"}
      BY DEF Init
    <2> QED
      BY <2>1, <2>2, <2>3 DEF TimeInv
  <1>7. CountInv
    BY DEF Init, CountInv
  <1> QED
    BY <1>1, <1>2, <1>3, <1>5, <1>6, <1>7 DEF IInv

\* Every step of a build with whole stores keeps the invariant of the time returned.
LEMMA NextIInv ==
  ASSUME Regular, ~split, IInv, [Next]_vars
  PROVE  IInv' /\ split' = split
  <1>1. Typed /\ ClockInv /\ LockInv /\ SampleInv
    BY TypedIsTypeOK DEF IInv
  <1>2. Typed' /\ TypeOK'
    BY <1>1, TypeStep, TypedIsTypeOK
  <1>3. ClockInv' /\ split' = split
    BY <1>1, Passes
  <1>4. LockInv' /\ SampleInv'
    BY <1>1, LockStep, SampleStep
  <1>5. CacheInv' /\ TimeInv'
    BY CacheStep, TimeStep
  <1> QED
    BY <1>2, <1>3, <1>4, <1>5 DEF IInv

\* The invariant holds throughout, in builds with whole stores.
LEMMA InvariantHolds ==
  ASSUME Regular
  PROVE  Spec => [](~split => IInv)
  <1>1. Init => (~split => IInv)
    BY InitIInv
  <1>2. (~split => IInv) /\ [Next]_vars => (~split => IInv)'
    <2>1. CASE ~split
      BY <2>1, NextIInv
    <2>2. CASE split
      BY <2>2 DEF Next, Thread, vars
    <2> QED
      BY <2>1, <2>2
  <1> QED
    BY <1>1, <1>2, PTL DEF Spec

\* Continuous time never goes back, in builds with whole stores on a regular system: however
\* many threads set it up at once, while the system sleeps and the clock is set.
THEOREM TimeNeverBack ==
  ASSUME Regular
  PROVE  Spec => [](~split => NeverBack)
  <1>1. (~split => IInv) => (~split => NeverBack)
    BY DEF IInv, TimeInv, NeverBack
  <1> QED
    BY <1>1, InvariantHolds, PTL

\* Continuous time counts no sleep that did not happen, up to a sample's error.
THEOREM TimeNotAhead ==
  ASSUME Regular
  PROVE  Spec => [](~split => NotAhead)
  <1>1. ASSUME IInv PROVE NotAhead
    <2>1. Typed /\ ClockInv /\ sleep_offset \in Offsets \cup {0}
      BY <1>1, TypedIsTypeOK DEF IInv, CacheInv
    <2>2. CASE sleep_offset \in Offsets
      BY <2>1, <2>2, OffsetRange DEF NotAhead
    <2>3. CASE sleep_offset = 0
      <3>1. Stray \in Int /\ 0 <= Stray /\ asleep \in Int /\ 0 <= asleep
        BY <2>1, Numbers DEF Typed, ClockInv
      <3>2. sleep_offset <= asleep + Stray + 0
        BY <2>3, <3>1
      <3> QED
        BY <3>2 DEF NotAhead
    <2> QED
      BY <2>1, <2>2, <2>3
  <1>2. (~split => IInv) => (~split => NotAhead)
    BY <1>1
  <1> QED
    BY <1>2, InvariantHolds, PTL

\* Once a setup has run to its end the sleep before the launch is counted, up to the delay of
\* the boot time and the least advance, when no sample is early.
THEOREM SleepIsCounted ==
  ASSUME Regular, Jitters \subseteq Nat
  PROVE  Spec => [](~split => SleepCounted)
  <1>1. Init => (~split => IInv /\ CountInv)
    BY InitIInv
  <1>2. (~split => IInv /\ CountInv) /\ [Next]_vars => (~split => IInv /\ CountInv)'
    <2>1. CASE ~split
      BY <2>1, NextIInv, CountStep
    <2>2. CASE split
      BY <2>2 DEF Next, Thread, vars
    <2> QED
      BY <2>1, <2>2
  <1>3. (~split => IInv /\ CountInv) => (~split => SleepCounted)
    BY DEF CountInv, Counted, SleepCounted
  <1> QED
    BY <1>1, <1>2, <1>3, PTL DEF Spec
=============================================================================
