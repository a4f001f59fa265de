--------------------------- MODULE ContinuousTime ---------------------------
(***************************************************************************)
(* mach_continuous_time of src/time.c on systems that do not count the     *)
(* time spent asleep: the library deduces it once, at launch, from the     *)
(* time of day, the boot time and the mach time, and caches it.  When the  *)
(* constructor fails every caller tries again, several threads at once:    *)
(* each takes its samples outside of the lock and applies them inside.     *)
(*                                                                         *)
(* Times are in mach units.  The stores made under the lock are read by    *)
(* other threads without it, so they may be seen in any order, and one by  *)
(* one where a 64-bit number is two words (split).                         *)
(***************************************************************************)
EXTENDS Integers, FiniteSets

CONSTANTS
  Threads, Main,   \* threads, and the one that runs the constructor
  NoThread,        \* no thread: the lock is free
  Word,            \* a word counts modulo this, a uint64_t modulo Word^2
  Splits,          \* builds: in 32-bit ones (TRUE) a uint64_t is stored and loaded in halves
  MinAdvance,      \* MIN_SLEEP_OFFSET_ADVANCE
  DriftDivisor,    \* 1000000 / MAX_DRIFT_PPM
  Delay,           \* how late the kernel sets the boot time
  SleptBefore,     \* time asleep before the program was launched
  MaxNow,          \* bound: mach time
  MaxAsleep,       \* bound: time asleep
  Steps, MaxSteps, \* by how much the clock is set, and how often
  BootFollows,     \* whether the boot time follows a set clock: from 10.12 on it does
  MaxStray,        \* bound: by how much the clock gets ahead of the boot time
  Jitters,         \* errors of one time-of-day/mach-time pair
  MayFail          \* whether calls into the system may fail

ASSUME TimeAssumption ==
  /\ Main \in Threads /\ NoThread \notin Threads /\ IsFiniteSet(Threads)
  /\ Word \in Nat \ {0} /\ {MayFail} \cup BootFollows \cup Splits \subseteq BOOLEAN
  /\ {MinAdvance, Delay, SleptBefore, MaxNow, MaxAsleep, MaxSteps, MaxStray} \subseteq Nat
  /\ DriftDivisor \in Nat \ {0} /\ SleptBefore <= MaxAsleep
  /\ Steps \subseteq Int /\ Jitters \subseteq Int
  /\ Word * Word > 2 * (MaxNow + MaxAsleep + MaxStray + MinAdvance)
  /\ Word * Word > (Word * Word) \div DriftDivisor + MaxAsleep + MaxNow

Uint64(n) == n % (Word * Word)

VARIABLES
  split,     \* which build this is
  now,       \* kernel: mach_absolute_time
  asleep,    \* kernel: time spent asleep since boot
  shift,     \* kernel: time of day minus (now + asleep)
  boot,      \* kernel: KERN_BOOTTIME
  steps,     \* how often the clock has been set
  valid,     \* sleep_offset_valid
  high, low, \* the two words of sleep_offset
  first,     \* first_offset
  before,    \* sleep_info.mach_before
  owner,     \* who holds sleepofs_lock
  launched,  \* the constructor has run
  pc,        \* where each thread is
  si,        \* get_sleep_offset's samples: boot time, tod minus mach, mach
  adj,       \* minsleepadj
  todo,      \* stores of the locked section that are not visible yet
  new,       \* the value to be stored in sleep_offset
  got,       \* what mach_continuous_time has loaded so far
  top,       \* history: the largest time returned
  floor,     \* history: top when a thread's call began
  back,      \* history: a call has returned less than its floor
  measured   \* history: some get_sleep_offset ran to its end

kernel  == <<now, asleep, shift, boot, steps>>
cached  == <<valid, high, low, first, before>>
setup   == <<si, adj, todo, new>>
history == <<top, floor, back, measured>>
vars    == <<split, kernel, cached, owner, launched, pc, setup, got, history>>

sleep_offset == high * Word + low
Goto(t, l)   == pc' = [pc EXCEPT ![t] = l]

NoSample == [boot |-> 0, raw |-> 0, mach |-> 0]
Unread   == [mach |-> 0, high |-> -1, low |-> -1]

\* Where get_sleep_offset returns to: the constructor is then done, and
\* mach_continuous_time goes on to read the clock.
Return(t) ==
  /\ Goto(t, IF launched THEN "clock" ELSE "idle")
  /\ launched' = TRUE
  /\ si' = [si EXCEPT ![t] = NoSample]
  /\ adj' = [adj EXCEPT ![t] = 0]
  /\ new' = [new EXCEPT ![t] = 0]

-----------------------------------------------------------------------------
Init ==
  /\ split \in Splits
  /\ now = 0 /\ asleep = SleptBefore
  /\ shift = -Delay /\ boot = 0 /\ steps = 0
  /\ valid = FALSE /\ high = 0 /\ low = 0 /\ first = 0 /\ before = 0
  /\ owner = NoThread
  /\ launched = FALSE
  /\ pc = [t \in Threads |-> IF t = Main THEN "scale" ELSE "idle"]
  /\ si = [t \in Threads |-> NoSample]
  /\ adj = [t \in Threads |-> 0]
  /\ todo = [t \in Threads |-> {}]
  /\ new = [t \in Threads |-> 0]
  /\ got = [t \in Threads |-> Unread]
  /\ top = 0 /\ measured = FALSE
  /\ floor = [t \in Threads |-> 0] /\ back = FALSE

-----------------------------------------------------------------------------
(* The kernel's clocks.                                                    *)

Tick ==
  /\ now < MaxNow
  /\ now' = now + 1
  /\ UNCHANGED <<asleep, shift, boot, steps, cached, owner, launched, pc, setup,
                 got, history>>

\* The system sleeps: the time of day goes on, the mach time does not. After the
\* launch of a 32-bit program it does not, nor is the clock set (a bound).
Sleep ==
  /\ asleep < MaxAsleep /\ ~split
  /\ asleep' = asleep + 1
  /\ UNCHANGED <<now, shift, boot, steps, cached, owner, launched, pc, setup,
                 got, history>>

\* By how much the clock was set ahead of the boot time.
Stray == shift + Delay - boot

\* The clock is set, and the boot time follows it or not.
SetClock(d) ==
  /\ steps < MaxSteps /\ ~split
  /\ steps' = steps + 1
  /\ shift' = shift + d
  /\ \E follows \in BootFollows :
       /\ boot' = IF follows THEN boot + d ELSE boot
       /\ follows \/ Stray + d <= MaxStray
  /\ UNCHANGED <<now, asleep, cached, owner, launched, pc, setup, got, history>>

-----------------------------------------------------------------------------
(* get_sleep_offset.                                                       *)

\* get_mach_scale.
GetScale(t) ==
  /\ pc[t] = "scale"
  /\ \/ Goto(t, "boot") /\ UNCHANGED <<launched, si, adj, new>>
     \/ MayFail /\ Return(t)
  /\ UNCHANGED <<kernel, cached, owner, todo, got, history>>

\* get_boottime fails.  A result of the wrong length will not change, so the
\* offset is then declared valid as it is.
BoottimeFails(t) ==
  /\ MayFail
  /\ Return(t)
  /\ valid' \in {valid, TRUE}

\* get_boottime before the samples.
GetBoottime(t) ==
  /\ pc[t] = "boot"
  /\ \/ /\ si' = [si EXCEPT ![t].boot = boot]
        /\ Goto(t, "sample")
        /\ UNCHANGED <<valid, launched, adj, new>>
     \/ BoottimeFails(t)
  /\ UNCHANGED <<kernel, high, low, first, before, owner, todo, got, history>>

\* get_todmach, the tightest of five pairs.
GetTodmach(t) ==
  /\ pc[t] = "sample"
  /\ \/ /\ \E j \in Jitters :
             si' = [si EXCEPT ![t].raw = shift + asleep + j, ![t].mach = now]
        /\ Goto(t, "check")
        /\ UNCHANGED <<launched, adj, new>>
     \/ MayFail /\ Return(t)
  /\ UNCHANGED <<kernel, cached, owner, todo, got, history>>

\* Mutant: the boot time is not compared.
CheckBoottimeNever(t) ==
  /\ pc[t] = "check"
  /\ Goto(t, "drift")
  /\ UNCHANGED <<kernel, cached, owner, launched, setup, got, history>>

\* get_boottime after the samples: when it has changed they are taken again.
CheckBoottime(t) ==
  /\ pc[t] = "check"
  /\ \/ /\ si' = [si EXCEPT ![t].boot = boot]
        /\ Goto(t, IF boot = si[t].boot THEN "drift" ELSE "sample")
        /\ UNCHANGED <<valid, launched, adj, new>>
     \/ BoottimeFails(t)
  /\ UNCHANGED <<kernel, high, low, first, before, owner, todo, got, history>>

\* The sample's difference between time of day and boot time, in mach units,
\* and its offset: what is left without the mach time.
Toddiff(t) == si[t].raw + si[t].mach - si[t].boot

Offset(t) == si[t].raw - si[t].boot

\* What a load of sleep_info.mach_before may give while it is being stored.
SeenBefore(t) ==
  LET torn == split /\ owner \notin {NoThread, t} /\ "info" \in todo[owner]
  IN {before} \cup IF torn THEN 0 .. MaxNow ELSE {}

\* A boot time after the time of day is garbage for good; otherwise the least
\* advance worth making is worked out, from a sleep_info that another thread
\* may be storing.
GetDrift(t) ==
  /\ pc[t] = "drift"
  /\ IF Toddiff(t) < 0
       THEN valid' = TRUE /\ Return(t)
       ELSE /\ \E b \in SeenBefore(t) :
                 LET maxdrift == Uint64(si[t].mach - b) \div DriftDivisor
                 IN adj' = [adj EXCEPT ![t] = IF maxdrift > MinAdvance
                                                THEN maxdrift ELSE MinAdvance]
            /\ Goto(t, "lock")
            /\ UNCHANGED <<valid, launched, si, new>>
  /\ UNCHANGED <<kernel, high, low, first, before, owner, todo, got, history>>

\* pthread_mutex_lock.
Lock(t) ==
  /\ pc[t] = "lock"
  /\ owner = NoThread
  /\ owner' = t
  /\ Goto(t, "apply")
  /\ UNCHANGED <<kernel, cached, launched, setup, got, history>>

LockFails(t) ==
  /\ pc[t] = "lock" /\ MayFail
  /\ Return(t)
  /\ UNCHANGED <<kernel, cached, owner, todo, got, history>>

\* Mutant: the new offset is never stored.
StoresWithoutOffset == {"info", "valid"}

Stores == IF split THEN {"high", "low", "info", "valid"}
                        ELSE {"offset", "info", "valid"}

\* Mutant: any offset is taken, also one below the current one.
AdvancesAlways(ofs, t) == TRUE

\* offset - first_offset > sleep_offset + minsleepadj, as unsigned numbers.
Advances(ofs, t) == Uint64(ofs) > Uint64(sleep_offset + adj[t])

\* first_offset: the first offset, if it is negative.
Baseline(t) == IF first = 0 /\ Offset(t) < 0 THEN Offset(t) ELSE first

\* The locked section up to its stores.
Apply(t) ==
  LET f   == Baseline(t)
      ofs == Offset(t) - f
  IN /\ pc[t] = "apply"
     /\ first' = f
     /\ new' = [new EXCEPT ![t] = Uint64(ofs)]
     /\ todo' = [todo EXCEPT ![t] = IF Advances(ofs, t) THEN Stores ELSE {"valid"}]
     /\ Goto(t, "store")
     /\ UNCHANGED <<kernel, valid, high, low, before, owner, launched, si, adj,
                    got, history>>

HighWord(n) == n \div Word

LowWord(n) == n % Word

\* One of the stores becomes visible.
Store(t, s) ==
  /\ pc[t] = "store"
  /\ s \in todo[t]
  /\ todo' = [todo EXCEPT ![t] = @ \ {s}]
  /\ high' = IF s \in {"offset", "high"} THEN HighWord(new[t]) ELSE high
  /\ low' = IF s \in {"offset", "low"} THEN LowWord(new[t]) ELSE low
  /\ before' = IF s = "info" THEN si[t].mach ELSE before
  /\ valid' = (valid \/ s = "valid")
  /\ UNCHANGED <<kernel, first, owner, launched, pc, si, adj, new, got, history>>

\* Mutant: the lock is kept.
UnlockNever(t) ==
  /\ pc[t] = "store" /\ todo[t] = {}
  /\ measured' = TRUE
  /\ Return(t)
  /\ UNCHANGED <<kernel, cached, owner, todo, got, top, floor, back>>

\* pthread_mutex_unlock, once the stores are visible.
Unlock(t) ==
  /\ pc[t] = "store" /\ todo[t] = {}
  /\ owner' = NoThread
  /\ measured' = TRUE
  /\ Return(t)
  /\ UNCHANGED <<kernel, cached, todo, got, top, floor, back>>

-----------------------------------------------------------------------------
(* mach_continuous_time, and mach_continuous_approximate_time, whose clock *)
(* is the same.                                                            *)

Call(t) ==
  /\ pc[t] = "idle" /\ launched
  /\ Goto(t, IF valid THEN "clock" ELSE "scale")
  /\ floor' = [floor EXCEPT ![t] = top]
  /\ UNCHANGED <<kernel, cached, owner, launched, setup, got, top, back, measured>>

ReadClock(t) ==
  /\ pc[t] = "clock"
  /\ got' = [got EXCEPT ![t] = [Unread EXCEPT !.mach = now]]
  /\ Goto(t, "load")
  /\ UNCHANGED <<kernel, cached, owner, launched, setup, history>>

\* The words of sleep_offset are loaded, at once or in either order.
Load(t) ==
  /\ pc[t] = "load"
  /\ \/ got' = [got EXCEPT ![t].high = high, ![t].low = low]
     \/ split /\ got[t].high = -1 /\ got' = [got EXCEPT ![t].high = high]
     \/ split /\ got[t].low = -1 /\ got' = [got EXCEPT ![t].low = low]
  /\ Goto(t, IF got'[t].high # -1 /\ got'[t].low # -1 THEN "return" ELSE "load")
  /\ UNCHANGED <<kernel, cached, owner, launched, setup, history>>

ReturnTime(t) ==
  LET time == Uint64(got[t].mach + got[t].high * Word + got[t].low)
  IN /\ pc[t] = "return"
     /\ back' = (back \/ time < floor[t])
     /\ top' = IF time > top THEN time ELSE top
     /\ floor' = [floor EXCEPT ![t] = 0]
     /\ got' = [got EXCEPT ![t] = Unread]
     /\ Goto(t, "idle")
     /\ UNCHANGED <<kernel, cached, owner, launched, setup, measured>>

Thread(t) ==
  UNCHANGED split /\
  (\/ GetScale(t) \/ GetBoottime(t) \/ GetTodmach(t) \/ CheckBoottime(t)
   \/ GetDrift(t) \/ Lock(t) \/ Apply(t) \/ Unlock(t)
   \/ \E s \in {"offset", "high", "low", "info", "valid"} : Store(t, s)
   \/ ReadClock(t) \/ Load(t) \/ ReturnTime(t))

Next ==
  \/ UNCHANGED split /\ (Tick \/ Sleep)
  \/ UNCHANGED split /\ \E d \in Steps : SetClock(d)
  \/ UNCHANGED split /\ \E t \in Threads : Call(t) \/ LockFails(t)
  \/ \E t \in Threads : Thread(t)

\* A thread that is in the library is scheduled; a thread that waits for the
\* lock is not promised an error instead.
Fairness == \A t \in Threads : WF_vars(Thread(t))

Spec == Init /\ [][Next]_vars /\ Fairness

-----------------------------------------------------------------------------
TypeOK ==
  /\ now \in 0 .. MaxNow /\ asleep \in SleptBefore .. MaxAsleep
  /\ {shift, boot} \subseteq Int /\ steps \in 0 .. MaxSteps
  /\ valid \in BOOLEAN /\ launched \in BOOLEAN /\ measured \in BOOLEAN
  /\ high \in 0 .. Word - 1 /\ low \in 0 .. Word - 1
  /\ first \in Int /\ before \in 0 .. MaxNow
  /\ owner \in Threads \cup {NoThread}
  /\ pc \in [Threads -> {"idle", "scale", "boot", "sample", "check", "drift",
                         "lock", "apply", "store", "clock", "load", "return"}]
  /\ si \in [Threads -> [boot : Int, raw : Int, mach : 0 .. MaxNow]]
  /\ adj \in [Threads -> Nat] /\ todo \in [Threads -> SUBSET Stores]
  /\ new \in [Threads -> 0 .. Word * Word - 1]
  /\ got \in [Threads -> [mach : 0 .. MaxNow, high : -1 .. Word - 1,
                          low : -1 .. Word - 1]]
  /\ top \in Nat /\ floor \in [Threads -> Nat] /\ back \in BOOLEAN

\* Continuous time never goes back: a call that begins after another one has
\* returned, in the same thread or not, returns no less, however the setups of
\* several threads, the clock and the sleeps interleave.
NeverBack == ~back

\* "treat negative sleep offsets as zero": the cached offset is not a negative
\* number in disguise. With Delay > 0 a second thread breaks this.
NotNegative == sleep_offset <= Uint64(-1) \div 2

\* Continuous time never runs ahead of the time since boot by more than the
\* error of a sample: no sleep is counted that did not happen. Where the boot
\* time does not follow the clock, what the clock was set forward since boot
\* looks like sleep (get_sleep_offset), but no more than that.
NotAhead == \E j \in Jitters \cup {0} : sleep_offset <= asleep + Stray + j

\* Once a setup has run to its end the sleep before the launch is counted, up to
\* the boot time's delay and the advance that is not worth making.
SleepCounted ==
  measured => sleep_offset + MinAdvance + MaxNow \div DriftDivisor + Delay
                >= SleptBefore

\* Every call into the library returns.
CallsReturn == \A t \in Threads : pc[t] # "idle" ~> pc[t] = "idle"
=============================================================================
