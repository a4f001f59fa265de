----------------------------- MODULE ScaleSetup -----------------------------
(***************************************************************************)
(* The cached mach scale and its multiplier (get_mach_scale,               *)
(* setup_mach_mult and their callers in time.c), set up without a lock by  *)
(* the threads that read a clock. Numbers have two words; a 32-bit build   *)
(* stores and loads the multiplier word by word. The multiplier itself is  *)
(* computed in MachScale: here it is right when numerator and denominator  *)
(* are the system's.                                                       *)
(***************************************************************************)
EXTENDS Naturals

CONSTANTS
  SThreads,
  Builds,      \* subset of {"64-bit", "32-bit"}
  Launches,    \* subset of {"ok", "failed"}: the constructor's call of get_mach_scale
  RightScale   \* [numer, denom], the system's

VARIABLES
  numer, denom,  \* mach_scale
  mult,          \* mach_mult: <<high word, low word>>
  spc,           \* [SThreads -> where the thread is]
  temp,          \* [SThreads -> multiplier in a register]
  mserr,         \* [SThreads -> setup_mach_mult said so in this call]
  build, launch,
  together       \* ghost: a clock was read while another thread was reading one

svars == <<numer, denom, mult, spc, temp, mserr, build, launch, together>>

Zero == <<0, 0>>
MultOf(n, d) == IF n = 0 THEN Zero ELSE <<(n * 4) \div d, (n * 4) % d>>
Right == MultOf(RightScale.numer, RightScale.denom)

SInit ==
  /\ build \in Builds /\ launch \in Launches
  /\ numer = (IF launch = "ok" THEN RightScale.numer ELSE 0)
  /\ denom = (IF launch = "ok" THEN RightScale.denom ELSE 1)
  /\ mult = Zero /\ together = FALSE
  /\ spc = [t \in SThreads |-> "idle"]
  /\ temp = [t \in SThreads |-> Zero] /\ mserr = [t \in SThreads |-> FALSE]

SGo(t, where) == spc' = [spc EXCEPT ![t] = where]
Overlap(t) == \E u \in SThreads \ {t} : spc[u] \notin {"idle", "used"}

Needs(m) == IF m = Zero THEN "test" ELSE "use"
High(m) == <<m[1], 0>>
Low(m) == <<0, m[2]>>

(* clock_gettime and the others: set up first, whether needed or not. The  *)
(* multiplier is tested at once, or one word and then the other.           *)
NeedSetup(t) ==
  /\ spc[t] = "idle"
  /\ \/ build = "64-bit" /\ SGo(t, Needs(mult)) /\ UNCHANGED temp
     \/ build = "32-bit" /\ SGo(t, "need low") /\ temp' = [temp EXCEPT ![t] = High(mult)]
     \/ build = "32-bit" /\ SGo(t, "need high") /\ temp' = [temp EXCEPT ![t] = Low(mult)]
  /\ together' = (together \/ Overlap(t))
  /\ mserr' = [mserr EXCEPT ![t] = FALSE]
  /\ UNCHANGED <<numer, denom, mult, build, launch>>

\* Both words, when t has loaded the other one before.
WithRest(t) ==
  IF spc[t] \in {"need low", "use low"} THEN <<temp[t][1], mult[2]>> ELSE <<mult[1], temp[t][2]>>

NeedRest(t) ==
  /\ spc[t] \in {"need low", "need high"}
  /\ SGo(t, Needs(WithRest(t)))
  /\ UNCHANGED <<numer, denom, mult, temp, mserr, build, launch, together>>

\* Mutant: the denominator is tested, not the numerator.
ScaleKnown(t) ==
  /\ spc[t] = "test"
  /\ SGo(t, IF denom # 0 THEN "compute" ELSE "copy")
  /\ UNCHANGED <<numer, denom, mult, temp, mserr, build, launch, together>>

GetMachScale(t) ==
  /\ spc[t] = "test"
  /\ SGo(t, IF numer # 0 THEN "compute" ELSE "copy")
  /\ UNCHANGED <<numer, denom, mult, temp, mserr, build, launch, together>>

(* mach_timebase_info copies both numbers out, in either order, or fails.  *)
TimebaseInfo(t) ==
  /\ \/ spc[t] = "copy" /\ numer' = RightScale.numer /\ SGo(t, "copy denom") /\ UNCHANGED denom
     \/ spc[t] = "copy" /\ denom' = RightScale.denom /\ SGo(t, "copy numer") /\ UNCHANGED numer
     \/ spc[t] = "copy denom" /\ denom' = RightScale.denom /\ SGo(t, "compute") /\ UNCHANGED numer
     \/ spc[t] = "copy numer" /\ numer' = RightScale.numer /\ SGo(t, "compute") /\ UNCHANGED denom
     \/ spc[t] = "copy" /\ numer' = 0 /\ SGo(t, "reset") /\ UNCHANGED denom
     \/ spc[t] = "reset" /\ denom' = 1 /\ SGo(t, "compute") /\ UNCHANGED numer
  /\ mserr' = [mserr EXCEPT ![t] = @ \/ spc[t] = "reset"]
  /\ UNCHANGED <<mult, temp, build, launch, together>>

SetupMachMult(t) ==
  /\ spc[t] = "compute"
  /\ temp' = [temp EXCEPT ![t] = MultOf(numer, denom)]
  /\ SGo(t, "store")
  /\ UNCHANGED <<numer, denom, mult, mserr, build, launch, together>>

(* The multiplier is stored at once, or one word and then the other.       *)
StoreMult(t) ==
  /\ \/ /\ spc[t] = "store" /\ build = "64-bit"
        /\ mult' = temp[t] /\ SGo(t, "use")
     \/ /\ spc[t] = "store" /\ build = "32-bit"
        /\ \E w \in 1 .. 2 : mult' = [mult EXCEPT ![w] = temp[t][w]]
        /\ SGo(t, "store rest")
     \/ /\ spc[t] = "store rest"
        /\ mult' = temp[t] /\ SGo(t, "use")
  /\ UNCHANGED <<numer, denom, temp, mserr, build, launch, together>>

(* mach2nanos loads what is there by now, in the same way.                 *)
UseMult(t) ==
  /\ spc[t] = "use"
  /\ \/ build = "64-bit" /\ SGo(t, "used") /\ temp' = [temp EXCEPT ![t] = mult]
     \/ build = "32-bit" /\ SGo(t, "use low") /\ temp' = [temp EXCEPT ![t] = High(mult)]
     \/ build = "32-bit" /\ SGo(t, "use high") /\ temp' = [temp EXCEPT ![t] = Low(mult)]
  /\ UNCHANGED <<numer, denom, mult, mserr, build, launch, together>>

UseRest(t) ==
  /\ spc[t] \in {"use low", "use high"}
  /\ temp' = [temp EXCEPT ![t] = WithRest(t)]
  /\ SGo(t, "used")
  /\ UNCHANGED <<numer, denom, mult, mserr, build, launch, together>>

ReadAgain(t) ==
  /\ spc[t] = "used" /\ SGo(t, "idle")
  /\ UNCHANGED <<numer, denom, mult, temp, mserr, build, launch, together>>

SNext ==
  \E t \in SThreads :
    \/ NeedSetup(t) \/ NeedRest(t) \/ GetMachScale(t) \/ TimebaseInfo(t)
    \/ SetupMachMult(t) \/ StoreMult(t) \/ UseMult(t) \/ UseRest(t) \/ ReadAgain(t)

-----------------------------------------------------------------------------
\* A clock is scaled by the right multiplier, or by zero and the call says so: in a
\* 64-bit build after a good launch however many threads set it up, and otherwise as long
\* as no two threads read clocks at the same time (setup_mach_mult).
ScaledRightly ==
  (build = "64-bit" /\ launch = "ok") \/ ~together =>
    \A t \in SThreads : spc[t] = "used" =>
      temp[t] = Right \/ (mserr[t] /\ temp[t] = Zero)

\* Threads that set up the scale at the same time after a good launch do not disturb each
\* other ("Unlike the mach scale factor setup, attempting to set up the sleep offset
\* simultaneously from multiple threads can cause trouble").
SetupTogether ==
  launch = "ok" => \A t \in SThreads : spc[t] = "used" => temp[t] = Right
=============================================================================
