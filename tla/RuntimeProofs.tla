---------------------------- MODULE RuntimeProofs ---------------------------
(***************************************************************************)
(* Proofs about the parts that MCRuntime puts together. A behaviour is     *)
(* about one part, whose steps alone change its variables: an invariant of *)
(* a part is kept by every step of the others because they stutter on it.  *)
(***************************************************************************)
EXTENDS MCRuntime, SequenceTheorems, TLAPS

(***************************************************************************)
(* The static buffer of fcntl and its lock (PathLock)                      *)
(***************************************************************************)
Locked == {"fetch", "copy", "unlock"}

\* Who is between lock and unlock has the lock, the buffer that is copied is the holder's
\* own, and what was copied stays the path of the caller's descriptor (fcntl).
LockInv ==
  /\ lpc \in [LThreads -> {"idle", "lock", "fetch", "copy", "unlock", "done"}]
  /\ into \in [LThreads -> LThreads \cup {0}]
  /\ answer \in [LThreads -> {0, -1}]
  /\ holder \in LThreads \cup {0, -1} /\ pathbuf \in LThreads \cup {0}
  /\ \A t \in LThreads : lpc[t] \in Locked <=> holder = t
  /\ \A t \in LThreads : lpc[t] = "copy" => pathbuf = t
  /\ \A t \in LThreads : lpc[t] = "unlock" \/ (lpc[t] = "done" /\ answer[t] = 0) => into[t] = t

LEMMA LockInit == L!LInit => LockInv
  BY ThreadAssumption DEF L!LInit, LockInv, Locked, L!NoOne, L!Stuck, L!Empty

LEMMA LockStep ==
  ASSUME LockInv, L!LNext
  PROVE  LockInv'
<1>1. PICK t \in LThreads :
        L!TryDirect(t) \/ L!Acquire(t) \/ L!Fetch(t) \/ L!Copy(t) \/ L!Release(t) \/ L!NextCall(t)
  BY DEF L!LNext
<1>2. CASE L!TryDirect(t)
  BY <1>2, ThreadAssumption DEF LockInv, Locked, L!TryDirect, L!Answer, L!LGo, L!Empty
<1>3. CASE L!Acquire(t)
  BY <1>3, ThreadAssumption DEF LockInv, Locked, L!Acquire, L!Lock, L!Answer, L!LGo, L!NoOne
<1>4. CASE L!Fetch(t)
  BY <1>4, ThreadAssumption DEF LockInv, Locked, L!Fetch, L!Unlock, L!Answer, L!LGo, L!NoOne, L!Stuck
<1>5. CASE L!Copy(t)
  BY <1>5, ThreadAssumption DEF LockInv, Locked, L!Copy, L!LGo
<1>6. CASE L!Release(t)
  BY <1>6, ThreadAssumption DEF LockInv, Locked, L!Release, L!Unlock, L!Answer, L!LGo, L!NoOne, L!Stuck
<1>7. CASE L!NextCall(t)
  BY <1>7 DEF LockInv, Locked, L!NextCall, L!LGo
<1> QED BY <1>1, <1>2, <1>3, <1>4, <1>5, <1>6, <1>7

LEMMA LockKept ==
  ASSUME part = "path_lock" => LockInv, [Next]_vars
  PROVE  (part = "path_lock" => LockInv)'
<1>1. CASE PathLockStep
  BY <1>1, LockStep DEF PathLockStep
<1>2. CASE ~PathLockStep
  <2>1. part' = part
    BY <1>2 DEF Next, vars, Arc4randomStep, GetDelimStep, OsFuncStep, ScaleStep, PathStep, SetTimeStep, FMemStep
  <2>2. part = "path_lock" => UNCHANGED varsL
    BY <1>2 DEF Next, vars, Arc4randomStep, GetDelimStep, OsFuncStep, ScaleStep, PathStep, SetTimeStep, FMemStep
  <2> QED BY <2>1, <2>2 DEF LockInv, Locked, varsL
<1> QED BY <1>1, <1>2

\* A call of F_GETPATH that succeeds has the path of its own descriptor, and no way out of
\* it keeps the lock, for every number of threads (fcntl).
THEOREM PathIsOwn == Spec => []PathOfOwn
<1>1. Init => (part = "path_lock" => LockInv)
  BY LockInit DEF Init
<1>2. (part = "path_lock" => LockInv) => PathOfOwn
  BY DEF LockInv, Locked, PathOfOwn, OwnPath, LockGivenBack, L!OwnPath, L!LockGivenBack, L!NoOne, L!Stuck
<1> QED BY <1>1, <1>2, LockKept, PTL DEF Spec

(***************************************************************************)
(* The cached system functions (OsFunc)                                    *)
(***************************************************************************)
\* The function that a lookup of style s is for.
RightFor(s) == IF s # "os_func" /\ "variant" \in present THEN "variant" ELSE "plain"

\* A cache holds nothing or the right function; who has found one goes on with the right
\* one and, where the system has what is asked for first, it stays in the cache.
CacheInv ==
  /\ present \in {{"plain"}, {"plain", "variant"}}
  /\ adr \in [Styles -> {"null", "plain", "variant"}]
  /\ fpc \in [FThreads -> {"idle", "lookup", "fallback", "found", "called", "failed"}]
  /\ local \in [FThreads -> {"null", "plain", "variant"}]
  /\ style \in [FThreads -> {"os_func", "realpath", "recvmsg"}]
  /\ owned \in [FThreads -> {0, 1}]
  /\ \A s \in Styles : adr[s] \in {"null", RightFor(s)}
  /\ \A t \in FThreads :
       /\ fpc[t] # "idle" => style[t] \in Styles
       /\ fpc[t] = "fallback" => style[t] # "os_func" /\ "variant" \notin present
       /\ fpc[t] = "found" => local[t] = RightFor(style[t])
       /\ fpc[t] = "found" /\ (style[t] = "os_func" \/ "variant" \in present) =>
            adr[style[t]] = RightFor(style[t])
       /\ fpc[t] \in {"called", "failed"} =>
            local[t] = RightFor(style[t]) \/ (style[t] = "recvmsg" /\ "variant" \notin present)
       /\ fpc[t] = "failed" => owned[t] = 0

LEMMA CacheInit == F!FInit => CacheInv
  BY DEF F!FInit, CacheInv, RightFor, F!Null

LEMMA CacheStep ==
  ASSUME CacheInv, F!FNext
  PROVE  CacheInv'
<1>1. PICK t \in FThreads :
        \/ F!Test(t) \/ F!LookupOsFunc(t) \/ F!LookupVariant(t) \/ F!LookupBasic(t) \/ F!Call(t)
        \/ F!CallRealpath(t) \/ F!Again(t)
  BY DEF F!FNext
<1>2. CASE F!Test(t)
  BY <1>2, StyleAssumption DEF CacheInv, RightFor, F!Test, F!Go, F!Null
<1>3. CASE F!LookupOsFunc(t)
  BY <1>3 DEF CacheInv, RightFor, F!LookupOsFunc, F!Go, F!Store, F!Dlsym, F!Null
<1>4. CASE F!LookupVariant(t)
  BY <1>4 DEF CacheInv, RightFor, F!LookupVariant, F!Go, F!Store, F!Dlsym, F!Null
<1>5. CASE F!LookupBasic(t)
  BY <1>5 DEF CacheInv, RightFor, F!LookupBasic, F!Go, F!Store, F!Dlsym, F!Null
<1>6. CASE F!Call(t)
  BY <1>6 DEF CacheInv, RightFor, F!Call, F!Called, F!Go
<1>7. CASE F!CallRealpath(t)
  BY <1>7 DEF CacheInv, RightFor, F!CallRealpath, F!Called, F!Go, F!Kept
<1>8. CASE F!Again(t)
  BY <1>8 DEF CacheInv, RightFor, F!Again, F!Go, F!Null
<1> QED BY <1>1, <1>2, <1>3, <1>4, <1>5, <1>6, <1>7, <1>8

LEMMA CacheKept ==
  ASSUME part = "os_func" => CacheInv, [Next]_vars
  PROVE  (part = "os_func" => CacheInv)'
<1>1. CASE OsFuncStep
  BY <1>1, CacheStep DEF OsFuncStep
<1>2. CASE ~OsFuncStep
  <2>1. part' = part
    BY <1>2 DEF Next, vars, Arc4randomStep, GetDelimStep, PathLockStep, ScaleStep, PathStep, SetTimeStep, FMemStep
  <2>2. part = "os_func" => UNCHANGED varsF
    BY <1>2 DEF Next, vars, Arc4randomStep, GetDelimStep, PathLockStep, ScaleStep, PathStep, SetTimeStep, FMemStep
  <2> QED BY <2>1, <2>2 DEF CacheInv, RightFor, varsF
<1> QED BY <1>1, <1>2

\* The system's function that is called is never null and is the variant asked for where
\* the system has it, whichever threads fill the caches, and a realpath that fails leaves
\* no buffer behind, for every number of threads (GET_OS_FUNC, realpath_internal,
\* sys_recvmsg).
THEOREM FunctionIsCalled == Spec => []FunctionCalled
<1>1. Init => (part = "os_func" => CacheInv)
  BY CacheInit DEF Init
<1>2. (part = "os_func" => CacheInv) => FunctionCalled
  BY DEF CacheInv, RightFor, FunctionCalled, RightFunctionCalled, NothingLeaked,
         F!RightFunctionCalled, F!NothingLeaked
<1> QED BY <1>1, <1>2, CacheKept, PTL DEF Spec

(***************************************************************************)
(* The setup of the mach scale (ScaleSetup)                                *)
(***************************************************************************)
Busy(t) == spc[t] \notin {"idle", "used"}
Good(t, m) == m = S!Right \/ (mserr[t] /\ m = S!Zero)

ScaleType ==
  /\ spc \in [SThreads -> {"idle", "need low", "need high", "test", "copy", "copy denom",
                           "copy numer", "reset", "compute", "store", "store rest", "use",
                           "use low", "use high", "used"}]
  /\ DOMAIN temp = SThreads /\ DOMAIN mserr = SThreads

\* After a good launch nothing but the right scale is ever there, so that every thread
\* computes and stores the same multiplier (get_mach_scale, setup_mach_mult).
SameInv ==
  build = "64-bit" /\ launch = "ok" =>
    /\ numer = 5 /\ denom = 3 /\ mult \in {S!Zero, S!Right}
    /\ \A t \in SThreads :
         /\ spc[t] \in {"idle", "test", "compute", "store", "use", "used"}
         /\ spc[t] \in {"store", "used"} => temp[t] = S!Right
         /\ spc[t] = "use" => mult = S!Right

\* While no two threads overlap, the scale is right or unknown except between two words
\* that one thread writes, and what that thread goes on with is right or it has an error.
AloneInv ==
  ~together =>
    /\ \A t, u \in SThreads : Busy(t) /\ Busy(u) => t = u
    /\ \/ mult \in {S!Zero, S!Right}
       \/ \E t \in SThreads : spc[t] = "store rest"
    /\ \/ numer = 5 /\ denom = 3
       \/ numer = 0
       \/ \E t \in SThreads : spc[t] = "copy denom"
    /\ \A t \in SThreads :
         /\ spc[t] = "copy denom" => numer = 5
         /\ spc[t] = "copy numer" => denom = 3
         /\ spc[t] = "reset" => numer = 0
         /\ spc[t] = "compute" => (numer = 5 /\ denom = 3) \/ (numer = 0 /\ mserr[t])
         /\ spc[t] \in {"store", "store rest", "used"} => Good(t, temp[t])
         /\ spc[t] \in {"use", "use low", "use high"} => Good(t, mult)
         /\ spc[t] \in {"need low", "use low"} => temp[t][1] = mult[1]
         /\ spc[t] \in {"need high", "use high"} => temp[t][2] = mult[2]

ScaleInv == ScaleType /\ SameInv /\ AloneInv

LEMMA MultRight ==
  /\ S!MultOf(5, 3) = S!Right
  /\ \A d : S!MultOf(0, d) = S!Zero
  BY DEF S!MultOf, S!Right

LEMMA WholeMult == \A m \in {S!Zero, S!Right} : m = <<m[1], m[2]>>
  BY DEF S!Zero, S!Right, S!MultOf

LEMMA Words == \A m : S!High(m)[1] = m[1] /\ S!Low(m)[2] = m[2]
  BY DEF S!High, S!Low

\* The two words loaded one after the other are the multiplier if it did not change.
LEMMA WithRestIs ==
  ASSUME NEW t \in SThreads, mult = <<mult[1], mult[2]>>,
         spc[t] \in {"need low", "use low"} => temp[t][1] = mult[1],
         spc[t] \notin {"need low", "use low"} => temp[t][2] = mult[2]
  PROVE  S!WithRest(t) = mult
  BY DEF S!WithRest

LEMMA ScaleInit == S!SInit => ScaleInv
  BY DEF S!SInit, ScaleInv, ScaleType, SameInv, AloneInv, Busy, Good

LEMMA ScaleStepKeeps ==
  ASSUME ScaleInv, S!SNext
  PROVE  ScaleInv'
<1>1. PICK t \in SThreads :
        \/ S!NeedSetup(t) \/ S!NeedRest(t) \/ S!GetMachScale(t) \/ S!TimebaseInfo(t)
        \/ S!SetupMachMult(t) \/ S!StoreMult(t) \/ S!UseMult(t) \/ S!UseRest(t) \/ S!ReadAgain(t)
  BY DEF S!SNext
<1>2. CASE S!NeedSetup(t)
  <2>1. /\ spc[t] = "idle" /\ DOMAIN temp' = SThreads /\ DOMAIN mserr' = SThreads
        /\ UNCHANGED <<numer, denom, mult, build, launch>>
        /\ together' = (together \/ S!Overlap(t))
        /\ \A u \in SThreads : u # t =>
             spc'[u] = spc[u] /\ temp'[u] = temp[u] /\ mserr'[u] = mserr[u]
    BY <1>2 DEF ScaleInv, ScaleType, S!NeedSetup, S!SGo
  <2>2. ScaleType'
    BY <1>2, <2>1 DEF ScaleInv, ScaleType, S!NeedSetup, S!SGo, S!Needs
  <2>3. SameInv'
    BY <1>2, <2>1, <2>2 DEF ScaleInv, ScaleType, SameInv, S!NeedSetup, S!SGo, S!Needs
  <2>4. \/ spc'[t] = "test"
        \/ spc'[t] = "use" /\ mult # S!Zero
        \/ spc'[t] = "need low" /\ temp'[t][1] = mult[1]
        \/ spc'[t] = "need high" /\ temp'[t][2] = mult[2]
    <3>1. \/ spc'[t] = S!Needs(mult)
          \/ spc'[t] = "need low" /\ temp'[t] = S!High(mult)
          \/ spc'[t] = "need high" /\ temp'[t] = S!Low(mult)
      BY <1>2 DEF ScaleInv, ScaleType, S!NeedSetup, S!SGo
    <3> QED BY <3>1, Words DEF S!Needs
  <2>5. AloneInv'
    <3> SUFFICES ASSUME ~together' PROVE AloneInv'
      BY DEF AloneInv
    <3>1. /\ ~together
          /\ \A u \in SThreads : u # t => spc[u] \in {"idle", "used"} /\ spc'[u] = spc[u]
      BY <2>1 DEF S!Overlap
    <3>2. /\ mult \in {S!Zero, S!Right}
          /\ (numer = 5 /\ denom = 3) \/ numer = 0
          /\ \A u \in SThreads : spc[u] = "used" => Good(u, temp[u])
      BY <2>1, <3>1 DEF ScaleInv, AloneInv
    <3>3. \A u, v \in SThreads : Busy(u)' /\ Busy(v)' => u = v
      BY <3>1 DEF Busy
    <3>4. \A u \in SThreads : spc'[u] = "used" => u # t
      BY <2>4
    <3>5. \A u \in SThreads : spc'[u] = "used" => Good(u, temp[u])'
      BY <2>1, <3>1, <3>2, <3>4 DEF Good
    <3>6. spc'[t] = "use" => mult = S!Right
      BY <2>4, <3>2
    <3> QED BY <2>1, <2>4, <3>1, <3>2, <3>3, <3>5, <3>6 DEF AloneInv, Good
  <2> QED BY <2>2, <2>3, <2>5 DEF ScaleInv
<1>9. CASE S!NeedRest(t)
  <2>1. /\ spc[t] \in {"need low", "need high"}
        /\ spc' = [spc EXCEPT ![t] = S!Needs(S!WithRest(t))]
        /\ UNCHANGED <<numer, denom, mult, temp, mserr, build, launch, together>>
    BY <1>9 DEF S!NeedRest, S!SGo
  <2>2. /\ ScaleType' /\ spc'[t] \in {"test", "use"} /\ Busy(t)
        /\ spc'[t] = "use" => S!WithRest(t) # S!Zero
        /\ \A u \in SThreads : u # t => spc'[u] = spc[u]
    BY <2>1 DEF ScaleInv, ScaleType, S!Needs, Busy
  <2>3. SameInv'
    BY <2>1, <2>2 DEF ScaleInv, SameInv
  <2>4. ~together => mult \in {S!Zero, S!Right} /\ S!WithRest(t) = mult
    BY <2>1, <2>2, WholeMult, WithRestIs DEF ScaleInv, AloneInv, Busy
  <2>5. AloneInv'
    BY <2>1, <2>2, <2>4 DEF ScaleInv, AloneInv, Busy, Good
  <2> QED BY <2>2, <2>3, <2>5 DEF ScaleInv
<1>3. CASE S!GetMachScale(t)
  <2>1. CASE numer # 0
    <3>1. spc[t] = "test" /\ spc' = [spc EXCEPT ![t] = "compute"]
      BY <1>3, <2>1 DEF S!GetMachScale, S!SGo
    <3>2. UNCHANGED <<numer, denom, mult, temp, mserr, build, launch, together>>
      BY <1>3 DEF S!GetMachScale
    <3>3. ~together => numer = 5 /\ denom = 3
      BY <2>1, <3>1 DEF ScaleInv, ScaleType, SameInv, AloneInv, Busy, Good
    <3> QED BY <3>1, <3>2, <3>3 DEF ScaleInv, ScaleType, SameInv, AloneInv, Busy, Good
  <2>2. CASE numer = 0
    <3>1. spc[t] = "test" /\ spc' = [spc EXCEPT ![t] = "copy"]
      BY <1>3, <2>2 DEF S!GetMachScale, S!SGo
    <3>2. UNCHANGED <<numer, denom, mult, temp, mserr, build, launch, together>>
      BY <1>3 DEF S!GetMachScale
    <3>3. ScaleType'
      BY <3>1, <3>2 DEF ScaleInv, ScaleType
    <3>4. SameInv'
      BY <2>2, <3>2 DEF ScaleInv, SameInv
    <3>5. \A u \in SThreads : u # t => spc'[u] = spc[u]
      BY <3>1 DEF ScaleInv, ScaleType
    <3>6. spc'[t] = "copy" /\ Busy(t)
      BY <3>1 DEF ScaleInv, ScaleType, Busy
    <3>7. AloneInv'
      BY <2>2, <3>1, <3>2, <3>5, <3>6 DEF ScaleInv, AloneInv, Busy, Good
    <3> QED BY <3>3, <3>4, <3>7 DEF ScaleInv
  <2> QED BY <2>1, <2>2
<1>4. CASE S!TimebaseInfo(t)
  <2>1. UNCHANGED <<mult, temp, build, launch, together>> /\ DOMAIN mserr' = SThreads
    BY <1>4 DEF S!TimebaseInfo, ScaleInv, ScaleType
  <2>2. \A u \in SThreads : u # t => mserr'[u] = mserr[u]
    BY <1>4 DEF S!TimebaseInfo, ScaleInv, ScaleType
  <2>3. ~(build = "64-bit" /\ launch = "ok")
    BY <1>4 DEF S!TimebaseInfo, ScaleInv, SameInv
  <2>4. spc[t] = "reset" => mserr'[t]
    BY <1>4 DEF S!TimebaseInfo, ScaleInv, ScaleType
  <2>5. CASE spc[t] = "copy" /\ numer' = 5 /\ S!SGo(t, "copy denom") /\ UNCHANGED denom
    BY <2>1, <2>2, <2>3, <2>5 DEF ScaleInv, ScaleType, SameInv, AloneInv, Busy, Good, S!SGo
  <2>6. CASE spc[t] = "copy" /\ denom' = 3 /\ S!SGo(t, "copy numer") /\ UNCHANGED numer
    BY <2>1, <2>2, <2>3, <2>6 DEF ScaleInv, ScaleType, SameInv, AloneInv, Busy, Good, S!SGo
  <2>7. CASE spc[t] = "copy denom" /\ denom' = 3 /\ S!SGo(t, "compute") /\ UNCHANGED numer
    BY <2>1, <2>2, <2>3, <2>7 DEF ScaleInv, ScaleType, SameInv, AloneInv, Busy, Good, S!SGo
  <2>8. CASE spc[t] = "copy numer" /\ numer' = 5 /\ S!SGo(t, "compute") /\ UNCHANGED denom
    BY <2>1, <2>2, <2>3, <2>8 DEF ScaleInv, ScaleType, SameInv, AloneInv, Busy, Good, S!SGo
  <2>9. CASE spc[t] = "copy" /\ numer' = 0 /\ S!SGo(t, "reset") /\ UNCHANGED denom
    BY <2>1, <2>2, <2>3, <2>9 DEF ScaleInv, ScaleType, SameInv, AloneInv, Busy, Good, S!SGo
  <2>10. CASE spc[t] = "reset" /\ denom' = 1 /\ S!SGo(t, "compute") /\ UNCHANGED numer
    BY <2>1, <2>2, <2>3, <2>4, <2>10 DEF ScaleInv, ScaleType, SameInv, AloneInv, Busy, Good, S!SGo
  <2> QED BY <1>4, <2>5, <2>6, <2>7, <2>8, <2>9, <2>10 DEF S!TimebaseInfo
<1>5. CASE S!SetupMachMult(t)
  <2>1. /\ spc[t] = "compute" /\ spc' = [spc EXCEPT ![t] = "store"]
        /\ temp' = [temp EXCEPT ![t] = S!MultOf(numer, denom)]
        /\ UNCHANGED <<numer, denom, mult, mserr, build, launch, together>>
    BY <1>5 DEF S!SetupMachMult, S!SGo
  <2>2. /\ ScaleType' /\ spc'[t] = "store" /\ temp'[t] = S!MultOf(numer, denom)
        /\ \A u \in SThreads : u # t => spc'[u] = spc[u] /\ temp'[u] = temp[u]
    BY <2>1 DEF ScaleInv, ScaleType
  <2>3. SameInv'
    BY <2>1, <2>2, MultRight DEF ScaleInv, SameInv
  <2>4. AloneInv'
    <3> SUFFICES ASSUME ~together PROVE AloneInv'
      BY <2>1 DEF AloneInv
    <3>1. /\ \A u, v \in SThreads : Busy(u) /\ Busy(v) => u = v
          /\ (numer = 5 /\ denom = 3) \/ (numer = 0 /\ mserr[t])
          /\ Busy(t)
      BY <2>1 DEF ScaleInv, AloneInv, Busy
    <3>2. Good(t, temp'[t])
      BY <2>2, <3>1, MultRight DEF Good
    <3>3. \A u, v \in SThreads : Busy(u)' /\ Busy(v)' => u = v
      BY <2>1, <2>2, <3>1 DEF Busy
    <3>4. \A u \in SThreads : u # t => spc'[u] \in {"idle", "used"} /\ spc'[u] = spc[u]
      BY <2>1, <2>2, <3>1 DEF Busy
    <3>5. \A u \in SThreads : spc'[u] = "used" => Good(u, temp'[u])
      BY <2>1, <2>2, <3>4 DEF ScaleInv, AloneInv
    <3> QED BY <2>1, <2>2, <3>2, <3>3, <3>4, <3>5 DEF ScaleInv, AloneInv, Good
  <2> QED BY <2>2, <2>3, <2>4 DEF ScaleInv
<1>6. CASE S!StoreMult(t)
  <2>1. /\ spc[t] \in {"store", "store rest"} /\ spc' = [spc EXCEPT ![t] = spc'[t]]
        /\ UNCHANGED <<numer, denom, temp, mserr, build, launch, together>>
        /\ \/ mult' = temp[t] /\ spc'[t] = "use"
           \/ build = "32-bit" /\ spc'[t] = "store rest"
    BY <1>6 DEF ScaleInv, ScaleType, S!StoreMult, S!SGo
  <2>2. ScaleType' /\ \A u \in SThreads : u # t => spc'[u] = spc[u]
    BY <2>1 DEF ScaleInv, ScaleType
  <2>3. SameInv'
    BY <2>1, <2>2 DEF ScaleInv, SameInv
  <2>4. AloneInv'
    <3> SUFFICES ASSUME ~together PROVE AloneInv'
      BY <2>1 DEF AloneInv
    <3>1. /\ \A u, v \in SThreads : Busy(u) /\ Busy(v) => u = v
          /\ Good(t, temp[t]) /\ Busy(t)
      BY <2>1 DEF ScaleInv, AloneInv, Busy
    <3>2. \A u, v \in SThreads : Busy(u)' /\ Busy(v)' => u = v
      BY <2>1, <2>2, <3>1 DEF Busy
    <3>3. \A u \in SThreads : u # t => spc'[u] \in {"idle", "used"} /\ spc'[u] = spc[u]
      BY <2>1, <2>2, <3>1 DEF Busy
    <3>4. \A u \in SThreads : spc'[u] = "used" => Good(u, temp[u])
      BY <2>1, <2>2, <3>3 DEF ScaleInv, AloneInv
    <3>5. mult' \in {S!Zero, S!Right} \/ spc'[t] = "store rest"
      BY <2>1, <3>1 DEF Good
    <3>6. (numer = 5 /\ denom = 3) \/ numer = 0
      BY <2>1, <3>1 DEF ScaleInv, AloneInv, Busy
    <3>7. spc'[t] = "use" => Good(t, mult')
      BY <2>1, <3>1
    <3> QED BY <2>1, <3>1, <3>2, <3>3, <3>4, <3>5, <3>6, <3>7 DEF AloneInv, Good
  <2> QED BY <2>2, <2>3, <2>4 DEF ScaleInv
<1>7. CASE S!UseMult(t)
  <2>1. /\ spc[t] = "use" /\ DOMAIN temp' = SThreads
        /\ UNCHANGED <<numer, denom, mult, mserr, build, launch, together>>
        /\ \A u \in SThreads : u # t => spc'[u] = spc[u] /\ temp'[u] = temp[u]
    BY <1>7 DEF ScaleInv, ScaleType, S!UseMult, S!SGo
  <2>2. \/ build = "64-bit" /\ spc'[t] = "used" /\ temp'[t] = mult
        \/ build = "32-bit" /\ spc'[t] = "use low" /\ temp'[t][1] = mult[1]
        \/ build = "32-bit" /\ spc'[t] = "use high" /\ temp'[t][2] = mult[2]
    <3>1. \/ build = "64-bit" /\ spc'[t] = "used" /\ temp'[t] = mult
          \/ build = "32-bit" /\ spc'[t] = "use low" /\ temp'[t] = S!High(mult)
          \/ build = "32-bit" /\ spc'[t] = "use high" /\ temp'[t] = S!Low(mult)
      BY <1>7 DEF ScaleInv, ScaleType, S!UseMult, S!SGo
    <3> QED BY <3>1, Words
  <2>3. ScaleType'
    BY <1>7, <2>1 DEF ScaleInv, ScaleType, S!UseMult, S!SGo
  <2>4. SameInv'
    BY <2>1, <2>2 DEF ScaleInv, SameInv
  <2>5. AloneInv'
    <3> SUFFICES ASSUME ~together PROVE AloneInv'
      BY <2>1 DEF AloneInv
    <3>1. /\ Busy(t) /\ Good(t, mult)
          /\ \A u, v \in SThreads : Busy(u) /\ Busy(v) => u = v
      BY <2>1 DEF ScaleInv, AloneInv, Busy
    <3>2. \A u \in SThreads : u # t =>
            spc[u] \in {"idle", "used"} /\ spc'[u] = spc[u] /\ temp'[u] = temp[u]
      BY <2>1, <3>1 DEF Busy
    <3>3. \A u, v \in SThreads : Busy(u)' /\ Busy(v)' => u = v
      BY <3>2 DEF Busy
    <3>4. \A u \in SThreads : spc'[u] = "used" => Good(u, temp'[u])
      BY <2>2, <3>1, <3>2 DEF ScaleInv, AloneInv
    <3>5. /\ mult \in {S!Zero, S!Right}
          /\ (numer = 5 /\ denom = 3) \/ numer = 0
      BY <2>1, <3>1, <3>2 DEF ScaleInv, AloneInv, Busy
    <3> QED BY <2>1, <2>2, <3>1, <3>2, <3>3, <3>4, <3>5 DEF AloneInv, Good
  <2> QED BY <2>3, <2>4, <2>5 DEF ScaleInv
<1>10. CASE S!UseRest(t)
  <2>1. /\ spc[t] \in {"use low", "use high"} /\ spc' = [spc EXCEPT ![t] = "used"]
        /\ temp' = [temp EXCEPT ![t] = S!WithRest(t)]
        /\ UNCHANGED <<numer, denom, mult, mserr, build, launch, together>>
    BY <1>10 DEF S!UseRest, S!SGo
  <2>2. /\ ScaleType' /\ Busy(t) /\ temp'[t] = S!WithRest(t) /\ spc'[t] = "used"
        /\ \A u \in SThreads : u # t => spc'[u] = spc[u] /\ temp'[u] = temp[u]
    BY <2>1 DEF ScaleInv, ScaleType, Busy
  <2>3. SameInv'
    BY <2>1, <2>2 DEF ScaleInv, SameInv
  <2>4. ~together => mult \in {S!Zero, S!Right} /\ S!WithRest(t) = mult
    BY <2>1, <2>2, WholeMult, WithRestIs DEF ScaleInv, AloneInv, Busy
  <2>5. AloneInv'
    BY <2>1, <2>2, <2>4 DEF ScaleInv, AloneInv, Busy, Good
  <2> QED BY <2>2, <2>3, <2>5 DEF ScaleInv
<1>8. CASE S!ReadAgain(t)
  BY <1>8 DEF ScaleInv, ScaleType, SameInv, AloneInv, Busy, Good, S!ReadAgain, S!SGo
<1> QED BY <1>1, <1>2, <1>3, <1>4, <1>5, <1>6, <1>7, <1>8, <1>9, <1>10

LEMMA ScaleKept ==
  ASSUME part = "scale" => ScaleInv, [Next]_vars
  PROVE  (part = "scale" => ScaleInv)'
<1>1. CASE ScaleStep
  BY <1>1, ScaleStepKeeps DEF ScaleStep
<1>2. CASE ~ScaleStep
  <2>1. part' = part
    BY <1>2 DEF Next, vars, Arc4randomStep, GetDelimStep, OsFuncStep, PathLockStep, PathStep, SetTimeStep, FMemStep
  <2>2. part = "scale" => UNCHANGED varsS
    BY <1>2 DEF Next, vars, Arc4randomStep, GetDelimStep, OsFuncStep, PathLockStep, PathStep, SetTimeStep, FMemStep
  <2>3. ASSUME ScaleInv, UNCHANGED varsS PROVE ScaleInv'
    <3>1. ScaleType' /\ SameInv'
      BY <2>3 DEF ScaleInv, ScaleType, SameInv, varsS
    <3>2. AloneInv'
      BY <2>3 DEF ScaleInv, AloneInv, Busy, Good, varsS
    <3> QED BY <3>1, <3>2 DEF ScaleInv
  <2> QED BY <2>1, <2>2, <2>3
<1> QED BY <1>1, <1>2

\* A clock is scaled by the right multiplier, or by zero and the call says so, for every
\* number of threads: always in a 64-bit build after a good launch, and otherwise as long
\* as no two threads read clocks at the same time (get_mach_scale, setup_mach_mult).
THEOREM ScaleIsRight == Spec => []ScaledRightly
<1>1. Init => (part = "scale" => ScaleInv)
  BY ScaleInit DEF Init
<1>2. (part = "scale" => ScaleInv) => ScaledRightly
  BY DEF ScaleInv, SameInv, AloneInv, Good, ScaledRightly, S!ScaledRightly
<1> QED BY <1>1, <1>2, ScaleKept, PTL DEF Spec

(***************************************************************************)
(* Calls that go back to a path (PathOps)                                  *)
(***************************************************************************)
IsLink(object) == object \in DOMAIN [l |-> "f"]

\* A path that was found out leads to the directory as long as nothing is moved.
LeadsTo(path, dir) == path = "cut" \/ (path \in P!Places /\ (~moved => where[path] = dir))

\* What a call knows at each of its steps.
KnownInv ==
  /\ opc \in {"old path", "new path", "link"} =>
       /\ op.oldfd \in P!Descriptors /\ op.newfd \in P!Descriptors
       /\ want = << <<P!DirOf(op.oldfd), "old">>, <<P!DirOf(op.newfd), "new">> >>
  /\ opc \in {"old path", "path", "lstat"} => found = <<>>
  /\ opc = "new path" => found = <<found[1]>> /\ LeadsTo(found[1], P!DirOf(op.oldfd))
  /\ opc = "link" =>
       /\ found = <<found[1], found[2]>>
       /\ LeadsTo(found[1], P!DirOf(op.oldfd)) /\ LeadsTo(found[2], P!DirOf(op.newfd))
  /\ opc \in {"path", "attr"} => op.fd \in Objects /\ ~IsLink(op.fd) /\ want = <<op.fd>>
  /\ opc = "attr" => found = <<found[1]>> /\ found[1] \in P!Places /\ (~moved => where[found[1]] = op.fd)
  /\ opc \in {"lstat", "change"} => op.path \in P!Places /\ (~moved => want = <<where[op.path]>>)
  /\ opc = "change" =>
       found = <<found[1]>> /\ (~moved => (found[1] = "link" <=> IsLink(where[op.path])))

\* Every object is somewhere, and a call that is done worked on what it was for.
PlaceInv ==
  /\ where \in [P!Places -> {"d1", "d2", "f", "l", "nothing"}]
  /\ \A object \in Objects : \E p \in P!Places : where[p] = object

PathInv == PlaceInv /\ KnownInv /\ P!WorksOnWhatItNames /\ moved \in BOOLEAN

LEMMA PlacesAre == P!Places = {"p", "q", "deep", "x", "y"}
  BY DEF P!Places

LEMMA PathInit == P!PInit => PathInv
<1> SUFFICES ASSUME P!PInit PROVE PathInv
  OBVIOUS
<1>1. where = [p |-> "d1", q |-> "d2", deep |-> "nothing", x |-> "f", y |-> "l"]
  BY DEF P!PInit
<1>2. PlaceInv
  <2>1. /\ where["p"] = "d1" /\ where["q"] = "d2" /\ where["deep"] = "nothing"
        /\ where["x"] = "f" /\ where["y"] = "l"
    BY <1>1
  <2>2. \A object \in Objects : \E p \in P!Places : where[p] = object
    BY <2>1, PlacesAre, PathAssumption
  <2>3. DOMAIN where = P!Places /\ where = [p \in P!Places |-> where[p]]
    BY <1>1, PlacesAre
  <2>4. \A p \in P!Places : where[p] \in {"d1", "d2", "f", "l", "nothing"}
    BY <2>1, PlacesAre, PathAssumption
  <2> QED BY <2>2, <2>3, <2>4 DEF PlaceInv
<1>3. KnownInv /\ P!WorksOnWhatItNames /\ moved \in BOOLEAN
  BY DEF P!PInit, KnownInv, P!WorksOnWhatItNames
<1> QED BY <1>2, <1>3 DEF PathInv

\* A path of a directory or a file is where it is now (fcntl F_GETPATH).
LEMMA GetPathFinds ==
  ASSUME PlaceInv, NEW object \in Objects
  PROVE  P!GetPath(object) \in P!Places /\ where[P!GetPath(object)] = object
  BY DEF PlaceInv, P!GetPath

LEMMA FullPathFinds ==
  ASSUME PlaceInv, NEW fd \in P!Descriptors
  PROVE  LeadsTo(P!FullPathAt(fd), P!DirOf(fd))
<1>1. P!DirOf(fd) \in Objects
  BY PathAssumption DEF P!DirOf, P!Descriptors
<1> QED BY <1>1, GetPathFinds DEF P!FullPathAt, LeadsTo, P!CutPath

LEMMA AppendedToNone ==
  ASSUME NEW x
  PROVE  Append(<<>>, x) = <<x>>
  OBVIOUS

LEMMA AppendedToOne ==
  ASSUME NEW x, NEW y
  PROVE  Append(<<x>>, y) = <<x, y>>
<1>1. Append(<<x>>, y) = [i \in 1 .. 2 |-> IF i \in 1 .. 1 THEN <<x>>[i] ELSE y]
  OBVIOUS
<1>2. <<x, y>> = [i \in 1 .. 2 |-> IF i \in 1 .. 1 THEN <<x>>[i] ELSE y]
  OBVIOUS
<1> QED BY <1>1, <1>2

\* Another process moves something: what a call has found out may be stale from then on.
LEMMA MoveKeeps ==
  ASSUME PathInv, P!Move
  PROVE  PathInv'
<1>1. PICK from \in P!Places, to \in P!Places :
        /\ where[from] # "nothing" /\ where[to] = "nothing"
        /\ where' = [where EXCEPT ![to] = where[from], ![from] = "nothing"]
  BY DEF P!Move, P!Nothing
<1>2. moved' = TRUE /\ UNCHANGED <<opc, op, found, want, hit>>
  BY DEF P!Move
<1>3. PlaceInv'
  <2>1. where' \in [P!Places -> {"d1", "d2", "f", "l", "nothing"}]
    BY <1>1 DEF PathInv, PlaceInv
  <2>2. ASSUME NEW object \in Objects PROVE \E p \in P!Places : where'[p] = object
    <3>1. PICK p \in P!Places : where[p] = object
      BY DEF PathInv, PlaceInv
    <3>2. object # "nothing"
      BY PathAssumption
    <3>3. CASE p = from
      BY <1>1, <3>1, <3>2, <3>3 DEF PathInv, PlaceInv
    <3>4. CASE p # from
      BY <1>1, <3>1, <3>2, <3>4 DEF PathInv, PlaceInv
    <3> QED BY <3>3, <3>4
  <2> QED BY <2>1, <2>2 DEF PlaceInv
<1>4. KnownInv'
  BY <1>2 DEF PathInv, KnownInv, LeadsTo, P!Descriptors, P!DirOf, P!Places
<1>5. (P!WorksOnWhatItNames /\ moved \in BOOLEAN)'
  BY <1>2 DEF P!WorksOnWhatItNames
<1> QED BY <1>3, <1>4, <1>5 DEF PathInv

\* linkat and renameat, up to the two paths: a call that is made in one directory works on
\* what its arguments name, whichever of them are absolute (ATCALL).
LEMMA LinkAtKeeps ==
  ASSUME PathInv, P!LinkAt
  PROVE  PathInv'
<1>1. PICK o \in P!LinkCalls :
        /\ P!Begin(o, IF P!InOneDir(o) THEN "done" ELSE "old path",
                   <<P!Named(o.oldabs, P!DirOf(o.oldfd), "old"), P!Named(o.newabs, P!DirOf(o.newfd), "new")>>)
        /\ hit' = IF P!InOneDir(o)
                  THEN <<P!Named(o.oldabs, P!CalledIn(o), "old"), P!Named(o.newabs, P!CalledIn(o), "new")>>
                  ELSE hit
  BY DEF P!LinkAt
<1>2. /\ op' = o /\ found' = <<>> /\ moved' = FALSE /\ UNCHANGED where
      /\ want' = <<P!Named(o.oldabs, P!DirOf(o.oldfd), "old"), P!Named(o.newabs, P!DirOf(o.newfd), "new")>>
      /\ opc' = IF P!InOneDir(o) THEN "done" ELSE "old path"
  BY <1>1 DEF P!Begin
<1>3. /\ o.oldabs \in BOOLEAN /\ o.newabs \in BOOLEAN
      /\ o.oldfd \in P!Descriptors /\ o.newfd \in P!Descriptors
  BY DEF P!LinkCalls
<1>4. CASE P!InOneDir(o)
  <2>1. hit' = want'
    BY <1>1, <1>2, <1>3, <1>4 DEF P!InOneDir, P!CalledIn, P!Named
  <2>2. PlaceInv'
    BY <1>2 DEF PathInv, PlaceInv, P!Places
  <2>3. opc' = "done"
    BY <1>2, <1>4
  <2>4. KnownInv'
    BY <2>3 DEF KnownInv
  <2>5. P!WorksOnWhatItNames'
    BY <2>1 DEF P!WorksOnWhatItNames
  <2> QED BY <1>2, <2>2, <2>4, <2>5 DEF PathInv
<1>5. CASE ~P!InOneDir(o)
  <2>1. want' = << <<P!DirOf(o.oldfd), "old">>, <<P!DirOf(o.newfd), "new">> >>
    BY <1>2, <1>3, <1>5 DEF P!InOneDir, P!Named
  <2>2. PlaceInv'
    BY <1>2 DEF PathInv, PlaceInv, P!Places
  <2>3. opc' = "old path" /\ found' = <<>> /\ op' = o
    BY <1>2, <1>5
  <2>4. KnownInv'
    BY <1>3, <2>1, <2>3 DEF KnownInv, P!Descriptors, P!DirOf
  <2>5. P!WorksOnWhatItNames'
    BY <2>3 DEF P!WorksOnWhatItNames
  <2> QED BY <1>2, <2>2, <2>4, <2>5 DEF PathInv
<1> QED BY <1>4, <1>5

\* A step that fails or returns: nothing is known any more that has to hold.
LEMMA EndKeeps ==
  ASSUME PathInv, UNCHANGED <<where, moved>>,
         opc' = "idle" \/ (opc' = "done" /\ hit' = P!Failed)
  PROVE  PathInv'
<1>1. PlaceInv'
  BY DEF PathInv, PlaceInv, P!Places
<1>2. KnownInv' /\ P!WorksOnWhatItNames'
  BY DEF KnownInv, P!WorksOnWhatItNames, P!Failed
<1> QED BY <1>1, <1>2 DEF PathInv

LEMMA OldPathKeeps ==
  ASSUME PathInv, P!OldPath
  PROVE  PathInv'
<1>1. CASE P!Fails
  BY <1>1, EndKeeps DEF P!OldPath, P!Fails, P!Ends, P!Working
<1>2. CASE P!Finds(P!FullPathAt(op.oldfd), "new path")
  <2>1. /\ opc = "old path" /\ opc' = "new path"
        /\ UNCHANGED <<where, op, want, moved>> /\ found' = Append(found, P!FullPathAt(op.oldfd))
    BY <1>2 DEF P!OldPath, P!Finds, P!Working
  <2>2. found' = <<P!FullPathAt(op.oldfd)>>
    BY <2>1, AppendedToNone DEF PathInv, KnownInv
  <2>3. LeadsTo(P!FullPathAt(op.oldfd), P!DirOf(op.oldfd))
    BY <2>1, FullPathFinds DEF PathInv, KnownInv
  <2>4. LeadsTo(found[1], P!DirOf(op.oldfd))' /\ found' = <<found'[1]>>
    <3>1. found'[1] = P!FullPathAt(op.oldfd)
      BY <2>2
    <3> QED BY <2>1, <2>2, <2>3, <3>1 DEF LeadsTo, P!Places, P!DirOf
  <2>5. KnownInv'
    BY <2>1, <2>4 DEF PathInv, KnownInv, P!Descriptors, P!DirOf
  <2> QED BY <2>1, <2>5 DEF PathInv, PlaceInv, P!Places, P!WorksOnWhatItNames
<1> QED BY <1>1, <1>2 DEF P!OldPath

LEMMA NewPathKeeps ==
  ASSUME PathInv, P!NewPath
  PROVE  PathInv'
<1>1. CASE P!Fails
  BY <1>1, EndKeeps DEF P!NewPath, P!Fails, P!Ends, P!Working
<1>2. CASE P!Finds(P!FullPathAt(op.newfd), "link")
  <2>1. /\ opc = "new path" /\ opc' = "link"
        /\ UNCHANGED <<where, op, want, moved>> /\ found' = Append(found, P!FullPathAt(op.newfd))
    BY <1>2 DEF P!NewPath, P!Finds, P!Working
  <2>2. found' = <<found[1], P!FullPathAt(op.newfd)>>
    BY <2>1, AppendedToOne DEF PathInv, KnownInv
  <2>3. LeadsTo(P!FullPathAt(op.newfd), P!DirOf(op.newfd)) /\ LeadsTo(found[1], P!DirOf(op.oldfd))
    BY <2>1, FullPathFinds DEF PathInv, KnownInv
  <2>4. /\ LeadsTo(found[1], P!DirOf(op.oldfd))' /\ LeadsTo(found[2], P!DirOf(op.newfd))'
        /\ found' = <<found'[1], found'[2]>>
    <3>1. found'[1] = found[1] /\ found'[2] = P!FullPathAt(op.newfd)
      BY <2>2
    <3> QED BY <2>1, <2>2, <2>3, <3>1 DEF LeadsTo, P!Places, P!DirOf
  <2>5. KnownInv'
    BY <2>1, <2>4 DEF PathInv, KnownInv, P!Descriptors, P!DirOf
  <2> QED BY <2>1, <2>5 DEF PathInv, PlaceInv, P!Places, P!WorksOnWhatItNames
<1> QED BY <1>1, <1>2 DEF P!NewPath

LEMMA LinkKeeps ==
  ASSUME PathInv, P!Link
  PROVE  PathInv'
<1>1. /\ opc = "link" /\ opc' = "done" /\ UNCHANGED <<found, where, op, want, moves, moved>>
      /\ hit' = <<P!InDir(found[1], "old"), P!InDir(found[2], "new")>>
  BY DEF P!Link, P!Ends, P!Working
<1>2. /\ found = <<found[1], found[2]>>
      /\ LeadsTo(found[1], P!DirOf(op.oldfd)) /\ LeadsTo(found[2], P!DirOf(op.newfd))
      /\ want = << <<P!DirOf(op.oldfd), "old">>, <<P!DirOf(op.newfd), "new">> >>
      /\ P!DirOf(op.oldfd) \in Dirs /\ P!DirOf(op.newfd) \in Dirs
  BY <1>1, PathAssumption DEF PathInv, KnownInv, P!DirOf, P!Descriptors
<1>3. ASSUME ~moved, "cut" \notin {found[i] : i \in DOMAIN found}
      PROVE  hit' = want
  <2>1. found[1] # "cut" /\ found[2] # "cut"
    BY <1>2, <1>3
  <2>2. where[found[1]] = P!DirOf(op.oldfd) /\ where[found[2]] = P!DirOf(op.newfd)
    BY <1>2, <1>3, <2>1 DEF LeadsTo
  <2> QED BY <1>1, <1>2, <2>1, <2>2 DEF P!InDir, P!CutPath
<1>4. P!WorksOnWhatItNames'
  BY <1>1, <1>3 DEF P!WorksOnWhatItNames, P!CutPath
<1> QED BY <1>1, <1>4 DEF PathInv, PlaceInv, KnownInv, P!Places

\* fgetattrlist and fsetattrlist.
LEMMA FAttrListKeeps ==
  ASSUME PathInv, P!FAttrList \/ P!AttrPath \/ P!Attr
  PROVE  PathInv'
<1>1. CASE P!FAttrList
  <2>1. PICK object \in Objects \ DOMAIN [l |-> "f"] : P!Begin([fd |-> object], "path", <<object>>)
    BY <1>1 DEF P!FAttrList
  <2>2. /\ opc' = "path" /\ found' = <<>> /\ want' = <<object>> /\ moved' = FALSE
        /\ UNCHANGED where /\ op' = [fd |-> object]
    BY <2>1 DEF P!Begin
  <2>3. op'.fd = object
    BY <2>2
  <2>4. KnownInv'
    BY <2>2, <2>3 DEF KnownInv, IsLink
  <2> QED BY <2>2, <2>4 DEF PathInv, PlaceInv, P!Places, P!WorksOnWhatItNames
<1>2. CASE P!AttrPath
  <2>1. CASE P!Fails
    BY <1>2, <2>1, EndKeeps DEF P!AttrPath, P!Fails, P!Ends, P!Working
  <2>2. CASE P!Finds(P!GetPath(op.fd), "attr")
    <3>1. /\ opc = "path" /\ opc' = "attr"
          /\ UNCHANGED <<where, op, want, moved>> /\ found' = Append(found, P!GetPath(op.fd))
      BY <1>2, <2>2 DEF P!AttrPath, P!Finds, P!Working
    <3>2. found' = <<P!GetPath(op.fd)>>
      BY <3>1, AppendedToNone DEF PathInv, KnownInv
    <3>3. found'[1] = P!GetPath(op.fd) /\ found' = <<found'[1]>>
      BY <3>2
    <3>4. P!GetPath(op.fd) \in P!Places /\ where[P!GetPath(op.fd)] = op.fd
      BY <3>1, GetPathFinds DEF PathInv, KnownInv
    <3>5. KnownInv'
      BY <3>1, <3>3, <3>4 DEF PathInv, KnownInv, IsLink, P!Places
    <3> QED BY <3>1, <3>5 DEF PathInv, PlaceInv, P!Places, P!WorksOnWhatItNames
  <2> QED BY <1>2, <2>1, <2>2 DEF P!AttrPath
<1>3. CASE P!Attr
  BY <1>3 DEF PathInv, PlaceInv, KnownInv, IsLink, P!Attr, P!Follow, P!Places, P!Ends, P!Working, P!WorksOnWhatItNames
<1> QED BY <1>1, <1>2, <1>3

\* lutimes and lchmod.
LEMMA LCallKeeps ==
  ASSUME PathInv, P!LCall \/ P!LStat \/ P!Change
  PROVE  PathInv'
<1>1. CASE P!LCall
  <2>1. PICK p \in P!Places : P!Begin([path |-> p], "lstat", <<where[p]>>)
    BY <1>1 DEF P!LCall
  <2>2. /\ opc' = "lstat" /\ found' = <<>> /\ want' = <<where[p]>> /\ moved' = FALSE
        /\ UNCHANGED where /\ op' = [path |-> p]
    BY <2>1 DEF P!Begin
  <2>3. op'.path = p
    BY <2>2
  <2>4. KnownInv'
    BY <2>2, <2>3 DEF KnownInv, P!Places
  <2> QED BY <2>2, <2>4 DEF PathInv, PlaceInv, P!Places, P!WorksOnWhatItNames
<1>2. CASE P!LStat
  <2>1. CASE where[op.path] = "nothing"
    BY <1>2, <2>1, EndKeeps DEF P!LStat, P!Fails, P!Ends, P!Working, P!Nothing
  <2>2. CASE where[op.path] # "nothing"
    <3> DEFINE kind == IF IsLink(where[op.path]) THEN "link" ELSE "other"
    <3>1. /\ opc = "lstat" /\ opc' = "change"
          /\ UNCHANGED <<where, op, want, moved>> /\ found' = Append(found, kind)
      BY <1>2, <2>2 DEF P!LStat, P!Finds, P!Working, P!Nothing, IsLink
    <3>2. found' = <<kind>>
      BY <3>1, AppendedToNone DEF PathInv, KnownInv
    <3>3. found'[1] = kind /\ found' = <<found'[1]>>
      BY <3>2
    <3>4. KnownInv'
      BY <3>1, <3>3 DEF PathInv, KnownInv, IsLink, P!Places
    <3> QED BY <3>1, <3>4 DEF PathInv, PlaceInv, P!Places, P!WorksOnWhatItNames
  <2> QED BY <2>1, <2>2
<1>3. CASE P!Change
  BY <1>3 DEF PathInv, PlaceInv, KnownInv, IsLink, P!Change, P!Changed, P!Follow, P!Places, P!Ends,
              P!Working, P!WorksOnWhatItNames
<1> QED BY <1>1, <1>2, <1>3

LEMMA PathStepKeeps ==
  ASSUME PathInv, P!PNext
  PROVE  PathInv'
<1>1. CASE P!Return
  BY <1>1, EndKeeps DEF P!Return
<1> QED BY <1>1, MoveKeeps, LinkAtKeeps, OldPathKeeps, NewPathKeeps, LinkKeeps, FAttrListKeeps,
           LCallKeeps DEF P!PNext

LEMMA PathKept ==
  ASSUME part = "path_ops" => PathInv, [Next]_vars
  PROVE  (part = "path_ops" => PathInv)'
<1>1. CASE PathStep
  BY <1>1, PathStepKeeps DEF PathStep
<1>2. CASE ~PathStep
  <2>1. part' = part
    BY <1>2 DEF Next, vars, Arc4randomStep, GetDelimStep, OsFuncStep, PathLockStep, ScaleStep, SetTimeStep, FMemStep
  <2>2. part = "path_ops" => UNCHANGED varsP
    BY <1>2 DEF Next, vars, Arc4randomStep, GetDelimStep, OsFuncStep, PathLockStep, ScaleStep, SetTimeStep, FMemStep
  <2>3. ASSUME PathInv, UNCHANGED varsP PROVE PathInv'
    <3>1. PlaceInv' /\ P!WorksOnWhatItNames' /\ (moved \in BOOLEAN)'
      BY <2>3 DEF PathInv, PlaceInv, P!Places, P!WorksOnWhatItNames, varsP
    <3>2. KnownInv'
      <4>1. UNCHANGED <<where, opc, op, found, want, moved>> /\ KnownInv
        BY <2>3 DEF PathInv, varsP
      <4> QED BY <4>1, ZenonT(30) DEF KnownInv, LeadsTo, P!Places, P!Descriptors, P!DirOf
    <3> QED BY <3>1, <3>2 DEF PathInv
  <2> QED BY <2>1, <2>2, <2>3
<1> QED BY <1>1, <1>2

\* linkat, renameat, fgetattrlist, fsetattrlist, lutimes and lchmod fail or work on the
\* objects they were called for, unless something was moved between finding out and doing
\* or a path was cut off, for any set of objects, directories and deep places.
THEOREM NamedIsWorkedOn == Spec => []WorksOnWhatItNames
<1>1. Init => (part = "path_ops" => PathInv)
  BY PathInit DEF Init
<1>2. (part = "path_ops" => PathInv) => WorksOnWhatItNames
  BY DEF PathInv, WorksOnWhatItNames
<1> QED BY <1>1, <1>2, PathKept, PTL DEF Spec

(***************************************************************************)
(* The line buffer of getdelim (GetDelim)                                  *)
(***************************************************************************)
LineBytes == Chars \cup {"junk", "nul"}

\* The loop with p characters of the line l in a buffer h of size b: there is room for one
\* more and a null, and no delimiter came yet.
InLoop(h, b, p, l) ==
  /\ h \in Seq(LineBytes) /\ b \in Nat /\ Len(h) = b
  /\ p \in Nat /\ p + 2 <= b
  /\ l \in Seq(Chars) /\ Len(l) = p
  /\ \A i \in 1 .. p : h[i] = l[i] /\ l[i] # Delim

\* A buffer that the caller holds, or none.
Holds(h, b) ==
  \/ h = <<"none">>
  \/ h \in Seq(LineBytes) /\ b \in Nat \ {0, 1} /\ Len(h) = b

\* What getdelim has when it returns the count r.
Returned(h, r, l) ==
  /\ r = Len(l) /\ SubSeq(h, 1, r) = l
  /\ \A i \in 1 .. r - 1 : l[i] # Delim
  /\ l[r] = Delim => h[r + 1] = "nul"

BufferInv ==
  /\ input \in Seq(Chars) /\ outside = FALSE /\ gpc \in {"caller", "loop"}
  /\ gpc = "loop" => InLoop(heap, bufsiz, ptr, line)
  /\ gpc = "caller" => Holds(heap, bufsiz) /\ (ret # -1 => Returned(heap, ret, line))

-----------------------------------------------------------------------------
LEMMA FilledIs ==
  ASSUME NEW n \in Nat
  PROVE  G!Filled(n) \in Seq(LineBytes) /\ Len(G!Filled(n)) = n
  BY DEF G!Filled, G!Junk, LineBytes

HasPut(g, h, i, c) ==
  /\ g \in Seq(LineBytes) /\ Len(g) = Len(h)
  /\ \A j \in 1 .. Len(h) : g[j] = IF j = i THEN c ELSE h[j]

LEMMA PutIs ==
  ASSUME NEW h \in Seq(LineBytes), NEW i \in 1 .. Len(h), NEW c \in LineBytes
  PROVE  HasPut(G!Put(h, i, c), h, i, c)
<1>1. G!Put(h, i, c) = [h EXCEPT ![i] = c]
  BY DEF G!Put
<1> QED BY <1>1, ExceptSeq DEF HasPut

LEMMA EnlargedIs ==
  ASSUME NEW h \in Seq(LineBytes)
  PROVE  /\ G!Enlarged(h) \in Seq(LineBytes) /\ Len(G!Enlarged(h)) = Len(h) + Len(h)
         /\ \A j \in 1 .. Len(h) : G!Enlarged(h)[j] = h[j]
<1>1. G!Filled(Len(h)) \in Seq(LineBytes) /\ Len(G!Filled(Len(h))) = Len(h)
  BY FilledIs, LenProperties
<1> QED BY <1>1, ConcatProperties, LenProperties DEF G!Enlarged

\* A new buffer is ready for the loop.
LEMMA LoopBegins ==
  ASSUME NEW h, NEW b \in Nat \ {0, 1}, h \in Seq(LineBytes), Len(h) = b
  PROVE  InLoop(h, b, 0, <<>>)
  BY DEF InLoop

\* What is in the buffer is the line, in the middle of it too.
LEMMA LoopReturns ==
  ASSUME NEW h, NEW b, NEW p, NEW l, InLoop(h, b, p, l), p # 0
  PROVE  Returned(h, p, l)
<1>1. /\ h \in Seq(LineBytes) /\ p \in Nat /\ p <= Len(h) /\ l \in Seq(Chars) /\ Len(l) = p
      /\ \A i \in 1 .. p : h[i] = l[i] /\ l[i] # Delim
  BY DEF InLoop
<1>2. l \in Seq(LineBytes)
  BY <1>1, SeqMonotonic DEF LineBytes
<1>3. \A i \in 1 .. p : h[i] \in LineBytes
  BY <1>1, LenProperties
<1>4. SubSeq(h, 1, p) \in Seq(LineBytes) /\ Len(SubSeq(h, 1, p)) = p
  BY <1>1, <1>3, SubSeqProperties
<1>5. \A i \in 1 .. p : SubSeq(h, 1, p)[i] = h[i]
  BY <1>1, <1>3, SubSeqProperties
<1>6. SubSeq(h, 1, p) = l
  BY <1>1, <1>2, <1>4, <1>5, SeqEqual
<1> QED BY <1>1, <1>6 DEF Returned

\* A character that is no delimiter is stored; there is room for one more and a null, or
\* the buffer is doubled.
LEMMA LoopStores ==
  ASSUME NEW h, NEW b, NEW p, NEW l, InLoop(h, b, p, l), NEW c \in Chars, c # Delim
  PROVE  /\ p + 3 < b => InLoop(G!Put(h, p + 1, c), b, p + 1, Append(l, c))
         /\ InLoop(G!Enlarged(G!Put(h, p + 1, c)), b * 2, p + 1, Append(l, c))
         /\ Holds(G!Put(h, p + 1, c), b)
<1> DEFINE g == G!Put(h, p + 1, c)
           m == Append(l, c)
           e == G!Enlarged(g)
<1>1. /\ h \in Seq(LineBytes) /\ b \in Nat /\ Len(h) = b /\ p \in Nat /\ p + 2 <= b
      /\ l \in Seq(Chars) /\ Len(l) = p /\ \A i \in 1 .. p : h[i] = l[i] /\ l[i] # Delim
  BY DEF InLoop
<1>2. p + 1 \in 1 .. Len(h) /\ c \in LineBytes
  BY <1>1 DEF LineBytes
<1>3. /\ g \in Seq(LineBytes) /\ Len(g) = b
      /\ \A j \in 1 .. b : g[j] = IF j = p + 1 THEN c ELSE h[j]
  <2>1. PICK k : k = p + 1
    OBVIOUS
  <2>2. k \in 1 .. Len(h)
    BY <1>2, <2>1
  <2>3. HasPut(G!Put(h, k, c), h, k, c)
    BY <1>1, <1>2, <2>2, PutIs
  <2>4. Len(h) = b
    BY <1>1
  <2> QED BY <2>1, <2>3, <2>4, Zenon DEF HasPut
<1>4. /\ m \in Seq(Chars) /\ Len(m) = p + 1 /\ m[p + 1] = c
      /\ \A i \in 1 .. p : m[i] = l[i]
  BY <1>1
<1>5. e \in Seq(LineBytes) /\ Len(e) = b + b /\ \A j \in 1 .. b : e[j] = g[j]
  BY <1>3, EnlargedIs
<1> HIDE DEF g, m, e
<1>6. \A i \in 1 .. p + 1 : g[i] = m[i] /\ m[i] # Delim /\ i \in 1 .. b
  <2> SUFFICES ASSUME NEW i \in 1 .. p + 1
               PROVE  g[i] = m[i] /\ m[i] # Delim /\ i \in 1 .. b
    OBVIOUS
  <2>1. CASE i = p + 1
    BY <1>1, <1>3, <1>4, <2>1
  <2>2. CASE i # p + 1
    <3>1. i \in 1 .. p /\ i \in 1 .. b
      BY <1>1, <2>2
    <3> QED BY <1>1, <1>3, <1>4, <2>2, <3>1
  <2> QED BY <2>1, <2>2
<1>7. p + 3 < b => InLoop(g, b, p + 1, m)
  BY <1>1, <1>3, <1>4, <1>6 DEF InLoop
<1>8. b * 2 = b + b /\ b * 2 \in Nat /\ p + 1 \in Nat /\ p + 1 + 2 <= b * 2
  BY <1>1
<1>9. \A i \in 1 .. p + 1 : e[i] = m[i] /\ m[i] # Delim
  BY <1>5, <1>6
<1>10. InLoop(e, b * 2, p + 1, m)
  BY <1>4, <1>5, <1>8, <1>9 DEF InLoop
<1>11. Holds(g, b)
  BY <1>1, <1>3 DEF Holds
<1> QED BY <1>7, <1>10, <1>11 DEF g, m, e

\* What ends the line is stored with a null after it, and there is room for both.
LEMMA LoopEnds ==
  ASSUME NEW h, NEW b, NEW p, NEW l, InLoop(h, b, p, l), NEW c \in Chars
  PROVE  LET g == G!Put(G!Put(h, p + 1, c), p + 2, "nul")
         IN Returned(g, p + 1, Append(l, c)) /\ Holds(g, b)
<1> DEFINE f == G!Put(h, p + 1, c)
           g == G!Put(f, p + 2, "nul")
           m == Append(l, c)
<1>1. /\ h \in Seq(LineBytes) /\ b \in Nat /\ Len(h) = b /\ p \in Nat /\ p + 2 <= b
      /\ l \in Seq(Chars) /\ Len(l) = p /\ \A i \in 1 .. p : h[i] = l[i] /\ l[i] # Delim
  BY DEF InLoop
<1>2. p + 1 \in 1 .. Len(h) /\ c \in LineBytes
  BY <1>1 DEF LineBytes
<1>3. /\ f \in Seq(LineBytes) /\ Len(f) = b
      /\ \A j \in 1 .. b : f[j] = IF j = p + 1 THEN c ELSE h[j]
  <2>1. PICK k : k = p + 1
    OBVIOUS
  <2>2. k \in 1 .. Len(h)
    BY <1>2, <2>1
  <2>3. HasPut(G!Put(h, k, c), h, k, c)
    BY <1>1, <1>2, <2>2, PutIs
  <2>4. Len(h) = b
    BY <1>1
  <2> QED BY <2>1, <2>3, <2>4, Zenon DEF HasPut
<1>4. /\ m \in Seq(Chars) /\ Len(m) = p + 1 /\ m[p + 1] = c
      /\ \A i \in 1 .. p : m[i] = l[i]
  BY <1>1
<1> HIDE DEF f, m
<1>5. /\ g \in Seq(LineBytes) /\ Len(g) = b
      /\ \A j \in 1 .. b : g[j] = IF j = p + 2 THEN "nul" ELSE f[j]
  <2>1. PICK k : k = p + 2
    OBVIOUS
  <2>2. PICK z \in LineBytes : z = "nul"
    BY DEF LineBytes
  <2>3. f \in Seq(LineBytes) /\ k \in 1 .. Len(f) /\ Len(f) = b
    BY <1>1, <1>3, <2>1
  <2>4. HasPut(G!Put(f, k, z), f, k, z)
    BY <2>2, <2>3, PutIs
  <2> QED BY <2>1, <2>2, <2>3, <2>4, Zenon DEF HasPut
<1> HIDE DEF g
<1>6. \A i \in 1 .. p + 1 : g[i] = m[i] /\ i \in 1 .. b
  <2> SUFFICES ASSUME NEW i \in 1 .. p + 1
               PROVE  g[i] = m[i] /\ i \in 1 .. b
    OBVIOUS
  <2>1. i \in 1 .. b /\ i # p + 2 /\ g[i] = f[i]
    BY <1>1, <1>5
  <2>2. CASE i = p + 1
    BY <1>3, <1>4, <2>1, <2>2
  <2>3. CASE i # p + 1
    <3>1. i \in 1 .. p
      BY <1>1, <2>3
    <3> QED BY <1>1, <1>3, <1>4, <2>1, <2>3, <3>1
  <2> QED BY <2>2, <2>3
<1>7. m \in Seq(LineBytes)
  BY <1>4, SeqMonotonic DEF LineBytes
<1>8. \A i \in 1 .. p + 1 : g[i] \in LineBytes
  BY <1>5, <1>6, LenProperties
<1>9. SubSeq(g, 1, p + 1) \in Seq(LineBytes) /\ Len(SubSeq(g, 1, p + 1)) = p + 1
  BY <1>1, <1>8, SubSeqProperties
<1>10. \A i \in 1 .. p + 1 : SubSeq(g, 1, p + 1)[i] = g[i]
  BY <1>1, <1>8, SubSeqProperties
<1>11. SubSeq(g, 1, p + 1) = m
  BY <1>4, <1>6, <1>7, <1>9, <1>10, SeqEqual
<1>12. \A i \in 1 .. (p + 1) - 1 : m[i] # Delim
  BY <1>1, <1>4
<1>13. g[p + 1 + 1] = "nul"
  BY <1>1, <1>5
<1>14. Returned(g, p + 1, m)
  BY <1>4, <1>11, <1>12, <1>13 DEF Returned
<1>15. Holds(g, b)
  BY <1>1, <1>5 DEF Holds
<1> QED BY <1>14, <1>15 DEF f, g, m

LEMMA BufferInit == G!GInit => BufferInv
<1> SUFFICES ASSUME G!GInit PROVE BufferInv
  OBVIOUS
<1>1. input \in Seq(Chars)
  BY DEF G!GInit, G!Inputs
<1>2. PICK n \in FirstSizes : heap = (IF n = 0 THEN G!NoBuf ELSE G!Filled(n)) /\ bufsiz = n
  BY DEF G!GInit
<1>3. Holds(heap, bufsiz)
  <2>1. n \in Nat \ {1}
    BY BufferAssumption
  <2>2. CASE n = 0
    BY <1>2, <2>2 DEF Holds, G!NoBuf
  <2>3. CASE n # 0
    BY <1>2, <2>1, <2>3, FilledIs DEF Holds
  <2> QED BY <2>2, <2>3
<1> QED BY <1>1, <1>3 DEF G!GInit, BufferInv, G!Minus

LEMMA BeginKeeps ==
  ASSUME BufferInv, G!Begin
  PROVE  BufferInv'
<1>1. /\ gpc = "caller" /\ Holds(heap, bufsiz) /\ UNCHANGED <<input, outside>>
      /\ ptr' = 0 /\ line' = <<>>
  BY DEF G!Begin, BufferInv
<1>2. input' \in Seq(Chars) /\ outside' = FALSE
  BY <1>1 DEF BufferInv
<1>3. CASE heap # G!NoBuf /\ gpc' = "loop" /\ UNCHANGED <<heap, bufsiz, ret>>
  <2>1. heap \in Seq(LineBytes) /\ bufsiz \in Nat \ {0, 1} /\ Len(heap) = bufsiz
    BY <1>1, <1>3 DEF Holds, G!NoBuf
  <2>2. InLoop(heap, bufsiz, 0, <<>>)
    BY <2>1, LoopBegins
  <2> QED BY <1>1, <1>2, <1>3, <2>2 DEF BufferInv
<1>4. CASE bufsiz' = BufSiz /\ heap' = G!Filled(BufSiz) /\ gpc' = "loop"
  <2>1. InLoop(G!Filled(BufSiz), BufSiz, 0, <<>>)
    BY BufferAssumption, FilledIs, LoopBegins
  <2> QED BY <1>1, <1>2, <1>4, <2>1 DEF BufferInv
<1>5. CASE heap' = G!NoBuf /\ G!Return(G!Minus)
  BY <1>2, <1>5 DEF BufferInv, Holds, G!NoBuf, G!Return, G!Minus
<1> QED BY <1>3, <1>4, <1>5 DEF G!Begin

LEMMA GetCharKeeps ==
  ASSUME BufferInv, G!GetChar
  PROVE  BufferInv'
<1> DEFINE c == Head(input)
           stored == G!Put(heap, ptr + 1, c)
<1>1. /\ gpc = "loop" /\ input # <<>> /\ input' = Tail(input) /\ line' = Append(line, c)
      /\ ptr' = ptr + 1
      /\ outside' = (outside \/ ptr + 1 > Len(heap) \/ (c = Delim /\ ptr + 2 > Len(heap)))
  BY DEF G!GetChar
<1>2. InLoop(heap, bufsiz, ptr, line) /\ input \in Seq(Chars) /\ outside = FALSE
  BY <1>1 DEF BufferInv
<1>3. c \in Chars /\ input' \in Seq(Chars)
  BY <1>1, <1>2, HeadTailProperties
<1>4. outside' = FALSE
  <2>1. ~(ptr + 1 > Len(heap)) /\ ~(ptr + 2 > Len(heap))
    BY <1>2 DEF InLoop
  <2> QED BY <1>1, <1>2, <2>1
<1>5. CASE c = Delim /\ heap' = G!Put(stored, ptr + 2, G!Nul) /\ G!Return(ptr + 1) /\ UNCHANGED bufsiz
  <2>1. Returned(heap', ptr + 1, Append(line, c)) /\ Holds(heap', bufsiz)
    BY <1>2, <1>3, <1>5, LoopEnds DEF G!Nul
  <2>2. gpc' = "caller" /\ ret' = ptr + 1 /\ bufsiz' = bufsiz
    BY <1>5 DEF G!Return
  <2> QED BY <1>1, <1>3, <1>4, <2>1, <2>2 DEF BufferInv
<1>6. CASE c # Delim /\ heap' = G!Enlarged(stored) /\ bufsiz' = bufsiz * 2 /\ UNCHANGED gpc
  <2>1. InLoop(heap', bufsiz * 2, ptr + 1, Append(line, c))
    BY <1>2, <1>3, <1>6, LoopStores
  <2> QED BY <1>1, <1>3, <1>4, <1>6, <2>1 DEF BufferInv
<1>7. CASE c # Delim /\ heap' = stored /\ G!Return(G!Minus) /\ UNCHANGED bufsiz
  <2>1. Holds(heap', bufsiz)
    BY <1>2, <1>3, <1>7, LoopStores
  <2>2. gpc' = "caller" /\ ret' = -1 /\ bufsiz' = bufsiz
    BY <1>7 DEF G!Return, G!Minus
  <2> QED BY <1>3, <1>4, <2>1, <2>2 DEF BufferInv
<1>8. CASE c # Delim /\ ~G!NoRoom(ptr + 1) /\ heap' = stored /\ UNCHANGED <<bufsiz, gpc>>
  <2>1. ptr + 3 < bufsiz
    BY <1>2, <1>8 DEF InLoop, G!NoRoom
  <2>2. InLoop(heap', bufsiz, ptr + 1, Append(line, c))
    BY <1>2, <1>3, <1>8, <2>1, LoopStores
  <2> QED BY <1>1, <1>3, <1>4, <1>8, <2>2 DEF BufferInv
<1>9. \/ c = Delim /\ heap' = G!Put(stored, ptr + 2, G!Nul) /\ G!Return(ptr + 1) /\ UNCHANGED bufsiz
      \/ c # Delim /\ heap' = G!Enlarged(stored) /\ bufsiz' = bufsiz * 2 /\ UNCHANGED gpc
      \/ c # Delim /\ heap' = stored /\ G!Return(G!Minus) /\ UNCHANGED bufsiz
      \/ c # Delim /\ ~G!NoRoom(ptr + 1) /\ heap' = stored /\ UNCHANGED <<bufsiz, gpc>>
  BY DEF G!GetChar, G!Growth
<1> QED BY <1>5, <1>6, <1>7, <1>8, <1>9

LEMMA EndOfFileKeeps ==
  ASSUME BufferInv, G!EndOfFile
  PROVE  BufferInv'
<1>1. gpc = "loop" /\ UNCHANGED <<input, heap, bufsiz, ptr, line, lines, outside>>
  BY DEF G!EndOfFile
<1>2. InLoop(heap, bufsiz, ptr, line) /\ input' \in Seq(Chars) /\ outside' = FALSE
  BY <1>1 DEF BufferInv
<1>3. gpc' = "caller" /\ (ret' = -1 \/ (ptr # 0 /\ ret' = ptr))
  BY DEF G!EndOfFile, G!Return, G!Minus
<1>4. Holds(heap, bufsiz)
  BY <1>2 DEF InLoop, Holds
<1>5. ptr # 0 => Returned(heap, ptr, line)
  BY <1>2, LoopReturns
<1> QED BY <1>1, <1>2, <1>3, <1>4, <1>5 DEF BufferInv

LEMMA BufferKept ==
  ASSUME part = "getdelim" => BufferInv, [Next]_vars
  PROVE  (part = "getdelim" => BufferInv)'
<1>1. CASE GetDelimStep
  BY <1>1, BeginKeeps, GetCharKeeps, EndOfFileKeeps DEF GetDelimStep, G!GNext
<1>2. CASE ~GetDelimStep
  <2>1. part' = part
    BY <1>2 DEF Next, vars, Arc4randomStep, OsFuncStep, PathLockStep, ScaleStep, PathStep, SetTimeStep, FMemStep
  <2>2. part = "getdelim" => UNCHANGED varsG
    BY <1>2 DEF Next, vars, Arc4randomStep, OsFuncStep, PathLockStep, ScaleStep, PathStep, SetTimeStep, FMemStep
  <2> QED BY <2>1, <2>2 DEF BufferInv, varsG
<1> QED BY <1>1, <1>2

\* getdelim writes into its buffer only, the size the caller has back fits the buffer, and
\* a count that is returned is that of the characters taken, which are at the start of the
\* buffer, for every input, buffer size of at least two and failure (getdelim).
THEOREM LineIsKept == Spec => []LineKept
<1>1. Init => (part = "getdelim" => BufferInv)
  BY BufferInit DEF Init
<1>2. (part = "getdelim" => BufferInv) => LineKept
  <2> SUFFICES ASSUME part = "getdelim", BufferInv PROVE LineKept
    BY DEF LineKept, LineInBuffer, LineWhole
  <2>1. LineInBuffer
    BY DEF BufferInv, Holds, LineInBuffer, G!LineInBuffer, G!NoBuf
  <2>2. LineWhole
    BY DEF BufferInv, Returned, LineWhole, G!LineWhole, G!Minus, G!Nul
  <2> QED BY <2>1, <2>2 DEF LineKept
<1> QED BY <1>1, <1>2, BufferKept, PTL DEF Spec

(***************************************************************************)
(* arc4random across threads and forks (Arc4random)                        *)
(***************************************************************************)
Generators ==
  [seed : Nat, gen : Nat, have : Nat, count : Nat, given : Nat, wrapped : BOOLEAN, pid : Pids]
Processes ==
  [alive : BOOLEAN, once : BOOLEAN, rforked : Nat, st : [RThreads -> Generators \cup {A!NoState}]]
KeyBytes == Nat \X Nat \X Nat

\* A byte that the generator st may still give out without another seed.
IsAhead(st, b) ==
  /\ b[1] = st.seed
  /\ b[2] >= st.gen \/ (b[2] + 1 = st.gen /\ b[3] >= RsBufSz - st.have)

\* A generator when n seeds were taken: what is in its buffer is of the key before the
\* next one, and what it gave out since its seed and what it may still give out make up
\* the limit, unless one request was longer.
Proper(st, n) ==
  /\ st \in Generators /\ st.seed <= n
  /\ st.have <= A!FreshSz /\ (st.have > 0 => st.gen > 0)
  /\ st.wrapped \/ st.given + st.count = Reseed

HasState(p, t) == proc[p].st[t] # A!NoState

\* The generator that thread t of process p goes on with, no fork seen.
Current(p, t) == HasState(p, t) /\ proc[p].rforked = 0 /\ proc[p].st[t].pid = p

RandomType ==
  /\ proc \in [Pids -> Processes] /\ seeds \in Nat /\ used \subseteq KeyBytes
  /\ pids \subseteq Pids /\ odd \subseteq {"reused", "late"}
  /\ \A p \in Pids : proc[p].alive => p \in pids

\* The generators of all processes. Between a fork and the next call in the child only the
\* thread that forked has one, and it carries the child's identifier only if that
\* identifier came back.
ForkInv ==
  \A p \in Pids, t \in RThreads : HasState(p, t) =>
    /\ Proper(proc[p].st[t], seeds) /\ proc[p].st[t].pid \in pids
    /\ proc[p].alive /\ proc[p].once
    /\ proc[p].rforked > 0 => /\ \A u \in RThreads \ {t} : ~HasState(p, u)
                              /\ proc[p].st[t].pid = p => "reused" \in odd

UsedInv == \A b \in used : b[1] <= seeds /\ b[3] >= KeyIvSz

\* Nothing that a current generator may still give out was given out, and no two of them
\* have one seed.
FreshInv ==
  odd # {"reused", "late"} =>
    /\ twice = FALSE
    /\ \A p \in Pids, t \in RThreads : Current(p, t) =>
         /\ \A b \in used : ~IsAhead(proc[p].st[t], b)
         /\ \A q \in Pids, u \in RThreads :
              Current(q, u) /\ proc[q].st[u].seed = proc[p].st[t].seed => q = p /\ u = t

RandomInv == RandomType /\ ForkInv /\ UsedInv /\ FreshInv

\* Inside the loop of arc4random_uniform the generator stays the one that _sget gave.
DrawInv ==
  /\ drawing \subseteq Pids \X RThreads
  /\ \A p \in Pids, t \in RThreads : <<p, t>> \in drawing => proc[p].alive /\ Current(p, t)

-----------------------------------------------------------------------------
\* A generator as in Proper of which another due bytes are about to be given out.
Ready(st, n, due) ==
  /\ st \in Generators /\ st.seed <= n
  /\ st.have <= A!FreshSz /\ (st.have > 0 => st.gen > 0)
  /\ st.wrapped \/ st.given + due + st.count = Reseed

\* From st, when n seeds were taken, to st2, when n2 were: the bytes bs are given out, all
\* of them from what st had ahead or from later seeds, and are not ahead any more.
Advances(st, n, st2, n2, bs) ==
  /\ n \in Nat /\ n2 \in Nat /\ n <= n2 /\ st2.pid = st.pid
  /\ st2.seed = st.seed \/ n < st2.seed
  /\ \A b \in bs : /\ b \in KeyBytes /\ b[1] <= n2 /\ b[3] >= KeyIvSz
                   /\ IsAhead(st, b) \/ n < b[1]
                   /\ ~IsAhead(st2, b)
  /\ \A b \in KeyBytes : IsAhead(st2, b) => IsAhead(st, b) \/ n < b[1]

LEMMA Sizes ==
  /\ RsBufSz \in Nat /\ KeyIvSz \in Nat /\ ValSz \in Nat /\ Reseed \in Nat /\ RWord \in Nat
  /\ A!FreshSz \in Nat \ {0} /\ A!FreshSz = RsBufSz - KeyIvSz /\ ValSz <= A!FreshSz
  /\ Reseed < RWord
  BY RandomAssumption DEF A!FreshSz

LEMMA Composed ==
  ASSUME NEW s0, NEW n0, NEW s1, NEW n1, NEW s2, NEW n2, NEW bs1, NEW bs2,
         s0.seed \in Nat, s1.seed \in Nat, s2.seed \in Nat,
         Advances(s0, n0, s1, n1, bs1), Advances(s1, n1, s2, n2, bs2)
  PROVE  Advances(s0, n0, s2, n2, bs1 \cup bs2)
<1>1. /\ n0 \in Nat /\ n1 \in Nat /\ n2 \in Nat /\ n0 <= n1 /\ n1 <= n2 /\ n0 <= n2
      /\ s1.pid = s0.pid /\ s2.pid = s1.pid
  BY DEF Advances
<1>2. s2.seed = s0.seed \/ n0 < s2.seed
  BY <1>1 DEF Advances
<1>3. ASSUME NEW b \in KeyBytes, IsAhead(s1, b) \/ n1 < b[1]
      PROVE  IsAhead(s0, b) \/ n0 < b[1]
  <2>1. b[1] \in Nat
    BY DEF KeyBytes
  <2> QED BY <1>1, <1>3, <2>1 DEF Advances
<1>4. ASSUME NEW b \in bs1
      PROVE  /\ b \in KeyBytes /\ b[1] <= n2 /\ b[3] >= KeyIvSz
             /\ IsAhead(s0, b) \/ n0 < b[1]
             /\ ~IsAhead(s2, b)
  <2>1. b \in KeyBytes /\ b[1] <= n1 /\ b[3] >= KeyIvSz /\ (IsAhead(s0, b) \/ n0 < b[1]) /\ ~IsAhead(s1, b)
    BY DEF Advances
  <2>2. b[1] \in Nat
    BY <2>1 DEF KeyBytes
  <2>3. b[1] <= n2 /\ ~(n1 < b[1])
    BY <1>1, <2>1, <2>2
  <2> QED BY <2>1, <2>3 DEF Advances
<1>5. ASSUME NEW b \in bs2
      PROVE  /\ b \in KeyBytes /\ b[1] <= n2 /\ b[3] >= KeyIvSz
             /\ IsAhead(s0, b) \/ n0 < b[1]
             /\ ~IsAhead(s2, b)
  BY <1>3 DEF Advances
<1>6. \A b \in KeyBytes : IsAhead(s2, b) => IsAhead(s0, b) \/ n0 < b[1]
  BY <1>3 DEF Advances
<1> QED BY <1>1, <1>2, <1>4, <1>5, <1>6 DEF Advances

\* A generator of which only other fields change has the same ahead.
LEMMA SameAhead ==
  ASSUME NEW n \in Nat, NEW st, NEW st2,
         st2.seed = st.seed, st2.gen = st.gen, st2.have = st.have, st2.pid = st.pid
  PROVE  Advances(st, n, st2, n, {})
  BY DEF Advances, IsAhead

\* A fresh seed: nothing of the one before is ahead any more (_rs_stir).
LEMMA StirAdvances ==
  ASSUME NEW n \in Nat, NEW st \in Generators
  PROVE  /\ Ready(A!Stir(st, n + 1), n + 1, 0)
         /\ A!Stir(st, n + 1).seed = n + 1
         /\ A!Stir(st, n + 1).count = Reseed /\ A!Stir(st, n + 1).given = 0
         /\ A!Stir(st, n + 1).wrapped = FALSE
         /\ Advances(st, n, A!Stir(st, n + 1), n + 1, {})
<1> DEFINE s == A!Stir(st, n + 1)
<1>1. /\ s \in Generators /\ s.seed = n + 1 /\ s.gen = 0 /\ s.have = 0 /\ s.count = Reseed
      /\ s.given = 0 /\ s.wrapped = FALSE /\ s.pid = st.pid
  <2>1. s \in Generators
    <3>1. ASSUME NEW x \in Nat, NEW c \in Nat
          PROVE  [st EXCEPT !.seed = x, !.gen = 0, !.have = 0, !.count = c, !.given = 0,
                            !.wrapped = FALSE] \in Generators
      BY DEF Generators
    <3>2. n + 1 \in Nat /\ Reseed \in Nat
      BY Sizes
    <3> QED BY <3>1, <3>2 DEF A!Stir
  <2>2. s.seed = n + 1 /\ s.gen = 0 /\ s.have = 0
    BY DEF A!Stir, Generators
  <2>3. s.count = Reseed /\ s.given = 0 /\ s.pid = st.pid
    BY DEF A!Stir, Generators
  <2>4. s.wrapped = FALSE
    BY DEF A!Stir, Generators
  <2> QED BY <2>1, <2>2, <2>3, <2>4
<1> HIDE DEF s
<1>2. Ready(s, n + 1, 0)
  BY <1>1, Sizes DEF Ready
<1>3. \A b \in KeyBytes : IsAhead(s, b) => n < b[1]
  BY <1>1 DEF IsAhead
<1>4. Advances(st, n, s, n + 1, {})
  BY <1>1, <1>3 DEF Advances
<1> QED BY <1>1, <1>2, <1>4 DEF s

\* The next key (_rs_rekey).
LEMMA RekeyAdvances ==
  ASSUME NEW n \in Nat, NEW due \in Nat, NEW st, Ready(st, n, due)
  PROVE  /\ Ready(A!Rekey(st), n, due) /\ A!Rekey(st).have = A!FreshSz
         /\ Advances(st, n, A!Rekey(st), n, {})
<1> DEFINE s == A!Rekey(st)
<1>1. st \in Generators
  BY DEF Ready
<1>2. /\ s \in Generators /\ s.seed = st.seed /\ s.gen = st.gen + 1 /\ s.have = A!FreshSz
      /\ s.count = st.count /\ s.given = st.given /\ s.wrapped = st.wrapped /\ s.pid = st.pid
  <2>1. RsBufSz - KeyIvSz \in Nat /\ st.gen + 1 \in Nat
    BY <1>1, Sizes DEF Generators
  <2>2. ASSUME NEW g \in Nat, NEW h \in Nat PROVE [st EXCEPT !.gen = g, !.have = h] \in Generators
    BY <1>1 DEF Generators
  <2>3. s \in Generators
    BY <2>1, <2>2 DEF A!Rekey, A!NextKey
  <2>4. s.seed = st.seed /\ s.gen = st.gen + 1 /\ s.have = A!FreshSz
    BY <1>1, Sizes DEF A!Rekey, A!NextKey, Generators
  <2>5. s.count = st.count /\ s.given = st.given
    BY <1>1 DEF A!Rekey, A!NextKey, Generators
  <2>6. s.wrapped = st.wrapped /\ s.pid = st.pid
    BY <1>1 DEF A!Rekey, A!NextKey, Generators
  <2> QED BY <2>3, <2>4, <2>5, <2>6
<1>3. st.gen \in Nat /\ st.have \in Nat /\ st.seed \in Nat
  BY <1>1 DEF Generators
<1> HIDE DEF s
<1>4. Ready(s, n, due)
  BY <1>2, <1>3, Sizes DEF Ready
<1>5. \A b \in KeyBytes : IsAhead(s, b) => IsAhead(st, b)
  <2> SUFFICES ASSUME NEW b \in KeyBytes, IsAhead(s, b) PROVE IsAhead(st, b)
    OBVIOUS
  <2>1. b[2] \in Nat
    BY DEF KeyBytes
  <2> QED BY <1>2, <1>3, <2>1 DEF IsAhead
<1>6. Advances(st, n, s, n, {})
  BY <1>2, <1>5 DEF Advances
<1> QED BY <1>2, <1>4, <1>6 DEF s

\* Bytes of the buffer are given out and wiped (_rs_random_buf, _rs_random_u32).
LEMMA TakeAdvances ==
  ASSUME NEW n \in Nat, NEW due \in Nat, NEW m \in Nat, NEW st, Ready(st, n, due),
         m <= st.have, m <= due
  PROVE  /\ Ready(A!Take(st, m), n, due - m)
         /\ A!Take(st, m).have = st.have - m
         /\ Advances(st, n, A!Take(st, m), n, A!Keystream(st, m))
<1> DEFINE s == A!Take(st, m)
<1>1. st \in Generators
  BY DEF Ready
<1>2. st.gen \in Nat /\ st.have \in Nat /\ st.seed \in Nat /\ st.given \in Nat /\ st.count \in Nat
  BY <1>1 DEF Generators
<1>3. /\ s \in Generators /\ s.seed = st.seed /\ s.gen = st.gen /\ s.have = st.have - m
      /\ s.count = st.count /\ s.given = st.given + m /\ s.wrapped = st.wrapped /\ s.pid = st.pid
  <2>1. st.have - m \in Nat /\ st.given + m \in Nat
    BY <1>2
  <2>2. ASSUME NEW g \in Nat, NEW h \in Nat PROVE [st EXCEPT !.have = h, !.given = g] \in Generators
    BY <1>1 DEF Generators
  <2>3. s \in Generators
    BY <2>1, <2>2 DEF A!Take
  <2>4. /\ s.seed = st.seed /\ s.gen = st.gen /\ s.have = st.have - m
        /\ s.count = st.count /\ s.given = st.given + m
    BY <1>1 DEF A!Take, Generators
  <2>5. s.wrapped = st.wrapped /\ s.pid = st.pid
    BY <1>1 DEF A!Take, Generators
  <2> QED BY <2>3, <2>4, <2>5
<1> HIDE DEF s
<1>4. Ready(s, n, due - m)
  <2>1. s.have <= A!FreshSz /\ (s.have > 0 => s.gen > 0)
    BY <1>2, <1>3, Sizes DEF Ready
  <2>2. s.wrapped \/ s.given + (due - m) + s.count = Reseed
    BY <1>2, <1>3, Sizes DEF Ready
  <2> QED BY <1>3, <2>1, <2>2 DEF Ready
<1>5. ASSUME NEW b \in A!Keystream(st, m)
      PROVE  /\ b \in KeyBytes /\ b[1] <= n /\ b[3] >= KeyIvSz
             /\ IsAhead(st, b) /\ ~IsAhead(s, b)
  <2>1. PICK i \in (RsBufSz - st.have) .. (RsBufSz - st.have + m - 1) : b = <<st.seed, st.gen - 1, i>>
    BY DEF A!Keystream
  <2>2. st.have > 0 /\ st.gen > 0 /\ st.have <= RsBufSz - KeyIvSz /\ st.seed <= n
    BY <1>2, <2>1, Sizes DEF Ready
  <2>3. /\ i \in Nat /\ st.gen - 1 \in Nat /\ i >= KeyIvSz
        /\ i >= RsBufSz - st.have /\ i < RsBufSz - (st.have - m)
    BY <1>2, <2>1, <2>2, Sizes
  <2>4. b \in KeyBytes /\ b[1] = st.seed /\ b[2] = st.gen - 1 /\ b[3] = i
    BY <1>2, <2>1, <2>3 DEF KeyBytes
  <2> QED BY <1>2, <1>3, <2>2, <2>3, <2>4, Sizes DEF IsAhead
<1>6. \A b \in KeyBytes : IsAhead(s, b) => IsAhead(st, b)
  <2> SUFFICES ASSUME NEW b \in KeyBytes, IsAhead(s, b) PROVE IsAhead(st, b)
    OBVIOUS
  <2>1. b[2] \in Nat /\ b[3] \in Nat
    BY DEF KeyBytes
  <2> QED BY <1>2, <1>3, <2>1, Sizes DEF IsAhead
<1>7. Advances(st, n, s, n, A!Keystream(st, m))
  BY <1>3, <1>5, <1>6 DEF Advances
<1> QED BY <1>3, <1>4, <1>7 DEF s

\* Before size bytes are given out the seed is replaced if it would not do for them, and
\* the count is lowered (_rs_stir_if_needed).
LEMMA StirIfNeededAdvances ==
  ASSUME NEW g, NEW size \in Nat, g.seeds \in Nat, Ready(g.st, g.seeds, 0)
  PROVE  LET h == A!StirIfNeeded(g, size)
         IN /\ h.seeds \in Nat /\ Ready(h.st, h.seeds, size)
            /\ Advances(g.st, g.seeds, h.st, h.seeds, {})
<1> DEFINE n == g.seeds
           stir == g.st.count <= size
           s == IF stir THEN A!Stir(g.st, n + 1) ELSE g.st
           m == IF stir THEN n + 1 ELSE n
           c == (s.count + RWord - size) % RWord
           w == s.wrapped \/ size > Reseed
           z == [s EXCEPT !.count = c, !.wrapped = w]
<1>1. A!StirIfNeeded(g, size) = [st |-> z, seeds |-> m]
  BY DEF A!StirIfNeeded
<1>2. g.st \in Generators
  BY DEF Ready
<1>3. /\ m \in Nat /\ Ready(s, m, 0) /\ Advances(g.st, n, s, m, {})
      /\ s.count > size \/ (s.count = Reseed /\ s.given = 0)
  <2>1. CASE stir
    <3>1. /\ Ready(A!Stir(g.st, n + 1), n + 1, 0)
          /\ A!Stir(g.st, n + 1).count = Reseed /\ A!Stir(g.st, n + 1).given = 0
          /\ Advances(g.st, n, A!Stir(g.st, n + 1), n + 1, {})
      BY <1>2, StirAdvances
    <3>2. s = A!Stir(g.st, n + 1) /\ m = n + 1 /\ n + 1 \in Nat
      BY <2>1
    <3> HIDE DEF s, m
    <3> QED BY <3>1, <3>2
  <2>2. CASE ~stir
    <3>1. Advances(g.st, n, g.st, n, {})
      BY SameAhead
    <3>2. g.st.count \in Nat
      BY <1>2 DEF Generators
    <3> QED BY <2>2, <3>1, <3>2
  <2> QED BY <2>1, <2>2
<1> HIDE DEF s, m
<1>4. s \in Generators
  BY <1>3 DEF Ready
<1>5. s.count \in Nat /\ s.given \in Nat /\ s.seed \in Nat /\ s.wrapped \in BOOLEAN
  BY <1>4 DEF Generators
<1>6. c \in Nat
  BY <1>5, Sizes
<1>7. size <= s.count /\ s.count < RWord => c = s.count - size
  <2>1. ASSUME NEW x \in Nat, size <= x, x < RWord PROVE (x + RWord - size) % RWord = x - size
    BY <2>1, Sizes
  <2> QED BY <1>5, <2>1
<1>8. w \in BOOLEAN
  OBVIOUS
<1> HIDE DEF c, w
<1>9. z \in Generators
  <2>1. ASSUME NEW x \in Nat, NEW y \in BOOLEAN PROVE [s EXCEPT !.count = x, !.wrapped = y] \in Generators
    BY <1>4 DEF Generators
  <2> QED BY <1>6, <1>8, <2>1
<1>10. /\ z.seed = s.seed /\ z.gen = s.gen /\ z.have = s.have
       /\ z.count = c /\ z.given = s.given /\ z.pid = s.pid
  BY <1>4 DEF Generators
<1>11. z.wrapped = w
  BY <1>4 DEF Generators
<1> HIDE DEF z
<1>12. z.wrapped \/ z.given + size + z.count = Reseed
  <2> SUFFICES ASSUME ~w PROVE z.given + size + z.count = Reseed
    BY <1>11
  <2>1. ~s.wrapped /\ ~(size > Reseed)
    BY DEF w
  <2>2. s.given + 0 + s.count = Reseed
    BY <1>3, <2>1 DEF Ready
  <2>3. size <= s.count /\ s.count < RWord
    BY <1>3, <1>5, <2>1, <2>2, Sizes
  <2>4. c = s.count - size
    BY <1>7, <2>3
  <2> QED BY <1>5, <1>10, <2>2, <2>4, Sizes
<1>13. Ready(z, m, size)
  BY <1>3, <1>9, <1>10, <1>12 DEF Ready
<1>14. Advances(s, m, z, m, {})
  BY <1>3, <1>10, SameAhead
<1>15. Advances(g.st, n, z, m, {})
  <2>1. g.st.seed \in Nat /\ z.seed \in Nat
    BY <1>2, <1>9 DEF Generators
  <2>2. Advances(g.st, n, z, m, {} \cup {})
    BY <1>3, <1>5, <1>14, <2>1, Composed
  <2>3. {} \cup {} = {}
    OBVIOUS
  <2> QED BY <2>2, <2>3
<1> QED BY <1>1, <1>3, <1>13, <1>15

\* More bytes than the buffer has: those of the keys that follow (_rs_random_buf).
LEMMA RekeysAdvances ==
  ASSUME NEW n \in Nat, NEW more \in Nat \ {0}, NEW st, Ready(st, n, more), st.have = 0
  PROVE  /\ Ready(A!Rekeys(st, more), n, 0)
         /\ Advances(st, n, A!Rekeys(st, more), n, A!Following(st, more))
<1> DEFINE q == (more - 1) \div A!FreshSz
           r == (more - 1) % A!FreshSz
           s == A!Rekeys(st, more)
<1>1. st \in Generators
  BY DEF Ready
<1>2. st.gen \in Nat /\ st.have \in Nat /\ st.seed \in Nat /\ st.given \in Nat /\ st.count \in Nat
  BY <1>1 DEF Generators
<1>3. A!Rekey(st) \in Generators /\ A!Rekey(st).have = A!FreshSz
  BY RekeyAdvances DEF Ready
<1>4. /\ A!Rekey(st).seed = st.seed /\ A!Rekey(st).gen = st.gen + 1 /\ A!Rekey(st).count = st.count
      /\ A!Rekey(st).given = st.given
  BY <1>1 DEF A!Rekey, A!NextKey, Generators
<1>5. A!Rekey(st).wrapped = st.wrapped /\ A!Rekey(st).pid = st.pid
  BY <1>1 DEF A!Rekey, A!NextKey, Generators
<1>6. q \in Nat /\ r \in Nat /\ r < A!FreshSz
  <2>1. more - 1 \in Nat
    OBVIOUS
  <2> QED BY <2>1, Sizes
<1>7. ASSUME NEW i \in 0 .. more - 1
      PROVE  /\ i \div A!FreshSz \in Nat /\ i % A!FreshSz \in Nat
             /\ i \div A!FreshSz < q \/ (i \div A!FreshSz = q /\ i % A!FreshSz <= r)
             /\ i % A!FreshSz < A!FreshSz
  <2>1. PICK f \in Nat \ {0} : f = A!FreshSz
    BY Sizes
  <2>2. PICK k \in Nat : k = more - 1
    OBVIOUS
  <2>3. i \in Nat /\ i <= k
    BY <2>2
  <2>4. PICK x \in Nat, y \in Nat : x = i \div f /\ y = i % f /\ y < f
    BY <2>3
  <2>5. PICK u \in Nat, v \in Nat : u = k \div f /\ v = k % f /\ v < f
    OBVIOUS
  <2>6. i = x * f + y /\ k = u * f + v
    BY <2>3, <2>4, <2>5
  <2>7. ASSUME u < x PROVE FALSE
    <3>1. x * f >= u * f + f
      BY <2>7
    <3>2. x * f \in Nat /\ u * f \in Nat
      OBVIOUS
    <3> QED BY <2>3, <2>4, <2>5, <2>6, <3>1, <3>2
  <2>8. x = u => y <= v
    <3>1. u * f \in Nat
      OBVIOUS
    <3> QED BY <2>3, <2>4, <2>5, <2>6, <3>1
  <2>9. x < u \/ (x = u /\ y <= v)
    BY <2>7, <2>8
  <2> QED BY <2>1, <2>2, <2>4, <2>5, <2>9
<1>8. /\ s.seed = st.seed /\ s.gen = st.gen + 1 + q /\ s.have = A!FreshSz - r - 1
      /\ s.count = st.count /\ s.given = st.given + more /\ s.wrapped = st.wrapped /\ s.pid = st.pid
      /\ s \in Generators
  <2> DEFINE t == A!Rekey(st)
             gen2 == t.gen + q
             have2 == t.have - r - 1
             given2 == t.given + more
  <2>1. gen2 \in Nat /\ have2 \in Nat /\ given2 \in Nat
    <3> HIDE DEF q, r
    <3> QED BY <1>2, <1>3, <1>4, <1>6, Sizes
  <2>2. s = [t EXCEPT !.gen = gen2, !.have = have2, !.given = given2]
    BY DEF A!Rekeys
  <2> HIDE DEF t, gen2, have2, given2, s
  <2>3. t \in Generators
    BY <1>3 DEF t
  <2>4. s \in Generators
    BY <2>1, <2>2, <2>3 DEF Generators
  <2>5. /\ s.seed = t.seed /\ s.gen = gen2 /\ s.have = have2 /\ s.given = given2
        /\ s.count = t.count /\ s.pid = t.pid
    BY <2>2, <2>3 DEF Generators
  <2>6. s.wrapped = t.wrapped
    BY <2>2, <2>3 DEF Generators
  <2>7. gen2 = st.gen + 1 + q /\ have2 = A!FreshSz - r - 1 /\ given2 = st.given + more
    BY <1>3, <1>4 DEF t, gen2, have2, given2
  <2> QED BY <1>4, <1>5, <2>4, <2>5, <2>6, <2>7 DEF t
<1> HIDE DEF q, r, s
<1>9. Ready(s, n, 0)
  <2>1. s.seed <= n /\ s.have <= A!FreshSz /\ s.gen > 0
    BY <1>2, <1>6, <1>8, Sizes DEF Ready
  <2>2. s.wrapped \/ s.given + 0 + s.count = Reseed
    BY <1>2, <1>8, Sizes DEF Ready
  <2> QED BY <1>8, <2>1, <2>2 DEF Ready
<1>10. ASSUME NEW b \in A!Following(st, more)
       PROVE  /\ b \in KeyBytes /\ b[1] <= n /\ b[3] >= KeyIvSz
              /\ IsAhead(st, b) /\ ~IsAhead(s, b)
  <2>1. PICK i \in 0 .. more - 1 : b = <<st.seed, st.gen + (i \div A!FreshSz), KeyIvSz + (i % A!FreshSz)>>
    BY DEF A!Following
  <2>2. PICK x \in Nat, y \in Nat :
          /\ x = i \div A!FreshSz /\ y = i % A!FreshSz
          /\ x < q \/ (x = q /\ y <= r)
          /\ y < A!FreshSz
    BY <1>7
  <2>3. b = <<st.seed, st.gen + x, KeyIvSz + y>>
    BY <2>1, <2>2
  <2>4. st.gen + x \in Nat /\ KeyIvSz + y \in Nat
    BY <1>2, Sizes
  <2>5. b \in KeyBytes /\ b[1] = st.seed /\ b[2] = st.gen + x /\ b[3] = KeyIvSz + y
    BY <1>2, <2>3, <2>4 DEF KeyBytes
  <2>6. b[1] <= n /\ b[3] >= KeyIvSz
    BY <2>5, Sizes DEF Ready
  <2>7. IsAhead(st, b)
    BY <1>2, <2>5 DEF IsAhead
  <2>8. ~IsAhead(s, b)
    <3>1. ~(b[2] >= s.gen)
      BY <1>2, <1>6, <1>8, <2>2, <2>5
    <3>2. b[2] + 1 = s.gen => x = q
      BY <1>2, <1>6, <1>8, <2>2, <2>5
    <3>3. x = q => ~(b[3] >= RsBufSz - s.have)
      BY <1>6, <1>8, <2>2, <2>5, Sizes
    <3> QED BY <3>1, <3>2, <3>3 DEF IsAhead
  <2> QED BY <2>5, <2>6, <2>7, <2>8
<1>11. \A b \in KeyBytes : IsAhead(s, b) => IsAhead(st, b)
  <2> SUFFICES ASSUME NEW b \in KeyBytes, IsAhead(s, b) PROVE IsAhead(st, b)
    OBVIOUS
  <2>1. b[2] \in Nat
    BY DEF KeyBytes
  <2> QED BY <1>2, <1>6, <1>8, <2>1 DEF IsAhead
<1>12. Advances(st, n, s, n, A!Following(st, more))
  BY <1>8, <1>10, <1>11 DEF Advances
<1> QED BY <1>9, <1>12 DEF s

LEMMA DrawAdvances ==
  ASSUME NEW n \in Nat, NEW size \in Nat, NEW st, Ready(st, n, size)
  PROVE  LET d == A!Draw(st, size)
         IN Ready(d.st, n, 0) /\ Advances(st, n, d.st, n, d.bytes)
<1>1. st \in Generators /\ st.have \in Nat /\ st.seed \in Nat
  BY DEF Ready, Generators
<1>2. CASE size <= st.have
  <2>1. A!Draw(st, size) = [st |-> A!Take(st, size), bytes |-> A!Keystream(st, size)]
    BY <1>2 DEF A!Draw
  <2>2. Ready(A!Take(st, size), n, size - size) /\ Advances(st, n, A!Take(st, size), n, A!Keystream(st, size))
    BY <1>2, TakeAdvances
  <2>3. size - size = 0
    OBVIOUS
  <2> QED BY <2>1, <2>2, <2>3
<1>3. CASE ~(size <= st.have)
  <2> DEFINE s == A!Take(st, st.have)
             more == size - st.have
             z == A!Rekeys(s, more)
  <2>1. st.have <= size /\ more \in Nat \ {0}
    BY <1>1, <1>3
  <2>2. A!Draw(st, size) = [st |-> z, bytes |-> A!Keystream(st, st.have) \cup A!Following(st, more)]
    BY <1>3 DEF A!Draw
  <2>3. /\ Ready(s, n, more) /\ s.have = st.have - st.have
        /\ Advances(st, n, s, n, A!Keystream(st, st.have))
    BY <1>1, <2>1, TakeAdvances
  <2>4. A!Following(s, more) = A!Following(st, more)
    <3>1. s.seed = st.seed /\ s.gen = st.gen
      BY <1>1 DEF A!Take, Generators
    <3> QED BY <3>1 DEF A!Following
  <2> HIDE DEF s, more
  <2>5. s.have = 0 /\ s.seed \in Nat
    BY <1>1, <2>3 DEF Ready, Generators
  <2>6. Ready(z, n, 0) /\ Advances(s, n, z, n, A!Following(s, more))
    BY <2>1, <2>3, <2>5, RekeysAdvances
  <2> HIDE DEF z
  <2>7. z.seed \in Nat
    BY <2>6 DEF Ready, Generators
  <2>8. Advances(st, n, z, n, A!Keystream(st, st.have) \cup A!Following(s, more))
    BY <1>1, <2>3, <2>5, <2>6, <2>7, Composed
  <2> QED BY <2>2, <2>4, <2>6, <2>8
<1> QED BY <1>2, <1>3

\* A request of any length (_rs_random_buf) and a value (_rs_random_u32) advance the
\* generator by the bytes they return.
Serves(g, r) ==
  /\ r.seeds \in Nat /\ Ready(r.st, r.seeds, 0)
  /\ Advances(g.st, g.seeds, r.st, r.seeds, r.bytes)

LEMMA RandomBufServes ==
  ASSUME NEW g, NEW size \in Nat, g.seeds \in Nat, Ready(g.st, g.seeds, 0)
  PROVE  Serves(g, A!RandomBuf(g, size))
<1> DEFINE h == A!StirIfNeeded(g, size)
           d == A!Draw(h.st, size)
<1>1. A!RandomBuf(g, size) = [st |-> d.st, seeds |-> h.seeds, bytes |-> d.bytes]
  BY DEF A!RandomBuf
<1>2. h.seeds \in Nat /\ Ready(h.st, h.seeds, size) /\ Advances(g.st, g.seeds, h.st, h.seeds, {})
  BY StirIfNeededAdvances
<1> HIDE DEF h
<1>3. Ready(d.st, h.seeds, 0) /\ Advances(h.st, h.seeds, d.st, h.seeds, d.bytes)
  BY <1>2, DrawAdvances
<1> HIDE DEF d
<1>4. g.st.seed \in Nat /\ h.st.seed \in Nat /\ d.st.seed \in Nat
  BY <1>2, <1>3 DEF Ready, Generators
<1>5. Advances(g.st, g.seeds, d.st, h.seeds, {} \cup d.bytes)
  BY <1>2, <1>3, <1>4, Composed
<1>6. {} \cup d.bytes = d.bytes
  OBVIOUS
<1> QED BY <1>1, <1>2, <1>3, <1>5, <1>6 DEF Serves

LEMMA RandomU32Serves ==
  ASSUME NEW g, g.seeds \in Nat, Ready(g.st, g.seeds, 0)
  PROVE  Serves(g, A!RandomU32(g))
<1> DEFINE h == A!StirIfNeeded(g, ValSz)
           s == IF h.st.have < ValSz THEN A!Rekey(h.st) ELSE h.st
           z == A!Take(s, ValSz)
<1>1. A!RandomU32(g) = [st |-> z, seeds |-> h.seeds, bytes |-> A!Keystream(s, ValSz)]
  BY DEF A!RandomU32
<1>2. h.seeds \in Nat /\ Ready(h.st, h.seeds, ValSz) /\ Advances(g.st, g.seeds, h.st, h.seeds, {})
  BY StirIfNeededAdvances, Sizes
<1> HIDE DEF h
<1>3. /\ Ready(s, h.seeds, ValSz) /\ Advances(h.st, h.seeds, s, h.seeds, {})
      /\ ValSz <= s.have
  <2>1. CASE h.st.have < ValSz
    BY <1>2, <2>1, RekeyAdvances, Sizes
  <2>2. CASE ~(h.st.have < ValSz)
    <3>1. Advances(h.st, h.seeds, h.st, h.seeds, {})
      BY <1>2, SameAhead
    <3>2. h.st.have \in Nat
      BY <1>2 DEF Ready, Generators
    <3> QED BY <1>2, <2>2, <3>1, <3>2, Sizes
  <2> QED BY <2>1, <2>2
<1> HIDE DEF s
<1>4. /\ Ready(z, h.seeds, ValSz - ValSz)
      /\ Advances(s, h.seeds, z, h.seeds, A!Keystream(s, ValSz))
  BY <1>2, <1>3, TakeAdvances, Sizes
<1> HIDE DEF z
<1>5. ValSz - ValSz = 0
  BY Sizes
<1>6. g.st.seed \in Nat /\ h.st.seed \in Nat /\ s.seed \in Nat /\ z.seed \in Nat
  BY <1>2, <1>3, <1>4 DEF Ready, Generators
<1>7. Advances(g.st, g.seeds, s, h.seeds, {} \cup {})
  BY <1>2, <1>3, <1>6, Composed
<1>8. Advances(g.st, g.seeds, z, h.seeds, ({} \cup {}) \cup A!Keystream(s, ValSz))
  BY <1>4, <1>6, <1>7, Composed
<1>9. ({} \cup {}) \cup A!Keystream(s, ValSz) = A!Keystream(s, ValSz)
  OBVIOUS
<1> QED BY <1>1, <1>2, <1>4, <1>5, <1>8, <1>9 DEF Serves

-----------------------------------------------------------------------------
LEMMA NoStateIsNone == A!NoState \notin Generators
<1>1. \A st \in Generators : DOMAIN st = {"seed", "gen", "have", "count", "given", "wrapped", "pid"}
  BY DEF Generators
<1>2. DOMAIN A!NoState = {"none"}
  BY DEF A!NoState
<1>3. "seed" \notin {"none"}
  OBVIOUS
<1> QED BY <1>1, <1>2, <1>3

\* A seed replaced for another process.
LEMMA PidSet ==
  ASSUME NEW n \in Nat, NEW st, Ready(st, n, 0), NEW p \in Pids
  PROVE  /\ Ready([st EXCEPT !.pid = p], n, 0)
         /\ [st EXCEPT !.pid = p].pid = p /\ [st EXCEPT !.pid = p].seed = st.seed
<1> DEFINE s == [st EXCEPT !.pid = p]
<1>1. st \in Generators
  BY DEF Ready
<1>2. s \in Generators
  BY <1>1 DEF Generators
<1>3. /\ s.seed = st.seed /\ s.gen = st.gen /\ s.have = st.have /\ s.count = st.count
      /\ s.given = st.given /\ s.pid = p
  BY <1>1 DEF Generators
<1>4. s.wrapped = st.wrapped
  BY <1>1 DEF Generators
<1> HIDE DEF s
<1>5. Ready(s, n, 0)
  BY <1>2, <1>3, <1>4 DEF Ready
<1> QED BY <1>3, <1>5 DEF s

\* The generator that a call gets is the thread's own, of which nobody has seen a fork, or
\* has a seed that was never there before (_sget).
LEMMA SgetIs ==
  ASSUME RandomType, ForkInv, NEW p \in Pids, NEW t \in RThreads
  PROVE  LET s == A!Sget(p, t)
         IN /\ s.seeds \in Nat /\ seeds <= s.seeds /\ Ready(s.st, s.seeds, 0) /\ s.st.pid = p
            /\ s.forked \/ proc[p].rforked = 0
            /\ \/ Current(p, t) /\ s.st = proc[p].st[t]
               \/ seeds < s.st.seed
<1> DEFINE fresh == proc[p].st[t] = A!NoState
           taken == IF fresh THEN seeds + 1 ELSE seeds
           st == IF fresh THEN A!Stir(A!New(p), taken) ELSE proc[p].st[t]
           seen == proc[p].rforked > 0 \/ p # st.pid
           stirred == [A!Stir(st, taken + 1) EXCEPT !.pid = p]
<1>1. A!Sget(p, t) = IF seen THEN [st |-> stirred, seeds |-> taken + 1, forked |-> TRUE]
                     ELSE [st |-> st, seeds |-> taken, forked |-> FALSE]
  BY DEF A!Sget, A!ForkSeen, A!GetEntropy
<1>2. seeds \in Nat /\ proc[p].rforked \in Nat
  BY DEF RandomType, Processes
<1>3. A!New(p) \in Generators /\ A!New(p).pid = p
  BY DEF A!New, Generators
<1>4. /\ taken \in Nat /\ seeds <= taken /\ Ready(st, taken, 0) /\ st \in Generators
      /\ fresh => st.pid = p /\ seeds < st.seed
  <2>1. CASE fresh
    <3>1. /\ Ready(A!Stir(A!New(p), seeds + 1), seeds + 1, 0)
          /\ A!Stir(A!New(p), seeds + 1).seed = seeds + 1
          /\ Advances(A!New(p), seeds, A!Stir(A!New(p), seeds + 1), seeds + 1, {})
      BY <1>2, <1>3, StirAdvances
    <3>2. A!Stir(A!New(p), seeds + 1).pid = p
      BY <1>3, <3>1 DEF Advances
    <3>3. taken = seeds + 1 /\ st = A!Stir(A!New(p), seeds + 1)
      BY <2>1
    <3> HIDE DEF taken, st
    <3> QED BY <1>2, <3>1, <3>2, <3>3 DEF Ready
  <2>2. CASE ~fresh
    <3>1. Proper(proc[p].st[t], seeds)
      BY <2>2 DEF ForkInv, HasState
    <3>2. Ready(proc[p].st[t], seeds, 0)
      <4>1. proc[p].st[t].given \in Nat
        BY <3>1 DEF Proper, Generators
      <4> QED BY <3>1, <4>1 DEF Proper, Ready
    <3>3. taken = seeds /\ st = proc[p].st[t]
      BY <2>2
    <3> HIDE DEF taken, st
    <3> QED BY <1>2, <2>2, <3>2, <3>3 DEF Ready
  <2> QED BY <2>1, <2>2
<1>5. CASE seen
  <2>1. /\ Ready(A!Stir(st, taken + 1), taken + 1, 0) /\ A!Stir(st, taken + 1).seed = taken + 1
    BY <1>4, StirAdvances
  <2>2. taken + 1 \in Nat /\ seeds < taken + 1 /\ seeds <= taken + 1
    <3> HIDE DEF taken
    <3> QED BY <1>2, <1>4
  <2>3. Ready(stirred, taken + 1, 0) /\ stirred.pid = p /\ stirred.seed = taken + 1
    <3> HIDE DEF taken, st
    <3> QED BY <2>1, <2>2, PidSet
  <2>4. A!Sget(p, t) = [st |-> stirred, seeds |-> taken + 1, forked |-> TRUE]
    BY <1>1, <1>5
  <2> HIDE DEF stirred, taken, st, seen
  <2> QED BY <2>2, <2>3, <2>4
<1>6. CASE ~seen
  <2>1. A!Sget(p, t) = [st |-> st, seeds |-> taken, forked |-> FALSE]
    BY <1>1, <1>6
  <2>2. proc[p].rforked = 0 /\ st.pid = p
    BY <1>2, <1>6
  <2>3. ~fresh => Current(p, t) /\ st = proc[p].st[t]
    BY <2>2 DEF Current, HasState
  <2> HIDE DEF st, taken, seen, fresh
  <2> QED BY <1>4, <2>1, <2>2, <2>3
<1> QED BY <1>5, <1>6

LEMMA ReadyIsProper ==
  ASSUME NEW n \in Nat, NEW st, Ready(st, n, 0)
  PROVE  Proper(st, n)
<1>1. st \in Generators /\ st.given \in Nat
  BY DEF Ready, Generators
<1> QED BY <1>1 DEF Ready, Proper

\* A call that gives out g.bytes with the generator it got from _sget.
LEMMA GiveKeeps ==
  ASSUME RandomInv, NEW p \in Pids, NEW t \in RThreads, proc[p].alive, NEW g,
         Serves(A!Sget(p, t), g), A!Give(p, t, A!Sget(p, t), g)
  PROVE  RandomInv'
<1> DEFINE s == A!Sget(p, t)
<1>1. /\ s.seeds \in Nat /\ seeds <= s.seeds /\ Ready(s.st, s.seeds, 0) /\ s.st.pid = p
      /\ s.forked \/ proc[p].rforked = 0
      /\ \/ Current(p, t) /\ s.st = proc[p].st[t]
         \/ seeds < s.st.seed
  BY SgetIs DEF RandomInv
<1>2. Serves(s, g)
  OBVIOUS
<1>3. /\ proc' = [proc EXCEPT ![p].once = TRUE, ![p].rforked = IF s.forked THEN 0 ELSE @, ![p].st[t] = g.st]
      /\ seeds' = g.seeds /\ used' = used \cup g.bytes
      /\ odd' = IF proc[p].rforked > 0 /\ proc[p].st[t] = A!NoState THEN odd \cup {"late"} ELSE odd
      /\ pids' = pids
  BY DEF A!Give
<1>4. twice' = (twice \/ used \cap g.bytes # {})
  BY DEF A!Give
<1> HIDE DEF s
<1>5. /\ seeds \in Nat /\ proc \in [Pids -> Processes] /\ used \subseteq KeyBytes
      /\ proc[p] \in Processes
  BY DEF RandomInv, RandomType
<1>6. /\ proc[p].alive \in BOOLEAN /\ proc[p].once \in BOOLEAN /\ proc[p].rforked \in Nat
      /\ proc[p].st \in [RThreads -> Generators \cup {A!NoState}]
  BY <1>5 DEF Processes
<1>7. /\ g.seeds \in Nat /\ g.st \in Generators /\ Ready(g.st, g.seeds, 0)
      /\ Advances(s.st, s.seeds, g.st, g.seeds, g.bytes)
  BY <1>2 DEF Serves, Ready
<1>8. /\ seeds <= g.seeds /\ g.st.pid = p /\ s.seeds <= g.seeds
      /\ g.st.seed = s.st.seed \/ seeds < g.st.seed
      /\ g.st.seed \in Nat /\ s.st.seed \in Nat
  <2>1. g.st.seed \in Nat /\ s.st.seed \in Nat
    BY <1>1, <1>7 DEF Ready, Generators
  <2>2. s.seeds <= g.seeds /\ g.st.pid = s.st.pid /\ (g.st.seed = s.st.seed \/ s.seeds < g.st.seed)
    BY <1>7 DEF Advances
  <2> QED BY <1>1, <1>5, <1>7, <2>1, <2>2
<1> DEFINE P1 == [proc[p] EXCEPT !.once = TRUE]
           P2 == [P1 EXCEPT !.rforked = IF s.forked THEN 0 ELSE @]
           P3 == [P2 EXCEPT !.st[t] = g.st]
<1>9. /\ proc' = [proc EXCEPT ![p] = P3]
      /\ P3 \in Processes /\ P3.alive = proc[p].alive /\ P3.once = TRUE /\ P3.rforked = 0
      /\ P3.st = [proc[p].st EXCEPT ![t] = g.st]
  <2>1. proc' = [proc EXCEPT ![p] = P3]
    BY <1>3, <1>5
  <2>2. P1 \in Processes
    BY <1>5 DEF Processes
  <2>3. P1.once = TRUE
    BY <1>5 DEF Processes
  <2>4. P1.alive = proc[p].alive /\ P1.rforked = proc[p].rforked /\ P1.st = proc[p].st
    BY <1>5 DEF Processes
  <2> HIDE DEF P1
  <2>5. P2 = [P1 EXCEPT !.rforked = 0]
    BY <1>1, <2>4
  <2>6. P2 \in Processes
    BY <2>2, <2>5 DEF Processes
  <2>7. P2.alive = P1.alive /\ P2.rforked = 0 /\ P2.st = P1.st /\ P2.once = P1.once
    BY <2>2, <2>5 DEF Processes
  <2> HIDE DEF P2
  <2>8. g.st \in Generators \cup {A!NoState}
    BY <1>7
  <2>9. P3 \in Processes
    BY <2>6, <2>8 DEF Processes
  <2>10. P3.alive = P2.alive /\ P3.rforked = P2.rforked /\ P3.once = P2.once
    BY <2>6 DEF Processes
  <2>11. P3.st = [P2.st EXCEPT ![t] = g.st]
    BY <2>6 DEF Processes
  <2> HIDE DEF P3
  <2> QED BY <2>1, <2>3, <2>4, <2>7, <2>9, <2>10, <2>11
<1> HIDE DEF P3
<1>10. /\ proc' \in [Pids -> Processes] /\ \A q \in Pids \ {p} : proc'[q] = proc[q]
       /\ proc'[p] = P3
  <2>1. proc' = [proc EXCEPT ![p] = P3] /\ P3 \in Processes
    BY <1>9
  <2> QED BY <1>5, <2>1
<1>11. /\ proc'[p].alive = proc[p].alive /\ proc'[p].once = TRUE /\ proc'[p].rforked = 0
       /\ proc'[p].st[t] = g.st
       /\ \A u \in RThreads \ {t} : proc'[p].st[u] = proc[p].st[u]
  BY <1>6, <1>9, <1>10
<1>12. /\ HasState(p, t)'
       /\ \A u \in RThreads \ {t} : HasState(p, u)' <=> HasState(p, u)
       /\ \A q \in Pids \ {p}, u \in RThreads : HasState(q, u)' <=> HasState(q, u)
  BY <1>7, <1>10, <1>11, NoStateIsNone DEF HasState, A!NoState
<1>13. \A b \in g.bytes : /\ b \in KeyBytes /\ b[1] <= g.seeds /\ b[3] >= KeyIvSz
                          /\ IsAhead(s.st, b) \/ s.seeds < b[1]
                          /\ ~IsAhead(g.st, b)
  BY <1>7 DEF Advances
<1>14. RandomType'
  <2>1. used' \subseteq KeyBytes
    BY <1>3, <1>5, <1>13
  <2>2. odd' \subseteq {"reused", "late"} /\ pids' \subseteq Pids
    BY <1>3 DEF RandomInv, RandomType
  <2>3. \A q \in Pids : proc'[q].alive => q \in pids'
    BY <1>3, <1>10, <1>11 DEF RandomInv, RandomType
  <2> QED BY <1>3, <1>7, <1>10, <2>1, <2>2, <2>3 DEF RandomType
<1>15. ASSUME NEW st, Proper(st, seeds)
       PROVE  Proper(st, g.seeds)
  <2>1. st.seed \in Nat
    BY <1>15 DEF Proper, Generators
  <2>2. st.seed <= g.seeds
    BY <1>5, <1>7, <1>8, <1>15, <2>1 DEF Proper
  <2> QED BY <1>15, <2>2 DEF Proper
<1>16. odd \subseteq odd'
  BY <1>3
<1>17. ForkInv'
  <2>0. pids' = pids /\ seeds' = g.seeds
    BY <1>3
  <2> SUFFICES ASSUME NEW q \in Pids, NEW u \in RThreads, HasState(q, u)'
               PROVE  /\ Proper(proc'[q].st[u], seeds') /\ proc'[q].st[u].pid \in pids'
                      /\ proc'[q].alive /\ proc'[q].once
                      /\ proc'[q].rforked > 0 =>
                           /\ \A v \in RThreads \ {u} : ~HasState(q, v)'
                           /\ proc'[q].st[u].pid = q => "reused" \in odd'
    BY DEF ForkInv
  <2>1. CASE q # p
    <3>1. proc'[q] = proc[q] /\ HasState(q, u) /\ \A v \in RThreads : HasState(q, v)' <=> HasState(q, v)
      BY <1>10, <1>12, <2>1
    <3>2. /\ Proper(proc[q].st[u], seeds) /\ proc[q].st[u].pid \in pids
          /\ proc[q].alive /\ proc[q].once
          /\ proc[q].rforked > 0 => /\ \A v \in RThreads \ {u} : ~HasState(q, v)
                                    /\ proc[q].st[u].pid = q => "reused" \in odd
      BY <3>1 DEF RandomInv, ForkInv
    <3>3. Proper(proc[q].st[u], g.seeds)
      BY <1>15, <3>2
    <3>4. Proper(proc'[q].st[u], seeds')
      BY <1>3, <3>1, <3>3
    <3>5. proc'[q].st[u].pid \in pids'
      BY <2>0, <3>1, <3>2
    <3>6. proc'[q].alive /\ proc'[q].once
      BY <3>1, <3>2
    <3>7. proc'[q].rforked > 0 => \A v \in RThreads \ {u} : ~HasState(q, v)'
      BY <3>1, <3>2
    <3>8. proc'[q].rforked > 0 /\ proc'[q].st[u].pid = q => "reused" \in odd'
      BY <1>16, <3>1, <3>2
    <3> QED BY <3>4, <3>5, <3>6, <3>7, <3>8
  <2>2. CASE q = p /\ u # t
    <3>1. HasState(p, u) /\ proc'[p].st[u] = proc[p].st[u]
      BY <1>11, <1>12, <2>2
    <3>2. Proper(proc[p].st[u], seeds) /\ proc[p].st[u].pid \in pids
      BY <3>1 DEF RandomInv, ForkInv
    <3>3. Proper(proc[p].st[u], g.seeds)
      BY <1>15, <3>2
    <3>4. ~(proc'[p].rforked > 0)
      BY <1>11
    <3>5. proc'[p].alive /\ proc'[p].once
      BY <1>11
    <3> QED BY <1>3, <2>2, <3>1, <3>2, <3>3, <3>4, <3>5
  <2>3. CASE q = p /\ u = t
    <3>1. Proper(g.st, g.seeds)
      BY <1>7, ReadyIsProper
    <3>3. ~(proc'[p].rforked > 0)
      BY <1>11
    <3>4. p \in pids
      BY DEF RandomInv, RandomType
    <3>5. proc'[p].alive /\ proc'[p].once
      BY <1>11
    <3>6. Proper(proc'[p].st[t], seeds') /\ proc'[p].st[t].pid \in pids'
      BY <2>0, <1>8, <1>11, <3>1, <3>4
    <3> QED BY <2>3, <3>3, <3>5, <3>6
  <2> QED BY <2>1, <2>2, <2>3
<1>18. UsedInv'
  <2> SUFFICES ASSUME NEW b \in used' PROVE b[1] <= g.seeds /\ b[3] >= KeyIvSz
    BY <1>3 DEF UsedInv
  <2>1. CASE b \in used
    <3>1. b[1] \in Nat /\ b[1] <= seeds /\ b[3] >= KeyIvSz
      BY <1>5, <2>1 DEF RandomInv, UsedInv, KeyBytes
    <3> QED BY <1>5, <1>7, <1>8, <3>1
  <2>2. CASE b \in g.bytes
    BY <1>13, <2>2
  <2> QED BY <1>3, <2>1, <2>2
<1>19. ASSUME odd' # {"reused", "late"}
       PROVE  FreshInv'
  <2>1. odd # {"reused", "late"}
    BY <1>3, <1>19
  <2>2. /\ twice = FALSE
        /\ \A q \in Pids, u \in RThreads : Current(q, u) =>
             /\ \A b \in used : ~IsAhead(proc[q].st[u], b)
             /\ \A r \in Pids, v \in RThreads :
                  Current(r, v) /\ proc[r].st[v].seed = proc[q].st[u].seed => r = q /\ v = u
    BY <2>1 DEF RandomInv, FreshInv
  <2>3. ASSUME NEW b \in used PROVE b[1] \in Nat /\ b[1] <= seeds /\ ~(s.seeds < b[1])
    <3>1. b[1] \in Nat /\ b[1] <= seeds
      BY <1>5, <2>3 DEF RandomInv, UsedInv, KeyBytes
    <3> QED BY <1>1, <1>5, <3>1
  <2>4. \A b \in used : ~IsAhead(s.st, b)
    <3>1. CASE Current(p, t) /\ s.st = proc[p].st[t]
      BY <2>2, <3>1
    <3>2. CASE seeds < s.st.seed
      BY <1>5, <1>8, <2>3, <3>2 DEF IsAhead
    <3> QED BY <1>1, <3>1, <3>2
  <2>5. used \cap g.bytes = {}
    BY <1>13, <2>3, <2>4
  <2>6. twice' = FALSE
    BY <1>4, <2>2, <2>5
  \* Another generator that is current was so before the call.
  <2>7. ASSUME NEW q \in Pids, NEW u \in RThreads, q # p \/ u # t, Current(q, u)'
        PROVE  Current(q, u) /\ proc'[q].st[u] = proc[q].st[u]
    <3>1. CASE q # p
      BY <1>10, <2>7, <3>1 DEF Current, HasState, A!NoState
    <3>2. CASE q = p /\ u # t
      <4>1. HasState(p, u) /\ proc'[p].st[u] = proc[p].st[u] /\ proc[p].st[u].pid = p
        BY <1>11, <1>12, <2>7, <3>2 DEF Current
      <4>2. proc[p].rforked = 0
        <5> SUFFICES ASSUME proc[p].rforked # 0 PROVE FALSE
          OBVIOUS
        <5>1. proc[p].rforked > 0
          BY <1>6
        <5>2. ~HasState(p, t) /\ "reused" \in odd
          BY <3>2, <4>1, <5>1 DEF RandomInv, ForkInv
        <5>3. odd' = odd \cup {"late"}
          BY <1>3, <5>1, <5>2 DEF HasState
        <5> QED BY <1>14, <1>19, <5>2, <5>3 DEF RandomType
      <4> QED BY <3>2, <4>1, <4>2 DEF Current
    <3> QED BY <2>7, <3>1, <3>2
  <2>8. ASSUME NEW q \in Pids, NEW u \in RThreads, q # p \/ u # t, Current(q, u)
        PROVE  /\ proc[q].st[u].seed \in Nat /\ proc[q].st[u].seed <= seeds
               /\ proc[q].st[u].seed # s.st.seed /\ proc[q].st[u].seed # g.st.seed
    <3>1. proc[q].st[u].seed \in Nat /\ proc[q].st[u].seed <= seeds
      BY <2>8 DEF RandomInv, ForkInv, Current, Proper, Generators
    <3>2. proc[q].st[u].seed # s.st.seed
      <4>1. CASE Current(p, t) /\ s.st = proc[p].st[t]
        BY <2>2, <2>8, <4>1
      <4>2. CASE seeds < s.st.seed
        BY <1>5, <1>8, <3>1, <4>2
      <4> QED BY <1>1, <4>1, <4>2
    <3> QED BY <1>5, <1>8, <3>1, <3>2
  <2>9. ASSUME NEW q \in Pids, NEW u \in RThreads, Current(q, u)', NEW b \in used'
        PROVE  ~IsAhead(proc[q].st[u], b)'
    <3>1. CASE q = p /\ u = t
      <4>1. CASE b \in g.bytes
        BY <1>11, <1>13, <3>1, <4>1 DEF IsAhead
      <4>2. CASE b \in used
        <5>1. b \in KeyBytes /\ ~IsAhead(s.st, b) /\ ~(s.seeds < b[1])
          BY <1>5, <2>3, <2>4, <4>2
        <5>2. ~IsAhead(g.st, b)
          BY <1>7, <5>1 DEF Advances
        <5> QED BY <1>11, <3>1, <5>2 DEF IsAhead
      <4> QED BY <1>3, <4>1, <4>2
    <3>2. CASE q # p \/ u # t
      <4>1. Current(q, u) /\ proc'[q].st[u] = proc[q].st[u]
        BY <2>7, <2>9, <3>2
      <4>2. /\ proc[q].st[u].seed \in Nat /\ proc[q].st[u].seed <= seeds
            /\ proc[q].st[u].seed # s.st.seed
        BY <2>8, <3>2, <4>1
      <4>3. ~IsAhead(proc[q].st[u], b)
        <5>1. CASE b \in used
          BY <2>2, <4>1, <5>1
        <5>2. CASE b \in g.bytes
          <6> SUFFICES ASSUME IsAhead(proc[q].st[u], b) PROVE FALSE
            OBVIOUS
          <6>1. b[1] = proc[q].st[u].seed
            BY DEF IsAhead
          <6>2. ~(s.seeds < b[1])
            BY <1>1, <1>5, <4>2, <6>1
          <6>3. IsAhead(s.st, b)
            BY <1>13, <5>2, <6>2
          <6> QED BY <4>2, <6>1, <6>3 DEF IsAhead
        <5> QED BY <1>3, <5>1, <5>2
      <4> QED BY <4>1, <4>3 DEF IsAhead
    <3> QED BY <3>1, <3>2
  <2>10. ASSUME NEW q \in Pids, NEW u \in RThreads, NEW r \in Pids, NEW v \in RThreads,
                Current(q, u)', Current(r, v)', proc'[r].st[v].seed = proc'[q].st[u].seed
         PROVE  r = q /\ v = u
    <3>1. CASE q = p /\ u = t
      <4> SUFFICES ASSUME r # p \/ v # t PROVE FALSE
        BY <3>1
      <4>1. Current(r, v) /\ proc'[r].st[v] = proc[r].st[v]
        BY <2>7, <2>10
      <4>2. proc[r].st[v].seed # g.st.seed
        BY <2>8, <4>1
      <4> QED BY <1>11, <2>10, <3>1, <4>1, <4>2
    <3>2. CASE r = p /\ v = t
      <4> SUFFICES ASSUME q # p \/ u # t PROVE FALSE
        BY <3>2
      <4>1. Current(q, u) /\ proc'[q].st[u] = proc[q].st[u]
        BY <2>7, <2>10
      <4>2. proc[q].st[u].seed # g.st.seed
        BY <2>8, <4>1
      <4> QED BY <1>11, <2>10, <3>2, <4>1, <4>2
    <3>3. CASE (q # p \/ u # t) /\ (r # p \/ v # t)
      <4>1. /\ Current(q, u) /\ proc'[q].st[u] = proc[q].st[u]
            /\ Current(r, v) /\ proc'[r].st[v] = proc[r].st[v]
        BY <2>7, <2>10, <3>3
      <4> QED BY <2>2, <2>10, <4>1
    <3> QED BY <3>1, <3>2, <3>3
  <2> QED BY <2>6, <2>9, <2>10 DEF FreshInv
<1>20. FreshInv'
  <2>1. CASE odd' = {"reused", "late"}
    BY <2>1 DEF FreshInv
  <2> QED BY <1>19, <2>1
<1> QED BY <1>14, <1>17, <1>18, <1>20 DEF RandomInv

\* fork: the child's copy of a generator is not current.
LEMMA ForkKeeps ==
  ASSUME RandomInv, NEW p \in Pids, NEW t \in RThreads, A!Fork(p, t)
  PROVE  RandomInv'
<1> DEFINE child == [proc[p] EXCEPT !.st = [u \in RThreads |-> IF u = t THEN proc[p].st[t] ELSE A!NoState]]
           kid == A!AtFork(child)
<1>1. PICK c \in {q \in Pids : ~proc[q].alive} :
        /\ proc' = [proc EXCEPT ![c] = kid]
        /\ pids' = pids \cup {c}
        /\ odd' = IF c \in pids THEN odd \cup {"reused"} ELSE odd
  BY DEF A!Fork
<1>2. c \in Pids /\ proc[p].alive /\ seeds' = seeds /\ used' = used
  BY DEF A!Fork
<1>3. twice' = twice
  BY DEF A!Fork
<1>4. /\ seeds \in Nat /\ proc \in [Pids -> Processes] /\ used \subseteq KeyBytes
      /\ proc[p] \in Processes /\ pids \subseteq Pids /\ odd \subseteq {"reused", "late"}
      /\ \A q \in Pids : proc[q].alive => q \in pids
  BY DEF RandomInv, RandomType
<1>5. proc[p].st \in [RThreads -> Generators \cup {A!NoState}] /\ proc[p].rforked \in Nat
  BY <1>4 DEF Processes
<1>6. child \in Processes /\ child.rforked = proc[p].rforked
  <2>1. [u \in RThreads |-> IF u = t THEN proc[p].st[t] ELSE A!NoState] \in [RThreads -> Generators \cup {A!NoState}]
    BY <1>5
  <2>2. ASSUME NEW f \in [RThreads -> Generators \cup {A!NoState}]
        PROVE  [proc[p] EXCEPT !.st = f] \in Processes /\ [proc[p] EXCEPT !.st = f].rforked = proc[p].rforked
    BY <1>4 DEF Processes
  <2> QED BY <2>1, <2>2
<1>7. child.alive = proc[p].alive /\ child.once = proc[p].once
  BY <1>4 DEF Processes
<1>8. child.st = [u \in RThreads |-> IF u = t THEN proc[p].st[t] ELSE A!NoState]
  BY <1>4 DEF Processes
<1> HIDE DEF child
<1>9. /\ kid \in Processes /\ kid.alive = child.alive /\ kid.once = child.once
      /\ kid.st = child.st /\ (child.once => kid.rforked > 0)
  <2>1. CASE child.once
    <3>1. kid = [child EXCEPT !.rforked = child.rforked + 1]
      BY <2>1 DEF A!AtFork
    <3>2. ASSUME NEW n \in Nat PROVE [child EXCEPT !.rforked = n] \in Processes
      BY <1>6 DEF Processes
    <3>3. child.rforked + 1 \in Nat /\ child.rforked + 1 > 0
      BY <1>5, <1>6
    <3>4. kid \in Processes
      BY <3>1, <3>2, <3>3
    <3>5. kid.alive = child.alive /\ kid.once = child.once /\ kid.st = child.st
      BY <1>6, <3>1 DEF Processes
    <3>6. kid.rforked = child.rforked + 1
      BY <1>6, <3>1 DEF Processes
    <3> QED BY <3>3, <3>4, <3>5, <3>6
  <2>2. CASE ~child.once
    BY <1>6, <2>2 DEF A!AtFork
  <2> QED BY <2>1, <2>2
<1> HIDE DEF kid
<1>10. /\ proc' \in [Pids -> Processes] /\ \A q \in Pids \ {c} : proc'[q] = proc[q]
       /\ proc'[c] = kid
  BY <1>1, <1>2, <1>4, <1>9
<1>11. /\ proc'[c].st[t] = proc[p].st[t]
       /\ \A u \in RThreads \ {t} : proc'[c].st[u] = A!NoState
  BY <1>8, <1>9, <1>10
<1>12. ~HasState(c, t)' \/ HasState(p, t)
  BY <1>11 DEF HasState, A!NoState
<1>13. /\ \A u \in RThreads \ {t} : ~HasState(c, u)'
       /\ \A q \in Pids \ {c}, u \in RThreads : HasState(q, u)' <=> HasState(q, u)
  BY <1>10, <1>11 DEF HasState, A!NoState
<1>14. odd \subseteq odd' /\ odd' \subseteq {"reused", "late"} /\ pids \subseteq pids' /\ pids' \subseteq Pids
  BY <1>1, <1>2, <1>4
<1>15. RandomType'
  <2>1. \A q \in Pids : proc'[q].alive => q \in pids'
    BY <1>1, <1>4, <1>10
  <2> QED BY <1>2, <1>4, <1>10, <1>14, <2>1 DEF RandomType
<1>16. ASSUME NEW q \in Pids, NEW u \in RThreads, HasState(q, u)'
       PROVE  /\ Proper(proc'[q].st[u], seeds') /\ proc'[q].st[u].pid \in pids'
              /\ proc'[q].alive /\ proc'[q].once
              /\ proc'[q].rforked > 0 =>
                   /\ \A v \in RThreads \ {u} : ~HasState(q, v)'
                   /\ proc'[q].st[u].pid = q => "reused" \in odd'
              /\ q = c => proc'[q].rforked > 0
  <2>1. CASE q # c
    <3>1. proc'[q] = proc[q] /\ HasState(q, u) /\ \A v \in RThreads : HasState(q, v)' <=> HasState(q, v)
      BY <1>10, <1>13, <1>16, <2>1
    <3>2. /\ Proper(proc[q].st[u], seeds) /\ proc[q].st[u].pid \in pids
          /\ proc[q].alive /\ proc[q].once
          /\ proc[q].rforked > 0 => /\ \A v \in RThreads \ {u} : ~HasState(q, v)
                                    /\ proc[q].st[u].pid = q => "reused" \in odd
      BY <3>1 DEF RandomInv, ForkInv
    <3>3. Proper(proc'[q].st[u], seeds')
      BY <1>2, <3>1, <3>2
    <3>4. proc'[q].st[u].pid \in pids'
      BY <1>14, <3>1, <3>2
    <3>5. proc'[q].alive /\ proc'[q].once
      BY <3>1, <3>2
    <3>6. proc'[q].rforked > 0 => \A v \in RThreads \ {u} : ~HasState(q, v)'
      BY <3>1, <3>2
    <3>7. proc'[q].rforked > 0 /\ proc'[q].st[u].pid = q => "reused" \in odd'
      BY <1>14, <3>1, <3>2
    <3> QED BY <2>1, <3>3, <3>4, <3>5, <3>6, <3>7
  <2>2. CASE q = c
    <3>1. u = t /\ HasState(p, t)
      BY <1>12, <1>13, <1>16, <2>2
    <3>2. Proper(proc[p].st[t], seeds) /\ proc[p].st[t].pid \in pids
      BY <3>1 DEF RandomInv, ForkInv
    <3>3. proc[p].alive /\ proc[p].once
      BY <3>1 DEF RandomInv, ForkInv
    <3>4. Proper(proc'[c].st[t], seeds')
      BY <1>2, <1>11, <3>2
    <3>5. proc'[c].st[t].pid \in pids /\ proc'[c].st[t].pid \in pids'
      BY <1>11, <1>14, <3>2
    <3>6. proc'[c].alive /\ proc'[c].once /\ proc'[c].rforked > 0
      BY <1>7, <1>9, <1>10, <3>3
    <3>7. proc'[c].st[t].pid = c => "reused" \in odd'
      BY <1>1, <3>5
    <3> QED BY <1>13, <2>2, <3>1, <3>4, <3>5, <3>6, <3>7
  <2> QED BY <2>1, <2>2
<1>17. ForkInv'
  BY <1>16 DEF ForkInv
<1>18. UsedInv'
  BY <1>2 DEF RandomInv, UsedInv
<1>19. ASSUME NEW q \in Pids, NEW u \in RThreads, Current(q, u)'
       PROVE  Current(q, u) /\ proc'[q].st[u] = proc[q].st[u]
  <2>1. q # c
    <3> SUFFICES ASSUME q = c PROVE FALSE
      OBVIOUS
    <3>1. proc'[q].rforked > 0
      BY <1>16, <1>19 DEF Current
    <3> QED BY <1>19, <3>1 DEF Current
  <2> QED BY <1>10, <1>19, <2>1 DEF Current, HasState, A!NoState
<1>20. FreshInv'
  <2> SUFFICES ASSUME odd' # {"reused", "late"} PROVE FreshInv'
    BY DEF FreshInv
  <2>1. odd # {"reused", "late"}
    BY <1>14
  <2>2. /\ twice = FALSE
        /\ \A q \in Pids, u \in RThreads : Current(q, u) =>
             /\ \A b \in used : ~IsAhead(proc[q].st[u], b)
             /\ \A r \in Pids, v \in RThreads :
                  Current(r, v) /\ proc[r].st[v].seed = proc[q].st[u].seed => r = q /\ v = u
    BY <2>1 DEF RandomInv, FreshInv
  <2>3. ASSUME NEW q \in Pids, NEW u \in RThreads, Current(q, u)', NEW b \in used'
        PROVE  ~IsAhead(proc[q].st[u], b)'
    BY <1>2, <1>19, <2>2, <2>3 DEF IsAhead
  <2>4. ASSUME NEW q \in Pids, NEW u \in RThreads, NEW r \in Pids, NEW v \in RThreads,
               Current(q, u)', Current(r, v)', proc'[r].st[v].seed = proc'[q].st[u].seed
        PROVE  r = q /\ v = u
    BY <1>19, <2>2, <2>4
  <2>5. twice' = FALSE
    BY <1>3, <2>2
  <2> QED BY <2>3, <2>4, <2>5 DEF FreshInv
<1> QED BY <1>15, <1>17, <1>18, <1>20 DEF RandomInv

LEMMA ExitKeeps ==
  ASSUME RandomInv, NEW p \in Pids, A!Exit(p)
  PROVE  RandomInv'
<1>1. /\ proc' = [proc EXCEPT ![p] = A!Dead] /\ seeds' = seeds /\ used' = used
      /\ pids' = pids /\ odd' = odd
  BY DEF A!Exit
<1>2. twice' = twice
  BY DEF A!Exit
<1>3. A!Dead \in Processes /\ A!Dead.alive = FALSE /\ \A u \in RThreads : A!Dead.st[u] = A!NoState
  BY DEF A!Dead, Processes
<1>4. /\ proc' \in [Pids -> Processes] /\ \A q \in Pids \ {p} : proc'[q] = proc[q]
      /\ proc'[p] = A!Dead
  BY <1>1, <1>3 DEF RandomInv, RandomType
<1>5. ASSUME NEW q \in Pids, NEW u \in RThreads, HasState(q, u)'
      PROVE  q # p /\ HasState(q, u) /\ proc'[q] = proc[q]
  BY <1>3, <1>4, <1>5 DEF HasState, A!NoState
<1>6. \A q \in Pids \ {p}, u \in RThreads : HasState(q, u)' <=> HasState(q, u)
  BY <1>4 DEF HasState, A!NoState
<1>7. RandomType'
  <2>1. \A q \in Pids : proc'[q].alive => q \in pids
    BY <1>3, <1>4 DEF RandomInv, RandomType
  <2> QED BY <1>1, <1>4, <2>1 DEF RandomInv, RandomType
<1>8. ForkInv'
  <2> SUFFICES ASSUME NEW q \in Pids, NEW u \in RThreads, HasState(q, u)'
               PROVE  /\ Proper(proc'[q].st[u], seeds') /\ proc'[q].st[u].pid \in pids'
                      /\ proc'[q].alive /\ proc'[q].once
                      /\ proc'[q].rforked > 0 =>
                           /\ \A v \in RThreads \ {u} : ~HasState(q, v)'
                           /\ proc'[q].st[u].pid = q => "reused" \in odd'
    BY DEF ForkInv
  <2>1. q # p /\ HasState(q, u) /\ proc'[q] = proc[q] /\ \A v \in RThreads : HasState(q, v)' <=> HasState(q, v)
    BY <1>5, <1>6
  <2>2. /\ Proper(proc[q].st[u], seeds) /\ proc[q].st[u].pid \in pids
        /\ proc[q].alive /\ proc[q].once
        /\ proc[q].rforked > 0 => /\ \A v \in RThreads \ {u} : ~HasState(q, v)
                                  /\ proc[q].st[u].pid = q => "reused" \in odd
    BY <2>1 DEF RandomInv, ForkInv
  <2>3. Proper(proc'[q].st[u], seeds') /\ proc'[q].st[u].pid \in pids'
    BY <1>1, <2>1, <2>2
  <2>4. proc'[q].alive /\ proc'[q].once
    BY <2>1, <2>2
  <2>5. proc'[q].rforked > 0 => \A v \in RThreads \ {u} : ~HasState(q, v)'
    BY <2>1, <2>2
  <2>6. proc'[q].rforked > 0 /\ proc'[q].st[u].pid = q => "reused" \in odd'
    BY <1>1, <2>1, <2>2
  <2> QED BY <2>3, <2>4, <2>5, <2>6
<1>9. UsedInv'
  BY <1>1 DEF RandomInv, UsedInv
<1>10. ASSUME NEW q \in Pids, NEW u \in RThreads, Current(q, u)'
       PROVE  Current(q, u) /\ proc'[q].st[u] = proc[q].st[u]
  BY <1>5, <1>10 DEF Current
<1>11. FreshInv'
  <2> SUFFICES ASSUME odd' # {"reused", "late"} PROVE FreshInv'
    BY DEF FreshInv
  <2>1. odd # {"reused", "late"}
    BY <1>1
  <2>2. /\ twice = FALSE
        /\ \A q \in Pids, u \in RThreads : Current(q, u) =>
             /\ \A b \in used : ~IsAhead(proc[q].st[u], b)
             /\ \A r \in Pids, v \in RThreads :
                  Current(r, v) /\ proc[r].st[v].seed = proc[q].st[u].seed => r = q /\ v = u
    BY <2>1 DEF RandomInv, FreshInv
  <2>3. ASSUME NEW q \in Pids, NEW u \in RThreads, Current(q, u)', NEW b \in used'
        PROVE  ~IsAhead(proc[q].st[u], b)'
    BY <1>1, <1>10, <2>2, <2>3 DEF IsAhead
  <2>4. ASSUME NEW q \in Pids, NEW u \in RThreads, NEW r \in Pids, NEW v \in RThreads,
               Current(q, u)', Current(r, v)', proc'[r].st[v].seed = proc'[q].st[u].seed
        PROVE  r = q /\ v = u
    <3>1. Current(q, u) /\ proc'[q].st[u] = proc[q].st[u]
      BY <1>10, <2>4
    <3>2. Current(r, v) /\ proc'[r].st[v] = proc[r].st[v]
      BY <1>10, <2>4
    <3>3. proc[r].st[v].seed = proc[q].st[u].seed
      BY <2>4, <3>1, <3>2, Zenon
    <3> QED BY <2>2, <3>1, <3>2, <3>3
  <2>5. twice' = FALSE
    BY <1>2, <2>2
  <2> QED BY <2>3, <2>4, <2>5 DEF FreshInv
<1> QED BY <1>7, <1>8, <1>9, <1>11 DEF RandomInv

LEMMA RandomInit == A!RInit => RandomInv
<1> SUFFICES ASSUME A!RInit PROVE RandomInv
  OBVIOUS
<1>1. PICK p \in Pids : /\ proc = [q \in Pids |-> [A!Dead EXCEPT !.alive = (q = p)]]
                        /\ seeds = 0 /\ used = {} /\ pids = {p} /\ odd = {}
  BY RandomAssumption DEF A!RInit
<1>2. twice = FALSE
  BY DEF A!RInit
<1>3. A!Dead \in Processes /\ \A u \in RThreads : A!Dead.st[u] = A!NoState
  BY DEF A!Dead, Processes
<1>4. ASSUME NEW a \in BOOLEAN
      PROVE  [A!Dead EXCEPT !.alive = a] \in Processes
  BY <1>3 DEF Processes
<1>5. ASSUME NEW a \in BOOLEAN
      PROVE  [A!Dead EXCEPT !.alive = a].st = A!Dead.st
  BY <1>3 DEF Processes
<1>6. ASSUME NEW a \in BOOLEAN
      PROVE  [A!Dead EXCEPT !.alive = a].alive = a
  BY <1>3 DEF Processes
<1>7. proc \in [Pids -> Processes]
  BY <1>1, <1>4
<1>8. \A q \in Pids : proc[q].alive => q = p
  BY <1>1, <1>6
<1>9. \A q \in Pids, u \in RThreads : ~HasState(q, u)
  BY <1>1, <1>3, <1>5 DEF HasState
<1>10. RandomType
  BY <1>1, <1>7, <1>8 DEF RandomType
<1>11. ForkInv /\ UsedInv
  BY <1>1, <1>9 DEF ForkInv, UsedInv
<1>12. FreshInv
  BY <1>2, <1>9 DEF FreshInv, Current
<1> QED BY <1>10, <1>11, <1>12 DEF RandomInv

\* A bound below 2: nothing is drawn.
LEMMA NoneServes ==
  ASSUME NEW s, s.seeds \in Nat, Ready(s.st, s.seeds, 0)
  PROVE  Serves(s, [st |-> s.st, seeds |-> s.seeds, bytes |-> {}])
BY DEF Serves, Ready, Advances, Generators

\* _sget would give the loop the generator it has.
LEMMA AgainIsGet ==
  ASSUME RandomInv, DrawInv, NEW p \in Pids, NEW t \in RThreads, A!UniformAgain(p, t)
  PROVE  proc[p].alive /\ A!Give(p, t, A!Sget(p, t), A!RandomU32(A!Sget(p, t)))
<1> DEFINE s == [st |-> proc[p].st[t], seeds |-> seeds, forked |-> FALSE]
<1>1. proc[p].alive /\ Current(p, t) /\ A!Give(p, t, s, A!RandomU32(s))
  BY DEF A!UniformAgain, DrawInv
<1>2. A!Sget(p, t) = s
  BY <1>1 DEF A!Sget, A!ForkSeen, A!NoState, Current, HasState
<1> QED BY <1>1, <1>2

LEMMA RandomStepKeeps ==
  ASSUME RandomInv, DrawInv, A!RNext
  PROVE  RandomInv'
<1>1. ASSUME NEW p \in Pids, NEW t \in RThreads
      PROVE  A!Sget(p, t).seeds \in Nat /\ Ready(A!Sget(p, t).st, A!Sget(p, t).seeds, 0)
  BY SgetIs DEF RandomInv
<1>2. ASSUME NEW p \in Pids, NEW t \in RThreads, A!Arc4randomBuf(p, t)
      PROVE  RandomInv'
  <2>1. PICK n \in Lengths : A!Give(p, t, A!Sget(p, t), A!RandomBuf(A!Sget(p, t), n))
    BY <1>2 DEF A!Arc4randomBuf
  <2>2. n \in Nat /\ proc[p].alive
    BY <1>2, RandomAssumption DEF A!Arc4randomBuf
  <2>3. Serves(A!Sget(p, t), A!RandomBuf(A!Sget(p, t), n))
    BY <1>1, <2>2, RandomBufServes
  <2> QED BY <2>1, <2>2, <2>3, GiveKeeps
<1>3. ASSUME NEW p \in Pids, NEW t \in RThreads, A!Arc4randomUniform(p, t)
      PROVE  RandomInv'
  <2> DEFINE s == A!Sget(p, t)
             none == [st |-> s.st, seeds |-> s.seeds, bytes |-> {}]
             one == A!RandomU32(s)
  <2>1. proc[p].alive /\ (A!Give(p, t, s, none) \/ A!Give(p, t, s, one))
    BY <1>3 DEF A!Arc4randomUniform
  <2>2. Serves(s, one)
    BY <1>1, RandomU32Serves
  <2>3. Serves(s, none)
    BY <1>1, NoneServes
  <2> HIDE DEF one, none
  <2> QED BY <2>1, <2>2, <2>3, GiveKeeps
<1>4. ASSUME NEW p \in Pids, NEW t \in RThreads, A!UniformAgain(p, t)
      PROVE  RandomInv'
  <2> DEFINE s == A!Sget(p, t)
  <2>1. proc[p].alive /\ A!Give(p, t, s, A!RandomU32(s))
    BY <1>4, AgainIsGet
  <2>2. Serves(s, A!RandomU32(s))
    BY <1>1, RandomU32Serves
  <2> HIDE DEF s
  <2> QED BY <2>1, <2>2, GiveKeeps DEF s
<1> QED BY <1>2, <1>3, <1>4, ForkKeeps, ExitKeeps DEF A!RNext

\* The generator that a process has is its own after a call, whatever bytes the call gave.
LEMMA GiveDraws ==
  ASSUME RandomInv, DrawInv, NEW p \in Pids, NEW t \in RThreads, proc[p].alive, NEW g,
         Serves(A!Sget(p, t), g), A!Give(p, t, A!Sget(p, t), g),
         drawing' \in {drawing, drawing \cup {<<p, t>>}, drawing \ {<<p, t>>}}
  PROVE  DrawInv'
<1> DEFINE s == A!Sget(p, t)
<1>1. /\ s.st.pid = p /\ (s.forked \/ proc[p].rforked = 0)
  BY SgetIs DEF RandomInv
<1>2. proc' = [proc EXCEPT ![p].once = TRUE, ![p].rforked = IF s.forked THEN 0 ELSE @, ![p].st[t] = g.st]
  BY DEF A!Give
<1>3. g.st \in Generators /\ g.st.pid = p
  BY <1>1 DEF Serves, Ready, Advances
<1> HIDE DEF s
<1>4. proc \in [Pids -> Processes] /\ proc[p].st \in [RThreads -> Generators \cup {A!NoState}]
  BY DEF RandomInv, RandomType, Processes
<1>5. ASSUME NEW q \in Pids \ {p} PROVE proc'[q] = proc[q]
  BY <1>2, <1>4
<1>6. /\ proc'[p].alive = proc[p].alive /\ proc'[p].rforked = 0 /\ proc'[p].st[t] = g.st
      /\ \A u \in RThreads \ {t} : proc'[p].st[u] = proc[p].st[u]
  BY <1>1, <1>2, <1>4 DEF Processes
<1>7. Current(p, t)'
  BY <1>3, <1>6, NoStateIsNone DEF Current, HasState, A!NoState
<1>8. ASSUME NEW u \in RThreads \ {t}, Current(p, u) PROVE Current(p, u)'
  BY <1>6, <1>8 DEF Current, HasState, A!NoState
<1>9. ASSUME NEW q \in Pids \ {p}, NEW u \in RThreads, Current(q, u) PROVE Current(q, u)'
  BY <1>5, <1>9 DEF Current, HasState, A!NoState
<1>10. drawing' \subseteq Pids \X RThreads
  BY DEF DrawInv
<1>11. ASSUME NEW q \in Pids, NEW u \in RThreads, <<q, u>> \in drawing'
       PROVE  proc'[q].alive /\ Current(q, u)'
  <2>1. CASE q = p /\ u = t
    BY <1>6, <1>7, <2>1
  <2>2. CASE ~(q = p /\ u = t)
    <3>1. <<q, u>> \in drawing
      BY <1>11, <2>2
    <3>2. proc[q].alive /\ Current(q, u)
      BY <3>1 DEF DrawInv
    <3> QED BY <1>5, <1>6, <1>8, <1>9, <2>2, <3>2
  <2> QED BY <2>1, <2>2
<1> QED BY <1>10, <1>11 DEF DrawInv

LEMMA DrawStepKeeps ==
  ASSUME RandomInv, DrawInv, A!RNext
  PROVE  DrawInv'
<1>1. ASSUME NEW p \in Pids, NEW t \in RThreads
      PROVE  A!Sget(p, t).seeds \in Nat /\ Ready(A!Sget(p, t).st, A!Sget(p, t).seeds, 0)
  BY SgetIs DEF RandomInv
<1>2. ASSUME NEW p \in Pids, NEW t \in RThreads, A!Arc4randomBuf(p, t) PROVE DrawInv'
  <2>1. PICK n \in Lengths : A!Give(p, t, A!Sget(p, t), A!RandomBuf(A!Sget(p, t), n))
    BY <1>2 DEF A!Arc4randomBuf
  <2>2. n \in Nat /\ proc[p].alive /\ drawing' = drawing
    BY <1>2, RandomAssumption DEF A!Arc4randomBuf
  <2>3. Serves(A!Sget(p, t), A!RandomBuf(A!Sget(p, t), n))
    BY <1>1, <2>2, RandomBufServes
  <2> QED BY <2>1, <2>2, <2>3, GiveDraws
<1>3. ASSUME NEW p \in Pids, NEW t \in RThreads, A!Arc4randomUniform(p, t) PROVE DrawInv'
  <2> DEFINE s == A!Sget(p, t)
             none == [st |-> s.st, seeds |-> s.seeds, bytes |-> {}]
             one == A!RandomU32(s)
  <2>1. /\ proc[p].alive /\ (A!Give(p, t, s, none) \/ A!Give(p, t, s, one))
        /\ drawing' \in {drawing, drawing \cup {<<p, t>>}}
    BY <1>3 DEF A!Arc4randomUniform
  <2>2. Serves(s, one)
    BY <1>1, RandomU32Serves
  <2>3. Serves(s, none)
    BY <1>1, NoneServes
  <2> HIDE DEF one, none
  <2> QED BY <2>1, <2>2, <2>3, GiveDraws
<1>4. ASSUME NEW p \in Pids, NEW t \in RThreads, A!UniformAgain(p, t) PROVE DrawInv'
  <2> DEFINE s == A!Sget(p, t)
  <2>1. /\ proc[p].alive /\ A!Give(p, t, s, A!RandomU32(s))
        /\ drawing' \in {drawing, drawing \ {<<p, t>>}}
    BY <1>4, AgainIsGet DEF A!UniformAgain
  <2>2. Serves(s, A!RandomU32(s))
    BY <1>1, RandomU32Serves
  <2> HIDE DEF s
  <2> QED BY <2>1, <2>2, GiveDraws DEF s
<1>5. ASSUME NEW p \in Pids, NEW t \in RThreads, A!Fork(p, t) PROVE DrawInv'
  <2>1. PICK c \in Pids : /\ ~proc[c].alive /\ drawing' = drawing
                          /\ \A q \in Pids \ {c} : proc'[q] = proc[q]
    BY <1>5 DEF A!Fork, RandomInv, RandomType
  <2>2. ASSUME NEW q \in Pids, NEW u \in RThreads, <<q, u>> \in drawing
        PROVE  proc'[q].alive /\ Current(q, u)'
    <3>1. q # c /\ proc[q].alive /\ Current(q, u)
      BY <2>1, <2>2 DEF DrawInv
    <3>2. proc'[q] = proc[q]
      BY <2>1, <3>1
    <3> QED BY <3>1, <3>2 DEF Current, HasState, A!NoState
  <2> QED BY <2>1, <2>2 DEF DrawInv
<1>6. ASSUME NEW p \in Pids, A!Exit(p) PROVE DrawInv'
  <2>1. /\ drawing' = {d \in drawing : d[1] # p}
        /\ \A q \in Pids \ {p} : proc'[q] = proc[q]
    BY <1>6 DEF A!Exit, RandomInv, RandomType
  <2>2. ASSUME NEW q \in Pids, NEW u \in RThreads, <<q, u>> \in drawing'
        PROVE  proc'[q].alive /\ Current(q, u)'
    <3>1. q # p /\ <<q, u>> \in drawing
      BY <2>1, <2>2
    <3>2. proc[q].alive /\ Current(q, u) /\ proc'[q] = proc[q]
      BY <2>1, <3>1 DEF DrawInv
    <3> QED BY <3>2 DEF Current, HasState, A!NoState
  <2> QED BY <2>1, <2>2 DEF DrawInv
<1> QED BY <1>2, <1>3, <1>4, <1>5, <1>6 DEF A!RNext

LEMMA RandomKept ==
  ASSUME part = "arc4random" => RandomInv /\ DrawInv, [Next]_vars
  PROVE  (part = "arc4random" => RandomInv /\ DrawInv)'
<1>1. CASE Arc4randomStep
  BY <1>1, RandomStepKeeps, DrawStepKeeps DEF Arc4randomStep
<1>2. CASE ~Arc4randomStep
  <2>1. part' = part
    BY <1>2 DEF Next, vars, GetDelimStep, OsFuncStep, PathLockStep, ScaleStep, PathStep, SetTimeStep, FMemStep
  <2>2. part = "arc4random" => UNCHANGED varsA
    BY <1>2 DEF Next, vars, GetDelimStep, OsFuncStep, PathLockStep, ScaleStep, PathStep, SetTimeStep, FMemStep
  <2>3. ASSUME RandomInv, DrawInv, UNCHANGED varsA PROVE RandomInv' /\ DrawInv'
    <3>1. RandomType' /\ UsedInv'
      BY <2>3 DEF RandomInv, RandomType, UsedInv, varsA
    <3>2. UNCHANGED <<proc, seeds, used, twice, pids, odd>>
      BY <2>3 DEF varsA
    <3>3. ForkInv'
      BY <2>3, <3>2 DEF RandomInv, ForkInv, HasState, Proper, A!NoState
    <3>4. FreshInv'
      BY <2>3, <3>2 DEF RandomInv, FreshInv, HasState, Current, IsAhead, A!NoState
    <3>5. DrawInv'
      BY <2>3, <3>2 DEF DrawInv, varsA, HasState, Current, A!NoState
    <3> QED BY <3>1, <3>3, <3>4, <3>5 DEF RandomInv
  <2> QED BY <2>1, <2>2, <2>3
<1> QED BY <1>1, <1>2

LEMMA RandomAlways == Spec => [](part = "arc4random" => RandomInv /\ DrawInv)
<1>1. Init => (part = "arc4random" => RandomInv /\ DrawInv)
  BY RandomInit DEF Init, DrawInv, A!RInit
<1> QED BY <1>1, RandomKept, PTL DEF Spec

\* No byte of key stream is given out twice, to whichever threads and processes and however
\* they fork, except where an identifier of a process came back and another thread took
\* the notice of the fork first; and no byte that became a key is given out. For every
\* number of processes and threads, buffer size and length of requests (arc4random.c).
THEOREM BytesAreFresh == Spec => []BytesFresh
<1>1. (part = "arc4random" => RandomInv /\ DrawInv) => BytesFresh
  <2> SUFFICES ASSUME part = "arc4random", RandomInv PROVE BytesFresh
    BY DEF BytesFresh, NoByteTwice, KeyNeverGiven
  <2>1. NoByteTwice
    BY DEF RandomInv, FreshInv, NoByteTwice, A!NoByteTwice
  <2>2. KeyNeverGiven
    BY DEF RandomInv, UsedInv, KeyNeverGiven, A!KeyNeverGiven
  <2> QED BY <2>1, <2>2 DEF BytesFresh
<1> QED BY <1>1, RandomAlways, PTL

\* A generator gives out no more than the limit from one seed, unless one request was
\* longer than the limit and wrapped the count (_rs_stir_if_needed).
THEOREM SeedIsReplaced == Spec => []SeedReplaced
<1>1. (part = "arc4random" => RandomInv /\ DrawInv) => SeedReplaced
  <2> SUFFICES ASSUME part = "arc4random", RandomInv, NEW p \in Pids, NEW t \in RThreads,
                      proc[p].st[t] # A!NoState, proc[p].st[t].given > Reseed
               PROVE  proc[p].st[t].wrapped
    BY DEF SeedReplaced, A!SeedReplaced
  <2>1. Proper(proc[p].st[t], seeds)
    BY DEF RandomInv, ForkInv, HasState
  <2>2. PICK x \in Nat, y \in Nat : x = proc[p].st[t].given /\ y = proc[p].st[t].count
    BY <2>1 DEF Proper, Generators
  <2>3. x + y # Reseed
    BY <2>2, Sizes
  <2> QED BY <2>1, <2>2, <2>3 DEF Proper
<1> QED BY <1>1, RandomAlways, PTL

(***************************************************************************)
(* The clock setting test: the clock is put back and the verdict is right, *)
(* for every granularity of the clock, step, and time that passes.         *)
(***************************************************************************)
LEMMA TimesGrow ==
  ASSUME NEW a \in Int, NEW b \in Int, NEW m \in Nat, a <= b
  PROVE  a * m <= b * m
<1>1. (b - a) * m >= 0
  OBVIOUS
<1>2. (b - a) * m = b * m - a * m
  OBVIOUS
<1> QED BY <1>1, <1>2

LEMMA Remainder ==
  ASSUME NEW a \in Int, NEW m \in Nat \ {0}
  PROVE  \E q \in Int, r \in 0 .. m - 1 : a % m = r /\ a = q * m + r
<1>1. a \div m \in Int /\ a % m \in 0 .. m - 1 /\ a = (a \div m) * m + (a % m)
  OBVIOUS
<1> QED BY <1>1

LEMMA OneQuotient ==
  ASSUME NEW m \in Nat \ {0}, NEW p \in Int, NEW q \in Int,
         NEW r \in 0 .. m - 1, NEW s \in 0 .. m - 1, p * m + r = q * m + s
  PROVE  r = s
<1>1. ~(p + 1 <= q)
  <2>1. SUFFICES ASSUME p + 1 <= q PROVE FALSE
    OBVIOUS
  <2>2. (p + 1) * m <= q * m /\ (p + 1) * m = p * m + m
    BY <2>1, TimesGrow
  <2> QED BY <2>2
<1>2. ~(q + 1 <= p)
  <2>1. SUFFICES ASSUME q + 1 <= p PROVE FALSE
    OBVIOUS
  <2>2. (q + 1) * m <= p * m /\ (q + 1) * m = q * m + m
    BY <2>1, TimesGrow
  <2> QED BY <2>2
<1>3. p = q
  BY <1>1, <1>2
<1> QED BY <1>3

LEMMA RemainderIs ==
  ASSUME NEW m \in Nat \ {0}, NEW q \in Int, NEW r \in 0 .. m - 1
  PROVE  (q * m + r) % m = r
<1>1. q * m + r \in Int
  OBVIOUS
<1>2. PICK p \in Int, s \in 0 .. m - 1 : (q * m + r) % m = s /\ q * m + r = p * m + s
  BY <1>1, Remainder
<1>3. r = s
  BY <1>2, OneQuotient
<1> QED BY <1>2, <1>3

\* A whole cycle more does not change the remainder.
LEMMA CycleMore ==
  ASSUME NEW m \in Nat \ {0}, NEW x \in Int, NEW n \in Int
  PROVE  (x + n * m) % m = x % m
<1>1. PICK q \in Int, r \in 0 .. m - 1 : x % m = r /\ x = q * m + r
  BY Remainder
<1>2. PICK p \in Int : p = q + n
  OBVIOUS
<1>3. x + n * m = p * m + r
  <2>1. p * m = q * m + n * m
    BY <1>2
  <2> QED BY <1>1, <2>1
<1>4. (p * m + r) % m = r
  BY RemainderIs
<1> QED BY <1>1, <1>3, <1>4

-----------------------------------------------------------------------------
\* Whole microseconds.
Whole(t) == \E k \in Int : t = k * Gran

LEMMA ConstantsWhole == Whole(Bump) /\ Whole(Bump \div 2) /\ Whole(Limit)
<1>1. Bump \in Int /\ Bump \div 2 \in Int /\ Limit \in Int /\ Gran \in Nat \ {0}
  BY ClockAssumption
<1>2. ASSUME NEW t \in Int, t % Gran = 0 PROVE Whole(t)
  <2>1. PICK q \in Int, r \in 0 .. Gran - 1 : t % Gran = r /\ t = q * Gran + r
    BY <1>1, Remainder
  <2>2. t = q * Gran
    BY <1>1, <1>2, <2>1
  <2> QED BY <2>2 DEF Whole
<1> QED BY <1>1, <1>2, ClockAssumption

LEMMA WholeSum ==
  ASSUME NEW t \in Int, NEW u \in Int, Whole(t), Whole(u)
  PROVE  Whole(t + u) /\ Whole(t - u)
<1>1. PICK j \in Int, k \in Int : t = j * Gran /\ u = k * Gran
  BY DEF Whole
<1>2. Gran \in Int
  BY ClockAssumption
<1>3. t + u = (j + k) * Gran /\ t - u = (j - k) * Gran
  BY <1>1, <1>2
<1>4. j + k \in Int /\ j - k \in Int
  OBVIOUS
<1> QED BY <1>3, <1>4 DEF Whole

LEMMA MicrosIs ==
  ASSUME NEW t \in Int
  PROVE  /\ C!Micros(t) \in Int /\ Whole(C!Micros(t))
         /\ C!Micros(t) <= t /\ t < C!Micros(t) + Gran
<1>1. PICK q \in Int, r \in 0 .. Gran - 1 : t % Gran = r /\ t = q * Gran + r
  BY ClockAssumption, Remainder
<1>2. q * Gran \in Int
  BY ClockAssumption
<1>3. C!Micros(t) = q * Gran
  BY <1>1, <1>2 DEF C!Micros
<1>4. Whole(C!Micros(t))
  BY <1>3 DEF Whole
<1> QED BY <1>1, <1>2, <1>3, <1>4, ClockAssumption

LEMMA WholeStep ==
  ASSUME NEW t \in Int, NEW u \in Int, Whole(t), Whole(u), t < u + Gran
  PROVE  t <= u
<1>1. PICK j \in Int, k \in Int : t = j * Gran /\ u = k * Gran
  BY DEF Whole
<1>2. SUFFICES ASSUME k + 1 <= j PROVE FALSE
  <2>1. CASE j <= k
    BY <1>1, <2>1, TimesGrow, ClockAssumption
  <2> QED BY <2>1
<1>3. (k + 1) * Gran <= j * Gran
  BY <1>2, TimesGrow, ClockAssumption
<1>4. (k + 1) * Gran = k * Gran + Gran
  BY ClockAssumption
<1> QED BY <1>1, <1>3, <1>4, ClockAssumption

\* Rounding reaches every whole time before.
LEMMA MicrosReaches ==
  ASSUME NEW t \in Int, NEW u \in Int, Whole(u), u <= t
  PROVE  u <= C!Micros(t)
<1>1. PICK v \in Int : v = C!Micros(t)
  BY MicrosIs
<1>2. Whole(v) /\ t < v + Gran
  BY <1>1, MicrosIs
<1>3. u < v + Gran
  BY <1>2, ClockAssumption
<1> QED BY <1>1, <1>2, <1>3, WholeStep

LEMMA MicrosWhole ==
  ASSUME NEW t \in Int, Whole(t)
  PROVE  C!Micros(t) = t
<1>1. PICK v \in Int : v = C!Micros(t)
  BY MicrosIs
<1>2. v <= t /\ t <= v
  BY <1>1, MicrosIs, MicrosReaches
<1> QED BY <1>1, <1>2

LEMMA MicrosMono ==
  ASSUME NEW t \in Int, NEW u \in Int, t <= u
  PROVE  C!Micros(t) <= C!Micros(u)
<1>1. PICK v \in Int : v = C!Micros(t)
  BY MicrosIs
<1>2. Whole(v) /\ v <= t
  BY <1>1, MicrosIs
<1>3. v <= u
  BY <1>2
<1> QED BY <1>1, <1>2, <1>3, MicrosReaches

-----------------------------------------------------------------------------
\* The calls before the clock is set forward, while it is, and after it is set back.
Starts == {"init_raw", "init_mono", "init_boot", "init_real", "set1"}
Forward == {"first_real", "middle_raw", "middle_mono", "middle_boot", "middle_real", "set2"}
BackAgain == {"second_real", "final_mono", "final_boot", "final_raw", "restore"}
Calls == Starts \cup Forward \cup BackAgain

\* A clock that is not ahead of the right one, and behind by no more than d.
Behind(x, d) == x \in Int /\ Lead - d <= x /\ x <= Lead

\* In the following w is raw, a is ahead, q is cpc, f is info, o is orig, s is opts, l is lags.
ClockType(w, a, q, f, o, s, l) ==
  /\ w \in Int /\ a \in Int /\ l \in Nat
  /\ q \in {"align", "save", "undo", "done"} \cup Calls
  /\ f \in [Calls \cup {"aligned"} -> Int]
  /\ o.tv \in Int /\ s.skew \in Int /\ s.extra \in Nat

\* What the clock, and the times that it will be set to, are to the right one.
PlaceOfClock(w, a, q, f, o, s, l) ==
  /\ q \in {"align", "save"} \cup Starts => a = Lead
  /\ q \in {"align", "save"} => o = C!NoTime
  /\ o # C!NoTime => Behind(o.tv - w, l + Gran - 1)
  /\ o # C!NoTime /\ q \in Calls \ {"init_raw"} => Behind(o.tv - f["init_raw"], l + Gran - 1)
  /\ q = "set1" => Whole(f["init_real"]) /\ Behind(f["init_real"] - w, l + Gran - 1)
  /\ q = "set2" => Whole(f["middle_real"])
  /\ s.skew = 0 =>
       /\ q \in Forward => Behind(a - Bump, l + Gran - 1)
       /\ q = "set2" => Behind(f["middle_real"] - Bump - w, l + 2 * (Gran - 1))
       /\ q \in BackAgain => Behind(a, l + 2 * (Gran - 1))
  /\ q = "restore" /\ o # C!NoTime => Behind(o.tv - f["init_raw"] + f["final_raw"] - w, l + Gran - 1)

\* The readings of the clocks that nobody sets.
SteadyReadings(w, q, f) ==
  /\ q \in Calls \ {"init_raw"} => f["init_raw"] <= w
  /\ q \in Calls \ {"init_raw", "init_mono"} => f["init_mono"] <= C!Micros(w)
  /\ q \in BackAgain \cup {"middle_mono", "middle_boot", "middle_real", "set2"} =>
       f["init_raw"] <= f["middle_raw"] /\ f["middle_raw"] <= w
  /\ q \in BackAgain \cup {"middle_boot", "middle_real", "set2"} =>
       f["init_mono"] <= f["middle_mono"] /\ f["middle_mono"] <= C!Micros(w)
  /\ q \in {"final_boot", "final_raw", "restore"} => f["middle_mono"] <= f["final_mono"]
  /\ q = "restore" => f["middle_raw"] <= f["final_raw"]

\* The readings of the clock that is set: it was set after the reading of the raw clock
\* before, and read before the next one.
SetReadings(w, a, q, f, s) ==
  /\ q \in Forward =>
       /\ Whole(f["set1"])
       /\ f["init_raw"] <= f["set1"] + s.skew - a /\ f["set1"] + s.skew - a <= w
  /\ q \in BackAgain \cup (Forward \ {"first_real"}) =>
       /\ s.skew - Gran < f["first_real"] - f["set1"]
       /\ s.skew = 0 => f["set1"] <= f["first_real"]
  /\ q = "middle_raw" => f["first_real"] - f["set1"] - s.skew <= w - f["init_raw"]
  /\ q \in BackAgain \cup {"middle_mono", "middle_boot", "middle_real", "set2"} =>
       f["first_real"] - f["set1"] - s.skew <= f["middle_raw"] - f["init_raw"]
  /\ q \in BackAgain =>
       /\ Whole(f["set2"])
       /\ f["middle_raw"] <= f["set2"] + s.skew - a /\ f["set2"] + s.skew - a <= w
  /\ q \in {"final_mono", "final_boot", "final_raw", "restore"} /\ s.skew = 0 =>
       /\ f["set2"] <= f["second_real"]
       /\ f["second_real"] - f["set2"] <= (IF q = "restore" THEN f["final_raw"] ELSE w) - f["middle_raw"]

\* A time at which a step forward is to happen; u is behind t by half a step, or by less.
Phase(b, e) == b \in Int /\ b % Cycle = ((e - 1) * (Cycle \div 2)) % Cycle
Before(t, e) ==
  \E b \in Int : Phase(b, e) /\ t + Bump \div 2 - Limit < b /\ b <= t + Bump \div 2
Crosses(t, u, e) == \E b \in Int : Phase(b, e) /\ t < b /\ b <= u
Soon(w, f) == w - f["aligned"] <= Bump \div 2 - Limit

Crossing(w, q, f, s) ==
  /\ q \in {"save"} \cup Starts /\ s.extra > 0 =>
       f["aligned"] <= w /\ Before(C!Micros(f["aligned"] + Lead), s.extra)
  /\ q = "set1" /\ s.extra > 0 /\ Soon(w, f) => Crosses(f["init_real"], f["init_real"] + Bump, s.extra)
  /\ q \in {"align", "save"} \cup Starts => f["set1"] = 0
  /\ f["set1"] # 0 /\ s.extra > 0 /\ Soon(w, f) => Crosses(f["init_real"], f["set1"], s.extra)

\* The calls of do_test, as long as it runs.
TestState(w, a, q, f, o, s, l) ==
  /\ ClockType(w, a, q, f, o, s, l)
  /\ PlaceOfClock(w, a, q, f, o, s, l)
  /\ SteadyReadings(w, q, f)
  /\ SetReadings(w, a, q, f, s)
  /\ Crossing(w, q, f, s)

\* What is left once a mach clock gave 0: the step forward crosses its boundary all the same.
Unread(x) == "unread" \in x
LooseState(w, a, q, f, o, s, l) ==
  /\ ClockType(w, a, q, f, o, s, l)
  /\ q \in Starts => a = Lead
  /\ q \notin {"align", "save"}
  /\ Crossing(w, q, f, s)

ClockInv ==
  /\ IF Unread(excuse) THEN LooseState(raw, ahead, cpc, info, orig, opts, lags)
     ELSE TestState(raw, ahead, cpc, info, orig, opts, lags)
  /\ cpc # "done" => excuse \subseteq {"unread"} /\ verdict = "none"
  /\ C!ClockPutBack /\ C!VerdictRight

-----------------------------------------------------------------------------
\* A clock is read by q, the next call is p, and the reading is v.
Reading(q, p, w, a, v) ==
  \/ q = "init_raw" /\ p = "init_mono" /\ v = w
  \/ q = "init_mono" /\ p \in {"init_boot", "init_real"} /\ v = C!Micros(w)
  \/ q = "init_boot" /\ p = "init_real" /\ v = 0
  \/ q = "init_real" /\ p = "set1" /\ v = C!Micros(w + a)
  \/ q = "first_real" /\ p = "middle_raw" /\ v = C!Micros(w + a)
  \/ q = "middle_raw" /\ p = "middle_mono" /\ v = w
  \/ q = "middle_mono" /\ p \in {"middle_boot", "middle_real"} /\ v = C!Micros(w)
  \/ q = "middle_boot" /\ p = "middle_real" /\ v = 0
  \/ q = "middle_real" /\ p = "set2" /\ v = C!Micros(w + a)
  \/ q = "second_real" /\ p = "final_mono" /\ v = C!Micros(w + a)
  \/ q = "final_mono" /\ p \in {"final_boot", "final_raw"} /\ v = C!Micros(w)
  \/ q = "final_boot" /\ p = "final_raw" /\ v = 0
  \/ q = "final_raw" /\ p = "restore" /\ v = w

HasRead(g, f, q, v) ==
  /\ g \in [Calls \cup {"aligned"} -> Int] /\ g[q] = v
  /\ \A r \in (Calls \cup {"aligned"}) \ {q} : g[r] = f[r]

LEMMA ReadSteady ==
  ASSUME NEW w, NEW a, NEW q, NEW f, NEW o, NEW s, NEW l, NEW p, NEW g, NEW v,
         ClockType(w, a, q, f, o, s, l), SteadyReadings(w, q, f),
         Reading(q, p, w, a, v), HasRead(g, f, q, v)
  PROVE  SteadyReadings(w, p, g)
<1>1. PICK m \in Int : m = C!Micros(w)
  BY MicrosIs DEF ClockType
<1>2. w \in Int /\ f \in [Calls \cup {"aligned"} -> Int]
  BY DEF ClockType
<1>3. CASE q \in {"init_raw", "init_mono", "init_boot", "init_real"}
  BY <1>1, <1>2, <1>3 DEF Reading, HasRead, SteadyReadings, Calls, Starts, Forward, BackAgain
<1>4. CASE q \in {"first_real", "middle_raw"}
  BY <1>1, <1>2, <1>4 DEF Reading, HasRead, SteadyReadings, Calls, Starts, Forward, BackAgain
<1>5. CASE q \in {"middle_mono", "middle_boot", "middle_real"}
  BY <1>1, <1>2, <1>5 DEF Reading, HasRead, SteadyReadings, Calls, Starts, Forward, BackAgain
<1>6. CASE q \in {"second_real", "final_mono", "final_boot", "final_raw"}
  BY <1>1, <1>2, <1>6 DEF Reading, HasRead, SteadyReadings, Calls, Starts, Forward, BackAgain
<1> QED BY <1>3, <1>4, <1>5, <1>6 DEF Reading

LEMMA ReadPlace ==
  ASSUME NEW w, NEW a, NEW q, NEW f, NEW o, NEW s, NEW l, NEW p, NEW g, NEW v,
         ClockType(w, a, q, f, o, s, l), PlaceOfClock(w, a, q, f, o, s, l),
         Reading(q, p, w, a, v), HasRead(g, f, q, v)
  PROVE  PlaceOfClock(w, a, p, g, o, s, l)
<1>1. PICK m \in Int : m = C!Micros(w + a)
  BY MicrosIs DEF ClockType
<1>2. /\ w \in Int /\ a \in Int /\ l \in Nat /\ o.tv \in Int /\ s.skew \in Int
      /\ f \in [Calls \cup {"aligned"} -> Int]
      /\ Lead \in Int /\ Bump \in Int /\ Gran \in Int /\ Gran > 0
  BY ClockAssumption DEF ClockType
<1>3. Whole(m) /\ m <= w + a /\ w + a < m + Gran
  BY <1>1, <1>2, MicrosIs
<1>4. CASE q \in {"init_raw", "init_mono", "init_boot"}
  BY <1>2, <1>4 DEF Reading, HasRead, PlaceOfClock, Behind, Calls, Starts, Forward, BackAgain
<1>5. CASE q = "init_real"
  BY <1>1, <1>2, <1>3, <1>5 DEF Reading, HasRead, PlaceOfClock, Behind, Calls, Starts, Forward, BackAgain
<1>6. CASE q \in {"first_real", "middle_raw", "middle_mono", "middle_boot"}
  BY <1>2, <1>6 DEF Reading, HasRead, PlaceOfClock, Calls, Starts, Forward, BackAgain
<1>7. CASE q = "middle_real"
  BY <1>1, <1>2, <1>3, <1>7 DEF Reading, HasRead, PlaceOfClock, Behind, Calls, Starts, Forward, BackAgain
<1>8. CASE q \in {"second_real", "final_mono", "final_boot"}
  BY <1>2, <1>8 DEF Reading, HasRead, PlaceOfClock, Calls, Starts, Forward, BackAgain
<1>9. CASE q = "final_raw"
  <2>1. p = "restore" /\ g["final_raw"] = w /\ g["init_raw"] = f["init_raw"] /\ f["init_raw"] \in Int
    BY <1>2, <1>9 DEF Reading, HasRead, Calls, Starts, BackAgain
  <2>2. o # C!NoTime => Behind(o.tv - f["init_raw"], l + Gran - 1)
    BY <1>9 DEF PlaceOfClock, Calls, BackAgain
  <2>3. o.tv - f["init_raw"] + w - w = o.tv - f["init_raw"]
    BY <1>2, <2>1
  <2>4. /\ o # C!NoTime => Behind(o.tv - w, l + Gran - 1)
        /\ s.skew = 0 => Behind(a, l + 2 * (Gran - 1))
    BY <1>9 DEF PlaceOfClock, BackAgain
  <2> QED BY <2>1, <2>2, <2>3, <2>4 DEF PlaceOfClock, Calls, Starts, Forward, BackAgain
<1> QED BY <1>4, <1>5, <1>6, <1>7, <1>8, <1>9 DEF Reading

LEMMA ReadSet ==
  ASSUME NEW w, NEW a, NEW q, NEW f, NEW o, NEW s, NEW l, NEW p, NEW g, NEW v,
         ClockType(w, a, q, f, o, s, l), SteadyReadings(w, q, f), SetReadings(w, a, q, f, s),
         Reading(q, p, w, a, v), HasRead(g, f, q, v)
  PROVE  SetReadings(w, a, p, g, s)
<1>1. PICK m \in Int : m = C!Micros(w + a)
  BY MicrosIs DEF ClockType
<1>2. /\ w \in Int /\ a \in Int /\ s.skew \in Int /\ f \in [Calls \cup {"aligned"} -> Int]
      /\ Gran \in Int /\ Gran > 0
  BY ClockAssumption DEF ClockType
<1>3. m <= w + a /\ w + a < m + Gran
  BY <1>1, <1>2, MicrosIs
<1>4. ASSUME NEW u \in Int, Whole(u), u <= w + a PROVE u <= m
  <2>1. w + a \in Int
    BY <1>2
  <2> QED BY <1>1, <1>4, <2>1, MicrosReaches
<1>5. CASE q \in {"init_raw", "init_mono", "init_boot", "init_real"}
  BY <1>5 DEF Reading, SetReadings, Starts, Forward, BackAgain
<1>6. CASE q = "first_real"
  <2>1. /\ p = "middle_raw" /\ g["first_real"] = m
        /\ g["set1"] = f["set1"] /\ g["init_raw"] = f["init_raw"]
        /\ f["set1"] \in Int /\ f["init_raw"] \in Int
    BY <1>1, <1>2, <1>6 DEF Reading, HasRead, Calls, Starts, Forward
  <2>2. Whole(f["set1"]) /\ f["init_raw"] <= f["set1"] + s.skew - a /\ f["set1"] + s.skew - a <= w
    BY <1>6 DEF SetReadings, Forward
  <2>3. s.skew = 0 => f["set1"] <= m
    BY <1>2, <1>4, <2>1, <2>2
  <2>4. s.skew - Gran < m - f["set1"] /\ m - f["set1"] - s.skew <= w - f["init_raw"]
    BY <1>2, <1>3, <2>1, <2>2
  <2> QED BY <2>1, <2>2, <2>3, <2>4 DEF SetReadings, Forward, BackAgain
<1>7. CASE q = "middle_raw"
  BY <1>2, <1>7 DEF Reading, HasRead, SetReadings, Calls, Starts, Forward, BackAgain
<1>8. CASE q \in {"middle_mono", "middle_boot", "middle_real"}
  BY <1>2, <1>8 DEF Reading, HasRead, SetReadings, Calls, Starts, Forward, BackAgain
<1>9. CASE q = "second_real"
  <2>1. /\ p = "final_mono" /\ g["second_real"] = m
        /\ \A r \in {"set1", "set2", "init_raw", "middle_raw", "first_real"} : g[r] = f[r] /\ f[r] \in Int
    BY <1>1, <1>2, <1>9 DEF Reading, HasRead, Calls, Starts, Forward, BackAgain
  <2>2. Whole(f["set2"]) /\ f["middle_raw"] <= f["set2"] + s.skew - a /\ f["set2"] + s.skew - a <= w
    BY <1>9 DEF SetReadings, BackAgain
  <2>3. s.skew = 0 => f["set2"] <= m /\ m - f["set2"] <= w - f["middle_raw"]
    BY <1>2, <1>3, <1>4, <2>1, <2>2
  <2> QED BY <1>9, <2>1, <2>2, <2>3 DEF SetReadings, Forward, BackAgain
<1>10. CASE q \in {"final_mono", "final_boot"}
  BY <1>2, <1>10 DEF Reading, HasRead, SetReadings, Calls, Starts, Forward, BackAgain
<1>11. CASE q = "final_raw"
  BY <1>2, <1>11 DEF Reading, HasRead, SetReadings, Calls, Starts, Forward, BackAgain
<1> QED BY <1>5, <1>6, <1>7, <1>8, <1>9, <1>10, <1>11 DEF Reading

LEMMA ReadCrossing ==
  ASSUME NEW w, NEW a, NEW q, NEW f, NEW o, NEW s, NEW l, NEW p, NEW g, NEW v,
         ClockType(w, a, q, f, o, s, l), q \in Starts => a = Lead, Crossing(w, q, f, s),
         Reading(q, p, w, a, v), HasRead(g, f, q, v)
  PROVE  Crossing(w, p, g, s)
<1>1. g["aligned"] = f["aligned"] /\ g["set1"] = f["set1"]
  BY DEF Reading, HasRead, Calls, Starts
<1>2. CASE q \in {"init_raw", "init_mono", "init_boot"}
  BY <1>1, <1>2 DEF Reading, Crossing, Soon, Starts
<1>3. CASE q = "init_real"
  <2>1. p = "set1" /\ v = C!Micros(w + a) /\ g["init_real"] = v /\ a = Lead /\ f["set1"] = 0
    BY <1>3 DEF Reading, HasRead, Crossing, Starts, Calls
  <2>2. ASSUME s.extra > 0, Soon(w, g)
        PROVE  Crosses(v, v + Bump, s.extra)
    <3>1. f["aligned"] <= w /\ Before(C!Micros(f["aligned"] + Lead), s.extra)
      BY <1>3, <2>2 DEF Crossing, Starts
    <3>2. PICK t \in Int : t = C!Micros(f["aligned"] + Lead)
      BY MicrosIs, ClockAssumption DEF ClockType
    <3>3. PICK b \in Int : Phase(b, s.extra) /\ t + Bump \div 2 - Limit < b /\ b <= t + Bump \div 2
      BY <3>1, <3>2 DEF Before
    <3>4. PICK al \in Int, d \in Int : al = f["aligned"] + Lead /\ d = Bump \div 2 - Limit
      BY ClockAssumption DEF ClockType
    <3>5. /\ w \in Int /\ Lead \in Int /\ Gran \in Int /\ Gran > 0
          /\ Bump \in Nat /\ Bump \div 2 \in Nat /\ Bump \div 2 <= Bump /\ Limit \in Nat
          /\ f["aligned"] \in Int
      BY ClockAssumption DEF ClockType
    <3>6. v \in Int /\ Whole(v) /\ v <= w + Lead /\ t <= v
      <4>1. w + Lead \in Int /\ al <= w + Lead
        BY <3>1, <3>4, <3>5
      <4>2. v = C!Micros(w + Lead) /\ t = C!Micros(al)
        BY <2>1, <3>2, <3>4
      <4> QED BY <4>1, <4>2, MicrosIs, MicrosMono
    <3>7. v <= t + d
      <4>1. Whole(d)
        BY <3>4, <3>5, ConstantsWhole, WholeSum
      <4>2. Whole(t) /\ al < t + Gran
        BY <3>2, <3>4, MicrosIs
      <4>3. t + d \in Int /\ Whole(t + d)
        BY <4>1, <4>2, WholeSum
      <4>4. v < t + d + Gran
        <5>1. w - f["aligned"] <= d
          BY <1>1, <2>2, <3>4 DEF Soon
        <5> QED BY <3>4, <3>5, <3>6, <4>2, <5>1
      <4> QED BY <3>6, <4>3, <4>4, WholeStep
    <3>8. v < b /\ b <= v + Bump
      BY <3>3, <3>4, <3>5, <3>6, <3>7
    <3> QED BY <3>3, <3>8 DEF Crosses
  <2> QED BY <1>1, <1>3, <2>1, <2>2 DEF Crossing, Starts, Soon
<1>4. CASE q \in Forward \cup BackAgain
  <2>1. p \in Forward \cup BackAgain /\ g["init_real"] = f["init_real"]
    BY <1>4 DEF Reading, HasRead, Calls, Starts, Forward, BackAgain
  <2>2. p \notin {"align", "save"} \cup Starts
    BY <2>1 DEF Starts, Forward, BackAgain
  <2>3. f["set1"] # 0 /\ s.extra > 0 /\ Soon(w, f) => Crosses(f["init_real"], f["set1"], s.extra)
    BY DEF Crossing
  <2> QED BY <1>1, <2>1, <2>2, <2>3 DEF Crossing, Soon, Starts
<1> QED BY <1>2, <1>3, <1>4 DEF Reading, Forward, BackAgain

\* Reading a clock.
LEMMA ReadKeeps ==
  ASSUME NEW w, NEW a, NEW q, NEW f, NEW o, NEW s, NEW l, NEW p, NEW g, NEW v,
         TestState(w, a, q, f, o, s, l), Reading(q, p, w, a, v), HasRead(g, f, q, v)
  PROVE  TestState(w, a, p, g, o, s, l)
<1>1. p \in Calls
  BY DEF Reading, Calls, Starts, Forward, BackAgain
<1>2. ClockType(w, a, p, g, o, s, l)
  BY <1>1 DEF TestState, ClockType, HasRead
<1>3. q \in Starts => a = Lead
  BY DEF TestState, PlaceOfClock
<1> QED BY <1>2, <1>3, ReadSteady, ReadPlace, ReadSet, ReadCrossing DEF TestState

\* Time passes.
LEMMA LagKeeps ==
  ASSUME NEW w, NEW a, NEW q, NEW f, NEW o, NEW s, NEW l, NEW w2, NEW l2,
         TestState(w, a, q, f, o, s, l), w2 = w + 1, l2 = l + 1
  PROVE  TestState(w2, a, q, f, o, s, l2)
<1>1. /\ w \in Int /\ a \in Int /\ l \in Nat /\ o.tv \in Int /\ s.skew \in Int
      /\ f \in [Calls \cup {"aligned"} -> Int]
      /\ Lead \in Int /\ Bump \in Int /\ Gran \in Int
  BY ClockAssumption DEF TestState, ClockType
<1>2. ClockType(w2, a, q, f, o, s, l2)
  BY <1>1 DEF TestState, ClockType
<1>3. PlaceOfClock(w2, a, q, f, o, s, l2)
  <2>1. o # C!NoTime => Behind(o.tv - w2, l2 + Gran - 1)
    BY <1>1 DEF TestState, PlaceOfClock, Behind
  <2>2. o # C!NoTime /\ q \in Calls \ {"init_raw"} => Behind(o.tv - f["init_raw"], l2 + Gran - 1)
    BY <1>1 DEF TestState, PlaceOfClock, Behind
  <2>3. q = "set1" => Whole(f["init_real"]) /\ Behind(f["init_real"] - w2, l2 + Gran - 1)
    <3>1. f["init_real"] \in Int
      BY <1>1 DEF Calls, Starts
    <3> QED BY <1>1, <3>1 DEF TestState, PlaceOfClock, Behind
  <2>4. s.skew = 0 /\ q \in Forward => Behind(a - Bump, l2 + Gran - 1)
    BY <1>1 DEF TestState, PlaceOfClock, Behind
  <2>5. s.skew = 0 /\ q = "set2" => Behind(f["middle_real"] - Bump - w2, l2 + 2 * (Gran - 1))
    <3>1. f["middle_real"] \in Int
      BY <1>1 DEF Calls, Forward
    <3> QED BY <1>1, <3>1 DEF TestState, PlaceOfClock, Behind
  <2>6. s.skew = 0 /\ q \in BackAgain => Behind(a, l2 + 2 * (Gran - 1))
    BY <1>1 DEF TestState, PlaceOfClock, Behind
  <2>7. q = "restore" /\ o # C!NoTime => Behind(o.tv - f["init_raw"] + f["final_raw"] - w2, l2 + Gran - 1)
    <3>1. f["init_raw"] \in Int /\ f["final_raw"] \in Int
      BY <1>1 DEF Calls, Starts, BackAgain
    <3> QED BY <1>1, <3>1 DEF TestState, PlaceOfClock, Behind
  <2>8. /\ q \in {"align", "save"} \cup Starts => a = Lead
        /\ q \in {"align", "save"} => o = C!NoTime
        /\ q = "set2" => Whole(f["middle_real"])
    BY DEF TestState, PlaceOfClock
  <2> QED BY <2>1, <2>2, <2>3, <2>4, <2>5, <2>6, <2>7, <2>8 DEF PlaceOfClock
<1>4. SteadyReadings(w2, q, f)
  <2>1. PICK m \in Int, n \in Int : m = C!Micros(w) /\ n = C!Micros(w2)
    BY <1>1, MicrosIs
  <2>2. m <= n
    BY <1>1, <2>1, MicrosMono
  <2>3. f["init_mono"] \in Int /\ f["middle_mono"] \in Int /\ f["init_raw"] \in Int /\ f["middle_raw"] \in Int
    BY <1>1 DEF Calls, Starts, Forward
  <2> QED BY <1>1, <2>1, <2>2, <2>3 DEF TestState, SteadyReadings
<1>5. SetReadings(w2, a, q, f, s)
  <2>1. \A r \in {"set1", "set2", "init_raw", "middle_raw", "first_real", "second_real"} : f[r] \in Int
    BY <1>1 DEF Calls, Starts, Forward, BackAgain
  <2> QED BY <1>1, <2>1 DEF TestState, SetReadings
<1>6. Crossing(w2, q, f, s)
  <2>1. f["aligned"] \in Int /\ Bump \div 2 \in Int /\ Limit \in Int
    BY <1>1, ClockAssumption
  <2>2. Soon(w2, f) => Soon(w, f)
    BY <1>1, <2>1 DEF Soon
  <2>3. f["aligned"] <= w => f["aligned"] <= w2
    BY <1>1, <2>1
  <2> QED BY <2>2, <2>3 DEF TestState, Crossing
<1> QED BY <1>2, <1>3, <1>4, <1>5, <1>6 DEF TestState

\* do_test ends, or undoes what it did.
LEMMA LeaveKeeps ==
  ASSUME NEW w, NEW a, NEW q, NEW f, NEW o, NEW s, NEW l, NEW p \in {"undo", "done"}, NEW b \in Int,
         TestState(w, a, q, f, o, s, l)
  PROVE  TestState(w, b, p, f, o, s, l)
<1>1. ClockType(w, b, p, f, o, s, l)
  BY DEF TestState, ClockType
<1>2. p \notin Calls \cup {"align", "save"}
  BY DEF Calls, Starts, Forward, BackAgain
<1>3. PlaceOfClock(w, b, p, f, o, s, l)
  BY <1>2 DEF TestState, PlaceOfClock, Calls, Starts, Forward, BackAgain
<1>4. SteadyReadings(w, p, f)
  BY <1>2 DEF SteadyReadings, Calls, Starts, Forward, BackAgain
<1>5. SetReadings(w, b, p, f, s)
  BY <1>2 DEF SetReadings, Calls, Starts, Forward, BackAgain
<1>6. Crossing(w, p, f, s)
  BY <1>2 DEF TestState, Crossing, Calls, Starts, Forward, BackAgain
<1> QED BY <1>1, <1>3, <1>4, <1>5, <1>6 DEF TestState

\* gettimeofday.
LEMMA SaveKeeps ==
  ASSUME NEW w, NEW a, NEW f, NEW o, NEW s, NEW l, NEW o2,
         TestState(w, a, "save", f, o, s, l),
         o2 = C!NoTime \/ o2 = [tv |-> C!Micros(w + a), at |-> w]
  PROVE  TestState(w, a, "init_raw", f, o2, s, l)
<1>1. /\ w \in Int /\ a \in Int /\ l \in Nat /\ Lead \in Int /\ Gran \in Int /\ a = Lead
  BY ClockAssumption DEF TestState, ClockType, PlaceOfClock
<1>2. PICK m \in Int : m = C!Micros(w + a)
  BY <1>1, MicrosIs
<1>3. m <= w + a /\ w + a < m + Gran
  BY <1>1, <1>2, MicrosIs
<1>4. o2.tv \in Int /\ (o2 # C!NoTime => o2.tv = m)
  BY <1>2 DEF C!NoTime
<1>5. ClockType(w, a, "init_raw", f, o2, s, l)
  BY <1>4 DEF TestState, ClockType, Calls, Starts
<1>6. o2 # C!NoTime => Behind(o2.tv - w, l + Gran - 1)
  BY <1>1, <1>3, <1>4 DEF Behind
<1>7. PlaceOfClock(w, a, "init_raw", f, o2, s, l)
  BY <1>1, <1>6 DEF PlaceOfClock, Starts, Forward, BackAgain
<1>8. SteadyReadings(w, "init_raw", f) /\ SetReadings(w, a, "init_raw", f, s)
  BY DEF SteadyReadings, SetReadings, Forward, BackAgain
<1>9. Crossing(w, "init_raw", f, s)
  BY DEF TestState, Crossing, Starts
<1> QED BY <1>5, <1>7, <1>8, <1>9 DEF TestState

\* The clock forward.
LEMMA SetKeeps ==
  ASSUME NEW w, NEW a, NEW f, NEW o, NEW s, NEW l, NEW g, NEW t, NEW b,
         TestState(w, a, "set1", f, o, s, l),
         t = f["init_real"] + Bump, b = C!Micros(t) + s.skew - w, HasRead(g, f, "set1", t)
  PROVE  TestState(w, b, "first_real", g, o, s, l)
<1>1. /\ w \in Int /\ l \in Nat /\ o.tv \in Int /\ s.skew \in Int
      /\ f \in [Calls \cup {"aligned"} -> Int] /\ Bump \in Int
  BY ClockAssumption DEF TestState, ClockType
<1>2. /\ g["set1"] = t /\ \A r \in {"init_raw", "init_mono", "init_real", "aligned"} : g[r] = f[r] /\ f[r] \in Int
  BY <1>1 DEF HasRead, Calls, Starts
<1>3. Whole(f["init_real"]) /\ Behind(f["init_real"] - w, l + Gran - 1)
  BY DEF TestState, PlaceOfClock
<1>4. t \in Int /\ Whole(t) /\ C!Micros(t) = t
  <2>1. PICK u \in Int : u = f["init_real"]
    BY <1>2
  <2>2. Whole(u) /\ Whole(Bump)
    BY <1>3, <2>1, ConstantsWhole
  <2>3. Whole(u + Bump) /\ u + Bump \in Int
    BY <1>1, <2>2, WholeSum
  <2>4. t \in Int /\ Whole(t)
    BY <2>1, <2>3
  <2> QED BY <2>4, MicrosWhole
<1>5. b = t + s.skew - w /\ b \in Int
  BY <1>1, <1>4
<1>6. ClockType(w, b, "first_real", g, o, s, l)
  BY <1>5 DEF TestState, ClockType, HasRead, Calls, Forward
<1>7. PlaceOfClock(w, b, "first_real", g, o, s, l)
  <2>1. s.skew = 0 => b - Bump = f["init_real"] - w
    BY <1>1, <1>2, <1>5
  <2>2. s.skew = 0 => Behind(b - Bump, l + Gran - 1)
    BY <1>3, <2>1
  <2>3. /\ o # C!NoTime => Behind(o.tv - w, l + Gran - 1)
        /\ o # C!NoTime => Behind(o.tv - f["init_raw"], l + Gran - 1)
    BY DEF TestState, PlaceOfClock, Calls, Starts
  <2> QED BY <1>2, <2>2, <2>3 DEF PlaceOfClock, Starts, BackAgain
<1>8. SteadyReadings(w, "first_real", g)
  BY <1>2 DEF TestState, SteadyReadings, Calls, Starts, Forward, BackAgain
<1>9. SetReadings(w, b, "first_real", g, s)
  <2>1. t + s.skew - b = w
    BY <1>1, <1>4, <1>5
  <2>2. f["init_raw"] <= w
    BY DEF TestState, SteadyReadings, Calls, Starts
  <2> QED BY <1>1, <1>2, <1>4, <2>1, <2>2 DEF SetReadings, Forward, BackAgain
<1>10. Crossing(w, "first_real", g, s)
  BY <1>2 DEF TestState, Crossing, Soon, Starts
<1> QED BY <1>6, <1>7, <1>8, <1>9, <1>10 DEF TestState

\* The clock back.
LEMMA SetBackKeeps ==
  ASSUME NEW w, NEW a, NEW f, NEW o, NEW s, NEW l, NEW g, NEW t, NEW b,
         TestState(w, a, "set2", f, o, s, l),
         t = f["middle_real"] - Bump, b = C!Micros(t) + s.skew - w, HasRead(g, f, "set2", t)
  PROVE  TestState(w, b, "second_real", g, o, s, l)
<1>1. /\ w \in Int /\ l \in Nat /\ o.tv \in Int /\ s.skew \in Int
      /\ f \in [Calls \cup {"aligned"} -> Int] /\ Bump \in Int
  BY ClockAssumption DEF TestState, ClockType
<1>2. /\ g["set2"] = t
      /\ \A r \in {"init_raw", "init_mono", "init_real", "set1", "first_real", "middle_raw", "middle_mono",
                   "middle_real", "aligned"} : g[r] = f[r] /\ f[r] \in Int
  BY <1>1 DEF HasRead, Calls, Starts, Forward
<1>3. /\ Whole(f["middle_real"])
      /\ s.skew = 0 => Behind(f["middle_real"] - Bump - w, l + 2 * (Gran - 1))
  BY DEF TestState, PlaceOfClock
<1>4. t \in Int /\ Whole(t) /\ C!Micros(t) = t
  <2>1. PICK u \in Int : u = f["middle_real"]
    BY <1>2
  <2>2. Whole(u) /\ Whole(Bump)
    BY <1>3, <2>1, ConstantsWhole
  <2>3. Whole(u - Bump) /\ u - Bump \in Int
    BY <1>1, <2>2, WholeSum
  <2>4. t \in Int /\ Whole(t)
    BY <2>1, <2>3
  <2> QED BY <2>4, MicrosWhole
<1>5. b = t + s.skew - w /\ b \in Int
  BY <1>1, <1>4
<1>6. ClockType(w, b, "second_real", g, o, s, l)
  BY <1>5 DEF TestState, ClockType, HasRead, Calls, BackAgain
<1>7. PlaceOfClock(w, b, "second_real", g, o, s, l)
  <2>1. s.skew = 0 => b = f["middle_real"] - Bump - w
    BY <1>1, <1>2, <1>5
  <2>2. s.skew = 0 => Behind(b, l + 2 * (Gran - 1))
    BY <1>3, <2>1
  <2>3. /\ o # C!NoTime => Behind(o.tv - w, l + Gran - 1)
        /\ o # C!NoTime => Behind(o.tv - f["init_raw"], l + Gran - 1)
    BY DEF TestState, PlaceOfClock, Calls, Forward
  <2> QED BY <1>2, <2>2, <2>3 DEF PlaceOfClock, Starts, Forward
<1>8. SteadyReadings(w, "second_real", g)
  BY <1>2 DEF TestState, SteadyReadings, Calls, Starts, Forward, BackAgain
<1>9. SetReadings(w, b, "second_real", g, s)
  <2>1. t + s.skew - b = w
    BY <1>1, <1>4, <1>5
  <2>2. f["middle_raw"] <= w
    BY DEF TestState, SteadyReadings
  <2>3. /\ s.skew - Gran < f["first_real"] - f["set1"]
        /\ s.skew = 0 => f["set1"] <= f["first_real"]
        /\ f["first_real"] - f["set1"] - s.skew <= f["middle_raw"] - f["init_raw"]
    BY DEF TestState, SetReadings, Forward
  <2> QED BY <1>1, <1>2, <1>4, <2>1, <2>2, <2>3 DEF SetReadings, Forward, BackAgain
<1>10. Crossing(w, "second_real", g, s)
  BY <1>2 DEF TestState, Crossing, Soon, Starts
<1> QED BY <1>6, <1>7, <1>8, <1>9, <1>10 DEF TestState

\* The wait for a boundary ends half a step before it.
LEMMA FoundIsBefore ==
  ASSUME NEW e \in Nat, NEW m \in Int,
         m % Cycle >= C!Target(e), m % Cycle < (C!Target(e) + Limit) % Cycle
  PROVE  Before(m, e)
<1>1. Cycle \in Nat \ {0} /\ Limit \in Nat /\ Limit < Cycle
  BY ClockAssumption
<1>2. PICK h \in Int : h = Bump \div 2
  BY ClockAssumption
<1>3. PICK x \in Int : x = (e - 1) * (Cycle \div 2)
  BY <1>1
<1>4. PICK k \in Int, d \in 0 .. Cycle - 1 : m % Cycle = d /\ m = k * Cycle + d
  BY <1>1, Remainder
<1>5. PICK n \in Int, t \in 0 .. Cycle - 1 :
        (Cycle + x - h) % Cycle = t /\ Cycle + x - h = n * Cycle + t
  <2>1. Cycle + x - h \in Int
    BY <1>1
  <2> QED BY <1>1, <2>1, Remainder
<1>6. C!Target(e) = t
  BY <1>2, <1>3, <1>5 DEF C!Target
<1>7. t <= d /\ d < (t + Limit) % Cycle
  BY <1>4, <1>6
<1>8. d < t + Limit
  <2>1. CASE t + Limit < Cycle
    <3>1. PICK r \in 0 .. Cycle - 1 : r = t + Limit
      BY <1>1, <2>1
    <3>2. (0 * Cycle + r) % Cycle = r
      BY <1>1, RemainderIs
    <3>3. 0 * Cycle + r = t + Limit
      BY <1>1, <3>1
    <3> QED BY <1>7, <3>1, <3>2, <3>3
  <2>2. CASE t + Limit >= Cycle
    <3>1. PICK r \in 0 .. Cycle - 1 : r = t + Limit - Cycle
      BY <1>1, <2>2
    <3>2. (1 * Cycle + r) % Cycle = r
      BY <1>1, RemainderIs
    <3>3. 1 * Cycle + r = t + Limit
      BY <1>1, <3>1
    <3>4. d < r
      BY <1>7, <3>2, <3>3
    <3> QED BY <1>1, <1>7, <3>1, <3>4
  <2> QED BY <1>1, <2>1, <2>2
<1>9. PICK kc \in Int, nc \in Int : kc = k * Cycle /\ nc = n * Cycle
  BY <1>1
<1>10. PICK b \in Int : b = kc + t + h
  BY <1>2
<1>11. m + h - Limit < b /\ b <= m + h
  BY <1>1, <1>4, <1>7, <1>8, <1>9, <1>10
<1>12. b % Cycle = x % Cycle
  <2>1. PICK j \in Int : j = k + 1 - n
    OBVIOUS
  <2>2. j * Cycle = kc + Cycle - nc
    BY <1>1, <1>9, <2>1
  <2>3. b = x + j * Cycle
    BY <1>1, <1>5, <1>9, <1>10, <2>2
  <2> QED BY <1>1, <2>3, CycleMore
<1>13. Phase(b, e)
  BY <1>3, <1>12 DEF Phase
<1> QED BY <1>2, <1>10, <1>11, <1>13 DEF Before

\* The wait for a boundary.
LEMMA AlignKeeps ==
  ASSUME NEW w, NEW a, NEW f, NEW o, NEW s, NEW l, NEW g, NEW w2 \in Int, NEW p \in {"align", "save"},
         TestState(w, a, "align", f, o, s, l), HasRead(g, f, "aligned", w),
         p = "save" => /\ w2 = w
                       /\ \/ s.extra = 0
                          \/ /\ C!Micros(w + a) % Cycle >= C!Target(s.extra)
                             /\ C!Micros(w + a) % Cycle < (C!Target(s.extra) + Limit) % Cycle
  PROVE  TestState(w2, a, p, g, o, s, l)
<1>1. w \in Int /\ a \in Int /\ s.extra \in Nat /\ a = Lead /\ o = C!NoTime
  BY DEF TestState, ClockType, PlaceOfClock
<1>2. g["aligned"] = w /\ g["set1"] = f["set1"] /\ f["set1"] = 0
  BY DEF HasRead, TestState, Crossing, Calls, Starts
<1>3. ClockType(w2, a, p, g, o, s, l)
  BY DEF TestState, ClockType, HasRead
<1>4. PlaceOfClock(w2, a, p, g, o, s, l)
  BY <1>1 DEF PlaceOfClock, Calls, Starts, Forward, BackAgain
<1>5. SteadyReadings(w2, p, g) /\ SetReadings(w2, a, p, g, s)
  BY DEF SteadyReadings, SetReadings, Calls, Starts, Forward, BackAgain
<1>6. ASSUME p = "save", s.extra > 0
      PROVE  w <= w2 /\ Before(C!Micros(w + Lead), s.extra)
  <2>1. PICK e \in Nat, m \in Int : e = s.extra /\ m = C!Micros(w + Lead)
    BY <1>1, MicrosIs
  <2>2. /\ C!Micros(w + a) % Cycle >= C!Target(s.extra)
        /\ C!Micros(w + a) % Cycle < (C!Target(s.extra) + Limit) % Cycle
    BY <1>1, <1>6
  <2>3. m % Cycle >= C!Target(e) /\ m % Cycle < (C!Target(e) + Limit) % Cycle
    BY <1>1, <2>1, <2>2, Zenon
  <2>4. Before(m, e)
    BY <2>3, FoundIsBefore
  <2> QED BY <1>1, <1>6, <2>1, <2>4
<1>7. Crossing(w2, p, g, s)
  BY <1>2, <1>6 DEF Crossing, Starts
<1> QED BY <1>3, <1>4, <1>5, <1>7 DEF TestState

-----------------------------------------------------------------------------
\* What is asked of the clock and of the verdict in the end.
PutRight(a, l) == a <= Lead /\ a >= Lead - l - 2 * (Gran - 1)
PassedBy(f) ==
  /\ C!Plausible(f["middle_raw"] - f["init_raw"], f["first_real"] - f["set1"])
  /\ C!Plausible(f["final_raw"] - f["middle_raw"], f["second_real"] - f["set2"])
  /\ f["init_mono"] <= f["middle_mono"] /\ f["middle_mono"] <= f["final_mono"]
Miss(s) == IF s.skew < 0 THEN -s.skew ELSE s.skew
SmallMiss(f, s) == Miss(s) <= 2 * (f["final_raw"] - f["init_raw"]) + Fudge + Gran

LEMMA BehindIsRight ==
  ASSUME NEW a, NEW l \in Nat, Behind(a, l + Gran - 1) \/ Behind(a, l + 2 * (Gran - 1))
  PROVE  PutRight(a, l)
BY ClockAssumption DEF Behind, PutRight

LEMMA LeadIsRight ==
  ASSUME NEW l \in Nat PROVE PutRight(Lead, l)
BY ClockAssumption DEF PutRight

LEMMA RestoreIsRight ==
  ASSUME NEW w, NEW a, NEW f, NEW o, NEW s, NEW l, TestState(w, a, "restore", f, o, s, l), o # C!NoTime
  PROVE  PutRight((o.tv + C!Micros(f["final_raw"] - f["init_raw"])) - w, l)
<1>1. /\ w \in Int /\ l \in Nat /\ o.tv \in Int /\ f["final_raw"] \in Int /\ f["init_raw"] \in Int
      /\ Lead \in Int /\ Gran \in Int /\ Gran > 0
  BY ClockAssumption DEF TestState, ClockType, Calls, Starts, BackAgain
<1>2. Behind(o.tv - f["init_raw"] + f["final_raw"] - w, l + Gran - 1)
  BY DEF TestState, PlaceOfClock
<1>3. PICK t \in Int : t = f["final_raw"] - f["init_raw"]
  BY <1>1
<1>4. PICK m \in Int : m = C!Micros(t) /\ m <= t /\ t < m + Gran
  BY MicrosIs
<1>5. PutRight((o.tv + m) - w, l)
  BY <1>1, <1>2, <1>3, <1>4 DEF Behind, PutRight
<1> QED BY <1>3, <1>4, <1>5

LEMMA PassedIsRight ==
  ASSUME NEW w, NEW a, NEW f, NEW o, NEW s, NEW l, TestState(w, a, "restore", f, o, s, l), PassedBy(f)
  PROVE  SmallMiss(f, s)
<1>1. /\ \A r \in {"init_raw", "set1", "first_real", "middle_raw", "final_raw"} : f[r] \in Int
      /\ s.skew \in Int /\ Gran \in Int /\ Gran > 0 /\ Fudge \in Nat
  BY ClockAssumption DEF TestState, ClockType, Calls, Starts, Forward, BackAgain
<1>2. PICK d \in Int, x \in Int, y \in Int :
        /\ x = f["middle_raw"] - f["init_raw"] /\ y = f["final_raw"] - f["middle_raw"]
        /\ d = f["first_real"] - f["set1"]
  BY <1>1
<1>3. /\ s.skew - Gran < d /\ d - s.skew <= x /\ 0 <= y
  BY <1>1, <1>2 DEF TestState, SteadyReadings, SetReadings, BackAgain
<1>4. d <= x + Fudge /\ -d <= x + Fudge /\ x >= 0
  BY <1>2 DEF PassedBy, C!Plausible
<1>5. f["final_raw"] - f["init_raw"] = x + y
  BY <1>1, <1>2
<1>6. PICK k \in Int : k = s.skew
  BY <1>1
<1>7. k <= 2 * (x + y) + Fudge + Gran /\ -k <= 2 * (x + y) + Fudge + Gran
  BY <1>1, <1>3, <1>4, <1>6
<1> QED BY <1>5, <1>6, <1>7 DEF SmallMiss, Miss

LEMMA FailedIsRight ==
  ASSUME NEW w, NEW a, NEW f, NEW o, NEW s, NEW l, TestState(w, a, "restore", f, o, s, l), ~PassedBy(f)
  PROVE  Miss(s) # 0
<1>1. /\ \A r \in Calls : f[r] \in Int
      /\ s.skew \in Int /\ Fudge \in Nat
  BY ClockAssumption DEF TestState, ClockType
<1>2. SUFFICES ASSUME s.skew = 0 PROVE FALSE
  BY <1>1 DEF Miss
<1>3. /\ f["init_raw"] <= f["middle_raw"] /\ f["middle_raw"] <= f["final_raw"]
      /\ f["init_mono"] <= f["middle_mono"] /\ f["middle_mono"] <= f["final_mono"]
  BY DEF TestState, SteadyReadings, BackAgain
<1>4. /\ f["set1"] <= f["first_real"] /\ f["first_real"] - f["set1"] - 0 <= f["middle_raw"] - f["init_raw"]
      /\ f["set2"] <= f["second_real"] /\ f["second_real"] - f["set2"] <= f["final_raw"] - f["middle_raw"]
  BY <1>2 DEF TestState, SetReadings, BackAgain
<1>5. ASSUME NEW x \in Int, NEW y \in Int, 0 <= y, y <= x PROVE C!Plausible(x, y)
  BY <1>1, <1>5 DEF C!Plausible
<1>6. \A r \in {"init_raw", "set1", "first_real", "middle_raw", "final_raw", "set2", "second_real"} : f[r] \in Int
  BY <1>1 DEF Calls, Starts, Forward, BackAgain
<1>7. C!Plausible(f["middle_raw"] - f["init_raw"], f["first_real"] - f["set1"])
  BY <1>4, <1>5, <1>6
<1>8. C!Plausible(f["final_raw"] - f["middle_raw"], f["second_real"] - f["set2"])
  BY <1>4, <1>5, <1>6
<1> QED BY <1>3, <1>7, <1>8 DEF PassedBy

-----------------------------------------------------------------------------
LEMMA ReadingsAre ==
  /\ DOMAIN C!Readings = 1 .. 16
  /\ {C!Readings[i] : i \in DOMAIN C!Readings} = Calls
<1>1. DOMAIN C!Readings = 1 .. 16
  BY DEF C!Readings
<1>2. \A i \in 1 .. 16 : C!Readings[i] \in Calls
  BY DEF C!Readings, Calls, Starts, Forward, BackAgain
<1>3. ASSUME NEW r \in Calls PROVE \E i \in 1 .. 16 : C!Readings[i] = r
  BY DEF C!Readings, Calls, Starts, Forward, BackAgain
<1> QED BY <1>1, <1>2, <1>3

\* A call has one place among the calls.
LEMMA AfterIs ==
  ASSUME NEW q, NEW i \in 1 .. 15, q = C!Readings[i],
         NEW x, x = C!Readings[i + 1], NEW y, y = C!Readings[i + 2]
  PROVE  \/ C!After(q) = x
         \/ x \in C!Boots /\ C!After(q) = y
<1>1. \A j \in DOMAIN C!Readings : C!Readings[j] = q => j = i
  BY DEF C!Readings
<1>2. i \in DOMAIN C!Readings
  BY ReadingsAre
<1>3. (CHOOSE j \in DOMAIN C!Readings : C!Readings[j] = q) = i
  BY <1>1, <1>2
<1>4. C!After(q) = IF C!Readings[(CHOOSE j \in DOMAIN C!Readings : C!Readings[j] = q) + 1] \in C!Boots /\ opts.extra = 0
                   THEN C!Readings[(CHOOSE j \in DOMAIN C!Readings : C!Readings[j] = q) + 2]
                   ELSE C!Readings[(CHOOSE j \in DOMAIN C!Readings : C!Readings[j] = q) + 1]
  BY Zenon DEF C!After
<1>5. C!After(q) = IF C!Readings[i + 1] \in C!Boots /\ opts.extra = 0
                   THEN C!Readings[i + 2] ELSE C!Readings[i + 1]
  BY <1>3, <1>4, Zenon
<1> QED BY <1>5

LEMMA AfterEach ==
  /\ C!After("init_raw") = "init_mono"
  /\ C!After("init_mono") \in {"init_boot", "init_real"}
  /\ C!After("init_boot") = "init_real"
  /\ C!After("init_real") = "set1"
  /\ C!After("set1") = "first_real"
  /\ C!After("first_real") = "middle_raw"
  /\ C!After("middle_raw") = "middle_mono"
  /\ C!After("middle_mono") \in {"middle_boot", "middle_real"}
  /\ C!After("middle_boot") = "middle_real"
  /\ C!After("middle_real") = "set2"
  /\ C!After("set2") = "second_real"
  /\ C!After("second_real") = "final_mono"
  /\ C!After("final_mono") \in {"final_boot", "final_raw"}
  /\ C!After("final_boot") = "final_raw"
  /\ C!After("final_raw") = "restore"
<1>1. ASSUME NEW i \in 1 .. 15
      PROVE  \/ C!After(C!Readings[i]) = C!Readings[i + 1]
             \/ C!Readings[i + 1] \in C!Boots /\ C!After(C!Readings[i]) = C!Readings[i + 2]
  BY AfterIs
<1>2. /\ C!Readings[1] = "init_raw" /\ C!Readings[2] = "init_mono" /\ C!Readings[3] = "init_boot"
      /\ C!Readings[4] = "init_real" /\ C!Readings[5] = "set1" /\ C!Readings[6] = "first_real"
      /\ C!Readings[7] = "middle_raw" /\ C!Readings[8] = "middle_mono" /\ C!Readings[9] = "middle_boot"
      /\ C!Readings[10] = "middle_real" /\ C!Readings[11] = "set2" /\ C!Readings[12] = "second_real"
      /\ C!Readings[13] = "final_mono" /\ C!Readings[14] = "final_boot" /\ C!Readings[15] = "final_raw"
      /\ C!Readings[16] = "restore"
  BY DEF C!Readings
<1>3. ASSUME NEW i \in 1 .. 15, C!Readings[i + 1] \notin {"init_boot", "middle_boot", "final_boot"}
      PROVE  C!After(C!Readings[i]) = C!Readings[i + 1]
  BY <1>1, <1>3 DEF C!Boots
<1>4. C!After("init_raw") = "init_mono" /\ C!After("init_boot") = "init_real" /\ C!After("init_real") = "set1"
  BY <1>2, <1>3
<1>5. C!After("set1") = "first_real" /\ C!After("first_real") = "middle_raw" /\ C!After("middle_raw") = "middle_mono"
  BY <1>2, <1>3
<1>6. C!After("middle_boot") = "middle_real" /\ C!After("middle_real") = "set2" /\ C!After("set2") = "second_real"
  BY <1>2, <1>3
<1>7. C!After("second_real") = "final_mono" /\ C!After("final_boot") = "final_raw" /\ C!After("final_raw") = "restore"
  BY <1>2, <1>3
<1>8. C!After("init_mono") \in {"init_boot", "init_real"}
  BY <1>1, <1>2
<1>9. C!After("middle_mono") \in {"middle_boot", "middle_real"}
  BY <1>1, <1>2
<1>10. C!After("final_mono") \in {"final_boot", "final_raw"}
  BY <1>1, <1>2
<1> QED BY <1>4, <1>5, <1>6, <1>7, <1>8, <1>9, <1>10

LEMMA ReadsAre ==
  ASSUME NEW q \in Calls \ {"set1", "set2", "restore"}
  PROVE  Reading(q, C!After(q), raw, ahead, C!Reads(q))
<1>1. CASE q \in {"init_raw", "init_mono", "init_boot", "init_real"}
  BY <1>1, AfterEach DEF C!Reads, C!TimeOfDay, Reading
<1>2. CASE q \in {"first_real", "middle_raw", "middle_mono", "middle_boot", "middle_real"}
  BY <1>2, AfterEach DEF C!Reads, C!TimeOfDay, Reading
<1>3. CASE q \in {"second_real", "final_mono", "final_boot", "final_raw"}
  BY <1>3, AfterEach DEF C!Reads, C!TimeOfDay, Reading
<1> QED BY <1>1, <1>2, <1>3 DEF Calls, Starts, Forward, BackAgain

LEMMA ClockInit == C!CInit => ClockInv
<1> SUFFICES ASSUME C!CInit PROVE ClockInv
  OBVIOUS
<1>1. /\ raw = 0 /\ ahead = Lead /\ cpc = "align" /\ lags = 0 /\ orig = C!NoTime
      /\ excuse = {} /\ verdict = "none" /\ opts \in [extra : Extras, skew : {0, Misses, -Misses}]
      /\ info = [r \in Calls \cup {"aligned"} |-> 0]
  BY ReadingsAre DEF C!CInit
<1>2. opts.skew \in Int /\ opts.extra \in Nat /\ Lead \in Int
  <2>1. opts.skew \in {0, Misses, -Misses} /\ opts.extra \in Extras
    BY <1>1
  <2>2. Misses \in Int /\ -Misses \in Int /\ Extras \subseteq Nat /\ Lead \in Int
    BY ClockAssumption
  <2>3. PICK k : k = opts.skew
    OBVIOUS
  <2>4. k = 0 \/ k = Misses \/ k = -Misses
    BY <2>1, <2>3
  <2>5. k \in Int
    BY <2>2, <2>4
  <2> QED BY <2>1, <2>2, <2>3, <2>5
<1>3. C!NoTime.tv \in Int
  BY DEF C!NoTime
<1>4. ClockType(0, Lead, "align", info, C!NoTime, opts, 0)
  BY <1>1, <1>2, <1>3 DEF ClockType
<1>5. PlaceOfClock(0, Lead, "align", info, C!NoTime, opts, 0)
  BY DEF PlaceOfClock, Calls, Starts, Forward, BackAgain
<1>6. SteadyReadings(0, "align", info) /\ SetReadings(0, Lead, "align", info, opts)
  BY DEF SteadyReadings, SetReadings, Calls, Starts, Forward, BackAgain
<1>7. info["set1"] = 0
  BY <1>1 DEF Calls, Starts
<1>8. Crossing(0, "align", info, opts)
  BY <1>7 DEF Crossing, Starts
<1>9. TestState(raw, ahead, cpc, info, orig, opts, lags)
  BY <1>1, <1>4, <1>5, <1>6, <1>8 DEF TestState
<1>10. C!ClockPutBack /\ C!VerdictRight
  BY <1>1 DEF C!ClockPutBack, C!VerdictRight
<1> QED BY <1>1, <1>9, <1>10 DEF ClockInv, Unread

\* The same, without the readings that may be 0 (LooseState).
LEMMA LooseLag ==
  ASSUME NEW w, NEW a, NEW q, NEW f, NEW o, NEW s, NEW l, NEW w2, NEW l2,
         LooseState(w, a, q, f, o, s, l), w2 = w + 1, l2 = l + 1
  PROVE  LooseState(w2, a, q, f, o, s, l2)
<1>1. w \in Int /\ l \in Nat /\ f["aligned"] \in Int /\ Bump \div 2 \in Int /\ Limit \in Int
  BY ClockAssumption DEF LooseState, ClockType
<1>2. ClockType(w2, a, q, f, o, s, l2)
  BY <1>1 DEF LooseState, ClockType
<1>3. /\ Soon(w2, f) => Soon(w, f)
      /\ f["aligned"] <= w => f["aligned"] <= w2
  BY <1>1 DEF Soon
<1>4. Crossing(w2, q, f, s)
  BY <1>3 DEF LooseState, Crossing
<1> QED BY <1>2, <1>4 DEF LooseState

LEMMA LooseRead ==
  ASSUME NEW w, NEW a, NEW q, NEW f, NEW o, NEW s, NEW l, NEW p, NEW g, NEW v,
         LooseState(w, a, q, f, o, s, l), Reading(q, p, w, a, v), HasRead(g, f, q, v)
  PROVE  LooseState(w, a, p, g, o, s, l)
<1>1. p \in Calls /\ p \notin {"align", "save"} /\ (p \in Starts => q \in Starts)
  BY DEF Reading, Calls, Starts, Forward, BackAgain
<1>2. ClockType(w, a, p, g, o, s, l)
  BY <1>1 DEF LooseState, ClockType, HasRead
<1>3. Crossing(w, p, g, s)
  BY ReadCrossing DEF LooseState
<1> QED BY <1>1, <1>2, <1>3 DEF LooseState

LEMMA UnsetKeeps ==
  ASSUME NEW w, NEW a, NEW q \in C!Unset, NEW f, NEW o, NEW s, NEW l, NEW g,
         LooseState(w, a, q, f, o, s, l), HasRead(g, f, q, 0)
  PROVE  LooseState(w, a, C!After(q), g, o, s, l)
<1>1. PICK p : p = C!After(q)
  OBVIOUS
<1>2. \/ q \in {"init_raw", "init_mono"} /\ p \in {"init_mono", "init_boot", "init_real"}
      \/ q \notin Starts /\ p \in {"middle_mono", "middle_boot", "middle_real", "final_boot", "final_raw", "restore"}
  BY <1>1, AfterEach DEF C!Unset, Starts
<1>3. p \in Calls /\ p \notin {"align", "save"} /\ (p \in Starts => q \in Starts)
  BY <1>2 DEF Calls, Starts, Forward, BackAgain
<1>4. g["aligned"] = f["aligned"] /\ g["set1"] = f["set1"] /\ g["init_real"] = f["init_real"]
  BY DEF HasRead, C!Unset, Calls, Starts
<1>5. Crossing(w, p, g, s)
  <2>1. Crossing(w, q, f, s) /\ p # "set1"
    BY <1>2 DEF LooseState
  <2> QED BY <1>3, <1>4, <2>1 DEF Crossing, Soon
<1>6. ClockType(w, a, p, g, o, s, l)
  BY <1>3 DEF LooseState, ClockType, HasRead
<1> QED BY <1>1, <1>3, <1>5, <1>6 DEF LooseState

LEMMA LooseLeave ==
  ASSUME NEW w, NEW a, NEW q, NEW f, NEW o, NEW s, NEW l, NEW p \in {"undo", "done"}, NEW b \in Int,
         LooseState(w, a, q, f, o, s, l)
  PROVE  LooseState(w, b, p, f, o, s, l)
BY DEF LooseState, ClockType, Crossing, Calls, Starts, Forward, BackAgain

LEMMA LooseSet ==
  ASSUME NEW w, NEW a, NEW q \in {"set1", "set2"}, NEW f, NEW o, NEW s, NEW l, NEW g, NEW t, NEW b \in Int,
         LooseState(w, a, q, f, o, s, l), HasRead(g, f, q, t),
         q = "set1" => t = f["init_real"] + Bump,
         NEW p, p = IF q = "set1" THEN "first_real" ELSE "second_real"
  PROVE  LooseState(w, b, p, g, o, s, l)
<1>1. p \in Calls \ Starts /\ p \notin {"align", "save"}
  BY DEF Calls, Starts, Forward, BackAgain
<1>2. ClockType(w, b, p, g, o, s, l)
  BY <1>1 DEF LooseState, ClockType, HasRead
<1>3. g["aligned"] = f["aligned"] /\ g["init_real"] = f["init_real"] /\ g[q] = t
  BY DEF HasRead, Calls, Starts, Forward
<1>4. ASSUME q = "set1" PROVE Crossing(w, p, g, s)
  <2>1. s.extra > 0 /\ Soon(w, f) => Crosses(f["init_real"], f["init_real"] + Bump, s.extra)
    BY <1>4 DEF LooseState, Crossing
  <2>2. Soon(w, g) <=> Soon(w, f)
    BY <1>3 DEF Soon
  <2>3. g["set1"] = f["init_real"] + Bump /\ g["init_real"] = f["init_real"]
    BY <1>3, <1>4
  <2>4. p = "first_real"
    BY <1>4
  <2>5. s.extra > 0 /\ Soon(w, g) => Crosses(g["init_real"], g["set1"], s.extra)
    BY <2>1, <2>2, <2>3
  <2>6. p \notin {"save"} \cup Starts /\ p # "set1" /\ p # "align"
    BY <2>4 DEF Starts
  <2> QED BY <2>5, <2>6 DEF Crossing
<1>5. ASSUME q = "set2" PROVE Crossing(w, p, g, s)
  <2>1. g["set1"] = f["set1"]
    BY <1>5 DEF HasRead, Calls, Starts
  <2> QED BY <1>1, <1>3, <1>5, <2>1 DEF LooseState, Crossing, Soon, Starts
<1>6. Crossing(w, p, g, s)
  BY <1>4, <1>5
<1> QED BY <1>1, <1>2, <1>6 DEF LooseState

\* do_test goes on.
LEMMA GoesOn ==
  ASSUME TestState(raw, ahead, cpc, info, orig, opts, lags)', cpc' # "done", excuse' = {}, verdict' = "none"
  PROVE  ClockInv'
<1>1. C!ClockPutBack' /\ C!VerdictRight'
  BY DEF C!ClockPutBack, C!VerdictRight
<1> QED BY <1>1 DEF ClockInv, Unread

\* do_test goes on, or ends, after a mach clock gave 0.
LEMMA UnreadGoesOn ==
  ASSUME LooseState(raw, ahead, cpc, info, orig, opts, lags)', Unread(excuse'),
         cpc' # "done" => excuse' = {"unread"} /\ verdict' = "none"
  PROVE  ClockInv'
<1>1. C!ClockPutBack' /\ C!VerdictRight'
  BY DEF C!ClockPutBack, C!VerdictRight, Unread
<1> QED BY <1>1 DEF ClockInv

LEMMA LooseEnd ==
  ASSUME LooseState(raw, ahead, cpc, info, orig, opts, lags), Unread(excuse), excuse \subseteq excuse',
         cpc' = "done", ahead' \in Int, UNCHANGED <<raw, info, orig, opts, lags>>
  PROVE  ClockInv'
<1>1. LooseState(raw, ahead', "done", info, orig, opts, lags)
  BY LooseLeave
<1>2. LooseState(raw, ahead, cpc, info, orig, opts, lags)'
  BY <1>1
<1> QED BY <1>2, UnreadGoesOn DEF Unread

\* do_test is at its end.
LEMMA Ends ==
  ASSUME ClockInv, ~Unread(excuse), ~Unread(excuse'), cpc' = "done", ahead' \in Int, UNCHANGED <<raw, info, orig, opts, lags>>,
         excuse' = {} => PutRight(ahead', lags),
         verdict' = "passed" => SmallMiss(info, opts), verdict' = "failed" => Miss(opts) # 0
  PROVE  ClockInv'
<1>1. TestState(raw, ahead, cpc, info, orig, opts, lags)
  BY DEF ClockInv
<1>2. TestState(raw, ahead', "done", info, orig, opts, lags)
  BY <1>1, LeaveKeeps
<1>3. TestState(raw, ahead, cpc, info, orig, opts, lags)'
  BY <1>2
<1>4. C!ClockPutBack'
  BY DEF C!ClockPutBack, PutRight
<1>5. C!VerdictRight'
  BY DEF C!VerdictRight, SmallMiss, Miss
<1>6. cpc' = "done"
  OBVIOUS
<1> QED BY <1>3, <1>4, <1>5, <1>6 DEF ClockInv

LEMMA HasReadIs ==
  ASSUME NEW f \in [Calls \cup {"aligned"} -> Int], NEW q \in Calls \cup {"aligned"}, NEW v \in Int
  PROVE  HasRead([f EXCEPT ![q] = v], f, q, v)
BY DEF HasRead

LEMMA HasReadZero ==
  ASSUME NEW f \in [Calls \cup {"aligned"} -> Int], NEW q \in Calls, NEW g, g = [f EXCEPT ![q] = 0]
  PROVE  HasRead(g, f, q, 0)
BY DEF HasRead

\* An error while the clock was not yet set, or was set back.
LEMMA ErrorKeeps ==
  ASSUME ClockInv, ~Unread(excuse), C!ReturnError(cpc), cpc \in (Starts \cup BackAgain \cup {"middle_boot"}) \ {"restore"},
         UNCHANGED <<raw, ahead, info, orig, opts, lags>>
  PROVE  ClockInv'
<1>1. /\ TestState(raw, ahead, cpc, info, orig, opts, lags) /\ cpc # "done" /\ excuse = {}
  BY DEF ClockInv, Unread, Starts, BackAgain
<1>2. ahead \in Int /\ lags \in Nat /\ opts.skew \in Int
  BY <1>1 DEF TestState, ClockType
<1>3. /\ cpc' = "done" /\ verdict' = "error"
      /\ excuse' = excuse \cup (IF cpc = "middle_boot" THEN {"boottime"} ELSE {})
                      \cup (IF cpc \notin {"set1", "undo"} /\ opts.skew # 0 THEN {"skew"} ELSE {})
  BY DEF C!ReturnError
<1>4. ASSUME excuse' = {} PROVE PutRight(ahead, lags)
  <2>1. cpc # "middle_boot" /\ (cpc # "set1" => opts.skew = 0)
    BY <1>1, <1>3, <1>4 DEF Starts, BackAgain
  <2>2. CASE cpc \in Starts
    <3>1. ahead = Lead
      BY <1>1, <2>2 DEF TestState, PlaceOfClock
    <3> QED BY <1>2, <3>1, LeadIsRight
  <2>3. CASE cpc \in BackAgain
    <3>1. opts.skew = 0
      BY <2>1, <2>3 DEF BackAgain
    <3>2. Behind(ahead, lags + 2 * (Gran - 1))
      BY <1>1, <2>3, <3>1 DEF TestState, PlaceOfClock
    <3> QED BY <1>2, <3>2, BehindIsRight
  <2> QED BY <2>1, <2>2, <2>3
<1>5. ahead' = ahead /\ ahead' \in Int
  BY <1>2
<1>6. excuse' = {} => PutRight(ahead', lags)
  BY <1>4, <1>5
<1>7. verdict' # "passed" /\ verdict' # "failed"
  BY <1>3
<1>8. ~Unread(excuse')
  BY <1>1, <1>3 DEF Unread
<1> QED BY <1>3, <1>5, <1>6, <1>7, <1>8, Ends

LEMMA ReadStep ==
  ASSUME ClockInv, ~Unread(excuse), C!CNext
  PROVE  ClockInv'
<1>1. /\ TestState(raw, ahead, cpc, info, orig, opts, lags)
      /\ cpc # "done" => excuse = {} /\ verdict = "none"
  BY DEF ClockInv, Unread
<1>2. /\ raw \in Int /\ ahead \in Int /\ lags \in Nat /\ opts.skew \in Int /\ orig.tv \in Int
      /\ info \in [Calls \cup {"aligned"} -> Int]
  BY <1>1 DEF TestState, ClockType
<1>3. CASE C!Lag
  <2>1. /\ cpc # "done" /\ raw' = raw + 1 /\ lags' = lags + 1
        /\ UNCHANGED <<ahead, cpc, info, orig, opts, excuse, verdict>>
    BY <1>3 DEF C!Lag
  <2>2. TestState(raw', ahead, cpc, info, orig, opts, lags')
    BY <1>1, <2>1, LagKeeps
  <2>3. TestState(raw, ahead, cpc, info, orig, opts, lags)'
    BY <2>1, <2>2
  <2> QED BY <1>1, <2>1, <2>3, GoesOn
<1>4. CASE C!Align
  <2> DEFINE target == C!Target(opts.extra)
             tod == C!TimeOfDay % Cycle
             there == opts.extra = 0 \/ (tod >= target /\ tod < (target + Limit) % Cycle)
  <2>1. /\ cpc = "align" /\ cpc' = (IF there THEN "save" ELSE cpc)
        /\ info' = [info EXCEPT !["aligned"] = raw]
        /\ raw' = (IF there THEN raw ELSE raw + C!Micros((target + Cycle - tod) % Cycle))
        /\ UNCHANGED <<ahead, orig, opts, lags, excuse, verdict>>
    BY <1>4 DEF C!Align
  <2>2. HasRead(info', info, "aligned", raw)
    BY <1>2, <2>1, HasReadIs
  <2>3. raw' \in Int
    <3>1. PICK x \in Int : x = raw + ahead
      BY <1>2
    <3>2. C!TimeOfDay \in Int
      BY <3>1, MicrosIs DEF C!TimeOfDay
    <3>3. Cycle \in Nat \ {0} /\ opts.extra \in Nat
      BY <1>1, ClockAssumption DEF TestState, ClockType
    <3>4. \A t \in Int : t % Cycle \in Int
      BY <3>3
    <3>5. tod \in Int /\ target \in Int
      <4>1. Cycle + (opts.extra - 1) * (Cycle \div 2) - Bump \div 2 \in Int
        BY <3>3, ClockAssumption
      <4> QED BY <3>2, <3>4, <4>1 DEF C!Target
    <3> HIDE DEF tod, target
    <3>6. (target + Cycle - tod) % Cycle \in Int
      BY <3>3, <3>4, <3>5
    <3>7. C!Micros((target + Cycle - tod) % Cycle) \in Int
      BY <3>6, MicrosIs
    <3> QED BY <1>2, <2>1, <3>7
  <2>4. cpc' \in {"align", "save"} /\ (cpc' = "save" => raw' = raw /\ there)
    BY <2>1
  <2>5. cpc' = "save" =>
          /\ raw' = raw
          /\ \/ opts.extra = 0
             \/ /\ C!Micros(raw + ahead) % Cycle >= C!Target(opts.extra)
                /\ C!Micros(raw + ahead) % Cycle < (C!Target(opts.extra) + Limit) % Cycle
    BY <2>4 DEF C!TimeOfDay
  <2>6. TestState(raw, ahead, "align", info, orig, opts, lags)
    BY <1>1, <2>1
  <2> HIDE DEF there, tod, target
  <2>7. TestState(raw', ahead, cpc', info', orig, opts, lags)
    BY <2>2, <2>3, <2>4, <2>5, <2>6, AlignKeeps
  <2>8. TestState(raw, ahead, cpc, info, orig, opts, lags)'
    BY <2>1, <2>7
  <2> QED BY <1>1, <2>1, <2>4, <2>8, GoesOn
<1>5. CASE C!Save
  <2>1. /\ cpc = "save" /\ cpc' = C!Readings[1]
        /\ orig' \in {C!NoTime, [tv |-> C!Micros(raw + ahead), at |-> raw]}
        /\ UNCHANGED <<raw, ahead, info, opts, lags, excuse, verdict>>
    BY <1>5 DEF C!Save, C!TimeOfDay
  <2>2. cpc' = "init_raw"
    BY <2>1 DEF C!Readings
  <2>3. TestState(raw, ahead, "init_raw", info, orig', opts, lags)
    BY <1>1, <2>1, SaveKeeps
  <2>4. TestState(raw, ahead, cpc, info, orig, opts, lags)'
    BY <2>1, <2>2, <2>3
  <2> QED BY <1>1, <2>1, <2>2, <2>4, GoesOn
<1>6. CASE C!ReadClock
  <2>1. cpc \in Calls \ {"set1", "set2", "restore"} /\ UNCHANGED <<raw, ahead, orig, opts, lags>>
    BY <1>6, ReadingsAre DEF C!ReadClock
  <2>2. /\ cpc # "done" /\ cpc \in Calls
    BY <2>1 DEF Calls, Starts, Forward, BackAgain
  <2>3. CASE /\ info' = [info EXCEPT ![cpc] = C!Reads(cpc)]
             /\ cpc' = C!After(cpc)
             /\ UNCHANGED <<excuse, verdict>>
    <3>1. Reading(cpc, C!After(cpc), raw, ahead, C!Reads(cpc))
      BY <2>1, ReadsAre
    <3>2. C!Reads(cpc) \in Int
      BY <1>2, <3>1, MicrosIs DEF Reading
    <3>3. HasRead(info', info, cpc, C!Reads(cpc))
      BY <1>2, <2>2, <2>3, <3>2, HasReadIs
    <3>4. TestState(raw, ahead, cpc', info', orig, opts, lags)
      BY <1>1, <2>3, <3>1, <3>3, ReadKeeps
    <3>5. TestState(raw, ahead, cpc, info, orig, opts, lags)'
      BY <2>1, <3>4
    <3>6. cpc' # "done"
      BY <2>3, <3>1 DEF Reading
    <3> QED BY <1>1, <2>2, <2>3, <3>5, <3>6, GoesOn
  <2>4. CASE cpc' = "undo" /\ UNCHANGED <<info, excuse, verdict>>
    <3>1. TestState(raw, ahead, "undo", info, orig, opts, lags)
      BY <1>1, <1>2, LeaveKeeps
    <3>2. TestState(raw, ahead, cpc, info, orig, opts, lags)'
      BY <2>1, <2>4, <3>1
    <3> QED BY <1>1, <2>2, <2>4, <3>2, GoesOn
  <2>5. CASE cpc \notin C!Middle /\ C!ReturnError(cpc) /\ UNCHANGED info
    <3>1. cpc \in (Starts \cup BackAgain \cup {"middle_boot"}) \ {"restore"}
      BY <2>1, <2>5 DEF C!Middle, Calls, Forward
    <3> QED BY <2>1, <2>5, <3>1, ErrorKeeps
  <2>6. CASE /\ cpc \in C!Unset
             /\ info' = [info EXCEPT ![cpc] = 0]
             /\ cpc' = C!After(cpc)
             /\ excuse' = excuse \cup {"unread"}
             /\ UNCHANGED verdict
    <3>1. LooseState(raw, ahead, cpc, info, orig, opts, lags)
      BY <1>1, <2>6 DEF TestState, PlaceOfClock, LooseState, C!Unset
    <3>2. HasRead(info', info, cpc, 0)
      BY <1>2, <2>2, <2>6, HasReadZero
    <3>3. LooseState(raw, ahead, cpc', info', orig, opts, lags)
      BY <2>6, <3>1, <3>2, UnsetKeeps
    <3>4. LooseState(raw, ahead, cpc, info, orig, opts, lags)'
      BY <2>1, <3>3
    <3>5. excuse' = {"unread"} /\ verdict' = "none"
      BY <1>1, <2>2, <2>6
    <3> QED BY <3>4, <3>5, UnreadGoesOn DEF Unread
  <2> QED BY <1>6, <2>3, <2>4, <2>5, <2>6 DEF C!ReadClock
<1>7. CASE C!SetClock
  <2> DEFINE t == IF cpc = "set1" THEN info["init_real"] + Bump ELSE info["middle_real"] - Bump
  <2>1. cpc \in {"set1", "set2"} /\ UNCHANGED <<raw, orig, opts, lags>>
    BY <1>7 DEF C!SetClock
  <2>2. t \in Int
    BY <1>2, ClockAssumption DEF Calls, Starts, Forward
  <2>3. CASE C!SetTo(t) /\ info' = [info EXCEPT ![cpc] = t] /\ cpc' = C!After(cpc) /\ UNCHANGED <<excuse, verdict>>
    <3>1. HasRead(info', info, cpc, t)
      BY <1>2, <2>1, <2>2, <2>3, HasReadIs DEF Calls, Starts, Forward
    <3>2. ahead' = C!Micros(t) + opts.skew - raw
      BY <2>3 DEF C!SetTo
    <3>3. CASE cpc = "set1"
      <4>1. t = info["init_real"] + Bump /\ cpc' = "first_real"
        BY <2>3, <3>3, AfterEach
      <4> HIDE DEF t
      <4>2. TestState(raw, ahead, "set1", info, orig, opts, lags) /\ HasRead(info', info, "set1", t)
        BY <1>1, <3>1, <3>3
      <4>3. TestState(raw, ahead', "first_real", info', orig, opts, lags)
        BY <3>2, <4>1, <4>2, SetKeeps
      <4>4. TestState(raw, ahead, cpc, info, orig, opts, lags)'
        BY <2>1, <4>1, <4>3
      <4> QED BY <1>1, <2>1, <2>3, <4>1, <4>4, GoesOn
    <3>4. CASE cpc = "set2"
      <4>1. t = info["middle_real"] - Bump /\ cpc' = "second_real"
        BY <2>3, <3>4, AfterEach
      <4> HIDE DEF t
      <4>2. TestState(raw, ahead, "set2", info, orig, opts, lags) /\ HasRead(info', info, "set2", t)
        BY <1>1, <3>1, <3>4
      <4>3. TestState(raw, ahead', "second_real", info', orig, opts, lags)
        BY <3>2, <4>1, <4>2, SetBackKeeps
      <4>4. TestState(raw, ahead, cpc, info, orig, opts, lags)'
        BY <2>1, <4>1, <4>3
      <4> QED BY <1>1, <2>1, <2>3, <4>1, <4>4, GoesOn
    <3> QED BY <2>1, <3>3, <3>4
  <2>4. CASE cpc = "set1" /\ C!ReturnError(cpc) /\ UNCHANGED <<ahead, info>>
    <3>1. cpc \in (Starts \cup BackAgain \cup {"middle_boot"}) \ {"restore"}
      BY <2>4 DEF Starts
    <3> QED BY <2>1, <2>4, <3>1, ErrorKeeps
  <2>5. CASE cpc' = "undo" /\ UNCHANGED <<excuse, verdict, ahead, info>>
    <3>1. TestState(raw, ahead, "undo", info, orig, opts, lags)
      BY <1>1, <1>2, LeaveKeeps
    <3>2. TestState(raw, ahead, cpc, info, orig, opts, lags)'
      BY <2>1, <2>5, <3>1
    <3> QED BY <1>1, <2>1, <2>5, <3>2, GoesOn
  <2> QED BY <1>7, <2>3, <2>4, <2>5 DEF C!SetClock
<1>8. CASE C!Undo
  <2>1. /\ cpc = "undo" /\ cpc' = "done" /\ verdict' = "error" /\ UNCHANGED <<raw, info, orig, opts, lags>>
    BY <1>8 DEF C!Undo
  <2>9. ~Unread(excuse')
    BY <1>1, <1>8, <2>1 DEF C!Undo, Unread
  <2>2. CASE orig # C!NoTime /\ C!PutBack(orig.tv)
    <3>1. ahead' = orig.tv - raw /\ ahead' \in Int
      BY <1>2, <2>2 DEF C!PutBack
    <3>2. Behind(ahead', lags + Gran - 1)
      BY <1>1, <2>2, <3>1 DEF TestState, PlaceOfClock
    <3>3. PutRight(ahead', lags)
      BY <1>2, <3>2, BehindIsRight
    <3> QED BY <2>1, <2>9, <3>1, <3>3, Ends
  <2>3. CASE UNCHANGED ahead /\ excuse' = excuse \cup {"settimeofday"}
    <3>1. ahead' \in Int /\ excuse' # {}
      BY <1>2, <2>3
    <3> QED BY <2>1, <2>9, <3>1, Ends
  <2> QED BY <1>8, <2>2, <2>3 DEF C!Undo
<1>9. CASE C!Restore
  <2>1. /\ cpc = "restore" /\ cpc' = "done" /\ verdict' = (IF C!Passed THEN "passed" ELSE "failed")
        /\ UNCHANGED <<raw, info, orig, opts, lags>>
    BY <1>9 DEF C!Restore
  <2>9. ~Unread(excuse')
    BY <1>1, <1>9, <2>1 DEF C!Restore, Unread
  <2>2. TestState(raw, ahead, "restore", info, orig, opts, lags)
    BY <1>1, <2>1
  <2>3. C!Passed <=> PassedBy(info)
    BY DEF C!Passed, PassedBy
  <2>4. verdict' = "passed" => SmallMiss(info, opts)
    BY <2>1, <2>2, <2>3, PassedIsRight
  <2>5. verdict' = "failed" => Miss(opts) # 0
    BY <2>1, <2>2, <2>3, FailedIsRight
  <2>6. CASE orig # C!NoTime /\ C!PutBack(orig.tv + C!Micros(info["final_raw"] - info["init_raw"]))
    <3>1. ahead' = (orig.tv + C!Micros(info["final_raw"] - info["init_raw"])) - raw
      BY <2>6 DEF C!PutBack
    <3>2. info["final_raw"] - info["init_raw"] \in Int
      BY <1>2 DEF Calls, Starts, BackAgain
    <3>3. C!Micros(info["final_raw"] - info["init_raw"]) \in Int
      BY <3>2, MicrosIs
    <3>4. ahead' \in Int
      BY <1>2, <3>1, <3>3
    <3>5. PutRight(ahead', lags)
      BY <2>2, <2>6, <3>1, RestoreIsRight
    <3> QED BY <2>1, <2>4, <2>5, <2>9, <3>4, <3>5, Ends
  <2>7. CASE UNCHANGED ahead /\ excuse' = excuse \cup (IF opts.skew = 0 THEN {} ELSE {"skew"})
    <3>1. ahead' = ahead /\ ahead' \in Int
      BY <1>2, <2>7
    <3>2. ASSUME excuse' = {} PROVE PutRight(ahead, lags)
      <4>1. opts.skew = 0
        BY <2>7, <3>2
      <4>2. Behind(ahead, lags + 2 * (Gran - 1))
        BY <2>2, <4>1 DEF TestState, PlaceOfClock, BackAgain
      <4> QED BY <1>2, <4>2, BehindIsRight
    <3>3. excuse' = {} => PutRight(ahead', lags)
      BY <3>1, <3>2
    <3> QED BY <2>1, <2>4, <2>5, <2>9, <3>1, <3>3, Ends
  <2> QED BY <1>9, <2>6, <2>7 DEF C!Restore
<1> QED BY <1>3, <1>4, <1>5, <1>6, <1>7, <1>8, <1>9 DEF C!CNext

\* A step after a mach clock gave 0.
LEMMA LooseStep ==
  ASSUME ClockInv, Unread(excuse), C!CNext
  PROVE  ClockInv'
<1>1. /\ LooseState(raw, ahead, cpc, info, orig, opts, lags)
      /\ cpc # "done" => excuse = {"unread"} /\ verdict = "none"
  BY DEF ClockInv, Unread
<1>2. /\ raw \in Int /\ ahead \in Int /\ lags \in Nat /\ opts.skew \in Int /\ orig.tv \in Int
      /\ info \in [Calls \cup {"aligned"} -> Int]
      /\ cpc \notin {"align", "save"}
  BY <1>1 DEF LooseState, ClockType
<1>3. CASE C!Lag
  <2>1. /\ cpc # "done" /\ raw' = raw + 1 /\ lags' = lags + 1
        /\ UNCHANGED <<ahead, cpc, info, orig, opts, excuse, verdict>>
    BY <1>3 DEF C!Lag
  <2>2. LooseState(raw', ahead, cpc, info, orig, opts, lags')
    BY <1>1, <2>1, LooseLag
  <2>3. LooseState(raw, ahead, cpc, info, orig, opts, lags)'
    BY <2>1, <2>2
  <2> QED BY <1>1, <2>1, <2>3, UnreadGoesOn
<1>4. CASE C!ReadClock
  <2>1. cpc \in Calls \ {"set1", "set2", "restore"} /\ UNCHANGED <<raw, ahead, orig, opts, lags>>
    BY <1>4, ReadingsAre DEF C!ReadClock
  <2>2. cpc # "done" /\ cpc \in Calls
    BY <2>1 DEF Calls, Starts, Forward, BackAgain
  <2>3. CASE /\ info' = [info EXCEPT ![cpc] = C!Reads(cpc)]
             /\ cpc' = C!After(cpc)
             /\ UNCHANGED <<excuse, verdict>>
    <3>1. Reading(cpc, C!After(cpc), raw, ahead, C!Reads(cpc))
      BY <2>1, ReadsAre
    <3>2. C!Reads(cpc) \in Int
      BY <1>2, <3>1, MicrosIs DEF Reading
    <3>3. HasRead(info', info, cpc, C!Reads(cpc))
      BY <1>2, <2>2, <2>3, <3>2, HasReadIs
    <3>4. LooseState(raw, ahead, cpc', info', orig, opts, lags)
      BY <1>1, <2>3, <3>1, <3>3, LooseRead
    <3>5. LooseState(raw, ahead, cpc, info, orig, opts, lags)'
      BY <2>1, <3>4
    <3> QED BY <1>1, <2>2, <2>3, <3>5, UnreadGoesOn
  <2>4. CASE cpc' = "undo" /\ UNCHANGED <<info, excuse, verdict>>
    <3>1. LooseState(raw, ahead, "undo", info, orig, opts, lags)
      BY <1>1, <1>2, LooseLeave
    <3>2. LooseState(raw, ahead, cpc, info, orig, opts, lags)'
      BY <2>1, <2>4, <3>1
    <3> QED BY <1>1, <2>2, <2>4, <3>2, UnreadGoesOn
  <2>5. CASE C!ReturnError(cpc) /\ UNCHANGED info
    BY <1>1, <1>2, <2>1, <2>5, LooseEnd DEF C!ReturnError
  <2>6. CASE /\ cpc \in C!Unset
             /\ info' = [info EXCEPT ![cpc] = 0]
             /\ cpc' = C!After(cpc)
             /\ excuse' = excuse \cup {"unread"}
             /\ UNCHANGED verdict
    <3>1. HasRead(info', info, cpc, 0)
      BY <1>2, <2>2, <2>6, HasReadZero
    <3>2. LooseState(raw, ahead, cpc', info', orig, opts, lags)
      BY <1>1, <2>6, <3>1, UnsetKeeps
    <3>3. LooseState(raw, ahead, cpc, info, orig, opts, lags)'
      BY <2>1, <3>2
    <3>4. excuse' = {"unread"} /\ verdict' = "none"
      BY <1>1, <2>2, <2>6
    <3> QED BY <3>3, <3>4, UnreadGoesOn DEF Unread
  <2> QED BY <1>4, <2>3, <2>4, <2>5, <2>6 DEF C!ReadClock
<1>5. CASE C!SetClock
  <2> DEFINE t == IF cpc = "set1" THEN info["init_real"] + Bump ELSE info["middle_real"] - Bump
  <2>1. cpc \in {"set1", "set2"} /\ UNCHANGED <<raw, orig, opts, lags>>
    BY <1>5 DEF C!SetClock
  <2>2. t \in Int
    BY <1>2, ClockAssumption DEF Calls, Starts, Forward
  <2>3. CASE C!SetTo(t) /\ info' = [info EXCEPT ![cpc] = t] /\ cpc' = C!After(cpc) /\ UNCHANGED <<excuse, verdict>>
    <3>1. HasRead(info', info, cpc, t)
      BY <1>2, <2>1, <2>2, <2>3, HasReadIs DEF Calls, Starts, Forward
    <3>2. cpc' = IF cpc = "set1" THEN "first_real" ELSE "second_real"
      BY <2>1, <2>3, AfterEach
    <3>3. C!Micros(t) \in Int
      BY <2>2, MicrosIs
    <3>4. ahead' \in Int
      BY <1>2, <2>3, <3>3 DEF C!SetTo
    <3>5. cpc = "set1" => t = info["init_real"] + Bump
      OBVIOUS
    <3> HIDE DEF t
    <3>6. LooseState(raw, ahead', cpc', info', orig, opts, lags)
      BY <1>1, <2>1, <3>1, <3>2, <3>4, <3>5, LooseSet
    <3>7. LooseState(raw, ahead, cpc, info, orig, opts, lags)'
      BY <2>1, <3>6
    <3> QED BY <1>1, <2>1, <2>3, <3>2, <3>7, UnreadGoesOn
  <2>4. CASE cpc = "set1" /\ C!ReturnError(cpc) /\ UNCHANGED <<ahead, info>>
    BY <1>1, <1>2, <2>1, <2>4, LooseEnd DEF C!ReturnError
  <2>5. CASE cpc' = "undo" /\ UNCHANGED <<excuse, verdict, ahead, info>>
    <3>1. LooseState(raw, ahead, "undo", info, orig, opts, lags)
      BY <1>1, <1>2, LooseLeave
    <3>2. LooseState(raw, ahead, cpc, info, orig, opts, lags)'
      BY <2>1, <2>5, <3>1
    <3> QED BY <1>1, <2>1, <2>5, <3>2, UnreadGoesOn
  <2> QED BY <1>5, <2>3, <2>4, <2>5 DEF C!SetClock
<1>6. CASE C!Undo
  <2>1. ahead' \in Int
    BY <1>2, <1>6 DEF C!Undo, C!PutBack
  <2> QED BY <1>1, <1>6, <2>1, LooseEnd DEF C!Undo
<1>7. CASE C!Restore
  <2>1. C!Micros(info["final_raw"] - info["init_raw"]) \in Int
    <3>1. info["final_raw"] - info["init_raw"] \in Int
      BY <1>2 DEF Calls, Starts, BackAgain
    <3> QED BY <3>1, MicrosIs
  <2>2. ahead' \in Int
    BY <1>2, <1>7, <2>1 DEF C!Restore, C!PutBack
  <2> QED BY <1>1, <1>7, <2>2, LooseEnd DEF C!Restore
<1> QED BY <1>2, <1>3, <1>4, <1>5, <1>6, <1>7 DEF C!CNext, C!Align, C!Save

LEMMA ClockStep ==
  ASSUME ClockInv, C!CNext
  PROVE  ClockInv'
BY ReadStep, LooseStep

LEMMA ClockKept ==
  ASSUME part = "set_time" => ClockInv, [Next]_vars
  PROVE  (part = "set_time" => ClockInv)'
<1>1. CASE SetTimeStep
  BY <1>1, ClockStep DEF SetTimeStep
<1>2. CASE ~SetTimeStep
  <2>1. part' = part
    BY <1>2 DEF Next, vars, Arc4randomStep, GetDelimStep, OsFuncStep, PathLockStep, ScaleStep, PathStep, FMemStep
  <2>2. part = "set_time" => UNCHANGED varsC
    BY <1>2 DEF Next, vars, Arc4randomStep, GetDelimStep, OsFuncStep, PathLockStep, ScaleStep, PathStep, FMemStep
  <2>3. ASSUME ClockInv, UNCHANGED varsC PROVE ClockInv'
    <3>1. UNCHANGED <<raw, ahead, cpc, info, orig, opts, lags, excuse, verdict>>
      BY <2>3 DEF varsC
    <3>2. /\ Unread(excuse)' = Unread(excuse)
          /\ LooseState(raw, ahead, cpc, info, orig, opts, lags)' = LooseState(raw, ahead, cpc, info, orig, opts, lags)
          /\ TestState(raw, ahead, cpc, info, orig, opts, lags)' = TestState(raw, ahead, cpc, info, orig, opts, lags)
      BY <3>1
    <3>3. C!ClockPutBack' /\ C!VerdictRight'
      BY <2>3, <3>1 DEF ClockInv, C!ClockPutBack, C!VerdictRight
    <3> QED BY <2>3, <3>1, <3>2, <3>3 DEF ClockInv
  <2> QED BY <2>1, <2>2, <2>3
<1> QED BY <1>1, <1>2

\* The clock that the test sets is left as it was up to the time the test took, whatever
\* call fails, except in the cases that ClockSet lists; the test passes a clock_settime
\* that is right and fails one that misses by more than it can blame on the time that
\* passed; and a step that begins soon after the wait crosses the boundary. For every
\* granularity, step and cycle, and however long the calls take (libtest_settime.c).
THEOREM ClockIsTested == Spec => []ClockTested
<1>1. Init => (part = "set_time" => ClockInv)
  BY ClockInit DEF Init
<1>2. (part = "set_time" => ClockInv) => ClockTested
  <2> SUFFICES ASSUME part = "set_time", ClockInv PROVE ClockTested
    BY DEF ClockTested, ClockPutBack, VerdictRight, BoundaryCrossed
  <2>1. C!ClockPutBack /\ C!VerdictRight /\ Crossing(raw, cpc, info, opts)
    BY DEF ClockInv, TestState, LooseState
  <2>2. info \in [Calls \cup {"aligned"} -> Int]
    BY DEF ClockInv, TestState, LooseState, ClockType
  <2>3. C!BoundaryCrossed
    <3> SUFFICES ASSUME opts.extra > 0, info["set1"] # 0, raw - info["aligned"] <= Bump \div 2 - Limit
                 PROVE  \E b \in (info["init_real"] + 1) .. info["set1"] :
                          b % Cycle = ((opts.extra - 1) * (Cycle \div 2)) % Cycle
      BY DEF C!BoundaryCrossed
    <3>1. Crosses(info["init_real"], info["set1"], opts.extra)
      BY <2>1 DEF Crossing, Soon
    <3>2. PICK b \in Int : Phase(b, opts.extra) /\ info["init_real"] < b /\ b <= info["set1"]
      BY <3>1 DEF Crosses
    <3>3. info["init_real"] \in Int /\ info["set1"] \in Int
      BY <2>2 DEF Calls, Starts
    <3>4. b \in (info["init_real"] + 1) .. info["set1"]
      BY <3>2, <3>3
    <3> QED BY <3>2, <3>4 DEF Phase
  <2> QED BY <2>1, <2>3 DEF ClockTested, ClockPutBack, VerdictRight, BoundaryCrossed
<1> QED BY <1>1, <1>2, ClockKept, PTL DEF Spec
=============================================================================
