------------------------------ MODULE MCRuntime -----------------------------
(***************************************************************************)
(* The parts of the library that keep state between calls, or take more    *)
(* than one step, and have no run of their own. A behaviour is about one   *)
(* of them, which part says; the variables of the others are 0.            *)
(***************************************************************************)
EXTENDS FMemSizes

CONSTANTS
  Parts,
  Pids, RThreads, RsBufSz, KeyIvSz, ValSz, Reseed, RWord, Lengths, MaxRequests, MaxForks,
  Chars, Delim, BufSiz, FirstSizes, MaxInput, MaxLines,
  FThreads, Styles, LThreads, SThreads, Builds, Launches,
  Objects, Dirs, Deep, Cwd, MaxMoves,
  Gran, Bump, Fudge, Cycle, Limit, Extras, Misses, Lead, MaxLags

ASSUME ThreadAssumption == LThreads \cap {0, -1} = {}
ASSUME StyleAssumption == Styles \subseteq {"os_func", "realpath", "recvmsg"}
ASSUME RandomAssumption ==
  /\ Pids # {}
  /\ RsBufSz \in Nat /\ KeyIvSz \in Nat /\ ValSz \in Nat /\ Reseed \in Nat /\ RWord \in Nat
  /\ KeyIvSz + ValSz <= RsBufSz /\ KeyIvSz < RsBufSz /\ Reseed < RWord
  /\ Lengths \subseteq Nat
ASSUME BufferAssumption == BufSiz \in Nat \ {0, 1} /\ FirstSizes \subseteq Nat \ {1}
ASSUME PathAssumption ==
  /\ Objects \subseteq {"d1", "d2", "f", "l"}
  /\ Dirs \subseteq Objects \ {"l"} /\ Cwd \in Dirs
ASSUME ClockAssumption ==
  /\ Gran \in Nat \ {0} /\ Bump \in Nat /\ Fudge \in Nat /\ Lead \in Int /\ Misses \in Int
  /\ Cycle \in Nat \ {0} /\ Limit \in Nat /\ Limit < Cycle /\ Extras \subseteq Nat
  /\ Bump % Gran = 0 /\ (Bump \div 2) % Gran = 0 /\ Limit % Gran = 0

VARIABLES
  part,
  proc, seeds, used, twice, requests, forks, drawing, pids, odd,
  input, heap, bufsiz, ptr, line, gpc, ret, lines, outside,
  present, adr, fpc, style, local, owned,
  holder, pathbuf, lpc, into, answer,
  numer, denom, mult, spc, temp, mserr, build, launch, together,
  where, opc, op, found, want, hit, moves, moved,
  raw, ahead, cpc, info, orig, opts, lags, excuse, verdict,
  state, mode, own, buf, len, off, last, astray

A == INSTANCE Arc4random
G == INSTANCE GetDelim
F == INSTANCE OsFunc
L == INSTANCE PathLock
S == INSTANCE ScaleSetup WITH RightScale <- [numer |-> 5, denom |-> 3]
P == INSTANCE PathOps
       WITH Start <- [p |-> "d1", q |-> "d2", deep |-> "nothing", x |-> "f", y |-> "l"],
            LinkTo <- [l |-> "f"]
M == INSTANCE FMemOpen
C == INSTANCE ClockSet WITH Skews <- {0, Misses, -Misses}

varsA == <<proc, seeds, used, twice, requests, forks, drawing, pids, odd>>
varsG == <<input, heap, bufsiz, ptr, line, gpc, ret, lines, outside>>
varsF == <<present, adr, fpc, style, local, owned>>
varsL == <<holder, pathbuf, lpc, into, answer>>
varsS == <<numer, denom, mult, spc, temp, mserr, build, launch, together>>
varsP == <<where, opc, op, found, want, hit, moves, moved>>
varsC == <<raw, ahead, cpc, info, orig, opts, lags, excuse, verdict>>
varsM == <<state, mode, own, buf, len, off, last, astray>>

NoA == proc = 0 /\ seeds = 0 /\ used = 0 /\ twice = 0 /\ requests = 0 /\ forks = 0 /\ drawing = 0 /\ pids = 0 /\ odd = 0
NoG == input = 0 /\ heap = 0 /\ bufsiz = 0 /\ ptr = 0 /\ line = 0 /\ gpc = 0 /\ ret = 0 /\ lines = 0 /\ outside = 0
NoF == present = 0 /\ adr = 0 /\ fpc = 0 /\ style = 0 /\ local = 0 /\ owned = 0
NoL == holder = 0 /\ pathbuf = 0 /\ lpc = 0 /\ into = 0 /\ answer = 0
NoS == numer = 0 /\ denom = 0 /\ mult = 0 /\ spc = 0 /\ temp = 0 /\ mserr = 0 /\ build = 0 /\ launch = 0 /\ together = 0
NoP == where = 0 /\ opc = 0 /\ op = 0 /\ found = 0 /\ want = 0 /\ hit = 0 /\ moves = 0 /\ moved = 0
NoC == raw = 0 /\ ahead = 0 /\ cpc = 0 /\ info = 0 /\ orig = 0 /\ opts = 0 /\ lags = 0 /\ excuse = 0 /\ verdict = 0
NoM == state = 0 /\ mode = 0 /\ own = 0 /\ buf = 0 /\ len = 0 /\ off = 0 /\ last = 0 /\ astray = 0

Init ==
  /\ part \in Parts
  /\ IF part = "arc4random" THEN A!RInit ELSE NoA
  /\ IF part = "getdelim" THEN G!GInit ELSE NoG
  /\ IF part = "os_func" THEN F!FInit ELSE NoF
  /\ IF part = "path_lock" THEN L!LInit ELSE NoL
  /\ IF part = "scale" THEN S!SInit ELSE NoS
  /\ IF part = "path_ops" THEN P!PInit ELSE NoP
  /\ IF part = "set_time" THEN C!CInit ELSE NoC
  /\ IF part = "fmemopen" THEN M!Init ELSE NoM

Arc4randomStep == part = "arc4random" /\ A!RNext /\ UNCHANGED <<part, varsG, varsF, varsL, varsS, varsP, varsC, varsM>>
GetDelimStep == part = "getdelim" /\ G!GNext /\ UNCHANGED <<part, varsA, varsF, varsL, varsS, varsP, varsC, varsM>>
OsFuncStep == part = "os_func" /\ F!FNext /\ UNCHANGED <<part, varsA, varsG, varsL, varsS, varsP, varsC, varsM>>
PathLockStep == part = "path_lock" /\ L!LNext /\ UNCHANGED <<part, varsA, varsG, varsF, varsS, varsP, varsC, varsM>>
ScaleStep == part = "scale" /\ S!SNext /\ UNCHANGED <<part, varsA, varsG, varsF, varsL, varsP, varsC, varsM>>
PathStep == part = "path_ops" /\ P!PNext /\ UNCHANGED <<part, varsA, varsG, varsF, varsL, varsS, varsC, varsM>>
SetTimeStep == part = "set_time" /\ C!CNext /\ UNCHANGED <<part, varsA, varsG, varsF, varsL, varsS, varsP, varsM>>
FMemStep == part = "fmemopen" /\ M!Next /\ UNCHANGED <<part, varsA, varsG, varsF, varsL, varsS, varsP, varsC>>

vars == <<part, varsA, varsG, varsF, varsL, varsS, varsP, varsC, varsM>>
Next == Arc4randomStep \/ GetDelimStep \/ OsFuncStep \/ PathLockStep \/ ScaleStep \/ PathStep \/ SetTimeStep
  \/ FMemStep
Spec == Init /\ [][Next]_vars

-----------------------------------------------------------------------------
\* No byte of key stream is given out twice, however threads call and processes fork
\* (_sget, _atfork); see Arc4random for the one case left open.
NoByteTwice == part = "arc4random" => A!NoByteTwice

\* A generator gives out no more than the limit from one seed, except after one request
\* longer than the limit (_rs_stir_if_needed).
SeedReplaced == part = "arc4random" => A!SeedReplaced

\* The bytes that became the next key are never given out (_rs_rekey).
KeyNeverGiven == part = "arc4random" => A!KeyNeverGiven

\* What a generator gives out was never given out before and is no key (arc4random.c).
BytesFresh == NoByteTwice /\ KeyNeverGiven

\* getdelim writes into its buffer only, and the size the caller has back fits the
\* buffer, also when realloc fails in a line.
LineInBuffer == part = "getdelim" => G!LineInBuffer

\* A count that getdelim returns is that of the characters taken from the stream, which
\* are at the start of the buffer, however often it grew.
LineWhole == part = "getdelim" => G!LineWhole

\* The caller has the whole line in a buffer of the size it is told (getdelim.c).
LineKept == LineInBuffer /\ LineWhole

\* Every line that getdelim returns is followed by a null, the last one of the file too
\* ("Read up to (and including) a DELIMITER from FP into *LINEPTR (and NUL-terminate it)").
LineTerminated == part = "getdelim" => G!LineTerminated

\* The cached system function that is called is never null and is the right variant,
\* whichever threads fill the cache (GET_OS_FUNC, realpath_internal, sys_recvmsg); see
\* OsFunc for the case left open.
RightFunctionCalled == part = "os_func" => F!RightFunctionCalled

\* A realpath that fails leaves no buffer behind (realpath_internal).
NothingLeaked == part = "os_func" => F!NothingLeaked

\* The system's function is called, and what was allocated for it does not stay behind
\* (util.h, realpath.c, packet.c).
FunctionCalled == RightFunctionCalled /\ NothingLeaked

\* F_GETPATH gives every thread the path of its own descriptor, although all go through
\* one static buffer (fcntl).
OwnPath == part = "path_lock" => L!OwnPath

\* No way out of F_GETPATH keeps the lock of the static buffer, unless unlocking it fails
\* (fcntl).
LockGivenBack == part = "path_lock" => L!LockGivenBack

\* F_GETPATH with several threads: the right path, and no lock kept (fcntl.c).
PathOfOwn == OwnPath /\ LockGivenBack

\* A clock is scaled by the right multiplier or by zero with an error (get_mach_scale,
\* setup_mach_mult); see ScaleSetup for when.
ScaledRightly == part = "scale" => S!ScaledRightly

\* After a good launch, threads that set up the multiplier at the same time do not disturb
\* each other ("Unlike the mach scale factor setup, attempting to set up the sleep offset
\* simultaneously from multiple threads can cause trouble").
SetupTogether == part = "scale" => S!SetupTogether

\* linkat, renameat, fgetattrlist, fsetattrlist, lutimes and lchmod fail or work on the objects
\* they were called for, unless something was moved in between or a path was cut off.
WorksOnWhatItNames == part = "path_ops" => P!WorksOnWhatItNames

\* The clock that the test sets is put back whatever fails, up to the time the test took;
\* see ClockSet for the cases left open.
ClockPutBack == part = "set_time" => C!ClockPutBack

\* The test finds a clock_settime that misses, and no fault with one that does not.
VerdictRight == part = "set_time" => C!VerdictRight

\* An aligned step crosses the boundary it is aligned to.
BoundaryCrossed == part = "set_time" => C!BoundaryCrossed

\* The test of clock_settime tests what it says and puts the clock back
\* (libtest_settime.c).
ClockTested == ClockPutBack /\ VerdictRight /\ BoundaryCrossed

\* No callback of fmemopen's stream touches memory outside of the buffer, wherever seeks,
\* reads and short writes have left the offset, up to the first read past the data
\* (fmemopen_read, fmemopen_write).
WithinBuffer == part = "fmemopen" => M!WithinBuffer

\* What is read are data, up to the first read that begins past them (fmemopen_read).
ReadsWithinData == part = "fmemopen" => M!ReadsWithinData

\* A text stream holds a terminated string unless it is full (fmemopen_write).
TextTerminated == part = "fmemopen" => M!TextTerminated

\* A stream opened for appending never changes what the buffer already holds as data
\* (fmemopen, __SAPP).
AppendKeepsData == [][part = "fmemopen" => M!DataKept]_varsM
=============================================================================
