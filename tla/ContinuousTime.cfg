\* Two threads on 64-bit and 32-bit builds; the system sleeps before and after launch, the
\* clock is set, the boot time with it or not, and the offsets are never negative.
SPECIFICATION Spec
CONSTANTS
  Threads = {t1, t2}
  Main = t1
  NoThread = none
  Word = 5
  Splits = {FALSE, TRUE}
  MinAdvance = 1
  DriftDivisor = 2
  Delay = 0
  SleptBefore = 6
  MaxNow = 1
  MaxAsleep = 7
  Steps = {2}
  MaxSteps = 1
  BootFollows = {TRUE, FALSE}
  MaxStray = 2
  Jitters = {0, 1}
  MayFail = TRUE
INVARIANTS NeverBack NotAhead SleepCounted
PROPERTY CallsReturn
