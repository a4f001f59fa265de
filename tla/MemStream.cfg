\* Writes and seeks around the points where the buffer grows; realloc may fail
\* in a write.
SPECIFICATION Spec
CONSTANTS
  Capacity0 = 2
  MaxDoublings = 2
  MaxPosition = 5
  MaxCount = 2
  Bytes = {1, 2}
  SizeModulus = 64
  BelowZero = 0
  WriteMayFail = TRUE
  SeekMayFail = FALSE
INVARIANTS NullAfterData CallerView
PROPERTY ImplementsStream
CHECK_DEADLOCK FALSE
