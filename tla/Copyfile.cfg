\* Two calls with every kind of source and destination, a state of the program's
\* or none, and failures at every stage.
SPECIFICATION Spec
CONSTANTS
  FlagSets <- SomeFlags
  StateFlags = {{"DATA"}}
  Sources = {"x", "l", "d", "f"}
  Targets = {"p", "q"}
  Attributes = {"a", "com", "quarantine"}
  Places = {"none", "acl", "dir"}
  Functions = {"copyfile", "fcopyfile"}
  SameUid = TRUE
  Faults = {"chmodx", "statx", "open", "remove", "pack", "xattr", "data", "unlink", "quit", "security", "fchmod", "reset", "memory"}
  MaxCalls = 2
  MaxRetries = 1
  IBlk = 2
  OBlk = 1
INVARIANTS DataWhole  SecurityRestored DescriptorsKept
 
CHECK_DEADLOCK FALSE
