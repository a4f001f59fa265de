\* Four entries, or six of which two cannot be copied, over nothing, over an older copy
\* and over entries of other kinds; every answer of the callback.
SPECIFICATION Spec
CONSTANTS
  Nodes <- TreeNodes
  Root = "r"
  Parent <- TreeParent
  Kind <- TreeKind
  Walks <- TreeWalks
  Existing <- TreeExisting
  SourceAcls <- AclSource
  TargetAcls <- AclTarget
  Inherits <- AclInherited
  SameUid = TRUE
  Flags <- AllFlags
  MayFail = TRUE
INVARIANTS NothingLostSilently UberaceKept AnswersFollowed
CHECK_DEADLOCK FALSE
