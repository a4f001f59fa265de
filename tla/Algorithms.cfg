SPECIFICATION Spec
CONSTANTS
  Half = 4
  Extra = 1
  Thousand = 3
  Million = 4
  Precision = 64
  MaxSize = 148
  MaxHdrSize = 146
  MaxAttrLen = 2
  FinderInfoSize = 2
  CBuf = 13
  Bits = 5
  PageSize = 16
  PointerSize = 2
  MallocAlign = 4
  LongLimit = 8
  StdioBuf = 3
  UWord = 16
  Micro = 3
  MachUnit = 2
  NumDiffs = 3
  VmPage = 4
  StatSize = 2
  Stat64Size = 3
  LowLimit = 8
  MaxPathLen = 3
INVARIANTS ClocksRight  MemoryRight FilesRight CommandsRight NoModuloBias
