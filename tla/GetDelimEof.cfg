SPECIFICATION Spec
CONSTANTS
  Parts = {"getdelim"}
  Pids = {1, 2}
  RThreads = {1, 2}
  RsBufSz = 5
  KeyIvSz = 2
  ValSz = 2
  Reseed = 6
  RWord = 16
  Lengths = {5, 7}
  MaxRequests = 4
  MaxForks = 2
  Chars = {"x", "n"}
  Delim = "n"
  BufSiz = 2
  FirstSizes = {0, 2, 3}
  MaxInput = 6
  MaxLines = 3
  FThreads = {1, 2, 3}
  Styles = {"os_func", "realpath", "recvmsg"}
  LThreads = {1, 2, 3}
  SThreads = {1, 2}
  Builds = {"64-bit", "32-bit"}
  Launches = {"ok", "failed"}
  Objects = {"d1", "d2", "f", "l"}
  Dirs = {"d1", "d2"}
  Deep = {"deep"}
  Cwd = "d1"
  MaxMoves = 2
  Gran = 2
  Bump = 8
  Fudge = 2
  Cycle = 20
  Limit = 2
  Extras = {0, 1, 2}
  Misses = 12
  Lead = 27
  MaxLags = 3
  Size = 3
  SizeModulus = 16
  Reach = 9
  MaxCount = 4
  Bytes = {1, 2}
INVARIANT LineTerminated
CHECK_DEADLOCK FALSE
