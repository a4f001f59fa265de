\* A set-user-ID program, one thread, which may pass a dirfd that cannot be
\* entered.
SPECIFICATION Spec
CONSTANTS
  Threads = {t1}
  Dirs = {d1, d2}
  MaxFd = 1
  File = File
  Inherited = {d1, d2, File}
  Closed = Closed
  NoDir = NoDir
  Unreadable = {d2}
  Unsearchable = {}
  PerThreadCwd = TRUE
  Ops = {"faccessat"}
  BadDirfds <- BadNumbers
  EaccessDirs = {d1, d2, File}
  Openable = {d1, File}
  Cred0 <- SetuidCred
INVARIANTS AccessIdentity
