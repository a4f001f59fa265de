\* The 10.4 build: __mpls_best_fchdir moves the whole process, so one thread,
\* which belongs to a set-user-ID program.
SPECIFICATION Spec
CONSTANTS
  Threads = {t1}
  Dirs = {d1, d2, d3}
  MaxFd = 2
  File = File
  Inherited = {d1, d2, d3, File}
  Closed = Closed
  NoDir = NoDir
  Unreadable = {d2}
  Unsearchable = {d3}
  PerThreadCwd = FALSE
  Ops = {"plain", "openat", "fdopendir", "faccessat"}
  BadDirfds <- BadNumbers
  EaccessDirs = {d1, d2}
  Openable = {d1, File}
  Cred0 <- SetuidCred
INVARIANTS ProcCwdPreserved RelativeToDirfd AccessIdentity
