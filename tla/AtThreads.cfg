\* Two threads of a 10.5+ process making at calls while either changes the
\* process's or its own working directory; the descriptor table can fill up
\* and d2 is a directory that can be entered but not read.
SPECIFICATION Spec
CONSTANTS
  Threads = {t1, t2}
  Dirs = {d1, d2}
  MaxFd = 2
  File = File
  Inherited = {d1, d2, File}
  Closed = Closed
  NoDir = NoDir
  Unreadable = {d2}
  Unsearchable = {}
  PerThreadCwd = TRUE
  Ops = {"openat", "fdopendir"}
  BadDirfds <- BadNumbers
  EaccessDirs = {d1, d2}
  Openable = {d1, File}
  Cred0 <- SetuidCred
SYMMETRY ThreadSymmetry
INVARIANTS CwdPreserved NoFdLeak RelativeToDirfd
