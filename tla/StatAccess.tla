----------------------------- MODULE StatAccess -----------------------------
(***************************************************************************)
(* The stat functions of src/statxx.c: the 64-bit inode variants made from *)
(* the 32-bit ones in the caller's buffer, the repairs of 10.4, and the    *)
(* check of the caller's memory, __mpls_check_access of src/util.c, which  *)
(* F_GETPATH in src/fcntl.c uses too.                                      *)
(*                                                                         *)
(* Memory is a function from page numbers to "none", "ro" and "rw"; every  *)
(* page is a region of its own.                                            *)
(***************************************************************************)
EXTENDS Integers, Sequences, FiniteSets, FiniteSetsExt

CONSTANTS
  VmPage,       \* bytes of a page
  StatSize,     \* sizeof(struct stat)
  Stat64Size,   \* sizeof(struct stat64)
  LowLimit,     \* addresses from here on are beyond 32 bits
  MaxPathLen,   \* MAXPATHLEN
  SwapFd(_)     \* OSSwapInt32

NoAdr == -1
PageOf(adr) == adr \div VmPage
Region(mem, page) == LET v == {p \in DOMAIN mem : p >= page /\ mem[p] # "none"}
                     IN IF v = {} THEN NoAdr ELSE Min(v)
Writable(mem, adr, size) == \A a \in adr .. adr + size - 1 : PageOf(a) \in DOMAIN mem /\ mem[PageOf(a)] = "rw"

\* Mutant: only the start must be on the page known to be good.
SamePageStart(start, size, okadr) == okadr # NoAdr /\ PageOf(start) = PageOf(okadr)

\* The whole range lies on the page of an address known to be good.
SamePage(start, size, okadr) ==
  okadr # NoAdr /\ PageOf(start) = PageOf(okadr) /\ PageOf(start + size - 1) = PageOf(okadr)

\* The regions after the first one: each must start before the end and be writable.
Covered(mem, page, end) ==
  LET from[p \in 0 .. Max(DOMAIN mem) + 2] ==
        \/ end <= p * VmPage
        \/ LET q == Region(mem, p)
           IN q # NoAdr /\ q * VmPage < end /\ mem[q] = "rw" /\ from[q + 1]
  IN from[page]

\* __mpls_check_access for writing.
CheckAccess(mem, start, size, okadr) ==
  \/ SamePage(start, size, okadr)
  \/ /\ Region(mem, PageOf(start)) = PageOf(start)
     /\ mem[PageOf(start)] = "rw"
     /\ Covered(mem, PageOf(start) + 1, start + size)

-----------------------------------------------------------------------------
(* A stat is a record of its times and of the rest; times are <<sec, nsec>>. *)

Before(a, b) == a[1] < b[1] \/ (a[1] = b[1] /\ a[2] < b[2])

\* The birth time is the earlier of the two.
BirthTime(st) == IF Before(st.ctime, st.mtime) THEN st.ctime ELSE st.mtime

\* The system's stat writes its structure if it may.
OsStat(mem, adr, st, fails) ==
  IF fails THEN [ret |-> -1, errno |-> "ENOENT"]
  ELSE IF ~Writable(mem, adr, StatSize) THEN [ret |-> -1, errno |-> "EFAULT"]
  ELSE [ret |-> 0, errno |-> "OK"]

\* fix_stat, on 10.4 ppc64: the nanoseconds are cleared.
FixStat(st) == [st EXCEPT !.atime[2] = 0, !.mtime[2] = 0, !.ctime[2] = 0]

\* The part of the structure that the system has not written.
ExtraOk(mem, adr) == CheckAccess(mem, adr + StatSize, Stat64Size - StatSize, adr)

\* convert_stat, with the result of the 32-bit variant; written is what it wrote.
ConvertStat(r, mem, adr, st, extra) ==
  IF r.ret # 0 THEN [ret |-> r.ret, errno |-> r.errno, written |-> {}, st |-> st]
  ELSE IF ~extra THEN [ret |-> -1, errno |-> "EFAULT", written |-> {}, st |-> st]
  ELSE [ret |-> 0, errno |-> "OK", written |-> adr .. adr + Stat64Size - 1,
        st |-> [atime |-> st.atime, mtime |-> st.mtime, ctime |-> st.ctime,
                birthtime |-> BirthTime(st), rest |-> st.rest]]

\* stat$INODE64, lstat$INODE64, fstat$INODE64, their statx forms and stat64.
Stat64(mem, adr, st, fails, ppc64) ==
  LET given == IF ppc64 THEN FixStat(st) ELSE st
  IN ConvertStat(OsStat(mem, adr, st, fails), mem, adr, given, ExtraOk(mem, adr))

-----------------------------------------------------------------------------
\* is_tiger_rosetta: 1 yes, -1 no.
IsTigerRosetta(env) == IF ~env.sysctlFails /\ ~env.native /\ env.tiger THEN 1 ELSE -1

\* fstatx_np, on 10.4 ppc: the descriptor that the system's function is given;
\* cached is tiger_rosetta before the call.
FdPassed(cached, fsec, fd, env) ==
  LET known == IF cached = 0 THEN IsTigerRosetta(env) ELSE cached
  IN IF cached < 0 \/ ~fsec THEN fd ELSE IF known >= 0 THEN SwapFd(fd) ELSE fd

\* Rosetta's fault: the descriptor is swapped with a filesec, on 10.4.
FdSeen(passed, fsec, env) == IF fsec /\ IsTigerRosetta(env) = 1 THEN SwapFd(passed) ELSE passed

\* The system's F_GETPATH of 10.4 ppc64: addresses beyond 32 bits always fault.
OsGetPath(mem, adr) == adr < LowLimit /\ Writable(mem, adr, MaxPathLen)

\* fcntl(F_GETPATH): when it faults at a high address the caller's memory is
\* checked, and the path goes through the static buffer.
GetPath(mem, adr) ==
  IF OsGetPath(mem, adr) THEN "path"
  ELSE IF adr < LowLimit THEN "EFAULT"
  ELSE IF ~CheckAccess(mem, adr, MaxPathLen, NoAdr) THEN "EFAULT"
  ELSE "path"

-----------------------------------------------------------------------------
\* For ranges that are not longer than a page, as all callers' are, the check
\* accepts exactly the writable ones; longer ones with a hole may pass
\* (__mpls_check_access).
AccessExact(mem, start, size, okadr, ok) ==
  size \in 1 .. VmPage /\ (okadr # NoAdr => Writable(mem, okadr, 1)) =>
    (ok <=> Writable(mem, start, size))

\* The stat of a file reaches the caller whole or not at all: success means that
\* all of the larger structure is writable and holds the system's values and a
\* birth time that is not after the change or the modification; otherwise nothing
\* past the system's own structure was written (convert_stat).
StatWhole(mem, adr, st, fails, ppc64, r) ==
  /\ \A a \in r.written : Writable(mem, a, 1)
  /\ r.ret = 0 <=> ~fails /\ Writable(mem, adr, Stat64Size)
  /\ r.ret = 0 =>
       /\ r.st.rest = st.rest /\ r.st.mtime[1] = st.mtime[1] /\ r.st.ctime[1] = st.ctime[1]
       /\ ~Before(r.st.mtime, r.st.birthtime) /\ ~Before(r.st.ctime, r.st.birthtime)
       /\ ~ppc64 => r.st.mtime = st.mtime /\ r.st.ctime = st.ctime /\ r.st.atime = st.atime

\* Whatever is cached, the system ends up with the caller's descriptor (fstatx_np).
RightFd(fd, fsec, passed, env) == FdSeen(passed, fsec, env) = fd

\* F_GETPATH answers for every writable buffer and faults for every other one
\* (fcntl).
PathAnswered(mem, adr, r) == r = "path" <=> Writable(mem, adr, MaxPathLen)
=============================================================================
