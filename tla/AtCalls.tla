------------------------------ MODULE AtCalls ------------------------------
(***************************************************************************)
(* The "at" calls of src/atcalls.c, src/fdopendir.c and src/statxx.c, all  *)
(* built on the _ATCALL macro of src/atcalls.h: a relative path is served  *)
(* by moving the calling thread into the directory dirfd, making the plain *)
(* system call there, and moving the thread back.                          *)
(*                                                                         *)
(* One action is one system call of the macro (or of the function around   *)
(* it), so the steps of several threads interleave as they do in a         *)
(* process.  The kernel's part (descriptor table, working directories,     *)
(* credentials) is external: it is modelled from what the code relies on.  *)
(***************************************************************************)
EXTENDS Integers

CONSTANTS
  Threads,       \* threads of the process
  Dirs,          \* directories
  MaxFd,         \* descriptors are 0 .. MaxFd; when all are open, open() fails
  File,          \* what the descriptor of a non-directory denotes
  Inherited,     \* what the descriptors the process starts with may denote
  Closed,        \* an unused slot of the descriptor table
  NoDir,         \* "this thread has no working directory of its own"
  Unreadable,    \* directories that open(".", O_RDONLY) and opendir refuse
  Unsearchable,  \* directories that fchdir refuses
  PerThreadCwd,  \* TRUE: __pthread_fchdir exists (10.5+); FALSE: 10.4
  Ops,           \* the calls the program makes
  BadDirfds,     \* numbers the program may pass as dirfd without holding them
  EaccessDirs,   \* what the dirfd of a call with AT_EACCESS may denote
  Openable,      \* what a path given to openat may name
  Cred0          \* the credentials the program runs with

NoFd    == -1    \* the int -1 of the source
AtFdcwd == -2    \* AT_FDCWD

Fds     == 0 .. MaxFd
Objects == Dirs \cup {File}
AllOps  == {"plain", "openat", "fdopendir", "faccessat"}
Labels  == {"idle", "fstat", "getids", "swapuid", "swapgid", "opencwd", "drop",
            "enter", "what", "restore", "close", "unswapuid", "unswapgid",
            "adopt"}
Calls   == [op : AllOps, dirfd : Fds \cup {NoFd, AtFdcwd}, abs : BOOLEAN,
            eaccess : BOOLEAN]
NoCall  == [op |-> "plain", dirfd |-> AtFdcwd, abs |-> TRUE, eaccess |-> FALSE]
Creds   == [ruid : {Cred0.ruid, Cred0.euid}, euid : {Cred0.ruid, Cred0.euid},
            rgid : {Cred0.rgid, Cred0.egid}, egid : {Cred0.rgid, Cred0.egid}]

ASSUME FdAssumption   == MaxFd \in Nat
ASSUME DirAssumption  == /\ File \notin Dirs
                         /\ Closed \notin Objects
                         /\ NoDir \notin Objects
                         /\ Unreadable \subseteq Dirs
                         /\ Unsearchable \subseteq Dirs
ASSUME BuildAssumption == PerThreadCwd \in BOOLEAN
ASSUME OpsAssumption  == /\ Ops \subseteq AllOps
                         /\ BadDirfds \subseteq Fds \cup {NoFd}
                         /\ EaccessDirs \subseteq Objects
                         /\ Openable \subseteq Objects
                         /\ Inherited \subseteq Objects
ASSUME CredAssumption == Cred0 \in Creds

VARIABLES
  procCwd,   \* working directory of the process
  thrCwd,    \* working directory of each thread, NoDir to use the process's
  fdt,       \* descriptor table
  held,      \* descriptors the program itself holds
  cred,      \* credentials of the process
  pc,        \* where each thread is
  call,      \* arguments of the call each thread is in, NoCall between calls
  oldCWD,    \* _ATCALL's oldCWD
  saved,     \* faccessat's ruid, euid, rgid and egid
  bailing,   \* threads on their way to _ATCALL's "return onerr"
  tmpfd,     \* __dd_fd of the DIR that fdopendir's opendir(".") returned
  home,      \* history: the private directory each thread asked for
  procHome,  \* history: the directory the program asked for with chdir
  target,    \* history: what the call's dirfd denoted when the call was made
  lost       \* history: threads whose open(".") failed, with a cwd to restore

kernel  == <<procCwd, thrCwd, fdt, cred>>
locals  == <<pc, call, oldCWD, saved, bailing, tmpfd>>
aims    == <<home, procHome>>
history == <<aims, target, lost>>
vars    == <<kernel, locals, held, history>>

-----------------------------------------------------------------------------
(***************************************************************************)
(* Kernel operations the code uses.                                        *)
(***************************************************************************)

\* The directory "." stands for in thread t.
Cwd(t) == IF thrCwd[t] # NoDir THEN thrCwd[t] ELSE procCwd

\* open() hands out the lowest free descriptor.
LowestFree(fd) == /\ fdt[fd] = Closed
                  /\ \A g \in Fds : fdt[g] = Closed => fd <= g

TableFull == \A fd \in Fds : fdt[fd] # Closed

\* What fchdir accepts: an open descriptor of a directory it may enter.
Enterable(fd) == fd \in Fds /\ fdt[fd] \in Dirs \ Unsearchable

\* __mpls_best_fchdir(fd).  With __pthread_fchdir, -1 gives up the thread's own
\* directory and is an error when it has none; on 10.4 it is accepted and does
\* nothing, and any other descriptor moves the whole process.
FchdirOK(t, fd) ==
  IF fd = NoFd THEN ~PerThreadCwd \/ thrCwd[t] # NoDir ELSE Enterable(fd)

\* Mutant: the whole process moves although __pthread_fchdir exists.
FchdirEffectProcess(t, fd) ==
  /\ procCwd' = IF Enterable(fd) THEN fdt[fd] ELSE procCwd
  /\ UNCHANGED thrCwd

\* Mutant: the kernel's refusal is not noticed.
FchdirEffectUnchecked(t, fd) ==
  LET there == IF fd \in Fds THEN fdt[fd] ELSE File
  IN IF PerThreadCwd
     THEN thrCwd' = [thrCwd EXCEPT ![t] = there] /\ UNCHANGED procCwd
     ELSE procCwd' = there /\ UNCHANGED thrCwd

FchdirEffect(t, fd) ==
  IF PerThreadCwd
  THEN /\ thrCwd' = [thrCwd EXCEPT ![t] =
                       IF fd = NoFd THEN NoDir
                       ELSE IF Enterable(fd) THEN fdt[fd] ELSE @]
       /\ UNCHANGED procCwd
  ELSE /\ procCwd' = IF fd # NoFd /\ Enterable(fd) THEN fdt[fd] ELSE procCwd
       /\ UNCHANGED thrCwd

\* close(fd), where fd may be -1.
AfterClose(table, fd) == [g \in Fds |-> IF g = fd THEN Closed ELSE table[g]]

-----------------------------------------------------------------------------
\* Thread t goes on at label; "idle" is the return to the program.
Goto(t, label) ==
  /\ pc' = [pc EXCEPT ![t] = label]
  /\ call' = IF label = "idle" THEN [call EXCEPT ![t] = NoCall] ELSE call
  /\ target' = IF label = "idle" THEN [target EXCEPT ![t] = Closed] ELSE target

\* The test that decides whether _ATCALL moves at all.
Moves(c) == c.dirfd # AtFdcwd /\ ~c.abs

\* First label of the macro.
Begin(c) == IF Moves(c) THEN "opencwd" ELSE "what"

\* First label of the function around it.
Start(c) == CASE c.op = "faccessat" -> "getids"
              [] c.op = "fdopendir" -> "fstat"
              [] OTHER              -> Begin(c)

\* What the calling function still does after the macro.
After(c) == CASE c.op = "faccessat" -> "unswapuid"
              [] c.op = "fdopendir" -> "adopt"
              [] OTHER              -> "idle"

CheckEuid(t) == call[t].eaccess /\ saved[t].ruid # saved[t].euid
CheckEgid(t) == call[t].eaccess /\ saved[t].rgid # saved[t].egid

\* Values of dirfd the program passes.
DirfdArgs == held \cup BadDirfds \cup {AtFdcwd}

-----------------------------------------------------------------------------
(***************************************************************************)
(* The program around the calls.                                           *)
(***************************************************************************)

Init ==
  /\ procCwd \in Dirs \ Unsearchable
  /\ thrCwd = [t \in Threads |-> NoDir]
  /\ fdt \in [Fds -> Inherited \cup {Closed}]
  /\ held = {fd \in Fds : fdt[fd] # Closed}
  /\ cred = Cred0
  /\ pc = [t \in Threads |-> "idle"]
  /\ call = [t \in Threads |-> NoCall]
  /\ oldCWD = [t \in Threads |-> NoFd]
  /\ saved = [t \in Threads |-> Cred0]
  /\ bailing = {}
  /\ tmpfd = [t \in Threads |-> NoFd]
  /\ home = thrCwd
  /\ procHome = procCwd
  /\ target = [t \in Threads |-> Closed]
  /\ lost = {}

\* chdir(d) by the program, for the whole process.
Chdir(t) ==
  /\ pc[t] = "idle"
  /\ \E d \in Dirs \ Unsearchable : procCwd' = d /\ procHome' = d
  /\ UNCHANGED <<thrCwd, fdt, cred, locals, held, home, target, lost>>

\* pthread_fchdir_np(fd), fd = -1 included; without the system call it only
\* sets errno.
PthreadFchdir(t) ==
  /\ pc[t] = "idle"
  /\ PerThreadCwd
  /\ \E fd \in held \cup {NoFd} :
       /\ FchdirOK(t, fd)
       /\ FchdirEffect(t, fd)
       /\ home' = [home EXCEPT ![t] = IF fd = NoFd THEN NoDir ELSE fdt[fd]]
       /\ lost' = lost \ {t}
  /\ UNCHANGED <<fdt, cred, locals, held, procHome, target>>

\* The program closes a descriptor (or DIR) that no call in progress was given.
Close(t) ==
  /\ pc[t] = "idle"
  /\ \E fd \in held :
       /\ \A u \in Threads : pc[u] # "idle" => call[u].dirfd # fd
       /\ fdt' = AfterClose(fdt, fd)
       /\ held' = held \ {fd}
  /\ UNCHANGED <<procCwd, thrCwd, cred, locals, history>>

\* A call starts.  Unknown flag bits are refused by ERR_ON before anything is
\* done, which is no step of this model; "plain" stands for the calls whose
\* system call takes no descriptor and changes no state kept here (fchmodat,
\* fchownat, fstatat, getattrlistat, mkdirat, readlinkat, setattrlistat,
\* symlinkat, unlinkat).
Call(t) ==
  /\ pc[t] = "idle"
  /\ \E op \in Ops, fd \in DirfdArgs, abs \in BOOLEAN, eaccess \in BOOLEAN :
       LET c == [op |-> op, dirfd |-> fd, abs |-> abs, eaccess |-> eaccess]
       IN /\ op # "faccessat" => ~eaccess
          /\ eaccess /\ Moves(c) => fd \in held /\ fdt[fd] \in EaccessDirs
          /\ op = "fdopendir" => ~abs           \* the path is the literal "."
          /\ call' = [call EXCEPT ![t] = c]
          /\ pc' = [pc EXCEPT ![t] = Start(c)]
          /\ target' = [target EXCEPT ![t] =
                           IF fd \in held THEN fdt[fd] ELSE Closed]
  /\ UNCHANGED <<kernel, oldCWD, saved, bailing, tmpfd, held, aims, lost>>

-----------------------------------------------------------------------------
(***************************************************************************)
(* faccessat before the macro.                                             *)
(***************************************************************************)

GetIds(t) ==
  /\ pc[t] = "getids"
  /\ saved' = [saved EXCEPT ![t] = cred]
  /\ Goto(t, "swapuid")
  /\ UNCHANGED <<kernel, oldCWD, bailing, tmpfd, held, aims, lost>>

SwapUid(t) ==
  /\ pc[t] = "swapuid"
  /\ cred' = IF CheckEuid(t)
             THEN [cred EXCEPT !.ruid = saved[t].euid, !.euid = saved[t].ruid]
             ELSE cred
  /\ Goto(t, "swapgid")
  /\ UNCHANGED <<procCwd, thrCwd, fdt, oldCWD, saved, bailing, tmpfd, held,
                 aims, lost>>

SwapGid(t) ==
  /\ pc[t] = "swapgid"
  /\ cred' = IF CheckEgid(t)
             THEN [cred EXCEPT !.rgid = saved[t].egid, !.egid = saved[t].rgid]
             ELSE cred
  /\ Goto(t, Begin(call[t]))
  /\ UNCHANGED <<procCwd, thrCwd, fdt, oldCWD, saved, bailing, tmpfd, held,
                 aims, lost>>

(***************************************************************************)
(* fdopendir before the macro: fstat must succeed and show a directory.    *)
(***************************************************************************)
Fstat(t) ==
  /\ pc[t] = "fstat"
  /\ LET fd == call[t].dirfd
     IN Goto(t, IF fd \in Fds /\ fdt[fd] \in Dirs THEN Begin(call[t])
                                                  ELSE "idle")
  /\ UNCHANGED <<kernel, oldCWD, saved, bailing, tmpfd, held, aims, lost>>

-----------------------------------------------------------------------------
(***************************************************************************)
(* The _ATCALL macro.                                                      *)
(***************************************************************************)

\* oldCWD = open(".", O_RDONLY)
OpenCwd(t) ==
  /\ pc[t] = "opencwd"
  /\ \/ /\ Cwd(t) \notin Unreadable
        /\ \E fd \in Fds : /\ LowestFree(fd)
                           /\ oldCWD' = [oldCWD EXCEPT ![t] = fd]
                           /\ fdt' = [fdt EXCEPT ![fd] = Cwd(t)]
     \/ /\ Cwd(t) \in Unreadable \/ TableFull
        /\ oldCWD' = [oldCWD EXCEPT ![t] = NoFd]
        /\ UNCHANGED fdt
  /\ Goto(t, "drop")
  /\ UNCHANGED <<procCwd, thrCwd, cred, saved, bailing, tmpfd, held,
                 aims, lost>>

\* if (__mpls_best_fchdir(-1) < 0 && oldCWD != -1) close it and forget it.
DropCwd(t) ==
  /\ pc[t] = "drop"
  /\ FchdirEffect(t, NoFd)
  /\ IF FchdirOK(t, NoFd)
     THEN /\ UNCHANGED <<fdt, oldCWD>>
          /\ lost' = IF oldCWD[t] = NoFd THEN lost \cup {t} ELSE lost
     ELSE /\ fdt' = AfterClose(fdt, oldCWD[t])
          /\ oldCWD' = [oldCWD EXCEPT ![t] = NoFd]
          /\ UNCHANGED lost
  /\ Goto(t, "enter")
  /\ UNCHANGED <<cred, saved, bailing, tmpfd, held, aims>>

\* Mutant: the result of __mpls_best_fchdir(fd) is ignored.
EnterDirUnchecked(t) ==
  /\ pc[t] = "enter"
  /\ FchdirEffect(t, call[t].dirfd)
  /\ Goto(t, "what")
  /\ UNCHANGED <<fdt, cred, oldCWD, saved, bailing, tmpfd, held, aims, lost>>

\* if (__mpls_best_fchdir(fd) < 0) go back and return onerr.
EnterDir(t) ==
  /\ pc[t] = "enter"
  /\ FchdirEffect(t, call[t].dirfd)
  /\ \/ FchdirOK(t, call[t].dirfd) /\ Goto(t, "what") /\ UNCHANGED bailing
     \/ /\ ~FchdirOK(t, call[t].dirfd)
        /\ Goto(t, "restore")
        /\ bailing' = bailing \cup {t}
  /\ UNCHANGED <<fdt, cred, oldCWD, saved, tmpfd, held, aims, lost>>

\* __result = (what), which may fail: a system call that opens nothing,
WhatPlain(t) ==
  /\ pc[t] = "what"
  /\ call[t].op \in {"plain", "faccessat"}
  /\ Goto(t, IF Moves(call[t]) THEN "restore" ELSE After(call[t]))
  /\ UNCHANGED <<procCwd, thrCwd, fdt, cred, oldCWD, saved, bailing, tmpfd,
                 held, aims, lost>>

\* open(pathname, flags, mode), whose result is the program's,
WhatOpen(t) ==
  /\ pc[t] = "what"
  /\ call[t].op = "openat"
  /\ Goto(t, IF Moves(call[t]) THEN "restore" ELSE After(call[t]))
  /\ \/ \E fd \in Fds, obj \in Openable : /\ LowestFree(fd)
                                         /\ fdt' = [fdt EXCEPT ![fd] = obj]
                                         /\ held' = held \cup {fd}
     \/ UNCHANGED <<fdt, held>>
  /\ UNCHANGED <<procCwd, thrCwd, cred, oldCWD, saved, bailing, tmpfd, aims,
                 lost>>

\* or opendir("."), whose descriptor fdopendir will close.
WhatOpendir(t) ==
  /\ pc[t] = "what"
  /\ call[t].op = "fdopendir"
  /\ Goto(t, "restore")
  /\ \/ /\ Cwd(t) \notin Unreadable
        /\ \E fd \in Fds : /\ LowestFree(fd)
                           /\ fdt' = [fdt EXCEPT ![fd] = Cwd(t)]
                           /\ tmpfd' = [tmpfd EXCEPT ![t] = fd]
     \/ /\ Cwd(t) \in Unreadable \/ TableFull
        /\ UNCHANGED <<fdt, tmpfd>>
  /\ UNCHANGED <<procCwd, thrCwd, cred, oldCWD, saved, bailing, held, aims,
                 lost>>

\* Mutant: the error path does not go back.
RestoreCwdSuccessOnly(t) ==
  /\ pc[t] = "restore"
  /\ IF t \in bailing THEN UNCHANGED <<thrCwd, procCwd>>
                      ELSE FchdirEffect(t, oldCWD[t])
  /\ Goto(t, "close")
  /\ UNCHANGED <<fdt, cred, oldCWD, saved, bailing, tmpfd, held, aims, lost>>

\* Mutant: only the error path goes back.
RestoreCwdErrorOnly(t) ==
  /\ pc[t] = "restore"
  /\ IF t \in bailing THEN FchdirEffect(t, oldCWD[t])
                      ELSE UNCHANGED <<thrCwd, procCwd>>
  /\ Goto(t, "close")
  /\ UNCHANGED <<fdt, cred, oldCWD, saved, bailing, tmpfd, held, aims, lost>>

\* PROTECT_ERRNO(__mpls_best_fchdir(oldCWD)), after "what" or on the way out.
RestoreCwd(t) ==
  /\ pc[t] = "restore"
  /\ FchdirEffect(t, oldCWD[t])
  /\ Goto(t, "close")
  /\ UNCHANGED <<fdt, cred, oldCWD, saved, bailing, tmpfd, held, aims, lost>>

\* Mutant: "return onerr" without the close.
CloseCwdSuccessOnly(t) ==
  /\ pc[t] = "close"
  /\ fdt' = IF t \in bailing THEN fdt ELSE AfterClose(fdt, oldCWD[t])
  /\ oldCWD' = [oldCWD EXCEPT ![t] = NoFd]
  /\ bailing' = bailing \ {t}
  /\ Goto(t, IF t \in bailing THEN "idle" ELSE After(call[t]))
  /\ UNCHANGED <<procCwd, thrCwd, cred, saved, tmpfd, held, aims, lost>>

\* if (oldCWD != -1) close(oldCWD).  The error path's "return onerr" leaves the
\* function the macro is used in, not just the macro.
CloseCwd(t) ==
  /\ pc[t] = "close"
  /\ fdt' = AfterClose(fdt, oldCWD[t])
  /\ oldCWD' = [oldCWD EXCEPT ![t] = NoFd]
  /\ bailing' = bailing \ {t}
  /\ Goto(t, IF t \in bailing THEN "idle" ELSE After(call[t]))
  /\ UNCHANGED <<procCwd, thrCwd, cred, saved, tmpfd, held, aims, lost>>

-----------------------------------------------------------------------------
(***************************************************************************)
(* What the functions do after the macro.                                  *)
(***************************************************************************)

\* faccessat: setreuid(ruid, euid), then setregid(rgid, egid).
UnswapUid(t) ==
  /\ pc[t] = "unswapuid"
  /\ cred' = IF CheckEuid(t)
             THEN [cred EXCEPT !.ruid = saved[t].ruid, !.euid = saved[t].euid]
             ELSE cred
  /\ Goto(t, "unswapgid")
  /\ UNCHANGED <<procCwd, thrCwd, fdt, oldCWD, saved, bailing, tmpfd, held,
                 aims, lost>>

\* Mutant: the group ids stay swapped.
UnswapGidNever(t) ==
  /\ pc[t] = "unswapgid"
  /\ Goto(t, "idle")
  /\ UNCHANGED <<kernel, oldCWD, saved, bailing, tmpfd, held, aims, lost>>

UnswapGid(t) ==
  /\ pc[t] = "unswapgid"
  /\ cred' = IF CheckEgid(t)
             THEN [cred EXCEPT !.rgid = saved[t].rgid, !.egid = saved[t].egid]
             ELSE cred
  /\ Goto(t, "idle")
  /\ UNCHANGED <<procCwd, thrCwd, fdt, oldCWD, saved, bailing, tmpfd, held,
                 aims, lost>>

\* fdopendir: close the DIR's own descriptor and put the caller's in its place
\* (rewinddir and FD_CLOEXEC follow); a NULL from opendir is returned as it is.
Adopt(t) ==
  /\ pc[t] = "adopt"
  /\ fdt' = AfterClose(fdt, tmpfd[t])
  /\ tmpfd' = [tmpfd EXCEPT ![t] = NoFd]
  /\ Goto(t, "idle")
  /\ UNCHANGED <<procCwd, thrCwd, cred, oldCWD, saved, bailing, held,
                 aims, lost>>

Step(t) ==
  \/ GetIds(t) \/ SwapUid(t) \/ SwapGid(t) \/ Fstat(t)
  \/ OpenCwd(t) \/ DropCwd(t) \/ EnterDir(t)
  \/ WhatPlain(t) \/ WhatOpen(t) \/ WhatOpendir(t)
  \/ RestoreCwd(t) \/ CloseCwd(t)
  \/ UnswapUid(t) \/ UnswapGid(t) \/ Adopt(t)

Next == \E t \in Threads :
          Chdir(t) \/ PthreadFchdir(t) \/ Close(t) \/ Call(t) \/ Step(t)

Spec == Init /\ [][Next]_vars

-----------------------------------------------------------------------------
(***************************************************************************)
(* Properties.                                                             *)
(***************************************************************************)

TypeOK ==
  /\ procCwd \in Dirs
  /\ thrCwd \in [Threads -> Dirs \cup {NoDir}]
  /\ fdt \in [Fds -> Objects \cup {Closed}]
  /\ held \subseteq Fds
  /\ cred \in Creds
  /\ pc \in [Threads -> Labels]
  /\ call \in [Threads -> Calls]
  /\ oldCWD \in [Threads -> Fds \cup {NoFd}]
  /\ saved \in [Threads -> Creds]
  /\ bailing \subseteq Threads
  /\ tmpfd \in [Threads -> Fds \cup {NoFd}]
  /\ home \in [Threads -> Dirs \cup {NoDir}]
  /\ procHome \in Dirs
  /\ target \in [Threads -> Objects \cup {Closed}]
  /\ lost \subseteq Threads

\* A thread outside the library is in the directory it chose for itself, even
\* when the call failed half-way: _ATCALL puts the private working directory
\* back on both of its exits.  The only exception is the thread whose
\* open(".") failed, for which the macro has nothing to go back to.
CwdPreserved ==
  \A t \in Threads :
    PerThreadCwd /\ pc[t] = "idle" /\ t \notin lost => thrCwd[t] = home[t]

\* The at calls never move the process: with __pthread_fchdir not even while
\* one is running, and on 10.4 not once they have returned.
ProcCwdPreserved ==
  PerThreadCwd \/ (lost = {} /\ \A t \in Threads : pc[t] = "idle")
    => procCwd = procHome

\* Between calls exactly the program's own descriptors are open: oldCWD and the
\* descriptor opendir made are closed on every path, and at no time does the
\* library close a descriptor that is not its own.
NoFdLeak ==
  /\ \A fd \in held : fdt[fd] # Closed
  /\ (\A t \in Threads : pc[t] = "idle")
       => \A fd \in Fds : fdt[fd] # Closed => fd \in held

\* When the system call behind an at call is made, "." is the directory the
\* caller's dirfd stood for when the call was made, whatever other threads do
\* to their own working directories or to the process's in the meantime.
RelativeToDirfd ==
  \A t \in Threads :
    pc[t] = "what" /\ Moves(call[t]) /\ target[t] # Closed
      => Cwd(t) = target[t]

\* A dirfd that is not an open descriptor is refused: the system call is never
\* made.  (test/test_faccessat.c passes -1 and expects failure.)
BadDirfdRejected ==
  \A t \in Threads :
    pc[t] = "what" /\ Moves(call[t]) => target[t] # Closed

\* faccessat's access() is judged by the identity the caller asked for: with
\* AT_EACCESS the program's effective ids, without it the real ones
\* (include/sys/fcntl.h: "Use effective ids in access check").  It takes a
\* second call to break it: ids an earlier call left swapped.
AccessIdentity ==
  \A t \in Threads :
    pc[t] = "what" /\ call[t].op = "faccessat" =>
      IF call[t].eaccess
      THEN cred.ruid = Cred0.euid /\ cred.rgid = Cred0.egid
      ELSE cred.ruid = Cred0.ruid /\ cred.rgid = Cred0.rgid
=============================================================================
