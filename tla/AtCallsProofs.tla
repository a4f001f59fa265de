--------------------------- MODULE AtCallsProofs ---------------------------
(***************************************************************************)
(* Proofs about AtCalls, for any number of threads, any descriptor table   *)
(* and any set of directories: type correctness, the descriptor accounting *)
(* of _ATCALL and fdopendir, that the calls put the thread's and the       *)
(* process's directory back and run in dirfd's directory, and that         *)
(* faccessat asks with the right ids.                                      *)
(***************************************************************************)
EXTENDS AtCalls, TLAPS

\* Labels between open(".") and close(oldCWD).
Macro == {"drop", "enter", "what", "restore", "close"}

\* Labels between opendir(".") and close(dir->__dd_fd).
Opened == {"restore", "close", "adopt"}

\* The library's own descriptors: each is open, none is the program's and no
\* two are the same.
OwnFds ==
  /\ \A fd \in held : fdt[fd] # Closed
  /\ \A t \in Threads : oldCWD[t] # NoFd =>
       /\ fdt[oldCWD[t]] # Closed
       /\ oldCWD[t] \notin held
       /\ \A u \in Threads : oldCWD[u] = oldCWD[t] => u = t
  /\ \A t \in Threads : tmpfd[t] # NoFd =>
       /\ fdt[tmpfd[t]] # Closed
       /\ tmpfd[t] \notin held
       /\ \A u \in Threads : tmpfd[u] = tmpfd[t] => u = t
       /\ \A u \in Threads : oldCWD[u] # tmpfd[t]

\* Every open descriptor has an owner.
Owned ==
  \A fd \in Fds : fdt[fd] # Closed =>
    fd \in held \/ \E t \in Threads : oldCWD[t] = fd \/ tmpfd[t] = fd

\* Where a thread can hold a descriptor of the library's.
Control ==
  \A t \in Threads :
    /\ oldCWD[t] # NoFd => pc[t] \in Macro /\ Moves(call[t])
    /\ tmpfd[t] # NoFd => /\ pc[t] \in Opened
                          /\ call[t].op = "fdopendir"
                          /\ t \notin bailing
    /\ t \in bailing => pc[t] \in {"restore", "close"}
    /\ pc[t] \in {"fstat", "adopt"} => call[t].op = "fdopendir"
    /\ call[t].op = "fdopendir" => /\ ~call[t].abs
                                   /\ Moves(call[t]) \/ pc[t] = "fstat"
    /\ pc[t] \in {"opencwd", "drop", "enter", "restore", "close"}
         => Moves(call[t])

FdInv == OwnFds /\ Owned /\ Control

\* A call's dirfd stays what it was while the call runs.
DirfdStable ==
  \A t \in Threads : target[t] # Closed =>
    /\ pc[t] # "idle"
    /\ call[t].dirfd \in held
    /\ fdt[call[t].dirfd] = target[t]

\* Thread t is away from its own directory.
Away(t) == pc[t] \in {"enter", "restore"} \/ (pc[t] = "what" /\ Moves(call[t]))

\* Away from home, oldCWD is the way back; otherwise the thread is at home.  At
\* "drop" both hold, unless the directory opened was the process's.
WayBack(t) ==
  /\ thrCwd[t] \notin Unsearchable
  /\ home[t] \notin Unsearchable
  /\ t \notin lost =>
       /\ ~Away(t) => thrCwd[t] = home[t]
       /\ Away(t) => home[t] = IF oldCWD[t] = NoFd THEN NoDir
                                                  ELSE fdt[oldCWD[t]]
       /\ pc[t] = "drop" /\ oldCWD[t] # NoFd /\ thrCwd[t] # NoDir
            => fdt[oldCWD[t]] = thrCwd[t]

\* Between the two fchdir calls the thread is where dirfd is.
InDirfd(t) ==
  pc[t] = "what" /\ Moves(call[t]) /\ target[t] # Closed
    => thrCwd[t] = target[t]

CwdInv == DirfdStable /\ \A t \in Threads : WayBack(t) /\ InDirfd(t)

-----------------------------------------------------------------------------
USE FdAssumption, DirAssumption, BuildAssumption, OpsAssumption, CredAssumption
USE DEF NoFd, AtFdcwd, Fds

\* __mpls_best_fchdir leaves the process and every thread in a directory.
LEMMA FchdirTypes ==
  ASSUME TypeOK, NEW t \in Threads, NEW fd \in Fds \cup {NoFd, AtFdcwd},
         FchdirEffect(t, fd)
  PROVE  procCwd' \in Dirs /\ thrCwd' \in [Threads -> Dirs \cup {NoDir}]
BY DEF TypeOK, FchdirEffect, Enterable

\* Going on at a label keeps pc, call and target in their types.
LEMMA GotoTypes ==
  ASSUME TypeOK, NEW t \in Threads, NEW label \in Labels, Goto(t, label)
  PROVE  /\ pc' \in [Threads -> Labels]
         /\ call' \in [Threads -> Calls]
         /\ target' \in [Threads -> Objects \cup {Closed}]
BY DEF TypeOK, Goto, NoCall, Calls, AllOps

\* The labels the macro starts at and goes on at are labels.
LEMMA LabelTypes ==
  ASSUME NEW c
  PROVE  Start(c) \in Labels /\ Begin(c) \in Labels /\ After(c) \in Labels
BY DEF Start, Begin, After, Labels

\* close() keeps the descriptor table's type.
LEMMA CloseTypes ==
  ASSUME TypeOK, NEW fd
  PROVE  AfterClose(fdt, fd) \in [Fds -> Objects \cup {Closed}]
BY DEF TypeOK, AfterClose

\* The state keeps its types under every step of every thread.
LEMMA TypeStep == TypeOK /\ [Next]_vars => TypeOK'
<1> USE DEF kernel, locals, aims, history, vars
<1> SUFFICES ASSUME TypeOK, [Next]_vars PROVE TypeOK'
  OBVIOUS
<1>0. CASE UNCHANGED vars
  BY <1>0 DEF TypeOK
<1> SUFFICES ASSUME NEW t \in Threads,
               Chdir(t) \/ PthreadFchdir(t) \/ Close(t) \/ Call(t) \/ Step(t)
             PROVE  TypeOK'
  BY <1>0 DEF Next
<1>1. CASE Chdir(t)
  BY <1>1 DEF TypeOK, Chdir
<1>2. CASE PthreadFchdir(t)
  <2>1. PICK fd \in held \cup {NoFd} :
          /\ FchdirOK(t, fd)
          /\ FchdirEffect(t, fd)
          /\ home' = [home EXCEPT ![t] = IF fd = NoFd THEN NoDir ELSE fdt[fd]]
          /\ lost' = lost \ {t}
    BY <1>2 DEF PthreadFchdir
  <2>2. fd \in Fds \cup {NoFd}
    BY <2>1 DEF TypeOK
  <2>3. procCwd' \in Dirs /\ thrCwd' \in [Threads -> Dirs \cup {NoDir}]
    BY <2>1, <2>2, FchdirTypes
  <2>4. home' \in [Threads -> Dirs \cup {NoDir}] /\ lost' \subseteq Threads
    BY <2>1, <2>2 DEF TypeOK, FchdirOK, Enterable
  <2> QED
    BY <1>2, <2>3, <2>4 DEF TypeOK, PthreadFchdir
<1>3. CASE Close(t)
  BY <1>3, CloseTypes DEF TypeOK, Close
<1>4. CASE Call(t)
  <2>1. PICK op \in Ops, fd \in DirfdArgs,
             abs \in BOOLEAN, eaccess \in BOOLEAN :
          LET c == [op |-> op, dirfd |-> fd, abs |-> abs, eaccess |-> eaccess]
          IN /\ op # "faccessat" => ~eaccess
             /\ eaccess /\ Moves(c) => fd \in held /\ fdt[fd] \in EaccessDirs
             /\ op = "fdopendir" => ~abs
             /\ call' = [call EXCEPT ![t] = c]
             /\ pc' = [pc EXCEPT ![t] = Start(c)]
             /\ target' = [target EXCEPT ![t] =
                              IF fd \in held THEN fdt[fd] ELSE Closed]
    BY <1>4 DEF Call
  <2> DEFINE c == [op |-> op, dirfd |-> fd, abs |-> abs, eaccess |-> eaccess]
  <2>2. c \in Calls
    BY DEF TypeOK, Calls, DirfdArgs
  <2>3. Start(c) \in Labels
    BY LabelTypes
  <2>4. /\ call' \in [Threads -> Calls]
        /\ pc' \in [Threads -> Labels]
        /\ target' \in [Threads -> Objects \cup {Closed}]
    BY <2>1, <2>2, <2>3 DEF TypeOK
  <2> QED
    BY <1>4, <2>4 DEF TypeOK, Call
<1>5. CASE GetIds(t)
  <2>1. "swapuid" \in Labels
    BY DEF Labels
  <2> QED
    BY <1>5, <2>1, GotoTypes DEF TypeOK, GetIds
<1>6. CASE SwapUid(t)
  <2>1. "swapgid" \in Labels
    BY DEF Labels
  <2>2. cred' \in Creds
    BY <1>6 DEF TypeOK, SwapUid, Creds
  <2> QED
    BY <1>6, <2>1, <2>2, GotoTypes DEF TypeOK, SwapUid
<1>7. CASE SwapGid(t)
  <2>1. cred' \in Creds
    BY <1>7 DEF TypeOK, SwapGid, Creds
  <2> QED
    BY <1>7, <2>1, LabelTypes, GotoTypes DEF TypeOK, SwapGid
<1>8. CASE Fstat(t)
  <2>1. "idle" \in Labels
    BY DEF Labels
  <2> QED
    BY <1>8, <2>1, LabelTypes, GotoTypes DEF TypeOK, Fstat
<1>9. CASE OpenCwd(t)
  <2>1. "drop" \in Labels
    BY DEF Labels
  <2>2. /\ fdt' \in [Fds -> Objects \cup {Closed}]
        /\ oldCWD' \in [Threads -> Fds \cup {NoFd}]
    BY <1>9 DEF TypeOK, OpenCwd, Cwd, Objects
  <2> QED
    BY <1>9, <2>1, <2>2, GotoTypes DEF TypeOK, OpenCwd
<1>10. CASE DropCwd(t)
  <2>1. "enter" \in Labels
    BY DEF Labels
  <2>2. procCwd' \in Dirs /\ thrCwd' \in [Threads -> Dirs \cup {NoDir}]
    BY <1>10, FchdirTypes DEF DropCwd
  <2>3. /\ fdt' \in [Fds -> Objects \cup {Closed}]
        /\ oldCWD' \in [Threads -> Fds \cup {NoFd}]
        /\ lost' \subseteq Threads
    BY <1>10, CloseTypes DEF TypeOK, DropCwd
  <2> QED
    BY <1>10, <2>1, <2>2, <2>3, GotoTypes DEF TypeOK, DropCwd
<1>11. CASE EnterDir(t)
  <2>1. "what" \in Labels /\ "restore" \in Labels
    BY DEF Labels
  <2>2. call[t].dirfd \in Fds \cup {NoFd, AtFdcwd}
    BY DEF TypeOK, Calls
  <2>3. procCwd' \in Dirs /\ thrCwd' \in [Threads -> Dirs \cup {NoDir}]
    BY <1>11, <2>2, FchdirTypes DEF EnterDir
  <2>4. PICK label \in Labels : Goto(t, label)
    BY <1>11, <2>1 DEF EnterDir
  <2>5. bailing' \subseteq Threads
    BY <1>11 DEF TypeOK, EnterDir
  <2> QED
    BY <1>11, <2>3, <2>4, <2>5, GotoTypes DEF TypeOK, EnterDir
<1>12. CASE WhatPlain(t)
  <2>1. PICK label \in Labels : Goto(t, label)
    BY <1>12, LabelTypes DEF WhatPlain, Labels
  <2> QED
    BY <1>12, <2>1, GotoTypes DEF TypeOK, WhatPlain
<1>13. CASE WhatOpen(t)
  <2>1. PICK label \in Labels : Goto(t, label)
    BY <1>13, LabelTypes DEF WhatOpen, Labels
  <2>2. \/ \E fd \in Fds, obj \in Objects : /\ fdt' = [fdt EXCEPT ![fd] = obj]
                                           /\ held' = held \cup {fd}
        \/ UNCHANGED <<fdt, held>>
    BY <1>13 DEF WhatOpen
  <2>3. fdt' \in [Fds -> Objects \cup {Closed}]
    BY <2>2 DEF TypeOK
  <2>4. held' \subseteq Fds
    BY <2>2 DEF TypeOK
  <2> QED
    BY <1>13, <2>1, <2>3, <2>4, GotoTypes DEF TypeOK, WhatOpen
<1>14. CASE WhatOpendir(t)
  <2>1. "restore" \in Labels
    BY DEF Labels
  <2>2. Cwd(t) \in Objects
    BY DEF TypeOK, Cwd, Objects
  <2>3. /\ fdt' \in [Fds -> Objects \cup {Closed}]
        /\ tmpfd' \in [Threads -> Fds \cup {NoFd}]
    BY <1>14, <2>2 DEF TypeOK, WhatOpendir
  <2> QED
    BY <1>14, <2>1, <2>3, GotoTypes DEF TypeOK, WhatOpendir
<1>15. CASE RestoreCwd(t)
  <2>1. "close" \in Labels
    BY DEF Labels
  <2>2. procCwd' \in Dirs /\ thrCwd' \in [Threads -> Dirs \cup {NoDir}]
    BY <1>15, FchdirTypes DEF TypeOK, RestoreCwd
  <2> QED
    BY <1>15, <2>1, <2>2, GotoTypes DEF TypeOK, RestoreCwd
<1>16. CASE CloseCwd(t)
  <2>1. PICK label \in Labels : Goto(t, label)
    BY <1>16, LabelTypes DEF CloseCwd, Labels
  <2> QED
    BY <1>16, <2>1, CloseTypes, GotoTypes DEF TypeOK, CloseCwd
<1>17. CASE UnswapUid(t)
  <2>1. "unswapgid" \in Labels
    BY DEF Labels
  <2>2. cred' \in Creds
    BY <1>17 DEF TypeOK, UnswapUid, Creds
  <2> QED
    BY <1>17, <2>1, <2>2, GotoTypes DEF TypeOK, UnswapUid
<1>18. CASE UnswapGid(t)
  <2>1. "idle" \in Labels
    BY DEF Labels
  <2>2. cred' \in Creds
    BY <1>18 DEF TypeOK, UnswapGid, Creds
  <2> QED
    BY <1>18, <2>1, <2>2, GotoTypes DEF TypeOK, UnswapGid
<1>19. CASE Adopt(t)
  <2>1. "idle" \in Labels
    BY DEF Labels
  <2> QED
    BY <1>19, <2>1, CloseTypes, GotoTypes DEF TypeOK, Adopt
<1> QED
  BY <1>1, <1>2, <1>3, <1>4, <1>5, <1>6, <1>7, <1>8, <1>9, <1>10, <1>11, <1>12,
     <1>13, <1>14, <1>15, <1>16, <1>17, <1>18, <1>19 DEF Step

\* Type correctness of the whole system: threads, kernel and locals of the at
\* calls stay in their types, for every number of threads and descriptors.
THEOREM TypeCorrect == Spec => []TypeOK
<1>1. Init => TypeOK
  BY DEF Init, TypeOK, Labels, Calls, NoCall, AllOps, Objects
<1> QED
  BY <1>1, TypeStep, PTL DEF Spec

-----------------------------------------------------------------------------
(***************************************************************************)
(* Descriptor accounting.                                                  *)
(***************************************************************************)

\* A step that leaves the descriptors and their owners alone.
LEMMA FdsKept ==
  ASSUME OwnFds, Owned, UNCHANGED <<fdt, held, oldCWD, tmpfd>>
  PROVE  OwnFds' /\ Owned'
BY DEF OwnFds, Owned

\* open(".") in the macro: the new descriptor is oldCWD.
LEMMA FdsOpenCwd ==
  ASSUME TypeOK, FdInv, NEW t \in Threads, OpenCwd(t)
  PROVE  OwnFds' /\ Owned'
<1>1. oldCWD[t] = NoFd
  BY DEF OpenCwd, FdInv, Control, Macro
<1>2. CASE UNCHANGED fdt /\ oldCWD' = [oldCWD EXCEPT ![t] = NoFd]
  <2>1. oldCWD' = oldCWD
    BY <1>1, <1>2 DEF TypeOK
  <2> QED
    BY <1>2, <2>1, FdsKept DEF FdInv, OpenCwd
<1>3. ASSUME NEW fd \in Fds, LowestFree(fd),
             oldCWD' = [oldCWD EXCEPT ![t] = fd],
             fdt' = [fdt EXCEPT ![fd] = Cwd(t)]
      PROVE  OwnFds' /\ Owned'
  <2>1. fdt[fd] = Closed /\ Cwd(t) # Closed
    BY <1>3 DEF LowestFree, TypeOK, Cwd, Objects
  <2>2. /\ fd \notin held
        /\ \A u \in Threads : oldCWD[u] # fd /\ tmpfd[u] # fd
    BY <2>1 DEF FdInv, OwnFds
  <2>3. held' = held /\ tmpfd' = tmpfd
    BY DEF OpenCwd
  <2>4. OwnFds'
    BY <1>3, <2>1, <2>2, <2>3 DEF TypeOK, FdInv, OwnFds
  <2>5. Owned'
    BY <1>1, <1>3, <2>3 DEF TypeOK, FdInv, Owned
  <2> QED
    BY <2>4, <2>5
<1> QED
  BY <1>2, <1>3 DEF OpenCwd

\* open() in openat: the new descriptor is the program's.
LEMMA FdsOpen ==
  ASSUME TypeOK, FdInv, NEW t \in Threads, WhatOpen(t)
  PROVE  OwnFds' /\ Owned'
<1>1. oldCWD' = oldCWD /\ tmpfd' = tmpfd
  BY DEF WhatOpen
<1>2. CASE UNCHANGED <<fdt, held>>
  BY <1>1, <1>2, FdsKept DEF FdInv
<1>3. ASSUME NEW fd \in Fds, NEW obj \in Openable, LowestFree(fd),
             fdt' = [fdt EXCEPT ![fd] = obj], held' = held \cup {fd}
      PROVE  OwnFds' /\ Owned'
  <2>1. fdt[fd] = Closed /\ obj # Closed
    BY <1>3 DEF LowestFree
  <2>2. \A u \in Threads : oldCWD[u] # fd /\ tmpfd[u] # fd
    BY <2>1 DEF FdInv, OwnFds
  <2>3. OwnFds'
    BY <1>1, <1>3, <2>1, <2>2 DEF TypeOK, FdInv, OwnFds
  <2>4. Owned'
    BY <1>1, <1>3 DEF TypeOK, FdInv, Owned
  <2> QED
    BY <2>3, <2>4
<1> QED
  BY <1>2, <1>3 DEF WhatOpen

\* opendir(".") in fdopendir: the new descriptor is tmpfd.
LEMMA FdsOpendir ==
  ASSUME TypeOK, FdInv, NEW t \in Threads, WhatOpendir(t)
  PROVE  OwnFds' /\ Owned'
<1>1. held' = held /\ oldCWD' = oldCWD
  BY DEF WhatOpendir
<1>2. CASE UNCHANGED <<fdt, tmpfd>>
  BY <1>1, <1>2, FdsKept DEF FdInv
<1>3. ASSUME NEW fd \in Fds, LowestFree(fd),
             fdt' = [fdt EXCEPT ![fd] = Cwd(t)],
             tmpfd' = [tmpfd EXCEPT ![t] = fd]
      PROVE  OwnFds' /\ Owned'
  <2>1. fdt[fd] = Closed /\ Cwd(t) # Closed
    BY <1>3 DEF LowestFree, TypeOK, Cwd, Objects
  <2>2. /\ fd \notin held
        /\ \A u \in Threads : oldCWD[u] # fd /\ tmpfd[u] # fd
    BY <2>1 DEF FdInv, OwnFds
  <2>3. tmpfd[t] = NoFd
    BY DEF WhatOpendir, FdInv, Control, Opened
  <2>4. OwnFds'
    BY <1>1, <1>3, <2>1, <2>2 DEF TypeOK, FdInv, OwnFds
  <2>5. Owned'
    BY <1>1, <1>3, <2>3 DEF TypeOK, FdInv, Owned
  <2> QED
    BY <2>4, <2>5
<1> QED
  BY <1>2, <1>3 DEF WhatOpendir

\* close(oldCWD), which may be -1.
LEMMA FdsCloseCwd ==
  ASSUME TypeOK, FdInv, NEW t \in Threads,
         fdt' = AfterClose(fdt, oldCWD[t]),
         oldCWD' = [oldCWD EXCEPT ![t] = NoFd],
         UNCHANGED <<held, tmpfd>>
  PROVE  OwnFds' /\ Owned'
<1>1. OwnFds'
  BY DEF TypeOK, FdInv, OwnFds, AfterClose
<1>2. Owned'
  BY DEF TypeOK, FdInv, Owned, AfterClose
<1> QED
  BY <1>1, <1>2

\* close(dir->__dd_fd), or nothing when opendir failed.
LEMMA FdsAdopt ==
  ASSUME TypeOK, FdInv, NEW t \in Threads, Adopt(t)
  PROVE  OwnFds' /\ Owned'
<1>1. OwnFds'
  BY DEF TypeOK, FdInv, OwnFds, AfterClose, Adopt
<1>2. Owned'
  BY DEF TypeOK, FdInv, Owned, AfterClose, Adopt
<1> QED
  BY <1>1, <1>2

\* close(fd) by the program.
LEMMA FdsClose ==
  ASSUME TypeOK, FdInv, NEW t \in Threads, Close(t)
  PROVE  OwnFds' /\ Owned'
<1>1. PICK fd \in held : fdt' = AfterClose(fdt, fd) /\ held' = held \ {fd}
  BY DEF Close
<1>2. oldCWD' = oldCWD /\ tmpfd' = tmpfd
  BY DEF Close, locals
<1>3. OwnFds'
  BY <1>1, <1>2 DEF TypeOK, FdInv, OwnFds, AfterClose
<1>4. Owned'
  BY <1>1, <1>2 DEF TypeOK, FdInv, Owned, AfterClose
<1> QED
  BY <1>3, <1>4

\* Control holds after every step.
LEMMA ControlStep ==
  ASSUME TypeOK, FdInv, NEW t \in Threads,
         Chdir(t) \/ PthreadFchdir(t) \/ Close(t) \/ Call(t) \/ Step(t)
  PROVE  Control'
<1> USE DEF TypeOK, FdInv, Control, Macro, Opened, Moves
<1>1. CASE Chdir(t) \/ PthreadFchdir(t) \/ Close(t)
  BY <1>1 DEF Chdir, PthreadFchdir, Close, locals
<1>2. CASE Call(t)
  BY <1>2 DEF Call, Start, Begin
<1>3. CASE GetIds(t)
  BY <1>3 DEF GetIds, Goto, NoCall
<1>4. CASE SwapUid(t)
  BY <1>4 DEF SwapUid, Goto, NoCall
<1>5. CASE SwapGid(t)
  BY <1>5 DEF SwapGid, Goto, NoCall, Begin
<1>6. CASE Fstat(t)
  BY <1>6 DEF Fstat, Goto, NoCall, Begin
<1>7. CASE OpenCwd(t)
  BY <1>7 DEF OpenCwd, Goto, NoCall
<1>8. CASE DropCwd(t)
  BY <1>8 DEF DropCwd, Goto, NoCall
<1>9. CASE EnterDir(t)
  BY <1>9 DEF EnterDir, Goto, NoCall
<1>10. CASE WhatPlain(t)
  BY <1>10 DEF WhatPlain, Goto, NoCall, After
<1>11. CASE WhatOpen(t)
  BY <1>11 DEF WhatOpen, Goto, NoCall, After
<1>12. CASE WhatOpendir(t)
  BY <1>12 DEF WhatOpendir, Goto, NoCall
<1>13. CASE RestoreCwd(t)
  BY <1>13 DEF RestoreCwd, Goto, NoCall
<1>14. CASE CloseCwd(t)
  BY <1>14 DEF CloseCwd, Goto, NoCall, After
<1>15. CASE UnswapUid(t)
  BY <1>15 DEF UnswapUid, Goto, NoCall
<1>16. CASE UnswapGid(t)
  BY <1>16 DEF UnswapGid, Goto, NoCall
<1>17. CASE Adopt(t)
  BY <1>17 DEF Adopt, Goto, NoCall
<1> QED
  BY <1>1, <1>2, <1>3, <1>4, <1>5, <1>6, <1>7, <1>8, <1>9, <1>10, <1>11,
     <1>12, <1>13, <1>14, <1>15, <1>16, <1>17 DEF Step

\* FdInv is inductive.
LEMMA FdStep == TypeOK /\ FdInv /\ [Next]_vars => FdInv'
<1> USE DEF kernel, locals, vars
<1> SUFFICES ASSUME TypeOK, FdInv, [Next]_vars PROVE FdInv'
  OBVIOUS
<1>0. CASE UNCHANGED vars
  <2>1. OwnFds' /\ Owned'
    BY <1>0, FdsKept DEF FdInv
  <2>2. Control'
    BY <1>0 DEF FdInv, Control, Moves
  <2> QED
    BY <2>1, <2>2 DEF FdInv
<1> SUFFICES ASSUME NEW t \in Threads,
               Chdir(t) \/ PthreadFchdir(t) \/ Close(t) \/ Call(t) \/ Step(t)
             PROVE  OwnFds' /\ Owned'
  BY <1>0, ControlStep DEF Next, FdInv
<1>1. CASE Chdir(t) \/ PthreadFchdir(t) \/ Call(t)
  BY <1>1, FdsKept DEF FdInv, Chdir, PthreadFchdir, Call
<1>2. CASE Close(t)
  BY <1>2, FdsClose
<1>3. CASE GetIds(t) \/ SwapUid(t) \/ SwapGid(t) \/ Fstat(t)
  BY <1>3, FdsKept DEF FdInv, GetIds, SwapUid, SwapGid, Fstat
<1>4. CASE OpenCwd(t)
  BY <1>4, FdsOpenCwd
<1>5. CASE DropCwd(t)
  BY <1>5, FdsKept, FdsCloseCwd DEF FdInv, DropCwd
<1>6. CASE EnterDir(t) \/ WhatPlain(t) \/ RestoreCwd(t)
  BY <1>6, FdsKept DEF FdInv, EnterDir, WhatPlain, RestoreCwd
<1>7. CASE WhatOpen(t)
  BY <1>7, FdsOpen
<1>8. CASE WhatOpendir(t)
  BY <1>8, FdsOpendir
<1>9. CASE CloseCwd(t)
  BY <1>9, FdsCloseCwd DEF CloseCwd
<1>10. CASE UnswapUid(t) \/ UnswapGid(t)
  BY <1>10, FdsKept DEF FdInv, UnswapUid, UnswapGid
<1>11. CASE Adopt(t)
  BY <1>11, FdsAdopt
<1> QED
  BY <1>1, <1>2, <1>3, <1>4, <1>5, <1>6, <1>7, <1>8, <1>9, <1>10, <1>11
     DEF Step

\* The accounting holds in every reachable state.
LEMMA FdAlways == Spec => []FdInv
<1>1. Init => FdInv
  BY DEF Init, FdInv, OwnFds, Owned, Control, Moves, NoCall
<1> QED
  BY <1>1, TypeCorrect, FdStep, PTL DEF Spec

\* No at call leaks a descriptor or closes one of the program's: oldCWD and
\* the descriptor of opendir(".") are closed on every path, whatever the other
\* threads open and close meanwhile and however full the table is.
THEOREM NoLeak == Spec => []NoFdLeak
<1>1. FdInv => NoFdLeak
  BY DEF FdInv, OwnFds, Owned, Control, Macro, Opened, NoFdLeak
<1> QED
  BY <1>1, FdAlways, PTL

-----------------------------------------------------------------------------
(***************************************************************************)
(* Working directories, where __pthread_fchdir exists.                     *)
(***************************************************************************)

\* "No directory of its own" is not a directory.
LEMMA NoDirApart == NoDir \notin Dirs /\ NoDir \notin Unsearchable
BY DEF Objects

\* A dirfd the program holds keeps its meaning until the call returns: the
\* library closes only its own descriptors and open() reuses only closed ones.
LEMMA StableStep ==
  ASSUME TypeOK, FdInv, DirfdStable, NEW t \in Threads,
         Chdir(t) \/ PthreadFchdir(t) \/ Close(t) \/ Call(t) \/ Step(t)
  PROVE  DirfdStable'
<1> USE DEF TypeOK, DirfdStable
<1>1. CASE Chdir(t) \/ PthreadFchdir(t)
  <2>1. UNCHANGED <<pc, call, target, held, fdt>>
    BY <1>1, Zenon DEF Chdir, PthreadFchdir, locals
  <2> QED
    BY <2>1
<1>2. CASE Close(t)
  BY <1>2 DEF Close, locals, history, AfterClose
<1>3. CASE Call(t)
  BY <1>3 DEF Call, Start, Begin, kernel
<1>4. CASE GetIds(t) \/ SwapUid(t)
  BY <1>4 DEF GetIds, SwapUid, Goto, kernel
<1>5. CASE SwapGid(t)
  BY <1>5 DEF SwapGid, Goto, Begin
<1>6. CASE Fstat(t)
  BY <1>6 DEF Fstat, Goto, kernel
<1>7. CASE OpenCwd(t)
  <2>1. \A fd \in Fds : fdt[fd] # Closed => fdt'[fd] = fdt[fd]
    BY <1>7 DEF OpenCwd, LowestFree
  <2>2. held' = held
    BY <1>7 DEF OpenCwd
  <2> QED
    BY <1>7, <2>1, <2>2 DEF OpenCwd, Goto
<1>8. CASE DropCwd(t)
  <2>1. held' = held /\ \A fd \in held : fdt'[fd] = fdt[fd]
    BY <1>8 DEF DropCwd, AfterClose, FdInv, OwnFds
  <2> QED
    BY <1>8, <2>1 DEF DropCwd, Goto
<1>9. CASE EnterDir(t) \/ RestoreCwd(t)
  BY <1>9 DEF EnterDir, RestoreCwd, Goto
<1>10. CASE WhatPlain(t)
  BY <1>10 DEF WhatPlain, Goto
<1>11. CASE WhatOpen(t)
  <2>1. \A fd \in Fds : fdt[fd] # Closed => fdt'[fd] = fdt[fd]
    BY <1>11 DEF WhatOpen, LowestFree
  <2>2. held \subseteq held'
    BY <1>11 DEF WhatOpen
  <2> QED
    BY <1>11, <2>1, <2>2 DEF WhatOpen, Goto
<1>12. CASE WhatOpendir(t)
  <2>1. \A fd \in Fds : fdt[fd] # Closed => fdt'[fd] = fdt[fd]
    BY <1>12 DEF WhatOpendir, LowestFree
  <2>2. held' = held
    BY <1>12 DEF WhatOpendir
  <2> QED
    BY <1>12, <2>1, <2>2 DEF WhatOpendir, Goto
<1>13. CASE CloseCwd(t)
  <2>1. held' = held /\ \A fd \in held : fdt'[fd] = fdt[fd]
    BY <1>13 DEF CloseCwd, AfterClose, FdInv, OwnFds
  <2> QED
    BY <1>13, <2>1 DEF CloseCwd, Goto
<1>14. CASE UnswapUid(t) \/ UnswapGid(t)
  BY <1>14 DEF UnswapUid, UnswapGid, Goto
<1>15. CASE Adopt(t)
  <2>1. held' = held /\ \A fd \in held : fdt'[fd] = fdt[fd]
    BY <1>15 DEF Adopt, AfterClose, FdInv, OwnFds
  <2> QED
    BY <1>15, <2>1 DEF Adopt, Goto
<1> QED
  BY <1>1, <1>2, <1>3, <1>4, <1>5, <1>6, <1>7, <1>8, <1>9, <1>10, <1>11,
     <1>12, <1>13, <1>14, <1>15 DEF Step

\* A step of one thread leaves the others where they are and does not touch
\* the descriptors they are going to return through.
LEMMA OthersKept ==
  ASSUME TypeOK, FdInv, PerThreadCwd,
         NEW t \in Threads, NEW u \in Threads, u # t,
         Chdir(t) \/ PthreadFchdir(t) \/ Close(t) \/ Call(t) \/ Step(t)
  PROVE  /\ pc'[u] = pc[u] /\ call'[u] = call[u] /\ target'[u] = target[u]
         /\ thrCwd'[u] = thrCwd[u] /\ home'[u] = home[u]
         /\ oldCWD'[u] = oldCWD[u]
         /\ u \in lost' <=> u \in lost
         /\ oldCWD[u] # NoFd => fdt'[oldCWD[u]] = fdt[oldCWD[u]]
<1> USE DEF TypeOK
<1>1. CASE Chdir(t) \/ PthreadFchdir(t) \/ Call(t)
  <2>1. CASE Chdir(t)
    BY <2>1, Zenon DEF Chdir, locals
  <2>2. CASE PthreadFchdir(t)
    BY <2>2 DEF PthreadFchdir, FchdirEffect, locals
  <2>3. CASE Call(t)
    BY <2>3 DEF Call, kernel, aims
  <2> QED
    BY <1>1, <2>1, <2>2, <2>3
<1>2. CASE Close(t)
  BY <1>2 DEF Close, AfterClose, FdInv, OwnFds, locals, history, aims
<1>3. CASE GetIds(t) \/ SwapUid(t) \/ SwapGid(t) \/ Fstat(t)
  BY <1>3 DEF GetIds, SwapUid, SwapGid, Fstat, Goto, kernel, aims
<1>4. CASE OpenCwd(t)
  BY <1>4 DEF OpenCwd, LowestFree, FdInv, OwnFds, Goto, aims
<1>5. CASE DropCwd(t)
  BY <1>5 DEF DropCwd, FchdirEffect, AfterClose, FdInv, OwnFds, Goto, aims
<1>6. CASE EnterDir(t) \/ RestoreCwd(t)
  BY <1>6 DEF EnterDir, RestoreCwd, FchdirEffect, Goto, aims
<1>7. CASE WhatPlain(t)
  BY <1>7 DEF WhatPlain, Goto, aims
<1>8. CASE WhatOpen(t)
  BY <1>8 DEF WhatOpen, LowestFree, FdInv, OwnFds, Goto, aims
<1>9. CASE WhatOpendir(t)
  BY <1>9 DEF WhatOpendir, LowestFree, FdInv, OwnFds, Goto, aims
<1>10. CASE CloseCwd(t)
  BY <1>10 DEF CloseCwd, AfterClose, FdInv, OwnFds, Goto, aims
<1>11. CASE UnswapUid(t) \/ UnswapGid(t)
  BY <1>11 DEF UnswapUid, UnswapGid, Goto, aims
<1>12. CASE Adopt(t)
  BY <1>12 DEF Adopt, AfterClose, FdInv, OwnFds, Goto, aims
<1> QED
  BY <1>1, <1>2, <1>3, <1>4, <1>5, <1>6, <1>7, <1>8, <1>9, <1>10, <1>11, <1>12
     DEF Step

\* The calling thread itself: away from home it can return, and it is away
\* only in the directory of its dirfd.
LEMMA SelfStep ==
  ASSUME TypeOK, FdInv, DirfdStable, PerThreadCwd,
         NEW t \in Threads, WayBack(t), InDirfd(t),
         Chdir(t) \/ PthreadFchdir(t) \/ Close(t) \/ Call(t) \/ Step(t)
  PROVE  WayBack(t)' /\ InDirfd(t)'
<1> USE DEF TypeOK, WayBack, InDirfd, Away
<1>1. CASE Chdir(t)
  BY <1>1 DEF Chdir, locals
<1>2. CASE PthreadFchdir(t)
  BY <1>2, NoDirApart
     DEF PthreadFchdir, FchdirEffect, FchdirOK, Enterable, locals
<1>3. CASE Close(t)
  BY <1>3 DEF Close, locals, history, aims
<1>4. CASE Call(t)
  <2>1. pc'[t] \notin {"idle", "drop", "enter", "restore"}
        /\ (pc'[t] = "what" => ~Moves(call'[t]))
    BY <1>4 DEF Call, Start, Begin
  <2> QED
    BY <1>4, <2>1 DEF Call, kernel, aims
<1>5. CASE GetIds(t) \/ SwapUid(t)
  BY <1>5 DEF GetIds, SwapUid, Goto, kernel, aims
<1>6. CASE SwapGid(t)
  BY <1>6 DEF SwapGid, Goto, Begin, aims
<1>7. CASE Fstat(t)
  BY <1>7 DEF Fstat, Goto, Begin, kernel, aims
<1>8. CASE OpenCwd(t)
  BY <1>8 DEF OpenCwd, Cwd, Goto, aims
<1>9. CASE DropCwd(t)
  BY <1>9, NoDirApart DEF DropCwd, FchdirEffect, FchdirOK, Goto, aims
<1>10. CASE EnterDir(t)
  <2>1. Moves(call[t]) /\ call'[t] = call[t] /\ target'[t] = target[t]
    BY <1>10 DEF EnterDir, Goto, FdInv, Control
  <2>2. thrCwd'[t] \notin Unsearchable
    BY <1>10, NoDirApart DEF EnterDir, FchdirEffect, Enterable
  <2>3. InDirfd(t)'
    BY <1>10, <2>1 DEF EnterDir, FchdirEffect, FchdirOK, DirfdStable, Goto
  <2> QED
    BY <1>10, <2>1, <2>2, <2>3 DEF EnterDir, Goto, aims
<1>11. CASE WhatPlain(t)
  BY <1>11 DEF WhatPlain, Goto, After, aims
<1>12. CASE WhatOpen(t)
  <2>1. oldCWD[t] # NoFd => fdt'[oldCWD[t]] = fdt[oldCWD[t]]
    BY <1>12 DEF WhatOpen, LowestFree, FdInv, OwnFds
  <2> QED
    BY <1>12, <2>1 DEF WhatOpen, Goto, After, aims
<1>13. CASE WhatOpendir(t)
  <2>1. oldCWD[t] # NoFd => fdt'[oldCWD[t]] = fdt[oldCWD[t]]
    BY <1>13 DEF WhatOpendir, LowestFree, FdInv, OwnFds
  <2>2. Moves(call[t])
    BY <1>13 DEF WhatOpendir, FdInv, Control
  <2> QED
    BY <1>13, <2>1, <2>2 DEF WhatOpendir, Goto, aims
<1>14. CASE RestoreCwd(t)
  <2>1. oldCWD[t] # NoFd => fdt[oldCWD[t]] \in Objects
    BY DEF FdInv, OwnFds
  <2>2. t \notin lost /\ oldCWD[t] # NoFd
          => home[t] = fdt[oldCWD[t]] /\ Enterable(oldCWD[t])
    BY <1>14, <2>1 DEF RestoreCwd, Enterable
  <2>3. t \notin lost => thrCwd'[t] = home[t]
    BY <1>14, <2>2 DEF RestoreCwd, FchdirEffect
  <2>4. thrCwd'[t] \notin Unsearchable
    BY <1>14, NoDirApart DEF RestoreCwd, FchdirEffect, Enterable
  <2> QED
    BY <1>14, <2>3, <2>4 DEF RestoreCwd, Goto, aims
<1>15. CASE CloseCwd(t)
  BY <1>15 DEF CloseCwd, Goto, After, aims
<1>16. CASE UnswapUid(t) \/ UnswapGid(t) \/ Adopt(t)
  BY <1>16 DEF UnswapUid, UnswapGid, Adopt, Goto, aims
<1> QED
  BY <1>1, <1>2, <1>3, <1>4, <1>5, <1>6, <1>7, <1>8, <1>9, <1>10, <1>11,
     <1>12, <1>13, <1>14, <1>15, <1>16 DEF Step

\* CwdInv is inductive where __pthread_fchdir exists.
LEMMA CwdStep ==
  PerThreadCwd /\ TypeOK /\ FdInv /\ CwdInv /\ [Next]_vars => CwdInv'
<1> SUFFICES ASSUME PerThreadCwd, TypeOK, FdInv, CwdInv, [Next]_vars
             PROVE  CwdInv'
  OBVIOUS
<1>1. CASE UNCHANGED vars
  BY <1>1 DEF CwdInv, DirfdStable, WayBack, InDirfd, Away, Moves, vars, kernel,
              locals, history, aims
<1>2. ASSUME NEW t \in Threads,
             Chdir(t) \/ PthreadFchdir(t) \/ Close(t) \/ Call(t) \/ Step(t)
      PROVE  CwdInv'
  <2>1. DirfdStable'
    BY <1>2, StableStep DEF CwdInv
  <2>2. WayBack(t)' /\ InDirfd(t)'
    BY <1>2, SelfStep DEF CwdInv
  <2>3. ASSUME NEW u \in Threads, u # t PROVE WayBack(u)' /\ InDirfd(u)'
    <3>1. WayBack(u) /\ InDirfd(u)
      BY DEF CwdInv
    <3> QED
      BY <1>2, <2>3, <3>1, OthersKept DEF WayBack, InDirfd, Away, Moves
  <2> QED
    BY <2>1, <2>2, <2>3 DEF CwdInv
<1> QED
  BY <1>1, <1>2 DEF Next

\* The directory bookkeeping holds in every reachable state.
LEMMA CwdAlways == ASSUME PerThreadCwd PROVE Spec => []CwdInv
<1>1. Init => CwdInv
  BY NoDirApart
     DEF Init, CwdInv, DirfdStable, WayBack, InDirfd, Away, Moves, NoCall
<1>2. TypeOK /\ FdInv /\ CwdInv /\ [Next]_vars => CwdInv'
  BY CwdStep
<1> QED
  BY <1>1, <1>2, TypeCorrect, FdAlways, PTL DEF Spec

\* With __pthread_fchdir an at call leaves the thread in the directory it had
\* chosen, on success and on failure, unless open(".") failed.
THEOREM CwdIsPreserved == ASSUME PerThreadCwd PROVE Spec => []CwdPreserved
<1>1. CwdInv => CwdPreserved
  BY DEF CwdInv, WayBack, Away, CwdPreserved
<1> QED
  BY <1>1, CwdAlways, PTL

-----------------------------------------------------------------------------
(***************************************************************************)
(* The process's directory: 10.4, where the macro moves the whole process. *)
(***************************************************************************)

\* The program has one thread.
OneThread == \A t, u \in Threads : t = u

\* Away from home oldCWD is the process's way back; otherwise it is at home.
ProcInv ==
  /\ procHome \notin Unsearchable
  /\ \A t \in Threads : thrCwd[t] = NoDir
  /\ lost = {} => \A t \in Threads :
       /\ ~Away(t) => procCwd = procHome
       /\ Away(t) => oldCWD[t] # NoFd
       /\ (Away(t) \/ pc[t] = "drop") /\ oldCWD[t] # NoFd => fdt[oldCWD[t]] = procHome
  /\ \A t \in Threads :
       pc[t] = "what" /\ Moves(call[t]) /\ target[t] # Closed => procCwd = target[t]

\* ProcInv is kept by every step of the only thread.
LEMMA ProcStep ==
  ASSUME OneThread, ~PerThreadCwd, TypeOK, FdInv, DirfdStable, ProcInv, NEW t \in Threads,
         Chdir(t) \/ PthreadFchdir(t) \/ Close(t) \/ Call(t) \/ Step(t)
  PROVE  ProcInv'
<1> USE DEF TypeOK, ProcInv, OneThread, Away
<1>1. CASE Chdir(t)
  BY <1>1 DEF Chdir, locals
<1>2. CASE PthreadFchdir(t)
  BY <1>2 DEF PthreadFchdir
<1>3. CASE Close(t)
  BY <1>3 DEF Close, locals, history, aims
<1>4. CASE Call(t)
  <2>1. pc'[t] \notin {"idle", "drop", "enter", "restore"}
        /\ (pc'[t] = "what" => ~Moves(call'[t]))
    BY <1>4 DEF Call, Start, Begin
  <2> QED
    BY <1>4, <2>1 DEF Call, kernel, aims
<1>5. CASE GetIds(t) \/ SwapUid(t)
  BY <1>5 DEF GetIds, SwapUid, Goto, kernel, aims
<1>6. CASE SwapGid(t)
  BY <1>6 DEF SwapGid, Goto, Begin, aims
<1>7. CASE Fstat(t)
  BY <1>7 DEF Fstat, Goto, Begin, kernel, aims
<1>8. CASE OpenCwd(t)
  BY <1>8 DEF OpenCwd, Cwd, Goto, aims
<1>9. CASE DropCwd(t)
  BY <1>9 DEF DropCwd, FchdirEffect, FchdirOK, Goto, aims
<1>10. CASE EnterDir(t)
  <2>1. Moves(call[t]) /\ call'[t] = call[t] /\ target'[t] = target[t]
    BY <1>10 DEF EnterDir, Goto, FdInv, Control
  <2>2. pc'[t] = "what" /\ target[t] # Closed => procCwd' = target[t]
    BY <1>10 DEF EnterDir, FchdirEffect, FchdirOK, DirfdStable, Goto
  <2>3. Away(t)' /\ UNCHANGED <<thrCwd, fdt, oldCWD, aims, lost>>
    BY <1>10, <2>1 DEF EnterDir, FchdirEffect, Goto, Moves
  <2> QED
    BY <1>10, <2>1, <2>2, <2>3 DEF EnterDir, aims
<1>11. CASE WhatPlain(t)
  BY <1>11 DEF WhatPlain, Goto, After, aims
<1>12. CASE WhatOpen(t)
  <2>1. oldCWD[t] # NoFd => fdt'[oldCWD[t]] = fdt[oldCWD[t]]
    BY <1>12 DEF WhatOpen, LowestFree, FdInv, OwnFds
  <2> QED
    BY <1>12, <2>1 DEF WhatOpen, Goto, After, aims
<1>13. CASE WhatOpendir(t)
  <2>1. oldCWD[t] # NoFd => fdt'[oldCWD[t]] = fdt[oldCWD[t]]
    BY <1>13 DEF WhatOpendir, LowestFree, FdInv, OwnFds
  <2>2. Moves(call[t])
    BY <1>13 DEF WhatOpendir, FdInv, Control
  <2> QED
    BY <1>13, <2>1, <2>2 DEF WhatOpendir, Goto, aims
<1>14. CASE RestoreCwd(t)
  <2>1. lost = {} => oldCWD[t] # NoFd /\ fdt[oldCWD[t]] = procHome /\ Enterable(oldCWD[t])
    BY <1>14 DEF RestoreCwd, Enterable
  <2>2. lost = {} => procCwd' = procHome
    BY <1>14, <2>1 DEF RestoreCwd, FchdirEffect
  <2>3. thrCwd' = thrCwd
    BY <1>14 DEF RestoreCwd, FchdirEffect
  <2> QED
    BY <1>14, <2>2, <2>3 DEF RestoreCwd, Goto, aims
<1>15. CASE CloseCwd(t)
  BY <1>15 DEF CloseCwd, Goto, After, aims
<1>16. CASE UnswapUid(t) \/ UnswapGid(t) \/ Adopt(t)
  BY <1>16 DEF UnswapUid, UnswapGid, Adopt, Goto, aims
<1> QED
  BY <1>1, <1>2, <1>3, <1>4, <1>5, <1>6, <1>7, <1>8, <1>9, <1>10, <1>11,
     <1>12, <1>13, <1>14, <1>15, <1>16 DEF Step

\* A call's dirfd keeps its meaning in every build.
LEMMA StableAlways == Spec => []DirfdStable
<1>1. Init => DirfdStable
  BY DEF Init, DirfdStable
<1>2. TypeOK /\ FdInv /\ DirfdStable /\ [Next]_vars => DirfdStable'
  <2> SUFFICES ASSUME TypeOK, FdInv, DirfdStable, [Next]_vars PROVE DirfdStable'
    OBVIOUS
  <2>1. CASE UNCHANGED vars
    BY <2>1 DEF DirfdStable, vars, kernel, locals, history
  <2>2. ASSUME NEW t \in Threads,
               Chdir(t) \/ PthreadFchdir(t) \/ Close(t) \/ Call(t) \/ Step(t)
        PROVE  DirfdStable'
    BY <2>2, StableStep
  <2> QED
    BY <2>1, <2>2 DEF Next
<1> QED
  BY <1>1, <1>2, TypeCorrect, FdAlways, PTL DEF Spec

\* The process's directory is accounted for in every reachable state of a program with one
\* thread on 10.4.
LEMMA ProcAlways == ASSUME OneThread, ~PerThreadCwd PROVE Spec => []ProcInv
<1>1. Init => ProcInv
  BY DEF Init, ProcInv, Away
<1>2. TypeOK /\ FdInv /\ DirfdStable /\ ProcInv /\ [Next]_vars => ProcInv'
  <2> SUFFICES ASSUME TypeOK, FdInv, DirfdStable, ProcInv, [Next]_vars PROVE ProcInv'
    OBVIOUS
  <2>1. CASE UNCHANGED vars
    BY <2>1 DEF ProcInv, Away, Moves, vars, kernel, locals, history, aims
  <2>2. ASSUME NEW t \in Threads,
               Chdir(t) \/ PthreadFchdir(t) \/ Close(t) \/ Call(t) \/ Step(t)
        PROVE  ProcInv'
    BY <2>2, ProcStep
  <2> QED
    BY <2>1, <2>2 DEF Next
<1> QED
  BY <1>1, <1>2, TypeCorrect, FdAlways, StableAlways, PTL DEF Spec

\* With __pthread_fchdir no step of an at call moves the process.
LEMMA ProcessStays == ASSUME PerThreadCwd PROVE Spec => [](procCwd = procHome)
<1>1. Init => procCwd = procHome
  BY DEF Init
<1>2. procCwd = procHome /\ [Next]_vars => (procCwd = procHome)'
  <2> SUFFICES ASSUME procCwd = procHome, [Next]_vars PROVE procCwd' = procHome'
    OBVIOUS
  <2>f. ASSUME NEW t, NEW fd, FchdirEffect(t, fd) PROVE procCwd' = procCwd
    BY <2>f DEF FchdirEffect
  <2>1. CASE UNCHANGED vars
    BY <2>1 DEF vars, kernel, history, aims
  <2>2. ASSUME NEW t \in Threads,
               Chdir(t) \/ PthreadFchdir(t) \/ Close(t) \/ Call(t) \/ Step(t)
        PROVE  procCwd' = procHome'
    <3>1. CASE Chdir(t)
      BY <3>1 DEF Chdir
    <3>2. CASE PthreadFchdir(t) \/ DropCwd(t) \/ EnterDir(t) \/ RestoreCwd(t)
      BY <3>2, <2>f DEF PthreadFchdir, DropCwd, EnterDir, RestoreCwd, aims
    <3>3. CASE \/ Close(t) \/ Call(t) \/ GetIds(t) \/ SwapUid(t) \/ SwapGid(t) \/ Fstat(t)
               \/ UnswapUid(t) \/ UnswapGid(t) \/ Adopt(t)
      BY <3>3 DEF Close, Call, GetIds, SwapUid, SwapGid, Fstat, UnswapUid, UnswapGid, Adopt,
                  kernel, history, aims
    <3>4. CASE OpenCwd(t) \/ WhatPlain(t) \/ WhatOpen(t) \/ WhatOpendir(t) \/ CloseCwd(t)
      BY <3>4 DEF OpenCwd, WhatPlain, WhatOpen, WhatOpendir, CloseCwd, aims
    <3> QED
      BY <2>2, <3>1, <3>2, <3>3, <3>4 DEF Step
  <2> QED
    BY <2>1, <2>2 DEF Next
<1> QED
  BY <1>1, <1>2, PTL DEF Spec

\* The at calls leave the process where it was: at every moment where __pthread_fchdir exists,
\* and on 10.4, which moves the whole process, once the only thread's call has returned, on
\* success and on failure, unless open(".") failed.
THEOREM ProcessIsPreserved ==
  ASSUME PerThreadCwd \/ OneThread
  PROVE  Spec => []ProcCwdPreserved
<1>1. CASE PerThreadCwd
  <2>1. procCwd = procHome => ProcCwdPreserved
    BY DEF ProcCwdPreserved
  <2> QED
    BY <1>1, <2>1, ProcessStays, PTL
<1>2. CASE OneThread /\ ~PerThreadCwd
  <2>1. ProcInv => (Threads = {} \/ ProcCwdPreserved)
    BY <1>2 DEF ProcInv, ProcCwdPreserved, Away
  <2>2. CASE Threads = {}
    <3>1. Init => procCwd = procHome
      BY DEF Init
    <3>2. procCwd = procHome /\ [Next]_vars => (procCwd = procHome)'
      BY <2>2 DEF Next, vars, kernel, history, aims
    <3>3. procCwd = procHome => ProcCwdPreserved
      BY DEF ProcCwdPreserved
    <3> QED
      BY <3>1, <3>2, <3>3, PTL DEF Spec
  <2>3. CASE Threads # {}
    <3>1. ProcInv => ProcCwdPreserved
      BY <2>1, <2>3
    <3> QED
      BY <1>2, <3>1, ProcAlways, PTL
  <2> QED
    BY <2>2, <2>3
<1> QED
  BY <1>1, <1>2

\* The system call of an at call is made in the directory the caller's dirfd stood for,
\* whatever other threads do where __pthread_fchdir exists, and on 10.4 with one thread.
THEOREM CallsRunInDirfd ==
  ASSUME PerThreadCwd \/ OneThread
  PROVE  Spec => []RelativeToDirfd
<1>1. CASE PerThreadCwd
  <2>1. TypeOK /\ CwdInv => RelativeToDirfd
    BY NoDirApart DEF TypeOK, CwdInv, InDirfd, RelativeToDirfd, Cwd
  <2> QED
    BY <1>1, <2>1, TypeCorrect, CwdAlways, PTL
<1>2. CASE OneThread /\ ~PerThreadCwd
  <2>1. ProcInv => RelativeToDirfd
    BY DEF ProcInv, RelativeToDirfd, Cwd
  <2> QED
    BY <1>2, <2>1, ProcAlways, PTL
<1> QED
  BY <1>1, <1>2

-----------------------------------------------------------------------------
(***************************************************************************)
(* The identity of faccessat's access().                                   *)
(***************************************************************************)

\* Where the user ids and the group ids of an AT_EACCESS call are swapped.
UidSwapped(t) ==
  call[t].eaccess /\ pc[t] \in {"swapgid", "opencwd", "drop", "enter", "what", "restore",
                                "close", "unswapuid"}
GidSwapped(t) ==
  call[t].eaccess /\ pc[t] \in {"opencwd", "drop", "enter", "what", "restore", "close",
                                "unswapuid", "unswapgid"}

\* The ids are swapped exactly there, whether or not they differ.
IdsInv(t) ==
  /\ cred.ruid = IF UidSwapped(t) THEN Cred0.euid ELSE Cred0.ruid
  /\ cred.euid = IF UidSwapped(t) THEN Cred0.ruid ELSE Cred0.euid
  /\ cred.rgid = IF GidSwapped(t) THEN Cred0.egid ELSE Cred0.rgid
  /\ cred.egid = IF GidSwapped(t) THEN Cred0.rgid ELSE Cred0.egid

\* faccessat has the program's ids to go back to, and a call with swapped ids does not leave
\* by the macro's error path, which would not go back to them.
EaccessInv(t) ==
  /\ call[t].eaccess => call[t].op = "faccessat" /\ t \notin bailing
  /\ call[t].eaccess /\ Moves(call[t]) => target[t] \in EaccessDirs
  /\ pc[t] \in {"getids", "swapuid", "swapgid", "unswapuid", "unswapgid"}
       => call[t].op = "faccessat"
  /\ call[t].op = "faccessat" /\ pc[t] # "getids" => saved[t] = Cred0

CredInv == \A t \in Threads : IdsInv(t) /\ EaccessInv(t)

\* The directories given to AT_EACCESS calls can be entered.
EaccessEnterable == EaccessDirs \subseteq Dirs \ Unsearchable

\* EaccessInv is kept by every step of the only thread.
LEMMA EaccessStep ==
  ASSUME OneThread, EaccessEnterable, TypeOK, FdInv, DirfdStable, CredInv, NEW t \in Threads,
         Chdir(t) \/ PthreadFchdir(t) \/ Close(t) \/ Call(t) \/ Step(t)
  PROVE  EaccessInv(t)'
<1> USE DEF TypeOK, EaccessInv
<1>c. IdsInv(t) /\ EaccessInv(t)
  BY DEF CredInv
<1>1. CASE Chdir(t) \/ PthreadFchdir(t) \/ Close(t)
  BY <1>c, <1>1 DEF Chdir, PthreadFchdir, Close, locals, history, Moves
<1>2. CASE Call(t)
  BY <1>c, <1>2 DEF Call, Start, Begin, Moves, FdInv, Control
<1>3. CASE GetIds(t)
  <2>1. cred = Cred0
    <3>1. ~UidSwapped(t) /\ ~GidSwapped(t)
      BY <1>3 DEF GetIds, UidSwapped, GidSwapped
    <3>2. /\ cred.ruid = Cred0.ruid /\ cred.euid = Cred0.euid
          /\ cred.rgid = Cred0.rgid /\ cred.egid = Cred0.egid
      BY <1>c, <3>1 DEF IdsInv
    <3> QED
      BY <3>2 DEF Creds
  <2>2. saved'[t] = Cred0
    BY <1>3, <2>1 DEF GetIds
  <2>3. call' = call /\ target' = target /\ bailing' = bailing /\ pc[t] = "getids"
    BY <1>3 DEF GetIds, Goto
  <2>4. call[t].op = "faccessat"
    BY <1>c, <2>3
  <2> QED
    BY <1>c, <2>2, <2>3, <2>4 DEF Moves
<1>4. CASE SwapUid(t) \/ UnswapUid(t)
  BY <1>c, <1>4 DEF SwapUid, UnswapUid, Goto, Moves
<1>5. CASE SwapGid(t)
  BY <1>c, <1>5 DEF SwapGid, Goto, Moves, Begin
<1>6. CASE Fstat(t)
  BY <1>c, <1>6 DEF Fstat, Goto, Moves, Begin, NoCall
<1>7. CASE OpenCwd(t) \/ DropCwd(t)
  BY <1>c, <1>7 DEF OpenCwd, DropCwd, Goto, Moves
<1>8. CASE EnterDir(t)
  <2>1. call[t].eaccess => FchdirOK(t, call[t].dirfd)
    <3> SUFFICES ASSUME call[t].eaccess PROVE FchdirOK(t, call[t].dirfd)
      OBVIOUS
    <3>1. target[t] \in EaccessDirs
      BY <1>c, <1>8 DEF EnterDir, FdInv, Control
    <3>2. call[t].dirfd \in held /\ fdt[call[t].dirfd] = target[t]
      BY <3>1 DEF DirfdStable
    <3>3. call[t].dirfd \in Fds /\ call[t].dirfd # NoFd
      <4>1. held \subseteq Fds /\ \A fd \in Fds : fd # NoFd
        OBVIOUS
      <4> QED
        BY <3>2, <4>1, Zenon
    <3> QED
      BY <3>1, <3>2, <3>3 DEF FchdirOK, Enterable, EaccessEnterable
  <2> QED
    BY <1>c, <1>8, <2>1 DEF EnterDir, Goto, Moves
<1>9. CASE WhatPlain(t)
  BY <1>c, <1>9 DEF WhatPlain, Goto, Moves, After, NoCall
<1>10. CASE WhatOpen(t) \/ WhatOpendir(t)
  BY <1>c, <1>10 DEF WhatOpen, WhatOpendir, Goto, Moves, After, NoCall
<1>11. CASE RestoreCwd(t)
  BY <1>c, <1>11 DEF RestoreCwd, Goto, Moves
<1>12. CASE CloseCwd(t)
  BY <1>c, <1>12 DEF CloseCwd, Goto, Moves, After, NoCall
<1>13. CASE UnswapGid(t) \/ Adopt(t)
  BY <1>c, <1>13 DEF UnswapGid, Adopt, Goto, Moves, NoCall
<1> QED
  BY <1>1, <1>2, <1>3, <1>4, <1>5, <1>6, <1>7, <1>8, <1>9, <1>10, <1>11, <1>12, <1>13 DEF Step

\* IdsInv is kept by every step of the only thread: the ids are those of the program again
\* when faccessat returns.
LEMMA IdsStep ==
  ASSUME OneThread, TypeOK, FdInv, CredInv, NEW t \in Threads,
         Chdir(t) \/ PthreadFchdir(t) \/ Close(t) \/ Call(t) \/ Step(t)
  PROVE  IdsInv(t)'
<1>c. IdsInv(t) /\ EaccessInv(t)
  BY DEF CredInv
<1>k. ASSUME cred' = cred, UidSwapped(t)' <=> UidSwapped(t), GidSwapped(t)' <=> GidSwapped(t)
      PROVE  IdsInv(t)'
  BY <1>c, <1>k DEF IdsInv
<1> USE DEF TypeOK, UidSwapped, GidSwapped
<1>1. CASE Chdir(t) \/ PthreadFchdir(t) \/ Close(t)
  BY <1>k, <1>1 DEF Chdir, PthreadFchdir, Close, locals
<1>2. CASE Call(t)
  <2>1. cred' = cred /\ ~UidSwapped(t) /\ ~GidSwapped(t)
    BY <1>2 DEF Call, kernel
  <2>2. ~UidSwapped(t)' /\ ~GidSwapped(t)'
    BY <1>2 DEF Call, Start, Begin
  <2> QED
    BY <1>k, <2>1, <2>2
<1>3. CASE GetIds(t)
  BY <1>k, <1>3 DEF GetIds, Goto, kernel
<1>4. CASE Fstat(t)
  <2>1. ~call[t].eaccess
    BY <1>c, <1>4 DEF Fstat, EaccessInv, FdInv, Control
  <2> QED
    BY <1>k, <1>4, <2>1 DEF Fstat, Goto, kernel, NoCall
<1>5. CASE OpenCwd(t) \/ DropCwd(t) \/ EnterDir(t) \/ RestoreCwd(t)
  BY <1>k, <1>5 DEF OpenCwd, DropCwd, EnterDir, RestoreCwd, Goto
<1>6. CASE WhatPlain(t) \/ WhatOpen(t) \/ WhatOpendir(t)
  BY <1>k, <1>c, <1>6 DEF WhatPlain, WhatOpen, WhatOpendir, Goto, After, EaccessInv, NoCall
<1>7. CASE CloseCwd(t)
  BY <1>k, <1>c, <1>7 DEF CloseCwd, Goto, After, EaccessInv, NoCall
<1>8. CASE Adopt(t)
  <2>1. ~call[t].eaccess
    BY <1>c, <1>8 DEF Adopt, EaccessInv, FdInv, Control
  <2> QED
    BY <1>k, <1>8, <2>1 DEF Adopt, Goto, NoCall
<1>9. CASE SwapUid(t) \/ UnswapUid(t) \/ SwapGid(t) \/ UnswapGid(t)
  <2>1. saved[t] = Cred0 /\ call[t].op = "faccessat"
    BY <1>c, <1>9 DEF SwapUid, UnswapUid, SwapGid, UnswapGid, EaccessInv
  <2>2. CASE SwapUid(t)
    <3>1. /\ pc[t] = "swapuid" /\ pc'[t] = "swapgid" /\ call' = call
      BY <2>2 DEF SwapUid, Goto
    <3>2. /\ cred'.ruid = IF call[t].eaccess THEN Cred0.euid ELSE cred.ruid
          /\ cred'.euid = IF call[t].eaccess THEN Cred0.ruid ELSE cred.euid
          /\ cred'.rgid = cred.rgid /\ cred'.egid = cred.egid
      BY <1>c, <2>1, <2>2, <3>1 DEF SwapUid, CheckEuid, IdsInv, Creds
    <3> QED
      BY <1>c, <3>1, <3>2 DEF IdsInv
  <2>3. CASE UnswapUid(t)
    <3>1. /\ pc[t] = "unswapuid" /\ pc'[t] = "unswapgid" /\ call' = call
      BY <2>3 DEF UnswapUid, Goto
    <3>2. /\ cred'.ruid = IF call[t].eaccess THEN Cred0.ruid ELSE cred.ruid
          /\ cred'.euid = IF call[t].eaccess THEN Cred0.euid ELSE cred.euid
          /\ cred'.rgid = cred.rgid /\ cred'.egid = cred.egid
      BY <1>c, <2>1, <2>3, <3>1 DEF UnswapUid, CheckEuid, IdsInv, Creds
    <3> QED
      BY <1>c, <3>1, <3>2 DEF IdsInv
  <2>4. CASE SwapGid(t)
    <3>1. /\ pc[t] = "swapgid" /\ pc'[t] \in {"opencwd", "what"} /\ call' = call
      BY <2>4 DEF SwapGid, Goto, Begin
    <3>2. /\ cred'.rgid = IF call[t].eaccess THEN Cred0.egid ELSE cred.rgid
          /\ cred'.egid = IF call[t].eaccess THEN Cred0.rgid ELSE cred.egid
          /\ cred'.ruid = cred.ruid /\ cred'.euid = cred.euid
      BY <1>c, <2>1, <2>4, <3>1 DEF SwapGid, CheckEgid, IdsInv, Creds
    <3> QED
      BY <1>c, <3>1, <3>2 DEF IdsInv
  <2>5. CASE UnswapGid(t)
    <3>1. /\ pc[t] = "unswapgid" /\ pc'[t] = "idle" /\ ~call'[t].eaccess
      BY <2>5 DEF UnswapGid, Goto, NoCall
    <3>2. /\ cred'.rgid = IF call[t].eaccess THEN Cred0.rgid ELSE cred.rgid
          /\ cred'.egid = IF call[t].eaccess THEN Cred0.egid ELSE cred.egid
          /\ cred'.ruid = cred.ruid /\ cred'.euid = cred.euid
      BY <1>c, <2>1, <2>5, <3>1 DEF UnswapGid, CheckEgid, IdsInv, Creds
    <3> QED
      BY <1>c, <3>1, <3>2 DEF IdsInv
  <2> QED
    BY <1>9, <2>2, <2>3, <2>4, <2>5
<1> QED
  BY <1>1, <1>2, <1>3, <1>4, <1>5, <1>6, <1>7, <1>8, <1>9 DEF Step

\* faccessat's access() is judged by the identity the caller asked for, in every call of a
\* program with one thread whose AT_EACCESS calls name directories that can be entered: no
\* earlier call has left the ids swapped.
THEOREM AccessIsJudgedRight ==
  ASSUME OneThread, EaccessEnterable
  PROVE  Spec => []AccessIdentity
<1>1. Init => CredInv
  <2> SUFFICES ASSUME Init, NEW t \in Threads PROVE IdsInv(t) /\ EaccessInv(t)
    BY DEF CredInv
  <2>1. ~call[t].eaccess /\ call[t].op = "plain" /\ pc[t] = "idle" /\ cred = Cred0
    BY DEF Init, NoCall
  <2> QED
    BY <2>1 DEF IdsInv, EaccessInv, UidSwapped, GidSwapped
<1>2. TypeOK /\ FdInv /\ DirfdStable /\ CredInv /\ [Next]_vars => CredInv'
  <2> SUFFICES ASSUME TypeOK, FdInv, DirfdStable, CredInv, [Next]_vars PROVE CredInv'
    OBVIOUS
  <2>1. CASE UNCHANGED vars
    BY <2>1 DEF CredInv, IdsInv, EaccessInv, UidSwapped, GidSwapped, Moves, vars, kernel, locals,
                history
  <2>2. ASSUME NEW t \in Threads,
               Chdir(t) \/ PthreadFchdir(t) \/ Close(t) \/ Call(t) \/ Step(t)
        PROVE  CredInv'
    <3>1. IdsInv(t)' /\ EaccessInv(t)'
      BY <2>2, IdsStep, EaccessStep
    <3> QED
      BY <3>1 DEF CredInv, OneThread
  <2> QED
    BY <2>1, <2>2 DEF Next
<1>3. CredInv => AccessIdentity
  BY DEF CredInv, IdsInv, UidSwapped, GidSwapped, AccessIdentity
<1> QED
  BY <1>1, <1>2, <1>3, TypeCorrect, FdAlways, StableAlways, PTL DEF Spec
=============================================================================
