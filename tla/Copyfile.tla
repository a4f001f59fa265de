------------------------------ MODULE Copyfile ------------------------------
(***************************************************************************)
(* copyfile and fcopyfile of src/copyfile.c: one process that copies files *)
(* with a copyfile_state_t of its own, used for one call after another, or *)
(* with none (state == NULL), in which case each call makes and frees one. *)
(*                                                                         *)
(* One action is one stage of a call (one iteration of the read and write  *)
(* loops of copyfile_data and of the open loop of copyfile_open).  Every   *)
(* system call may fail; a failure the code only logs, or ignores, is      *)
(* noted in "ignored".  The file system is external: names lead to inodes, *)
(* descriptors to inodes and offsets, contents are sequences of blocks.    *)
(***************************************************************************)
EXTENDS CopySecurity, Integers, SequencesExt

CONSTANTS
  FlagSets,    \* the flags of a call without a state
  StateFlags,  \* the flags of the calls with a state
  Sources,     \* names given as source, as a state's src
  Targets,     \* names given as destination
  Attributes,  \* names of the extended attributes the files have
  Places,      \* what the destination may be before the first call
  Functions,   \* the functions the program calls
  SameUid,     \* getuid() = geteuid()
  Faults,      \* the stages whose system calls may fail
  MaxCalls,    \* bound: calls made with one state, or one without
  MaxRetries,  \* bound: writes a callback asks to be tried again
  IBlk, OBlk   \* iBlocksize and oBlocksize

MaxFd    == 5
MaxIno   == 13      \* more than names and descriptors can hold
Names    == {"x", "l", "d", "f", "p", "q"}
NoName   == "NULL"
Fds      == 0 .. MaxFd
Zero     == <<"zero", 0>>
NotOpen  == -2      \* the -2 of a descriptor that is not open yet
Failed   == -1      \* the -1 that open() returned
MaxZeros == 5       \* writes of 0 bytes that are tried again

ASSUME CopyAssumption ==
  /\ SameUid \in BOOLEAN
  /\ Sources \cup Targets \subseteq Names /\ Places \subseteq {"none", "file", "acl", "dir"}
  /\ {MaxCalls, MaxRetries} \subseteq Nat /\ {IBlk, OBlk} \subseteq Nat \ {0}

NoFile == [type |-> "none", data |-> <<>>, mode |-> [of |-> "none", rw |-> FALSE],
           acl |-> NoAcl, xa |-> {}, meta |-> "none"]

\* _copyfile_state as copyfile_state_alloc makes it.  sb is what stat found of
\* the source, acl the ACL of fsec, perm whether permissive_fsec is set.
NewState == [src |-> NoName, dst |-> NoName, sfd |-> NotOpen, dfd |-> NotOpen,
             sb |-> NoFile, acl |-> NoAcl, flags |-> {}, cb |-> FALSE,
             delay |-> FALSE]
NoState  == [NewState EXCEPT !.src = "no state"]
NoLocals == [fcopy |-> FALSE, null |-> FALSE, created |-> FALSE, dsb |-> NoFile,
             kind |-> "reg", oflags |-> {}, turn |-> FALSE, buf |-> <<>>, zeros |-> 0,
             retries |-> 0]
NoCall   == [ret |-> -1, flags |-> {}, fresh |-> FALSE, fcopy |-> FALSE,
             src |-> 0, dst |-> NoName, was |-> NoFile, target |-> 0,
             into |-> 0, errors |-> {}]

VARIABLES
  name,     \* directory: the inode of each name, 0 if it does not exist
  ino,      \* inodes
  fdt,      \* descriptors: inode (0 if closed), offset and who opened it
  user,     \* the program's state, NoState if it has none
  s,        \* the state of the call in progress
  loc,      \* locals of the call in progress
  pc,       \* stage of the call in progress
  calls,    \* calls made
  ignored,  \* history: the failures that the call in progress does not report
  cur,      \* history: the call in progress
  last,     \* history: the last call that has returned, until the next begins
  trouble   \* history: a close of what is not the library's, a state that was
            \* not freed, a name that was lost

fs      == <<name, ino>>
history == <<cur, last>>
vars    == <<fs, fdt, user, s, loc, pc, calls, ignored, history, trouble>>

-----------------------------------------------------------------------------
(* The file system.                                                        *)

\* The inode a name leads to; symbolic links, whose block names a target, are
\* followed unless nofollow.  A link that was written over leads nowhere.
Look(n, nofollow) ==
  IF name[n] # 0 /\ ino[name[n]].type = "lnk" /\ ~nofollow
  THEN IF ino[name[n]].data # <<>> /\ ino[name[n]].data[1][1] \in Names
       THEN name[ino[name[n]].data[1][1]] ELSE 0
  ELSE name[n]

FreeIno == Min({i \in 1 .. MaxIno : i \notin {name[n] : n \in Names}
                                  /\ \A fd \in Fds : fdt[fd].ino # i})

FreeFds == {fd \in Fds : fdt[fd].ino = 0}
Open(i) == [fdt EXCEPT ![Min(FreeFds)] = [ino |-> i, off |-> 0, by |-> "library"]]
Close(t, S) == [fd \in Fds |-> IF fd \in S THEN [t[fd] EXCEPT !.ino = 0] ELSE t[fd]]

\* A close of a descriptor that the library did not open, or that is closed.
BadClose(S) == \E fd \in S : fdt[fd].ino = 0 \/ fdt[fd].by # "library"

MayFail(stage) == stage \in Faults

\* A new file gets the creator's mode; its directory may give it an ACL.
Created(type, data, mode) ==
  {[NoFile EXCEPT !.type = type, !.data = data, !.mode = mode, !.acl = a,
                  !.meta = "new"]
     : a \in {NoAcl, Acl(<<[who |-> "dir", inh |-> TRUE]>>)}}

Src == fdt[s.sfd].ino
Dst == fdt[s.dfd].ino

\* The blocks of data with b written at off, a hole being zeros.
WriteAt(data, off, b) ==
  [i \in 1 .. IF Len(data) > off + Len(b) THEN Len(data) ELSE off + Len(b) |->
     IF i > off /\ i <= off + Len(b) THEN b[i - off]
     ELSE IF i <= Len(data) THEN data[i] ELSE Zero]

Truncate(data, size) == [i \in 1 .. size |-> IF i <= Len(data) THEN data[i] ELSE Zero]

-----------------------------------------------------------------------------
(* A source "x" of three blocks with attributes and an ACL, a link "l" to  *)
(* it, a directory "d", a fifo "f"; "p" and "q" are destinations.          *)

File(n, type, data, rw, acl) ==
  [type |-> type, data |-> data, mode |-> [of |-> n, rw |-> rw], acl |-> acl,
   xa |-> {<<a, n>> : a \in Attributes}, meta |-> n]

TwoAces(n) == Acl(<<[who |-> n, inh |-> FALSE], [who |-> n, inh |-> TRUE]>>)

Blocks(n, k) == [i \in 1 .. k |-> <<n, i>>]

Place == [none |-> NoFile,
          file |-> File("p", "reg", Blocks("p", 4), TRUE, NoAcl),
          acl  |-> File("p", "reg", Blocks("p", 4), FALSE, TwoAces("p")),
          dir  |-> File("p", "dir", <<>>, TRUE, TwoAces("p"))]

Init ==
  /\ \E p \in Places :
       /\ ino = [i \in 1 .. MaxIno |->
                   CASE i = 1 -> File("x", "reg", Blocks("x", 3), TRUE, TwoAces("x"))
                     [] i = 2 -> File("l", "lnk", <<<<"x", 0>>>>, TRUE, NoAcl)
                     [] i = 3 -> File("d", "dir", <<>>, TRUE, TwoAces("d"))
                     [] i = 4 -> File("f", "fifo", <<>>, TRUE, NoAcl)
                     [] i = 5 -> Place[p]
                     [] OTHER -> NoFile]
       /\ name = [n \in Names |-> CASE n = "x" -> 1 [] n = "l" -> 2 [] n = "d" -> 3
                                    [] n = "f" -> 4 [] n = "q" -> 0
                                    [] n = "p" -> IF p = "none" THEN 0 ELSE 5]
  /\ fdt = [fd \in Fds |->
              [ino |-> CASE fd = 0 -> 1 [] fd = 1 -> name["p"] [] fd = 2 -> 4
                         [] OTHER -> 0,
               off |-> 0, by |-> IF fd < 3 THEN "program" ELSE "library"]]
  /\ user = NoState /\ s = NoState /\ loc = NoLocals
  /\ pc = "idle" /\ calls = 0
  /\ ignored = {} /\ cur = NoCall /\ last = NoCall /\ trouble = {}

-----------------------------------------------------------------------------
(* The state.                                                              *)

\* copyfile_state_alloc.
StateAlloc ==
  /\ pc = "idle" /\ user = NoState /\ calls < MaxCalls
  /\ user' = NewState
  /\ UNCHANGED <<fs, fdt, s, loc, pc, calls, ignored, history, trouble>>

\* copyfile_state_set(COPYFILE_STATE_STATUS_CB).
StateSetCallback ==
  /\ pc = "idle" /\ user # NoState /\ ~user.cb
  /\ user' = [user EXCEPT !.cb = TRUE]
  /\ UNCHANGED <<fs, fdt, s, loc, pc, calls, ignored, history, trouble>>

\* copyfile_state_set(COPYFILE_STATE_SRC_FD): nothing is read from the descriptor,
\* and fcopyfile will not do it either.
StateSetFd ==
  /\ pc = "idle" /\ user # NoState /\ user.src = NoName /\ user.sfd = NotOpen
  /\ user' = [user EXCEPT !.sfd = 0]
  /\ UNCHANGED <<fs, fdt, s, loc, pc, calls, ignored, history, trouble>>

\* copyfile_close: what goes with a name was opened by the library.
OwnedFds(st) == {fd \in {st.sfd} : st.src # NoName /\ fd >= 0}
                \cup {fd \in {st.dfd} : st.dst # NoName /\ fd >= 0}

\* copyfile_state_free, of the state st; its memory is not given back when
\* close(dst_fd) fails.
Freed(st) ==
  /\ fdt' = Close(fdt, OwnedFds(st))
  /\ trouble' = trouble \cup (IF BadClose(OwnedFds(st)) THEN {"close"} ELSE {})

StateFree ==
  /\ pc = "idle" /\ user # NoState
  /\ Freed(user)
  /\ user' = NoState /\ calls' = MaxCalls
  /\ UNCHANGED <<fs, s, loc, pc, ignored, history>>

-----------------------------------------------------------------------------
(* How a call begins and ends.                                             *)

\* The end of a call: a state the call made is freed, the program's is kept;
\* errors are the failures that it does not report.
ReturnWith(st, r, errors) ==
  /\ pc' = "idle" /\ s' = NoState /\ loc' = NoLocals
  /\ IF loc.null THEN Freed(st) /\ UNCHANGED user
                 ELSE user' = st /\ UNCHANGED <<fdt, trouble>>
  /\ last' = [cur EXCEPT !.ret = r, !.errors = errors,
                         !.into = IF st.dfd >= 0 THEN fdt[st.dfd].ino ELSE 0]
  /\ cur' = NoCall /\ ignored' = {}

Return(st, r) == ReturnWith(st, r, ignored)

\* An early return -1, which forgets a state the call has made; closed are the
\* descriptors that were closed until then.
Forget(st, null, closed) ==
  /\ pc' = "idle" /\ s' = NoState /\ loc' = NoLocals
  /\ IF null THEN UNCHANGED user ELSE user' = st
  /\ fdt' = Close(fdt, closed)
  /\ trouble' = trouble \cup (IF null THEN {"state"} ELSE {})
                        \cup (IF BadClose(closed) THEN {"close"} ELSE {})
                        \cup (IF st.src = NoName /\ user.src # NoName THEN {"name"}
                              ELSE IF st.dst = NoName /\ user.dst # NoName THEN {"name"}
                              ELSE {})
  /\ last' = NoCall /\ cur' = NoCall /\ ignored' = {}

Goto(l) == pc' = l

\* COPYFILE_SET_FNAME: the descriptor of another name is closed; nothing is done
\* about one whose open() has failed.
SetFname(n, old, fd) == IF old # NoName /\ old # n /\ fd > -1 THEN NotOpen ELSE fd

\* Mutant: the descriptor is forgotten and not closed.
FnameClosesNot(old, new) == {}

\* The descriptors COPYFILE_SET_FNAME closes, given the ones before and after.
FnameCloses(old, new) == ({old.sfd} \ {new.sfd}) \cup ({old.dfd} \ {new.dfd})

\* copyfile_preamble: the state of the call, the program's or a new one, has the
\* call's flags from now on.
Preamble(fl, null) == [(IF null THEN NewState ELSE user) EXCEPT !.flags = fl]

\* copyfile up to the names.
CopyfileCall(sn, dn, fl, null) ==
  LET st     == Preamble(fl, null)
      closed == FnameCloses(st, s')
  IN /\ pc = "idle" /\ calls < MaxCalls /\ "copyfile" \in Functions
     /\ null = (user = NoState)
     /\ calls' = IF null THEN MaxCalls ELSE calls + 1
     /\ s' = [st EXCEPT !.src = sn, !.dst = dn,
                        !.sfd = SetFname(sn, st.src, st.sfd),
                        !.dfd = SetFname(dn, st.dst, st.dfd)]
     /\ fdt' = Close(fdt, closed)
     /\ trouble' = trouble \cup (IF BadClose(closed) THEN {"close"} ELSE {})
     /\ loc' = [NoLocals EXCEPT !.null = null]
     /\ cur' = [NoCall EXCEPT !.flags = fl, !.dst = dn, !.src = Look(sn, "NOFOLLOW_SRC" \in fl),
                  !.was = IF name[dn] = 0 THEN NoFile ELSE ino[name[dn]],
                  !.target = name[dn],
                  !.fresh = s'.sfd = NotOpen /\ s'.dfd = NotOpen]
     /\ last' = NoCall
     /\ Goto("perms")
     /\ UNCHANGED <<fs, user, ignored>>

\* strdup() fails in COPYFILE_SET_FNAME, for the source or for the destination:
\* the name is lost and the state, if the call has made one, with it.
CopyfileNoName(sn, dn, fl, null, which) ==
  LET st  == Preamble(fl, null)
      new == [st EXCEPT !.src = IF which = "src" THEN NoName ELSE sn,
                        !.dst = IF which = "dst" THEN NoName ELSE @,
                        !.sfd = SetFname(sn, st.src, @),
                        !.dfd = IF which = "src" THEN @ ELSE SetFname(dn, st.dst, @)]
  IN /\ pc = "idle" /\ calls < MaxCalls /\ MayFail("memory")
     /\ null = (user = NoState)
     /\ calls' = IF null THEN MaxCalls ELSE calls + 1
     /\ Forget(new, null, FnameCloses(st, new))
     /\ UNCHANGED fs

\* The state with what fstatx_np finds of the source fd; acl is FALSE when it
\* fails with ENOTSUP or EPERM and fstat is asked instead.
Statted(st, fd, acl) ==
  [st EXCEPT !.sfd = fd, !.sb = ino[fdt[fd].ino],
             !.acl = IF acl THEN ino[fdt[fd].ino].acl ELSE @]

\* fcopyfile up to copyfile_internal: a state that has descriptors already keeps
\* them, whatever the arguments.  rw is whether the fchmod that makes the
\* destination writable succeeds.
FcopyfileCall(sf, df, fl, null, acl, rw) ==
  LET st  == Preamble(fl, null)
      st1 == IF st.sfd = NotOpen THEN Statted(st, sf, acl) ELSE st
      st2 == [st1 EXCEPT !.dfd = IF @ = NotOpen THEN df ELSE @]
      i   == fdt[st2.dfd].ino
  IN /\ pc = "idle" /\ calls < MaxCalls /\ "fcopyfile" \in Functions
     /\ acl \/ MayFail("statx")
     /\ rw \/ MayFail("fchmod")
     /\ null = (user = NoState)
     /\ fdt[sf].ino # 0 /\ fdt[df].ino # 0
     /\ calls' = IF null THEN MaxCalls ELSE calls + 1
     /\ IF st1.sb.type \notin {"reg", "dir", "lnk"}
        THEN Forget(st1, null, {}) /\ UNCHANGED fs
        ELSE /\ s' = st2
             /\ ino' = IF rw THEN [ino EXCEPT ![i].mode.rw = TRUE] ELSE ino
             /\ loc' = [NoLocals EXCEPT !.fcopy = TRUE, !.null = null, !.dsb = ino[i]]
             /\ cur' = [NoCall EXCEPT !.flags = fl, !.src = fdt[sf].ino, !.fcopy = TRUE,
                          !.was = ino[i], !.target = i,
                          !.fresh = st.sfd = NotOpen /\ fdt[sf].off = 0 /\ fdt[df].off = 0]
             /\ last' = NoCall
             /\ Goto("internal")
             /\ UNCHANGED <<name, fdt, user, ignored, trouble>>

\* fstatx_np fails otherwise: the state keeps the descriptor, and one that the
\* call has made is lost.
FcopyfileNoStat(sf, fl, null) ==
  LET st == Preamble(fl, null)
  IN /\ pc = "idle" /\ calls < MaxCalls /\ "fcopyfile" \in Functions /\ MayFail("statx")
     /\ null = (user = NoState) /\ st.sfd = NotOpen
     /\ calls' = IF null THEN MaxCalls ELSE calls + 1
     /\ Forget([st EXCEPT !.sfd = sf], null, {})
     /\ UNCHANGED fs

-----------------------------------------------------------------------------
(* copyfile before copyfile_open: the destination is made writable.        *)

\* (flags & COPYFILE_NOFOLLOW_DST) && lstat() == 0 && (st_mode & S_IFLNK): the
\* bits of S_IFLNK contain the bit of S_IFREG, so regular files are meant too.
SkipsPerms(fl, d) ==
  "NOFOLLOW_DST" \in fl /\ d # 0 /\ ino[d].type \in {"lnk", "reg"}

SecOf(i) == [mode |-> ino[i].mode, acl |-> ino[i].acl]
Secured(i, sec) == [ino EXCEPT ![i].mode = sec.mode, ![i].acl = sec.acl]

\* The permissive filesec is set; chmodx_np may fail, as on file systems that
\* have no ACLs.  When statx_np fails with another error than ENOENT the mode
\* that is put back later was never read.
MakePermissive ==
  /\ pc = "perms"
  /\ LET link == Look(s.dst, TRUE)
         d    == Look(s.dst, FALSE)
     IN \/ /\ SkipsPerms(s.flags, link)
           /\ loc' = [loc EXCEPT !.dsb = ino[link]]
           /\ UNCHANGED <<ino, ignored>>
        \/ /\ ~SkipsPerms(s.flags, link) /\ d # 0
           /\ loc' = [loc EXCEPT !.dsb = ino[d]]
           /\ \/ ino' = Secured(d, FixPerms(SecOf(d)))
              \/ MayFail("chmodx") /\ UNCHANGED ino
           /\ UNCHANGED ignored
        \/ /\ MayFail("statx") /\ ~SkipsPerms(s.flags, link) /\ d # 0
           /\ loc' = [loc EXCEPT !.dsb.mode.of = "garbage"]
           /\ ignored' = {"statx"}
           /\ UNCHANGED ino
        \/ /\ ~SkipsPerms(s.flags, link) /\ d = 0
           /\ loc' = [loc EXCEPT !.created = TRUE]
           /\ UNCHANGED <<ino, ignored>>
  /\ Goto(IF "CHECK" \in s.flags THEN "check" ELSE "opensrc")
  /\ UNCHANGED <<name, fdt, user, s, calls, history, trouble>>

\* filesec_init fails.
NoMemory ==
  /\ pc = "perms" /\ MayFail("memory")
  /\ Return(s, -1)
  /\ UNCHANGED <<fs, calls>>

\* copyfile_check: what there would be to copy, from the source alone.
CheckResult(fl, i) ==
  {f \in fl : \/ f = "XATTR" /\ ino[i].xa # {}
              \/ f = "ACL" /\ ino[i].acl.has}

Check ==
  /\ pc = "check"
  /\ LET i == Look(s.src, "NOFOLLOW_SRC" \in s.flags)
         r == IF i = 0 \/ CheckResult(s.flags, i) = {} THEN 0 ELSE 1
     IN Return(IF i # 0 /\ "ACL" \in s.flags
               THEN [s EXCEPT !.sb = ino[i], !.acl = ino[i].acl] ELSE s, r)
  /\ UNCHANGED <<fs, calls>>

-----------------------------------------------------------------------------
(* copyfile_open.                                                          *)

\* isdir and islnk of a source that was found: when it packs, the destination is
\* a file whatever the source is.
MadeAs(st) == IF "PACK" \in st.flags THEN "reg" ELSE st.sb.type

\* The source: stat, its type, open.  A source that a state has open already is
\* not looked at, and neither isdir nor islnk is set.
OpenSource ==
  /\ pc = "opensrc"
  /\ LET i    == Look(s.src, "NOFOLLOW_SRC" \in s.flags)
         stat == [s EXCEPT !.sb = ino[i], !.acl = ino[i].acl]
     IN \/ /\ s.sfd # NotOpen
           /\ Goto("opendst")
           /\ UNCHANGED <<fdt, s, user, loc, ignored, history, trouble>>
        \/ s.sfd = NotOpen /\ i = 0 /\ Return(s, -1)
        \/ /\ s.sfd = NotOpen /\ i # 0 /\ stat.sb.type = "fifo"
           /\ Return(stat, -1)
        \/ /\ s.sfd = NotOpen /\ i # 0 /\ stat.sb.type # "fifo"
           /\ \/ /\ fdt' = Open(i)
                 /\ s' = [stat EXCEPT !.sfd = Min(FreeFds)]
                 /\ loc' = [loc EXCEPT !.kind = MadeAs(stat)]
                 /\ Goto("opendst")
                 /\ UNCHANGED <<user, ignored, history, trouble>>
              \/ /\ MayFail("open")
                 /\ Return([stat EXCEPT !.sfd = Failed], -1)
  /\ UNCHANGED <<fs, calls>>

IsLink == loc.kind = "lnk"
IsDir  == loc.kind = "dir"

Removes == "UNLINK" \in s.flags

\* The destination before it is opened: COPYFILE_UNLINK removes it (remove()
\* fails on a directory that is not empty).
RemoveDestination ==
  /\ pc = "opendst"
  /\ \/ /\ s.dfd # NotOpen
        /\ Goto("internal")
        /\ UNCHANGED <<name, fdt, s, user, loc, ignored, history, trouble>>
     \/ /\ s.dfd = NotOpen
        /\ name' = IF Removes THEN [name EXCEPT ![s.dst] = 0] ELSE name
        /\ loc' = [loc EXCEPT !.oflags = {"EXCL", "CREAT", "WRONLY"}]
        /\ Goto(IF IsLink \/ IsDir THEN "make" ELSE "openloop")
        /\ UNCHANGED <<fdt, s, user, ignored, history, trouble>>
     \/ /\ s.dfd = NotOpen /\ Removes /\ MayFail("remove")
        /\ Return(s, -1)
        /\ UNCHANGED name
  /\ UNCHANGED <<ino, calls>>

\* What open(s->dst) of an existing destination would give: O_SYMLINK and
\* O_NOFOLLOW are only passed with COPYFILE_NOFOLLOW_DST.
DestinationInode == Look(s.dst, IsLink \/ "NOFOLLOW_DST" \in s.flags)

\* open(O_RDONLY) of what symlink or mkdir has made, or found.
OpenMade(i) ==
  \/ /\ i # 0
     /\ fdt' = Open(i)
     /\ s' = [s EXCEPT !.dfd = Min(FreeFds)]
     /\ Goto("internal")
     /\ UNCHANGED <<user, loc, ignored, history, trouble>>
  \/ /\ i = 0 \/ MayFail("open")
     /\ Return([s EXCEPT !.dfd = Failed], -1)

\* symlink or mkdir, which may find something there, and open: when that fails,
\* what was made stays.
MakeSpecial ==
  /\ pc = "make"
  /\ \/ /\ name[s.dst] = 0
        /\ \E file \in Created(s.sb.type, s.sb.data, s.sb.mode) :
             ino' = [ino EXCEPT ![FreeIno] = file]
        /\ name' = [name EXCEPT ![s.dst] = FreeIno]
        /\ OpenMade(FreeIno)
     \/ /\ name[s.dst] # 0 /\ "EXCL" \notin s.flags
        /\ OpenMade(DestinationInode)
        /\ UNCHANGED fs
     \/ /\ (name[s.dst] # 0 /\ "EXCL" \in s.flags) \/ MayFail("open")
        /\ Return(s, -1)
        /\ UNCHANGED fs
  /\ UNCHANGED calls

OpenFails == Return([s EXCEPT !.dfd = Failed], -1) /\ UNCHANGED <<fs, calls>>


\* EEXIST: what to open with next, nothing when COPYFILE_EXCL is set.
RetryExists ==
  IF "EXCL" \in s.flags THEN {}
  ELSE (loc.oflags \ {"CREAT"}) \cup (IF s.flags \cap {"PACK", "DATA"} # {}
                                    THEN {"TRUNC"} ELSE {})

\* EISDIR: likewise, nothing when the data or a new file is wanted.
RetryIsDir ==
  IF ("EXCL" \in s.flags \/ "DATA" \in s.flags) /\ "UNPACK" \notin s.flags
  THEN {} ELSE (loc.oflags \ {"WRONLY", "CREAT", "TRUNC"}) \cup {"RDONLY"}

\* open() of what is there, with O_TRUNC if asked for.
Opened(i) == IF "TRUNC" \in loc.oflags THEN [ino EXCEPT ![i].data = <<>>] ELSE ino

\* One open() of the loop, and what its error leads to; turn makes every round a
\* step, whether it changes anything else or not.  A name that is there
\* may be a link to nothing, which leads to ENOENT and out.
OpenLoop ==
  LET i == DestinationInode
  IN /\ pc = "openloop"
     /\ \/ /\ name[s.dst] = 0                                   \* created
           /\ \E file \in Created("reg", <<>>, [s.sb.mode EXCEPT !.rw = TRUE]) :
                ino' = [ino EXCEPT ![FreeIno] = file]
           /\ name' = [name EXCEPT ![s.dst] = FreeIno]
           /\ fdt' = Open(FreeIno)
           /\ s' = [s EXCEPT !.dfd = Min(FreeFds)]
           /\ Goto("internal")
           /\ UNCHANGED <<user, loc, calls, ignored, history, trouble>>
        \/ /\ name[s.dst] # 0 /\ "CREAT" \in loc.oflags           \* EEXIST
           /\ IF RetryExists = {} THEN OpenFails
              ELSE /\ loc' = [loc EXCEPT !.oflags = RetryExists, !.turn = ~@]
                   /\ UNCHANGED <<fs, fdt, user, s, pc, calls, ignored, history,
                                  trouble>>
        \/ /\ name[s.dst] # 0 /\ "CREAT" \notin loc.oflags /\ i # 0
           /\ ino[i].type = "dir" /\ "WRONLY" \in loc.oflags       \* EISDIR
           /\ IF RetryIsDir = {} THEN OpenFails
              ELSE /\ loc' = [loc EXCEPT !.oflags = RetryIsDir, !.turn = ~@]
                   /\ UNCHANGED <<fs, fdt, user, s, pc, calls, ignored, history,
                                  trouble>>
        \/ /\ name[s.dst] # 0 /\ "CREAT" \notin loc.oflags /\ i # 0
           /\ ino[i].type # "dir" /\ ~ino[i].mode.rw              \* EACCES
           /\ ino' = [ino EXCEPT ![i].mode = [s.sb.mode EXCEPT !.rw = TRUE]]
           /\ loc' = [loc EXCEPT !.turn = ~@]
           /\ UNCHANGED <<name, fdt, user, s, pc, calls, ignored, history, trouble>>
        \/ /\ name[s.dst] # 0 /\ "CREAT" \notin loc.oflags /\ i # 0
           /\ IF ino[i].type = "dir" THEN "WRONLY" \notin loc.oflags ELSE ino[i].mode.rw
           /\ ino' = Opened(i)
           /\ fdt' = Open(i)
           /\ s' = [s EXCEPT !.dfd = Min(FreeFds)]
           /\ Goto("internal")
           /\ UNCHANGED <<name, user, loc, calls, ignored, history, trouble>>
        \/ /\ MayFail("open") \/ (name[s.dst] # 0 /\ i = 0)
           /\ OpenFails

-----------------------------------------------------------------------------
(* copyfile_internal: its stages in order, the first failure ending it.    *)

\* What happens to the destination's name when the data, or packing, fails.
Unlinked == IF s.dst = NoName THEN name ELSE [name EXCEPT ![s.dst] = 0]

Fail == Return(s, -1)

\* The data, or packing, fails: the name goes, unless unlink fails as well.
FailUnlinked ==
  \/ name' = Unlinked /\ Fail
  \/ MayFail("unlink") /\ ReturnWith(s, -1, ignored \cup {"unlink"}) /\ UNCHANGED name

\* The descriptors are checked; COPYFILE_PACK and COPYFILE_UNPACK do the whole
\* work by themselves (module AppleDouble), packing onto the data and unpacking
\* onto everything else.
Internal ==
  /\ pc = "internal"
  /\ \/ /\ s.sfd < 0 \/ s.dfd < 0
        /\ Fail /\ UNCHANGED fs
     \/ /\ s.sfd >= 0 /\ s.dfd >= 0 /\ s.flags \cap {"PACK", "UNPACK"} = {}
        /\ Goto("xattr")
        /\ UNCHANGED <<fs, fdt, user, s, loc, ignored, history, trouble>>
     \/ /\ s.sfd >= 0 /\ s.dfd >= 0 /\ s.flags \cap {"PACK", "UNPACK"} # {}
        /\ \/ /\ ino' = IF "PACK" \in s.flags
                        THEN [ino EXCEPT ![Dst].data = <<<<"packed", Src>>>>]
                        ELSE [ino EXCEPT ![Dst].xa = {<<"a", "packed">>}]
              /\ Goto("finish")
              /\ UNCHANGED <<name, fdt, user, s, loc, ignored, history, trouble>>
           \/ /\ MayFail("pack")
              /\ IF "PACK" \in s.flags THEN FailUnlinked ELSE Fail /\ UNCHANGED name
              /\ UNCHANGED ino
  /\ UNCHANGED calls

\* Attributes other than the quarantine.
Plain(xa) == {e \in xa : e[1] # "quarantine"}

\* Names that "com.apple.quarantine" begins with.
Beginnings == {"com", "com.apple"}

\* strncmp(name, XATTR_QUARANTINE_NAME, end - name) == 0: the quarantine, or, at
\* the end of the list, a name that the quarantine's begins with.
Skipped(xa, final) ==
  (xa \ Plain(xa)) \cup {e \in xa : e = final /\ e[1] \in Beginnings}

\* copyfile_xattr: the destination's attributes go, the source's come, but for
\* the ones skipped; the ones that fail are left out and reported together.
\* oldend and newend are the last ones that flistxattr() lists.
XattrResult(old, new, failed, oldend, newend) ==
  {e \in Skipped(old, oldend) : \A f \in new \ Skipped(new, newend) : f[1] # e[1] \/ f \in failed}
  \cup ((new \ Skipped(new, newend)) \ failed)

\* What flistxattr may list last of a file's attributes.
Finals(xa) == IF xa = {} THEN {<<>>} ELSE xa

\* The inodes after copyfile_xattr, where the attributes failed cannot be copied.
AfterXattr(failed, oldend, newend) ==
  [ino EXCEPT ![Dst].xa = XattrResult(@, ino[Src].xa, failed, oldend, newend)]

\* What goes unreported: an attribute was taken for the quarantine.
Mistaken(oldend, newend) ==
  IF Skipped(ino[Dst].xa, oldend) \cup Skipped(ino[Src].xa, newend)
       \subseteq (ino[Dst].xa \ Plain(ino[Dst].xa)) \cup (ino[Src].xa \ Plain(ino[Src].xa))
  THEN {} ELSE {"prefix"}

Xattr ==
  /\ pc = "xattr"
  /\ \/ /\ "XATTR" \notin s.flags
        /\ Goto("data")
        /\ UNCHANGED <<ino, fdt, user, s, loc, ignored, history, trouble>>
     \/ /\ "XATTR" \in s.flags
        /\ \E oldend \in Finals(ino[Dst].xa), newend \in Finals(ino[Src].xa) :
             /\ ino' = AfterXattr({}, oldend, newend)
             /\ ignored' = ignored \cup Mistaken(oldend, newend)
        /\ Goto("data")
        /\ UNCHANGED <<fdt, user, s, loc, history, trouble>>
     \/ /\ "XATTR" \in s.flags /\ MayFail("xattr")
        /\ \E failed \in SUBSET Plain(ino[Src].xa) \ {{}} :
             \E oldend \in Finals(ino[Dst].xa), newend \in Finals(ino[Src].xa) :
               ino' = AfterXattr(failed, oldend, newend)
        /\ Fail
     \/ /\ "XATTR" \in s.flags /\ MayFail("xattr")         \* ENOTSUP or EPERM
        /\ ignored' = ignored \cup {"xattr"}
        /\ Goto("data")
        /\ UNCHANGED <<ino, fdt, user, s, loc, history, trouble>>
  /\ UNCHANGED <<name, calls>>

-----------------------------------------------------------------------------
(* copyfile_data.                                                          *)

CopiesData == "DATA" \in s.flags /\ s.sb.type = "reg"

\* read(), and ftruncate() once there is nothing left.
ReadBlocks ==
  /\ pc = "data"
  /\ LET off == fdt[s.sfd].off
         n   == Min({IBlk, Len(ino[Src].data) - off})
     IN \/ /\ ~CopiesData
           /\ Goto("security")
           /\ UNCHANGED <<fs, fdt, user, s, loc, ignored, history, trouble>>
        \/ /\ CopiesData /\ n > 0
           /\ loc' = [loc EXCEPT !.buf = SubSeq(ino[Src].data, off + 1, off + n),
                                 !.zeros = 0]
           /\ fdt' = [fdt EXCEPT ![s.sfd].off = off + n]
           /\ Goto("write")
           /\ UNCHANGED <<fs, user, s, ignored, history, trouble>>
        \/ /\ CopiesData /\ n <= 0
           /\ ino' = [ino EXCEPT ![Dst].data = Truncate(@, Len(s.sb.data))]
           /\ Goto("security")
           /\ UNCHANGED <<name, fdt, user, s, loc, ignored, history, trouble>>
        \/ /\ CopiesData /\ MayFail("data")
           /\ FailUnlinked /\ UNCHANGED ino
  /\ UNCHANGED calls

Quits == s.cb /\ MayFail("quit")

\* write() of n blocks, none included, and the callback's COPYFILE_PROGRESS.
WriteBlocks(n) ==
  LET off  == fdt[s.dfd].off
      rest == SubSeq(loc.buf, n + 1, Len(loc.buf))
      tick == IF n = 0 THEN loc.zeros + 1 ELSE 0
  IN /\ pc = "write"
     /\ n <= Len(loc.buf) /\ n <= OBlk
     /\ n = 0 => MayFail("data")
     /\ ino' = [ino EXCEPT ![Dst].data = WriteAt(@, off, SubSeq(loc.buf, 1, n))]
     /\ \/ /\ tick <= MaxZeros
           /\ loc' = [loc EXCEPT !.buf = rest, !.zeros = tick]
           /\ fdt' = [fdt EXCEPT ![s.dfd].off = off + n]
           /\ Goto(IF rest = <<>> THEN "data" ELSE "write")
           /\ UNCHANGED <<name, user, s, ignored, history, trouble>>
        \/ /\ tick > MaxZeros \/ Quits
           /\ FailUnlinked
     /\ UNCHANGED calls

\* Mutant: a callback that asks for a retry gets what COPYFILE_SKIP gets.
RetryWriteSkips ==
  /\ Goto("security")
  /\ UNCHANGED <<loc, ignored>>

\* COPYFILE_CONTINUE: the write is tried again.
RetryWrite ==
  /\ loc' = [loc EXCEPT !.retries = @ + 1]
  /\ UNCHANGED <<ignored, pc>>

\* write() fails: a callback may skip the rest of the data, which is then not
\* reported, or ask for another try.
WriteError ==
  /\ pc = "write" /\ MayFail("data")
  /\ \/ /\ s.cb
        /\ ignored' = ignored \cup {"skip"}
        /\ Goto("security")
        /\ UNCHANGED <<fs, fdt, user, s, loc, history, trouble>>
     \/ /\ s.cb /\ loc.retries < MaxRetries
        /\ RetryWrite
        /\ UNCHANGED <<fs, fdt, user, s, history, trouble>>
     \/ FailUnlinked /\ UNCHANGED ino
  /\ UNCHANGED calls

-----------------------------------------------------------------------------
(* copyfile_security, copyfile_stat and the end.                           *)

\* The mode that stays when fchmod fails.
Unchangeable(i) == IF MayFail("fchmod") THEN {ino[i].mode} ELSE {}

\* The ACL is merged into the state's filesec and set with the mode, or without
\* it when only COPYFILE_ACL is given; when that fails the parts are tried one
\* by one and a failure is logged.
Security ==
  LET merged == MergeAcl(s.acl, ino[Dst].acl, s.delay, SameUid)
      both   == {"ACL", "STAT"} \subseteq s.flags
      mode   == IF both THEN s.sb.mode ELSE ino[Dst].mode
  IN /\ pc = "security"
     /\ \/ /\ "ACL" \in s.flags
           /\ s' = [s EXCEPT !.acl = merged]
           /\ \/ ino' = Secured(Dst, [mode |-> mode, acl |-> merged]) /\ UNCHANGED ignored
              \/ /\ MayFail("security")
                 /\ \E m \in {s.sb.mode} \cup Unchangeable(Dst), acl \in {merged, ino[Dst].acl} :
                      /\ ino' = Secured(Dst, [mode |-> m, acl |-> acl])
                      /\ ignored' = ignored \cup (IF acl = merged THEN {} ELSE {"acl"})
           /\ Goto("stat")
           /\ UNCHANGED <<fdt, user, loc, history, trouble>>
        \/ /\ "ACL" \notin s.flags
           /\ IF "STAT" \in s.flags
              THEN \E m \in {s.sb.mode} \cup Unchangeable(Dst) : ino' = [ino EXCEPT ![Dst].mode = m]
              ELSE UNCHANGED ino
           /\ Goto("stat")
           /\ UNCHANGED <<fdt, user, s, loc, ignored, history, trouble>>
        \/ /\ s.flags \cap {"ACL", "STAT"} # {} /\ MayFail("security")
           /\ Fail /\ UNCHANGED ino
     /\ UNCHANGED <<name, calls>>

\* copyfile_stat, whose failures are all ignored or logged.
Stat ==
  /\ pc = "stat"
  /\ \/ /\ "STAT" \notin s.flags
        /\ UNCHANGED <<ino, ignored>>
     \/ /\ "STAT" \in s.flags
        /\ ino' = [ino EXCEPT ![Dst].mode = s.sb.mode, ![Dst].meta = s.sb.meta]
        /\ UNCHANGED ignored
     \/ /\ "STAT" \in s.flags /\ MayFail("fchmod")
        /\ ino' = [ino EXCEPT ![Dst].meta = s.sb.meta]
        /\ ignored' = ignored \cup {"mode"}
  /\ Goto("finish")
  /\ UNCHANGED <<name, fdt, user, s, loc, calls, history, trouble>>

\* copyfile and fcopyfile put the destination's own mode back, unless it was
\* copied, the call has created the file, or fchmod fails.
RestoredMode(file) ==
  IF "STAT" \in s.flags \/ loc.created \/ "mode" \in ignored THEN file
  ELSE [file EXCEPT !.mode = loc.dsb.mode]

\* That fchmod fails, which nothing reports.
RestoreFails ==
  /\ pc = "finish" /\ MayFail("fchmod") /\ "mode" \notin ignored
  /\ "STAT" \notin s.flags /\ ~loc.created
  /\ ignored' = ignored \cup {"mode"}
  /\ UNCHANGED <<fs, fdt, user, s, loc, pc, calls, history, trouble>>

\* Mutant: nothing is reset.
ResetSecurityNot(file) == file

\* reset_security: the uberace goes, with the mode of the source or of the
\* destination itself.
ResetSecurity(file) ==
  LET mode == IF "STAT" \in s.flags THEN ino[Src].mode ELSE file.mode
      sec  == RemoveUberace([mode |-> file.mode, acl |-> file.acl], mode, SameUid)
  IN IF s.delay THEN file ELSE [file EXCEPT !.mode = sec.mode, !.acl = sec.acl]

\* Neither filesec_init nor the calls of remove_uberace need to succeed.
ResetFails ==
  /\ pc = "finish" /\ ~loc.fcopy /\ MayFail("reset") /\ "reset" \notin ignored
  /\ ignored' = ignored \cup {"reset"}
  /\ UNCHANGED <<fs, fdt, user, s, loc, pc, calls, history, trouble>>

\* The end of a call that has succeeded.
Finish ==
  /\ pc = "finish"
  /\ \/ /\ loc.fcopy
        /\ ino' = [ino EXCEPT ![Dst] = RestoredMode(@)]
        /\ Return(s, 0)
     \/ /\ ~loc.fcopy
        /\ ino' = [ino EXCEPT ![Dst] = IF "reset" \in ignored THEN RestoredMode(@)
                                    ELSE ResetSecurity(RestoredMode(@))]
        /\ Return(s, 0)
  /\ UNCHANGED <<name, calls>>

-----------------------------------------------------------------------------
Step ==
  \/ MakePermissive \/ NoMemory \/ Check \/ OpenSource \/ RemoveDestination \/ MakeSpecial
  \/ OpenLoop \/ Internal \/ Xattr \/ ReadBlocks \/ WriteError
  \/ \E n \in 0 .. OBlk : WriteBlocks(n)
  \/ Security \/ Stat \/ RestoreFails \/ ResetFails \/ Finish

CallFlags(null) == IF null THEN FlagSets ELSE StateFlags

\* The program does not use a state with both copyfile and fcopyfile: one that has
\* a descriptor of its own goes with the second, one that has names with the first.
ForNames(st) == st.src # NoName \/ st.sfd = NotOpen
ForDescriptors(st) ==
  st = NoState \/ (st.src = NoName /\ st.dst = NoName
                   /\ {st.sfd, st.dfd} \subseteq {NotOpen, 0, 1, 2})

Program ==
  \/ StateAlloc \/ StateSetCallback \/ StateSetFd \/ StateFree
  \/ \E sn \in Sources, dn \in Targets, null \in BOOLEAN : \E fl \in CallFlags(null) :
       /\ ForNames(user)
       /\ \/ CopyfileCall(sn, dn, fl, null)
          \/ \E which \in {"src", "dst"} : CopyfileNoName(sn, dn, fl, null, which)
  \/ \E sf \in {0, 2}, null \in BOOLEAN : \E fl \in CallFlags(null) :
       /\ ForDescriptors(user)
       /\ \/ \E acl \in BOOLEAN, rw \in BOOLEAN : FcopyfileCall(sf, 1, fl, null, acl, rw)
          \/ FcopyfileNoStat(sf, fl, null)

Next == Step \/ Program

\* A call that has begun goes on.
Spec == Init /\ [][Next]_vars /\ WF_vars(Step)

-----------------------------------------------------------------------------
Filesec == [mode : [of : Names \cup {"garbage"}, rw : BOOLEAN],
            acl  : [has : BOOLEAN, aces : Seq([who : STRING, inh : BOOLEAN])]]

TypeOK ==
  /\ name \in [Names -> 0 .. MaxIno]
  /\ DOMAIN ino = 1 .. MaxIno
  /\ \A i \in 1 .. MaxIno : ino[i] = NoFile \/ SecOf(i) \in Filesec
  /\ \A fd \in Fds : fdt[fd].ino \in 0 .. MaxIno /\ fdt[fd].off \in Nat
  /\ \A st \in {user, s} : {st.sfd, st.dfd} \subseteq Fds \cup {NotOpen, Failed}
  /\ pc \in {"idle", "perms", "check", "opensrc", "opendst", "make", "openloop",
            "internal", "xattr", "data", "write", "security", "stat", "finish"}
  /\ calls \in 0 .. MaxCalls
  /\ ignored \subseteq {"statx", "xattr", "prefix", "skip", "unlink", "acl", "mode", "reset"}
  /\ trouble \subseteq {"close", "state", "name"}

\* A call that has copied, made with a state that had no descriptors open.
Copied == pc = "idle" /\ last.ret = 0 /\ last.fresh
          /\ last.flags \cap {"CHECK", "PACK", "UNPACK"} = {}

\* A successful COPYFILE_DATA leaves the data of the source in the destination,
\* whatever was there, however the writes were cut, failed and were repeated,
\* unless the callback has skipped it.
DataCopied ==
  /\ Copied /\ "DATA" \in last.flags
  /\ ino[last.src].type = "reg" /\ "skip" \notin last.errors
  => ino[last.into].data = ino[last.src].data

\* The same of any state, one that has been used before included: "since the
\* structure may not have been cleared out before being used again, we do some
\* of the cleanup here".
ReusedDataCopied ==
  /\ pc = "idle" /\ last.ret = 0 /\ "DATA" \in last.flags /\ ~last.fcopy
  /\ ino[last.src].type = "reg" /\ "skip" \notin last.errors
  => ino[last.into].data = ino[last.src].data

\* A call that fails, or that succeeds, never leaves a part of the source's data
\* under the destination's name, unless the name could not be removed.
NoPartialCopy ==
  /\ pc = "idle" /\ last.fresh /\ ~last.fcopy /\ last.errors \cap {"skip", "unlink"} = {}
  /\ last.src # 0 /\ name[last.dst] # 0 /\ ino[name[last.dst]].type = "reg"
  => ino[name[last.dst]].data \in
       {last.was.data, <<>>, ino[last.src].data, <<<<"packed", last.src>>>>}

\* A successful copyfile leaves no uberace on the destination, unless a call that
\* failed had left one there.
NoUberaceLeft ==
  Copied /\ ~last.fcopy /\ ~HasUberace(last.was.acl) /\ last.errors \cap {"reset", "acl"} = {}
  => ~HasUberace(ino[last.into].acl)

\* COPYFILE_ACL gives the destination the source's own entries and keeps the
\* entries it inherits from where it is; without it an existing destination has
\* the ACL it had.
AclCopied ==
  Copied /\ ~last.fcopy /\ ~HasUberace(last.was.acl)
  /\ last.errors \cap {"reset", "acl"} = {} =>
    LET now  == Range(ino[last.into].acl.aces)
        from == Range(ino[last.src].acl.aces)
    IN IF "ACL" \in last.flags
       THEN /\ {a \in now : ~a.inh} = {a \in from : ~a.inh}
            /\ {a \in Range(last.was.acl.aces) : a.inh} \subseteq
                 {a \in now : a.inh} \cup (IF "UNLINK" \in last.flags
                                          THEN Range(last.was.acl.aces) ELSE {})
       ELSE last.target = last.into => now = Range(last.was.acl.aces)

\* COPYFILE_STAT gives the destination the source's mode; without it a
\* destination that existed has the mode it had, although it was made writable
\* in between; only a failing fchmod, which nothing reports, prevents it.
ModeRestored ==
  Copied /\ last.errors \cap {"statx", "mode"} = {} =>
    IF "STAT" \in last.flags THEN ino[last.into].mode = ino[last.src].mode
    ELSE last.was # NoFile => ino[last.into].mode = last.was.mode

\* A copyfile that fails has not put anything back.  What it leaves of an existing
\* destination's security is what the destination had, or that with the helper
\* entry and the mode it was made writable with, and never a list of access
\* control entries that is partly the source's.
FailureLeavesOwn ==
  /\ pc = "idle" /\ last.ret = -1 /\ last.target # 0 /\ ~last.fcopy
  /\ name[last.dst] = last.target /\ "UNLINK" \notin last.flags
  => LET own == [mode |-> last.was.mode, acl |-> last.was.acl]
         now == SecOf(last.target)
     IN /\ now.acl \in {own.acl, FixPerms(own).acl}
        /\ now.mode \in {own.mode, FixPerms(own).mode} \/ now.mode.rw

\* A successful COPYFILE_XATTR gives the destination exactly the attributes of
\* the source, and lets it keep its own quarantine; where the last attribute that
\* is listed has a name the quarantine's begins with, all but those with such
\* names.
XattrsCopied ==
  Copied /\ "XATTR" \in last.flags /\ "xattr" \notin last.errors =>
    LET meant(xa) == {e \in Plain(xa) : "prefix" \in last.errors => e[1] \notin Beginnings}
    IN /\ meant(ino[last.into].xa) = meant(ino[last.src].xa)
       /\ last.target = last.into =>
            ino[last.into].xa \ Plain(ino[last.into].xa) = last.was.xa \ Plain(last.was.xa)

\* COPYFILE_EXCL, "fail if destination exists": the call fails and the
\* destination keeps its data.
ExclusiveFails ==
  /\ pc = "idle" /\ last.fresh /\ ~last.fcopy
  /\ {"EXCL", "UNLINK", "CHECK"} \cap last.flags = {"EXCL"} /\ last.was # NoFile
  => last.ret = -1 /\ name[last.dst] = last.target
     /\ ino[last.target].data = last.was.data

\* What becomes of the data: all of it, or none, and never over what was to be kept
\* (copyfile_data, copyfile_open, copyfile_internal's error exit).
DataWhole == DataCopied /\ NoPartialCopy /\ ExclusiveFails


\* What was changed to be able to copy is put back by a call that succeeds, and
\* is all that one that fails has changed (copyfile, reset_security).
SecurityRestored == NoUberaceLeft /\ ModeRestored /\ FailureLeavesOwn

\* With COPYFILE_CHECK "all we are going to do is see what kinds of things WOULD
\* have been copied": the destination is as it was.
CheckTouchesNothing ==
  pc = "idle" /\ "CHECK" \in last.flags /\ last.target # 0
  => ino[last.target] = last.was

\* The library closes what it has opened and nothing else.
ClosesItsOwn == "close" \notin trouble

\* No descriptor the library has opened is out of reach: some state still has it,
\* unless strdup() has failed to keep its name.
NoFdLeak ==
  "name" \notin trouble => \A fd \in Fds : fdt[fd].ino # 0 /\ fdt[fd].by = "library"
                 => fd \in {user.sfd, user.dfd, s.sfd, s.dfd}

\* Descriptors are closed once, by who opened them (copyfile_close, copyfile_open,
\* copyfile_state_free).
DescriptorsKept == ClosesItsOwn /\ NoFdLeak

\* Every call returns: the loops of copyfile_open and copyfile_data end, as long
\* as the callback does not ask for a retry for ever.
CallsReturn == pc # "idle" ~> pc = "idle"
=============================================================================
