--------------------------- MODULE CopyfileProofs ---------------------------
(***************************************************************************)
(* Proofs about copyfile and fcopyfile (module Copyfile), for every set of *)
(* flags, sources, targets and faults and every bound on the calls.        *)
(***************************************************************************)
EXTENDS Copyfile, FiniteSetTheorems, TLAPS

-----------------------------------------------------------------------------
(* Who has which descriptor.                                               *)

\* A descriptor that is open and that the library has opened.
Lib(fd) == fd \in Fds /\ fdt[fd].ino # 0 /\ fdt[fd].by = "library"

\* The state that has the descriptors: that of the call in progress, or the
\* program's.
Holder == IF pc = "idle" THEN user ELSE s

StateFields == {"src", "dst", "sfd", "dfd", "sb", "acl", "flags", "cb", "delay"}

IsState(st) ==
  /\ st = [f \in StateFields |-> st[f]]
  /\ {st.sfd, st.dfd} \subseteq Fds \cup {NotOpen, Failed}

Stages == {"perms", "check", "opensrc", "opendst", "make", "openloop"}
Copying == {"xattr", "data", "write", "security", "stat", "finish"}

\* The descriptor table: the program's descriptors stay the program's, the ones
\* above them are the library's.
TableInv ==
  /\ fdt = [fd \in Fds |-> [ino |-> fdt[fd].ino, off |-> fdt[fd].off, by |-> fdt[fd].by]]
  /\ \A fd \in {0, 2} : fdt[fd].ino # 0 /\ fdt[fd].by = "program"
  /\ \A fd \in {3, 4, 5} : fdt[fd].by = "library"

\* The stages of a call and the state it works with.
StageInv ==
  /\ IsState(user) /\ IsState(s)
  /\ pc = "idle" => s = NoState
  /\ pc \in Stages \cup Copying \cup {"idle", "internal"}
  /\ pc # "idle" /\ loc.null => calls = MaxCalls /\ user = NoState
  /\ pc \in Stages => s.src # NoName /\ s.dst # NoName
  /\ pc \in {"make", "openloop"} => s.dfd = NotOpen
  /\ pc \in Copying => s.sfd \in Fds /\ s.dfd \in Fds

\* What goes with a name was opened by the library, and is not one descriptor for both;
\* a state that copyfile may be called with has none of the program's.
Owns(st) ==
  /\ st.src # NoName /\ st.sfd \in Fds => Lib(st.sfd)
  /\ st.dst # NoName /\ st.dfd \in Fds => Lib(st.dfd)
  /\ (st.src # NoName \/ st.sfd = NotOpen) /\ st.dfd \in Fds => Lib(st.dfd) /\ st.sfd # st.dfd

\* What goes with no name is not the library's, unless a name was lost.
Lends(st) ==
  "name" \notin trouble =>
    /\ st.src = NoName => ~Lib(st.sfd)
    /\ st.dst = NoName => ~Lib(st.dfd)

\* The state has all of the library's descriptors, as long as there may be a call.
Reaches(st) ==
  calls < MaxCalls \/ pc # "idle" \/ "name" \notin trouble =>
    \A fd \in Fds : Lib(fd) => fd \in {st.sfd, st.dfd}

DescriptorInv ==
  /\ TableInv /\ StageInv
  /\ Owns(Holder) /\ Lends(Holder) /\ Reaches(Holder)
  /\ "close" \notin trouble

-----------------------------------------------------------------------------
(* The least element, and that there is always room.                       *)

\* Min takes one of the set's elements.
LEMMA MinIsIn ==
  ASSUME NEW S \in SUBSET (0 .. 13), S # {}
  PROVE  Min(S) \in S
<1>1. \E x \in S : \A y \in S : x <= y
  <2>1. \A n \in 0 .. 13 : n \in S => \E x \in S : \A y \in S : x <= y
    BY SMTT(60)
  <2>. QED  BY <2>1
<1>. QED  BY <1>1 DEF Min

\* One of the descriptors 3, 4 and 5 is free during a call.
LEMMA FreeFdExists ==
  ASSUME TableInv, StageInv, Reaches(Holder), pc # "idle"
  PROVE  /\ FreeFds \subseteq 0 .. 13 /\ FreeFds # {}
         /\ Min(FreeFds) \in Fds /\ fdt[Min(FreeFds)].ino = 0
<1>1. FreeFds \subseteq 0 .. 13
  BY DEF FreeFds, Fds, MaxFd
<1>2. \E fd \in {3, 4, 5} : fd \notin {s.sfd, s.dfd}
  OBVIOUS
<1>3. FreeFds # {}
  BY <1>2 DEF TableInv, Reaches, Holder, Lib, FreeFds, Fds, MaxFd
<1>4. Min(FreeFds) \in FreeFds
  BY <1>1, <1>3, MinIsIn
<1>. QED  BY <1>1, <1>3, <1>4 DEF FreeFds

\* Some values do not fill one place more.
LEMMA RoomForOneMore ==
  ASSUME NEW g, NEW n \in Nat
  PROVE  \E i \in 1 .. n + 1 : \A k \in 1 .. n : g[k] # i
<1> DEFINE Used == {g[k] : k \in 1 .. n}
           h == [k \in 1 .. n |-> g[k]]
<1>1. SUFFICES ASSUME 1 .. n + 1 \subseteq Used
               PROVE  FALSE
  OBVIOUS
<1>2. ExistsSurjection(1 .. n, Used)
  <2>1. h \in Surjection(1 .. n, Used)
    BY DEF Surjection
  <2>. QED  BY <2>1 DEF ExistsSurjection
<1>3. IsFiniteSet(Used) /\ Cardinality(Used) <= n
  BY <1>2, FS_NatSurjection, FS_SurjCardinalityBound
<1>4. Cardinality(1 .. n + 1) = n + 1
  BY FS_Interval
<1>5. Cardinality(1 .. n + 1) <= Cardinality(Used)
  BY <1>1, <1>3, FS_Subset
<1>6. Cardinality(Used) \in Nat
  BY <1>3, FS_CardinalityType
<1>. QED
  <2> HIDE DEF Used
  <2>. QED  BY <1>3, <1>4, <1>5, <1>6

\* A new file gets an inode that no name and no descriptor leads to.
LEMMA FreeInoExists ==
  /\ FreeIno \in 1 .. MaxIno
  /\ \A n \in Names : name[n] # FreeIno
  /\ \A fd \in Fds : fdt[fd].ino # FreeIno
<1> DEFINE Free == {i \in 1 .. MaxIno : i \notin {name[n] : n \in Names}
                                     /\ \A fd \in Fds : fdt[fd].ino # i}
           g == [k \in 1 .. 12 |->
                   IF k = 1 THEN name["x"] ELSE IF k = 2 THEN name["l"]
                   ELSE IF k = 3 THEN name["d"] ELSE IF k = 4 THEN name["f"]
                   ELSE IF k = 5 THEN name["p"] ELSE IF k = 6 THEN name["q"]
                   ELSE fdt[k - 7].ino]
<1>1. PICK i \in 1 .. 13 : \A k \in 1 .. 12 : g[k] # i
  <2>. HIDE DEF g
  <2>1. PICK n \in Nat : n = 12
    OBVIOUS
  <2>2. PICK i \in 1 .. n + 1 : \A k \in 1 .. n : g[k] # i
    BY RoomForOneMore
  <2>3. i \in 1 .. 13
    BY <2>1, <2>2
  <2>4. \A k \in 1 .. 12 : k \in 1 .. n
    BY <2>1
  <2>5. \A k \in 1 .. 12 : g[k] # i
    BY <2>2, <2>4
  <2>. QED  BY <2>3, <2>5
<1>2. \A n \in Names : name[n] # i
  <2>1. g[1] = name["x"] /\ g[2] = name["l"] /\ g[3] = name["d"]
        /\ g[4] = name["f"] /\ g[5] = name["p"] /\ g[6] = name["q"]
    OBVIOUS
  <2>. HIDE DEF g
  <2>. QED  BY <1>1, <2>1 DEF Names
<1>3. \A fd \in Fds : fdt[fd].ino # i
  <2>1. ASSUME NEW fd \in Fds
        PROVE  g[fd + 7] = fdt[fd].ino /\ fd + 7 \in 1 .. 12
    BY DEF Fds, MaxFd
  <2>. HIDE DEF g
  <2>. QED  BY <1>1, <2>1
<1>4. Free \subseteq 0 .. 13 /\ Free # {}
  BY <1>1, <1>2, <1>3 DEF MaxIno
<1>5. Min(Free) \in Free
  BY <1>4, MinIsIn
<1>6. FreeIno = Min(Free)
  BY DEF FreeIno
<1>. QED  BY <1>5, <1>6

-----------------------------------------------------------------------------
(* The kinds of steps, as far as descriptors are concerned.                *)

Running == Stages \cup Copying \cup {"internal"}

StagesAgree ==
  /\ pc' \in Stages => s'.src # NoName /\ s'.dst # NoName
  /\ pc' \in {"make", "openloop"} => s'.dfd = NotOpen
  /\ pc' \in Copying => s'.sfd \in Fds /\ s'.dfd \in Fds

\* A step of a call that opens and closes nothing.
LEMMA StepInside ==
  ASSUME DescriptorInv, pc # "idle", pc' \in Running, StagesAgree,
         user' = user, calls' = calls, trouble' = trouble, loc'.null = loc.null,
         IsState(s)', s'.src = s.src, s'.dst = s.dst, s'.sfd = s.sfd, s'.dfd = s.dfd,
         TableInv', \A fd \in Fds : fdt'[fd].ino = fdt[fd].ino /\ fdt'[fd].by = fdt[fd].by
  PROVE  DescriptorInv'
<1>1. StageInv'
  BY DEF DescriptorInv, StageInv, StagesAgree, Running, IsState, Stages, Copying
<1>2. Holder = s /\ Holder' = s'
  BY DEF Holder, Running, Stages, Copying
<1>3. \A fd : Lib(fd)' <=> Lib(fd)
  BY DEF Lib
<1>4. Owns(Holder)'
  BY <1>2, <1>3 DEF DescriptorInv, Owns
<1>5. Lends(Holder)'
  BY <1>2, <1>3 DEF DescriptorInv, Lends
<1>6. Reaches(Holder)'
  BY <1>2, <1>3 DEF DescriptorInv, Reaches
<1>. QED  BY <1>1, <1>4, <1>5, <1>6 DEF DescriptorInv

\* The table with one more descriptor open.
LEMMA OpenedTable ==
  ASSUME DescriptorInv, pc # "idle", NEW i, i # 0, fdt' = Open(i)
  PROVE  /\ TableInv'
         /\ Min(FreeFds) \in Fds /\ ~Lib(Min(FreeFds))
         /\ \A fd : Lib(fd)' <=> (Lib(fd) \/ fd = Min(FreeFds))
<1>1. Min(FreeFds) \in Fds /\ fdt[Min(FreeFds)].ino = 0
  BY FreeFdExists DEF DescriptorInv
<1> DEFINE new == Min(FreeFds)
<1>2. new \in Fds /\ fdt[new].ino = 0
  BY <1>1
<1>3. fdt' = [fdt EXCEPT ![new] = [ino |-> i, off |-> 0, by |-> "library"]]
  BY DEF Open
<1> HIDE DEF new
<1>4. \A fd \in Fds : fdt'[fd] = IF fd = new THEN [ino |-> i, off |-> 0, by |-> "library"] ELSE fdt[fd]
  BY <1>2, <1>3 DEF DescriptorInv, TableInv
<1>5. TableInv'
  <2>1. fdt' = [fd \in Fds |-> fdt'[fd]]
    BY <1>3 DEF DescriptorInv, TableInv
  <2>2. \A fd \in Fds : fdt'[fd] = [ino |-> fdt'[fd].ino, off |-> fdt'[fd].off, by |-> fdt'[fd].by]
    BY <1>4 DEF DescriptorInv, TableInv
  <2>3. \A fd \in {0, 2} : fd \in Fds /\ fd # new
    BY <1>2 DEF DescriptorInv, TableInv, Fds, MaxFd
  <2>4. \A fd \in {0, 2} : fdt'[fd].ino # 0 /\ fdt'[fd].by = "program"
    BY <2>3, <1>4 DEF DescriptorInv, TableInv
  <2>5. \A fd \in {3, 4, 5} : fdt'[fd].by = "library"
    BY <1>4 DEF DescriptorInv, TableInv, Fds, MaxFd
  <2>. QED  BY <2>1, <2>2, <2>4, <2>5 DEF TableInv
<1>6. \A fd : Lib(fd)' <=> (Lib(fd) \/ fd = new)
  BY <1>2, <1>4 DEF Lib
<1>7. ~Lib(new)
  BY <1>2 DEF Lib
<1>. QED  BY <1>2, <1>5, <1>6, <1>7 DEF new

\* The source or the destination of a call is opened.
LEMMA StepOpens ==
  ASSUME DescriptorInv, pc # "idle", pc' \in Running, StagesAgree,
         user' = user, calls' = calls, trouble' = trouble, loc'.null = loc.null,
         NEW i, i # 0, fdt' = Open(i),
         IsState(s)', s'.src = s.src, s'.dst = s.dst, s.src # NoName, s.dst # NoName,
         \/ s.sfd = NotOpen /\ s'.sfd = Min(FreeFds) /\ s'.dfd = s.dfd
         \/ s.dfd = NotOpen /\ s'.dfd = Min(FreeFds) /\ s'.sfd = s.sfd
  PROVE  DescriptorInv'
<1>1. StageInv'
  BY DEF DescriptorInv, StageInv, StagesAgree, Running, IsState, Stages, Copying
<1>2. Holder = s /\ Holder' = s'
  BY DEF Holder, Running, Stages, Copying
<1>3. /\ TableInv'
      /\ Min(FreeFds) \in Fds /\ ~Lib(Min(FreeFds))
      /\ \A fd : Lib(fd)' <=> (Lib(fd) \/ fd = Min(FreeFds))
  BY OpenedTable
<1>4. NotOpen \notin Fds
  BY DEF NotOpen, Fds
<1>5. Owns(Holder)'
  BY <1>2, <1>3, <1>4 DEF DescriptorInv, Owns
<1>6. Lends(Holder)'
  BY <1>2 DEF Lends
<1>7. Reaches(Holder)'
  <2>1. \A fd \in Fds : Lib(fd) => fd \in {s.sfd, s.dfd}
    BY <1>2 DEF DescriptorInv, Reaches
  <2>2. \A fd \in Fds : Lib(fd)' => fd \in {s'.sfd, s'.dfd}
    BY <2>1, <1>3, <1>4
  <2>. QED  BY <1>2, <2>2 DEF Reaches
<1>. QED  BY <1>1, <1>3, <1>5, <1>6, <1>7 DEF DescriptorInv

\* The table without the descriptors of a set, all of them the library's.
LEMMA ClosedTable ==
  ASSUME TableInv, NEW S, \A fd \in S : Lib(fd), fdt' = Close(fdt, S)
  PROVE  /\ TableInv'
         /\ ~BadClose(S)
         /\ \A fd : Lib(fd)' <=> (Lib(fd) /\ fd \notin S)
<1>1. \A fd \in Fds : fdt'[fd] = IF fd \in S THEN [fdt[fd] EXCEPT !.ino = 0] ELSE fdt[fd]
  BY DEF Close
<1>2. fdt' = [fd \in Fds |-> fdt'[fd]]
  BY DEF Close
<1>3. \A fd \in Fds : fdt[fd] = [ino |-> fdt[fd].ino, off |-> fdt[fd].off, by |-> fdt[fd].by]
  BY DEF TableInv
<1>4. ASSUME NEW fd \in Fds
      PROVE  /\ fdt'[fd] = [ino |-> fdt'[fd].ino, off |-> fdt'[fd].off, by |-> fdt'[fd].by]
             /\ fdt'[fd].ino = IF fd \in S THEN 0 ELSE fdt[fd].ino
             /\ fdt'[fd].by = fdt[fd].by
  <2>1. CASE fd \in S
    <3>1. fdt'[fd] = [fdt[fd] EXCEPT !.ino = 0]
      BY <1>1, <2>1
    <3>2. PICK a, b, c : fdt[fd] = [ino |-> a, off |-> b, by |-> c]
      BY <1>3
    <3>3. fdt'[fd] = [ino |-> 0, off |-> b, by |-> c]
      BY <3>1, <3>2
    <3>. QED  BY <2>1, <3>2, <3>3
  <2>2. CASE fd \notin S
    BY <1>1, <1>3, <2>2
  <2>. QED  BY <2>1, <2>2
<1>5. TableInv'
  <2>1. \A fd \in {0, 2} : fd \in Fds /\ fd \notin S
    BY DEF TableInv, Lib, Fds, MaxFd
  <2>2. \A fd \in {0, 2} : fdt'[fd].ino # 0 /\ fdt'[fd].by = "program"
    <3>1. SUFFICES ASSUME NEW fd \in {0, 2} PROVE fdt'[fd].ino # 0 /\ fdt'[fd].by = "program"
      OBVIOUS
    <3>2. fd \in Fds /\ fd \notin S
      BY <2>1
    <3>3. fdt'[fd].ino = fdt[fd].ino /\ fdt'[fd].by = fdt[fd].by
      BY <1>4, <3>2
    <3>4. fdt[fd].ino # 0 /\ fdt[fd].by = "program"
      BY DEF TableInv
    <3>. QED  BY <3>3, <3>4
  <2>3. \A fd \in {3, 4, 5} : fdt'[fd].by = "library"
    <3>1. \A fd \in {3, 4, 5} : fd \in Fds
      BY DEF Fds, MaxFd
    <3>2. \A fd \in Fds : fdt'[fd].by = fdt[fd].by
      BY <1>4
    <3>. QED  BY <3>1, <3>2 DEF TableInv
  <2>. QED  BY <1>2, <1>4, <2>2, <2>3 DEF TableInv
<1>6. \A fd : Lib(fd)' <=> (Lib(fd) /\ fd \notin S)
  BY <1>4 DEF Lib
<1>. QED  BY <1>5, <1>6 DEF BadClose, Lib

\* What a state owns is the library's.
LEMMA OwnedIsLib ==
  ASSUME NEW st, Owns(st), {st.sfd, st.dfd} \subseteq Fds \cup {NotOpen, Failed}
  PROVE  /\ \A fd \in OwnedFds(st) : Lib(fd)
         /\ \A fd \in Fds : fd = st.sfd /\ st.src # NoName => fd \in OwnedFds(st)
         /\ \A fd \in Fds : fd = st.dfd /\ st.dst # NoName => fd \in OwnedFds(st)
BY DEF Owns, OwnedFds, Fds, MaxFd, NotOpen, Failed

\* A state that a call returns with: its own, or one whose open() has failed.
EndsWith(st) ==
  /\ IsState(st) /\ st.src = s.src /\ st.dst = s.dst
  /\ st.sfd = s.sfd \/ (s.sfd = NotOpen /\ st.sfd = Failed)
  /\ st.dfd = s.dfd \/ (s.dfd = NotOpen /\ st.dfd = Failed)

LEMMA NoStateIsState == IsState(NoState) /\ IsState(NewState)
<1>1. NewState = [f \in StateFields |-> NewState[f]]
  BY DEF StateFields, NewState
<1>2. NoState = [f \in StateFields |-> NoState[f]]
  BY <1>1 DEF NoState
<1>3. NoState.sfd = NotOpen /\ NoState.dfd = NotOpen /\ NewState.sfd = NotOpen /\ NewState.dfd = NotOpen
  BY DEF NoState, NewState
<1>. QED  BY <1>1, <1>2, <1>3 DEF IsState

\* What the state of a call that ends has and owns.
LEMMA EndsOwning ==
  ASSUME DescriptorInv, pc # "idle", NEW st, EndsWith(st)
  PROVE  /\ Owns(st) /\ Lends(st)
         /\ \A fd \in Fds : Lib(fd) => fd \in {st.sfd, st.dfd}
<1>1. Holder = s
  BY DEF Holder
<1>2. NotOpen \notin Fds /\ Failed \notin Fds /\ NotOpen # Failed
  BY DEF NotOpen, Failed, Fds
<1>3. Owns(st)
  BY <1>1, <1>2 DEF DescriptorInv, Owns, EndsWith
<1>4. Lends(st)
  BY <1>1, <1>2 DEF DescriptorInv, Lends, EndsWith, Lib
<1>5. \A fd \in Fds : Lib(fd) => fd \in {st.sfd, st.dfd}
  BY <1>1, <1>2 DEF DescriptorInv, Reaches, EndsWith
<1>. QED  BY <1>3, <1>4, <1>5

\* A state is freed.
LEMMA StateFreed ==
  ASSUME TableInv, NEW st, IsState(st), Owns(st), Freed(st), "close" \notin trouble
  PROVE  /\ TableInv' /\ trouble' = trouble
         /\ \A fd : Lib(fd)' <=> (Lib(fd) /\ fd \notin OwnedFds(st))
<1>1. \A fd \in OwnedFds(st) : Lib(fd)
  BY OwnedIsLib DEF IsState
<1>2. fdt' = Close(fdt, OwnedFds(st))
  BY DEF Freed
<1>3. /\ TableInv' /\ ~BadClose(OwnedFds(st))
      /\ \A fd : Lib(fd)' <=> (Lib(fd) /\ fd \notin OwnedFds(st))
  BY <1>1, <1>2, ClosedTable
<1>. QED  BY <1>3 DEF Freed

\* A call returns.
LEMMA StepReturnsWith ==
  ASSUME DescriptorInv, pc # "idle", NEW st, NEW r, NEW e, EndsWith(st), ReturnWith(st, r, e),
         calls' = calls
  PROVE  DescriptorInv'
<1>1. Owns(st) /\ Lends(st) /\ \A fd \in Fds : Lib(fd) => fd \in {st.sfd, st.dfd}
  BY EndsOwning
<1>2. pc' = "idle" /\ s' = NoState /\ Holder' = user'
  BY DEF ReturnWith, Holder
<1>3. CASE loc.null
  <2>1. Freed(st) /\ user' = user /\ calls = MaxCalls
    BY <1>3 DEF ReturnWith, DescriptorInv, StageInv
  <2>2. /\ TableInv' /\ trouble' = trouble
        /\ \A fd : Lib(fd)' <=> (Lib(fd) /\ fd \notin OwnedFds(st))
    BY <1>1, <2>1, StateFreed DEF DescriptorInv, EndsWith
  <2>3. "name" \notin trouble => \A fd \in Fds : ~Lib(fd)'
    BY <1>1, <2>2, OwnedIsLib DEF Lends, EndsWith, IsState
  <2>4. user' = NoState /\ NoState.sfd = NotOpen /\ NoState.dfd = NotOpen
    BY <1>3, <2>1 DEF DescriptorInv, StageInv, NoState, NewState
  <2>5. NotOpen \notin Fds
    BY DEF NotOpen, Fds
  <2>6. Owns(user)'
    BY <2>4, <2>5 DEF Owns
  <2>7. Lends(user)'
    BY <2>4, <2>5 DEF Lends, Lib
  <2>8. Reaches(user)'
    <3>1. ~(calls' < MaxCalls)
      BY <2>1, CopyAssumption
    <3>. QED  BY <1>2, <2>2, <2>3, <3>1 DEF Reaches
  <2>9. StageInv'
    BY <1>2, <2>1, <2>4, NoStateIsState DEF DescriptorInv, StageInv, Stages, Copying
  <2>. QED  BY <1>2, <2>2, <2>6, <2>7, <2>8, <2>9 DEF DescriptorInv
<1>4. CASE ~loc.null
  <2>1. user' = st /\ fdt' = fdt /\ trouble' = trouble
    BY <1>4 DEF ReturnWith
  <2>2. \A fd : Lib(fd)' <=> Lib(fd)
    BY <2>1 DEF Lib
  <2>3. Owns(user)'
    BY <1>1, <2>1, <2>2 DEF Owns
  <2>4. Lends(user)'
    BY <1>1, <2>1, <2>2 DEF Lends
  <2>5. Reaches(user)'
    BY <1>1, <2>1, <2>2 DEF Reaches
  <2>6. StageInv'
    BY <1>2, <2>1, NoStateIsState DEF DescriptorInv, StageInv, EndsWith, IsState, Stages, Copying
  <2>7. TableInv'
    BY <2>1 DEF DescriptorInv, TableInv
  <2>. QED  BY <1>2, <2>1, <2>3, <2>4, <2>5, <2>6, <2>7 DEF DescriptorInv
<1>. QED  BY <1>3, <1>4

LEMMA StepReturns ==
  ASSUME DescriptorInv, pc # "idle", NEW st, NEW r, EndsWith(st), Return(st, r), calls' = calls
  PROVE  DescriptorInv'
BY StepReturnsWith DEF Return

-----------------------------------------------------------------------------
(* The program's calls.                                                    *)

\* A state that has all of the library's descriptors.
Fits(st) ==
  /\ IsState(st) /\ Owns(st) /\ Lends(st)
  /\ \A fd \in Fds : Lib(fd) => fd \in {st.sfd, st.dfd}

LEMMA NotOpenIsNone == NotOpen \notin Fds /\ Failed \notin Fds /\ NotOpen # Failed
BY DEF NotOpen, Failed, Fds

\* A call that takes the program's state, or a new one, takes one that fits.
LEMMA PreambleFits ==
  ASSUME DescriptorInv, pc = "idle", calls < MaxCalls,
         NEW fl, NEW null \in BOOLEAN, null = (user = NoState)
  PROVE  /\ Fits(Preamble(fl, null))
         /\ ForNames(user) => ForNames(Preamble(fl, null))
         /\ ~null => /\ Preamble(fl, null).src = user.src
                     /\ Preamble(fl, null).dst = user.dst
         /\ null => /\ Preamble(fl, null).sfd = NotOpen /\ Preamble(fl, null).dfd = NotOpen
                    /\ Preamble(fl, null).src = NoName /\ Preamble(fl, null).dst = NoName
         /\ Preamble(fl, null).sfd = user.sfd /\ Preamble(fl, null).dfd = user.dfd
<1> DEFINE b == IF null THEN NewState ELSE user
           st == Preamble(fl, null)
<1>1. st = [b EXCEPT !.flags = fl]
  BY DEF Preamble
<1>2. IsState(b)
  BY NoStateIsState DEF DescriptorInv, StageInv
<1>3. /\ NewState.sfd = NotOpen /\ NewState.dfd = NotOpen /\ NewState.src = NoName /\ NewState.dst = NoName
      /\ NoState.sfd = NotOpen /\ NoState.dfd = NotOpen
  BY DEF NewState, NoState
<1>4. b.sfd = user.sfd /\ b.dfd = user.dfd
  BY <1>3
<1> HIDE DEF b
<1>5. /\ st.src = b.src /\ st.dst = b.dst /\ st.sfd = b.sfd /\ st.dfd = b.dfd
      /\ st = [f \in StateFields |-> st[f]]
  BY <1>1, <1>2 DEF IsState, StateFields
<1> HIDE DEF st
<1>6. IsState(st)
  BY <1>2, <1>5 DEF IsState
<1>7. \A fd \in Fds : Lib(fd) => fd \in {st.sfd, st.dfd}
  BY <1>4, <1>5 DEF DescriptorInv, Reaches, Holder
<1>8. CASE null
  <2>1. st.sfd = NotOpen /\ st.dfd = NotOpen /\ st.src = NoName /\ st.dst = NoName
    BY <1>3, <1>5, <1>8 DEF b
  <2>2. Owns(st) /\ Lends(st) /\ ForNames(st)
    BY <2>1, NotOpenIsNone DEF Owns, Lends, Lib, ForNames
  <2>. QED  BY <1>4, <1>5, <1>6, <1>7, <1>8, <2>1, <2>2 DEF Fits, st
<1>9. CASE ~null
  <2>1. st.src = user.src /\ st.dst = user.dst /\ st.sfd = user.sfd /\ st.dfd = user.dfd
    BY <1>5, <1>9 DEF b
  <2>2. Owns(st) /\ Lends(st) /\ (ForNames(user) => ForNames(st))
    BY <2>1 DEF DescriptorInv, Holder, Owns, Lends, ForNames
  <2>. QED  BY <1>6, <1>7, <1>9, <2>1, <2>2 DEF Fits, st
<1>. QED  BY <1>8, <1>9

\* COPYFILE_SET_FNAME keeps a descriptor or forgets one that went with a name.
LEMMA SetFnameKeeps ==
  ASSUME NEW n, NEW old, NEW fd \in Fds \cup {NotOpen, Failed}
  PROVE  \/ SetFname(n, old, fd) = fd
         \/ SetFname(n, old, fd) = NotOpen /\ old # NoName /\ fd \in Fds
BY DEF SetFname, Fds, MaxFd, NotOpen, Failed

\* A state with the names of a call, or one of them: of its descriptors the ones that
\* went with another name are closed.
Renamed(st, new) ==
  /\ IsState(new)
  /\ new.sfd = st.sfd \/ (new.sfd = NotOpen /\ st.src # NoName /\ st.sfd \in Fds)
  /\ new.dfd = st.dfd \/ (new.dfd = NotOpen /\ st.dst # NoName /\ st.dfd \in Fds)

LEMMA RenamedTable ==
  ASSUME TableInv, NEW st, Fits(st), ForNames(st), NEW new, Renamed(st, new),
         fdt' = Close(fdt, FnameCloses(st, new))
  PROVE  /\ TableInv' /\ ~BadClose(FnameCloses(st, new))
         /\ Owns(new)'
         /\ \A fd \in Fds : Lib(fd)' => fd \in {new.sfd, new.dfd}
         /\ \A fd : Lib(fd)' => Lib(fd)
<1> DEFINE C == FnameCloses(st, new)
<1>1. \A fd \in C : Lib(fd)
  BY DEF FnameCloses, Fits, Owns, Renamed
<1>2. /\ TableInv' /\ ~BadClose(C)
      /\ \A fd : Lib(fd)' <=> (Lib(fd) /\ fd \notin C)
  BY <1>1, ClosedTable
<1>3. C = ({st.sfd} \ {new.sfd}) \cup ({st.dfd} \ {new.dfd})
  BY DEF FnameCloses
<1> HIDE DEF C
<1>4. \A fd \in Fds : Lib(fd)' => fd \in {new.sfd, new.dfd}
  BY <1>2, <1>3 DEF Fits
<1>5. new.sfd \in Fds => Lib(new.sfd)'
  <2>1. SUFFICES ASSUME new.sfd \in Fds
                 PROVE  Lib(new.sfd)'
    OBVIOUS
  <2>2. new.sfd = st.sfd /\ st.src # NoName
    BY <2>1, NotOpenIsNone DEF Renamed, ForNames
  <2>3. Lib(st.sfd) /\ st.sfd # st.dfd
    BY <2>1, <2>2 DEF Fits, Owns
  <2>4. st.sfd \notin C
    BY <1>3, <2>2, <2>3
  <2>. QED  BY <1>2, <2>2, <2>3, <2>4
<1>6. new.dfd \in Fds => Lib(new.dfd)' /\ new.sfd # new.dfd
  <2>1. SUFFICES ASSUME new.dfd \in Fds
                 PROVE  Lib(new.dfd)' /\ new.sfd # new.dfd
    OBVIOUS
  <2>2. new.dfd = st.dfd
    BY <2>1, NotOpenIsNone DEF Renamed
  <2>3. Lib(st.dfd) /\ st.sfd # st.dfd
    BY <2>1, <2>2 DEF Fits, Owns, ForNames
  <2>4. st.dfd \notin C
    BY <1>3, <2>2, <2>3
  <2>. QED  BY <1>2, <2>1, <2>2, <2>3, <2>4, NotOpenIsNone DEF Renamed
<1>7. Owns(new)'
  BY <1>5, <1>6 DEF Owns
<1>. QED  BY <1>2, <1>4, <1>7 DEF C

\* copyfile begins.
LEMMA StepCopyfile ==
  ASSUME DescriptorInv, NEW sn \in Sources, NEW dn \in Targets, NEW fl, NEW null \in BOOLEAN,
         ForNames(user), CopyfileCall(sn, dn, fl, null)
  PROVE  DescriptorInv'
<1>1. pc = "idle" /\ calls < MaxCalls /\ null = (user = NoState)
  BY DEF CopyfileCall
<1>2. PICK st : st = Preamble(fl, null)
  OBVIOUS
<1>3. PICK new : new = s'
  OBVIOUS
<1>4. Fits(st) /\ ForNames(st)
  BY <1>1, <1>2, PreambleFits
<1>5. new = [st EXCEPT !.src = sn, !.dst = dn, !.sfd = SetFname(sn, st.src, st.sfd),
                       !.dfd = SetFname(dn, st.dst, st.dfd)]
  BY <1>2, <1>3 DEF CopyfileCall
<1>6. /\ new.src = sn /\ new.dst = dn
      /\ new.sfd = SetFname(sn, st.src, st.sfd) /\ new.dfd = SetFname(dn, st.dst, st.dfd)
      /\ new = [f \in StateFields |-> new[f]]
  <2>1. st = [f \in StateFields |-> st[f]]
    BY <1>4 DEF Fits, IsState
  <2>. QED  BY <1>5, <2>1 DEF StateFields
<1>7. Renamed(st, new)
  <2>1. {st.sfd, st.dfd} \subseteq Fds \cup {NotOpen, Failed}
    BY <1>4 DEF Fits, IsState
  <2>2. /\ new.sfd = st.sfd \/ (new.sfd = NotOpen /\ st.src # NoName /\ st.sfd \in Fds)
        /\ new.dfd = st.dfd \/ (new.dfd = NotOpen /\ st.dst # NoName /\ st.dfd \in Fds)
    BY <1>6, <2>1, SetFnameKeeps
  <2>. QED  BY <1>6, <2>1, <2>2 DEF Renamed, IsState
<1>8. /\ fdt' = Close(fdt, FnameCloses(st, new))
      /\ trouble' = trouble \cup (IF BadClose(FnameCloses(st, new)) THEN {"close"} ELSE {})
  BY <1>2, <1>3 DEF CopyfileCall
<1>9. /\ TableInv' /\ ~BadClose(FnameCloses(st, new))
      /\ Owns(new)'
      /\ \A fd \in Fds : Lib(fd)' => fd \in {new.sfd, new.dfd}
  BY <1>4, <1>7, <1>8, RenamedTable DEF DescriptorInv
<1>10. pc' = "perms" /\ user' = user /\ loc'.null = null /\ (null => calls' = MaxCalls)
  BY DEF CopyfileCall, Goto, NoLocals
<1>11. sn # NoName /\ dn # NoName
  BY CopyAssumption DEF Names, NoName
<1>12. StageInv'
  BY <1>1, <1>3, <1>6, <1>7, <1>10, <1>11 DEF DescriptorInv, StageInv, Renamed, IsState, Stages, Copying
<1>13. Holder' = new
  BY <1>3, <1>10 DEF Holder
<1>14. Owns(Holder)' /\ Reaches(Holder)'
  BY <1>9, <1>13 DEF Owns, Reaches
<1>15. Lends(Holder)'
  BY <1>6, <1>11, <1>13 DEF Lends
<1>. QED  BY <1>8, <1>9, <1>12, <1>14, <1>15 DEF DescriptorInv

\* Between calls.
LEMMA StepIdle ==
  ASSUME pc' = "idle", s' = NoState, IsState(user)', TableInv', "close" \notin trouble',
         Owns(user)', Lends(user)', Reaches(user)'
  PROVE  DescriptorInv'
BY NoStateIsState DEF DescriptorInv, StageInv, Holder, Stages, Copying

\* copyfile cannot keep a name.
LEMMA StepNoName ==
  ASSUME DescriptorInv, NEW sn \in Sources, NEW dn \in Targets, NEW fl, NEW null \in BOOLEAN,
         NEW which \in {"src", "dst"}, ForNames(user), CopyfileNoName(sn, dn, fl, null, which)
  PROVE  DescriptorInv'
<1>1. pc = "idle" /\ calls < MaxCalls /\ null = (user = NoState)
  BY DEF CopyfileNoName
<1>2. PICK st : st = Preamble(fl, null)
  OBVIOUS
<1>4. /\ Fits(st) /\ ForNames(st)
      /\ ~null => st.src = user.src /\ st.dst = user.dst
      /\ null => st.sfd = NotOpen /\ st.dfd = NotOpen /\ st.src = NoName /\ st.dst = NoName
  BY <1>1, <1>2, PreambleFits
<1>3. PICK new : new = [st EXCEPT !.src = IF which = "src" THEN NoName ELSE sn,
                        !.dst = IF which = "dst" THEN NoName ELSE @,
                        !.sfd = SetFname(sn, st.src, @),
                        !.dfd = IF which = "src" THEN @ ELSE SetFname(dn, st.dst, @)]
  OBVIOUS
<1>5. /\ new.src = IF which = "src" THEN NoName ELSE sn
      /\ new.dst = IF which = "dst" THEN NoName ELSE st.dst
      /\ new.sfd = SetFname(sn, st.src, st.sfd)
      /\ new.dfd = IF which = "src" THEN st.dfd ELSE SetFname(dn, st.dst, st.dfd)
      /\ new = [f \in StateFields |-> new[f]]
  <2>1. st = [f \in StateFields |-> st[f]]
    BY <1>4 DEF Fits, IsState
  <2>. QED  BY <1>3, <2>1 DEF StateFields
<1>6. Forget(new, null, FnameCloses(st, new))
  BY <1>2, <1>3 DEF CopyfileNoName
<1>7. Renamed(st, new)
  <2>1. {st.sfd, st.dfd} \subseteq Fds \cup {NotOpen, Failed}
    BY <1>4 DEF Fits, IsState
  <2>2. /\ new.sfd = st.sfd \/ (new.sfd = NotOpen /\ st.src # NoName /\ st.sfd \in Fds)
        /\ new.dfd = st.dfd \/ (new.dfd = NotOpen /\ st.dst # NoName /\ st.dfd \in Fds)
    BY <1>5, <2>1, SetFnameKeeps
  <2>. QED  BY <1>5, <2>1, <2>2 DEF Renamed, IsState
<1>8. fdt' = Close(fdt, FnameCloses(st, new))
  BY <1>6 DEF Forget
<1>9. /\ TableInv' /\ ~BadClose(FnameCloses(st, new))
      /\ Owns(new)'
      /\ \A fd \in Fds : Lib(fd)' => fd \in {new.sfd, new.dfd}
      /\ \A fd : Lib(fd)' => Lib(fd)
  BY <1>4, <1>7, <1>8, RenamedTable DEF DescriptorInv
<1>10. pc' = "idle" /\ s' = NoState /\ "close" \notin trouble'
  BY <1>6, <1>9 DEF Forget, DescriptorInv
<1>11. CASE null
  <2>1. user' = NoState /\ NoState.sfd = NotOpen /\ NoState.dfd = NotOpen
    BY <1>1, <1>6, <1>11 DEF Forget, NoState, NewState
  <2>2. \A fd \in Fds : ~Lib(fd)'
    BY <1>4, <1>9, <1>11, NotOpenIsNone DEF Fits
  <2>3. Owns(user)' /\ Lends(user)' /\ Reaches(user)'
    BY <2>1, <2>2, NotOpenIsNone DEF Owns, Lends, Reaches, Lib
  <2>. QED  BY <1>9, <1>10, <2>1, <2>3, StepIdle, NoStateIsState DEF IsState
<1>12. CASE ~null
  <2>1. user' = new
    BY <1>6, <1>12 DEF Forget
  <2>2. Owns(user)' /\ Reaches(user)'
    BY <1>9, <2>1 DEF Owns, Reaches
  <2>3. ASSUME "name" \notin trouble', new.src = NoName
        PROVE  ~Lib(new.sfd)'
    <3>1. st.src = NoName
      BY <1>4, <1>6, <1>12, <2>3 DEF Forget
    <3>2. new.sfd = NotOpen
      BY <1>4, <1>5, <3>1 DEF SetFname, ForNames
    <3>. QED  BY <3>2, NotOpenIsNone DEF Lib
  <2>4. ASSUME "name" \notin trouble', new.dst = NoName
        PROVE  ~Lib(new.dfd)'
    <3>1. sn # NoName
      BY CopyAssumption DEF Names, NoName
    <3>2. st.dst = NoName
      BY <1>4, <1>5, <1>6, <1>12, <2>4, <3>1 DEF Forget
    <3>3. new.dfd = st.dfd
      BY <1>5, <3>2 DEF SetFname
    <3>4. "name" \notin trouble
      BY <1>6, <2>4 DEF Forget
    <3>5. ~Lib(st.dfd)
      BY <1>4, <3>2, <3>4 DEF Fits, Lends
    <3>. QED  BY <1>9, <3>3, <3>5
  <2>5. Lends(user)'
    BY <2>1, <2>3, <2>4 DEF Lends
  <2>6. IsState(user)'
    BY <1>7, <2>1 DEF Renamed, IsState
  <2>. QED  BY <1>9, <1>10, <2>2, <2>5, <2>6, StepIdle
<1>. QED  BY <1>11, <1>12

\* What fcopyfile begins with, given the state it takes, and what it does then.
SourceTaken(st, sf, acl) == IF st.sfd = NotOpen THEN Statted(st, sf, acl) ELSE st

TargetTaken(st, df) == [st EXCEPT !.dfd = IF @ = NotOpen THEN df ELSE @]

Begun(st, st1, st2, i, from, fl, null, rw) ==
  IF st1.sb.type \notin {"reg", "dir", "lnk"}
  THEN Forget(st1, null, {}) /\ UNCHANGED fs
  ELSE /\ s' = st2
       /\ ino' = IF rw THEN [ino EXCEPT ![i].mode.rw = TRUE] ELSE ino
       /\ loc' = [NoLocals EXCEPT !.fcopy = TRUE, !.null = null, !.dsb = ino[i]]
       /\ cur' = [NoCall EXCEPT !.flags = fl, !.src = fdt[from].ino, !.fcopy = TRUE,
                    !.was = ino[i], !.target = i,
                    !.fresh = st.sfd = NotOpen /\ fdt[from].off = 0 /\ fdt[1].off = 0]
       /\ last' = NoCall
       /\ Goto("internal")
       /\ UNCHANGED <<name, fdt, user, ignored, trouble>>

LEMMA FcopyfileIs ==
  ASSUME NEW sf, NEW fl, NEW null, NEW acl, NEW rw, FcopyfileCall(sf, 1, fl, null, acl, rw),
         NEW st, st = Preamble(fl, null),
         NEW st1, st1 = SourceTaken(st, sf, acl), NEW st2, st2 = TargetTaken(st1, 1),
         NEW i, i = fdt[st2.dfd].ino
  PROVE  /\ Begun(st, st1, st2, i, sf, fl, null, rw)
         /\ calls' = IF null THEN MaxCalls ELSE calls + 1
<1>1. LET a == Preamble(fl, null)
          b == SourceTaken(a, sf, acl)
          c == TargetTaken(b, 1)
      IN Begun(a, b, c, fdt[c.dfd].ino, sf, fl, null, rw)
  BY Zenon DEF FcopyfileCall, Begun, SourceTaken, TargetTaken
<1>2. calls' = IF null THEN MaxCalls ELSE calls + 1
  BY Zenon DEF FcopyfileCall
<1>. QED  BY <1>1, <1>2, Zenon

\* fcopyfile forgets a state that has taken the source's descriptor.
LEMMA FcopyfileForgets ==
  ASSUME DescriptorInv, NEW sf \in {0, 2}, NEW null \in BOOLEAN, NEW st,
         pc = "idle", null = (user = NoState), calls' = IF null THEN MaxCalls ELSE calls + 1,
         Fits(st), st.src = NoName, st.dst = NoName,
         null => st.sfd = NotOpen /\ st.dfd = NotOpen,
         {st.sfd, st.dfd} \subseteq {NotOpen, 0, 1, 2},
         NEW new, new = [f \in StateFields |-> new[f]],
         new.src = NoName, new.dst = NoName, new.dfd = st.dfd,
         new.sfd = IF st.sfd = NotOpen THEN sf ELSE st.sfd,
         Forget(new, null, {})
  PROVE  DescriptorInv'
<1>7. {0, 1, 2} \subseteq Fds
  BY DEF Fds, MaxFd
<1>8. ~Lib(sf)
  BY DEF DescriptorInv, TableInv, Lib
<1>9. "name" \notin trouble => \A fd \in Fds : ~Lib(fd)
  BY DEF Fits, Lends
<1>25. fdt' = Close(fdt, {})
  BY DEF Forget
<1>26. TableInv' /\ ~BadClose({}) /\ \A fd : Lib(fd)' <=> Lib(fd)
  BY <1>25, ClosedTable DEF DescriptorInv
<1>27. pc' = "idle" /\ s' = NoState /\ "close" \notin trouble'
  BY <1>26 DEF Forget, DescriptorInv
<1>28. "name" \notin trouble' => "name" \notin trouble
  BY DEF Forget
<1>29. CASE null
  <2>1. user' = NoState /\ NoState.sfd = NotOpen /\ NoState.dfd = NotOpen
    BY <1>29 DEF Forget, NoState, NewState
  <2>2. \A fd \in Fds : ~Lib(fd)'
    BY <1>26, <1>29, NotOpenIsNone DEF Fits
  <2>3. Owns(user)' /\ Lends(user)' /\ Reaches(user)'
    BY <2>1, <2>2, NotOpenIsNone DEF Owns, Lends, Reaches, Lib
  <2>. QED  BY <1>26, <1>27, <2>1, <2>3, StepIdle, NoStateIsState DEF IsState
<1>30. CASE ~null
  <2>1. user' = new
    BY <1>30 DEF Forget
  <2>2. new.sfd # NotOpen /\ new.sfd \in Fds
    BY <1>7, NotOpenIsNone
  <2>3. IsState(user)'
    BY <2>1, <2>2 DEF IsState, Fits
  <2>4. Owns(user)'
    BY <2>1, <2>2 DEF Owns
  <2>5. Lends(user)'
    BY <1>9, <1>26, <1>28, <2>1 DEF Lends, Lib
  <2>6. Reaches(user)'
    BY <1>26, <2>1, NotOpenIsNone DEF Reaches, Fits
  <2>. QED  BY <1>26, <1>27, <2>3, <2>4, <2>5, <2>6, StepIdle
<1>. QED  BY <1>29, <1>30

\* fcopyfile begins, or returns at once.
LEMMA StepFcopyfile ==
  ASSUME DescriptorInv, NEW sf \in {0, 2}, NEW fl, NEW null \in BOOLEAN, NEW acl, NEW rw,
         ForDescriptors(user), FcopyfileCall(sf, 1, fl, null, acl, rw)
  PROVE  DescriptorInv'
<1>1. pc = "idle" /\ calls < MaxCalls /\ null = (user = NoState)
  BY DEF FcopyfileCall
<1>2. PICK st : st = Preamble(fl, null)
  OBVIOUS
<1>3. /\ Fits(st) /\ st.src = NoName /\ st.dst = NoName
      /\ null => st.sfd = NotOpen /\ st.dfd = NotOpen
      /\ {st.sfd, st.dfd} \subseteq {NotOpen, 0, 1, 2}
  <2>1. /\ Fits(st)
        /\ ~null => st.src = user.src /\ st.dst = user.dst
        /\ null => st.sfd = NotOpen /\ st.dfd = NotOpen /\ st.src = NoName /\ st.dst = NoName
        /\ st.sfd = user.sfd /\ st.dfd = user.dfd
    BY <1>1, <1>2, PreambleFits
  <2>. QED  BY <1>1, <2>1 DEF ForDescriptors
<1>s. PICK st1 : st1 = SourceTaken(st, sf, acl)
  OBVIOUS
<1>t. PICK st2 : st2 = TargetTaken(st1, 1)
  OBVIOUS
<1>i. PICK i : i = fdt[st2.dfd].ino
  OBVIOUS
<1>b. Begun(st, st1, st2, i, sf, fl, null, rw) /\ calls' = IF null THEN MaxCalls ELSE calls + 1
  BY <1>2, <1>s, <1>t, <1>i, FcopyfileIs
<1>4. st = [f \in StateFields |-> st[f]]
  BY <1>3 DEF Fits, IsState
<1>5. /\ st1 = [f \in StateFields |-> st1[f]]
      /\ st1.src = NoName /\ st1.dst = NoName /\ st1.dfd = st.dfd
      /\ st1.sfd = IF st.sfd = NotOpen THEN sf ELSE st.sfd
  BY <1>3, <1>4, <1>s DEF StateFields, SourceTaken, Statted
<1>6. /\ st2 = [f \in StateFields |-> st2[f]]
      /\ st2.src = NoName /\ st2.dst = NoName /\ st2.sfd = st1.sfd
      /\ st2.dfd = IF st.dfd = NotOpen THEN 1 ELSE st.dfd
  BY <1>5, <1>t DEF StateFields, TargetTaken
<1>7. {0, 1, 2} \subseteq Fds
  BY DEF Fds, MaxFd
<1>8. ~Lib(sf)
  BY DEF DescriptorInv, TableInv, Lib
<1>9. "name" \notin trouble => \A fd \in Fds : ~Lib(fd)
  BY <1>3 DEF Fits, Lends
<1>10. CASE st1.sb.type \notin {"reg", "dir", "lnk"}
  <2>1. Forget(st1, null, {})
    BY <1>b, <1>10 DEF Begun
  <2>2. PICK new : new = st1
    OBVIOUS
  <2>. QED  BY <1>1, <1>3, <1>5, <1>b, <2>1, <2>2, FcopyfileForgets
<1>11. CASE st1.sb.type \in {"reg", "dir", "lnk"}
  <2>1. s' = st2 /\ fdt' = fdt /\ user' = user /\ trouble' = trouble
    BY <1>b, <1>11 DEF Begun
  <2>2. pc' = "internal" /\ loc'.null = null /\ (null => calls' = MaxCalls)
    BY <1>b, <1>11 DEF Begun, Goto, NoLocals
  <2>3. PICK new : new = st2
    OBVIOUS
  <2>4. /\ s' = new /\ new = [f \in StateFields |-> new[f]]
        /\ new.src = NoName /\ new.dst = NoName
        /\ new.dfd = IF st.dfd = NotOpen THEN 1 ELSE st.dfd
        /\ new.sfd = IF st.sfd = NotOpen THEN sf ELSE st.sfd
    BY <1>5, <1>6, <2>1, <2>3
  <2>5. new.sfd \in Fds /\ new.dfd \in Fds /\ new.sfd # NotOpen
    BY <1>3, <1>7, <2>4, NotOpenIsNone
  <2>6. \A fd : Lib(fd)' <=> Lib(fd)
    BY <2>1 DEF Lib
  <2>7. Holder' = new
    BY <2>2, <2>4 DEF Holder
  <2>8. IsState(new)
    BY <2>4, <2>5 DEF IsState
  <2>9. StageInv'
    BY <1>1, <2>1, <2>2, <2>4, <2>8 DEF DescriptorInv, StageInv, IsState, Stages, Copying
  <2>10. Owns(Holder)'
    BY <2>4, <2>5, <2>7 DEF Owns
  <2>11. Lends(Holder)'
    BY <1>9, <2>1, <2>6, <2>7 DEF Lends, Lib
  <2>12. Reaches(Holder)'
    BY <1>3, <2>4, <2>6, <2>7, NotOpenIsNone DEF Reaches, Fits
  <2>13. TableInv'
    BY <2>1 DEF DescriptorInv, TableInv
  <2>. QED  BY <2>1, <2>9, <2>10, <2>11, <2>12, <2>13 DEF DescriptorInv
<1>. QED  BY <1>10, <1>11

LEMMA StepFcopyfileNoStat ==
  ASSUME DescriptorInv, NEW sf \in {0, 2}, NEW fl, NEW null \in BOOLEAN,
         ForDescriptors(user), FcopyfileNoStat(sf, fl, null)
  PROVE  DescriptorInv'
<1>1. /\ pc = "idle" /\ calls < MaxCalls /\ null = (user = NoState)
      /\ calls' = IF null THEN MaxCalls ELSE calls + 1
  BY DEF FcopyfileNoStat
<1>2. PICK st : st = Preamble(fl, null)
  OBVIOUS
<1>3. /\ Fits(st) /\ st.src = NoName /\ st.dst = NoName
      /\ null => st.sfd = NotOpen /\ st.dfd = NotOpen
      /\ {st.sfd, st.dfd} \subseteq {NotOpen, 0, 1, 2}
  <2>1. /\ Fits(st)
        /\ ~null => st.src = user.src /\ st.dst = user.dst
        /\ null => st.sfd = NotOpen /\ st.dfd = NotOpen /\ st.src = NoName /\ st.dst = NoName
        /\ st.sfd = user.sfd /\ st.dfd = user.dfd
    BY <1>1, <1>2, PreambleFits
  <2>. QED  BY <1>1, <2>1 DEF ForDescriptors
<1>4. st = [f \in StateFields |-> st[f]]
  BY <1>3 DEF Fits, IsState
<1>5. PICK new : new = [st EXCEPT !.sfd = sf]
  OBVIOUS
<1>6. Forget(new, null, {}) /\ st.sfd = NotOpen
  BY <1>2, <1>5 DEF FcopyfileNoStat
<1>7. /\ new = [f \in StateFields |-> new[f]]
      /\ new.src = NoName /\ new.dst = NoName /\ new.dfd = st.dfd /\ new.sfd = sf
  BY <1>3, <1>4, <1>5 DEF StateFields
<1>. QED  BY <1>1, <1>3, <1>6, <1>7, FcopyfileForgets

\* The calls that make, change and free the program's state.
LEMMA StepState ==
  ASSUME DescriptorInv, StateAlloc \/ StateSetCallback \/ StateSetFd \/ StateFree
  PROVE  DescriptorInv'
<1>1. pc = "idle" /\ s = NoState /\ pc' = "idle" /\ s' = NoState /\ Holder = user
  BY DEF StateAlloc, StateSetCallback, StateSetFd, StateFree, DescriptorInv, StageInv, Holder
<1>2. CASE StateAlloc
  <2>1. user = NoState /\ user' = NewState /\ fdt' = fdt /\ trouble' = trouble /\ calls' = calls
    BY <1>2 DEF StateAlloc
  <2>2. /\ NewState.sfd = NotOpen /\ NewState.dfd = NotOpen
        /\ NoState.sfd = NotOpen /\ NoState.dfd = NotOpen
    BY DEF NoState, NewState
  <2>3. \A fd : Lib(fd)' <=> Lib(fd)
    BY <2>1 DEF Lib
  <2>4. Owns(user)' /\ Lends(user)'
    BY <2>1, <2>2, NotOpenIsNone DEF Owns, Lends, Lib
  <2>5. Reaches(user)'
    BY <1>1, <2>1, <2>2, <2>3 DEF Reaches, DescriptorInv
  <2>6. IsState(user)'
    BY <2>1, NoStateIsState DEF IsState
  <2>7. TableInv' /\ "close" \notin trouble'
    BY <2>1 DEF DescriptorInv, TableInv
  <2>. QED  BY <1>1, <2>4, <2>5, <2>6, <2>7, StepIdle
<1>3. CASE StateSetCallback
  <2>1. user' = [user EXCEPT !.cb = TRUE] /\ fdt' = fdt /\ trouble' = trouble /\ calls' = calls
    BY <1>3 DEF StateSetCallback
  <2>2. \A fd : Lib(fd)' <=> Lib(fd)
    BY <2>1 DEF Lib
  <2>3. /\ user'.src = user.src /\ user'.dst = user.dst /\ user'.sfd = user.sfd
        /\ user'.dfd = user.dfd /\ user' = [f \in StateFields |-> user'[f]]
    BY <2>1 DEF DescriptorInv, StageInv, IsState, StateFields
  <2>4. IsState(user)'
    BY <2>3 DEF DescriptorInv, StageInv, IsState
  <2>5. Owns(user)' /\ Lends(user)' /\ Reaches(user)'
    BY <1>1, <2>1, <2>2, <2>3 DEF DescriptorInv, Owns, Lends, Reaches
  <2>6. TableInv' /\ "close" \notin trouble'
    BY <2>1 DEF DescriptorInv, TableInv
  <2>. QED  BY <1>1, <2>4, <2>5, <2>6, StepIdle
<1>4. CASE StateSetFd
  <2>1. /\ user.src = NoName /\ user.sfd = NotOpen /\ user' = [user EXCEPT !.sfd = 0]
        /\ fdt' = fdt /\ trouble' = trouble /\ calls' = calls
    BY <1>4 DEF StateSetFd
  <2>2. \A fd : Lib(fd)' <=> Lib(fd)
    BY <2>1 DEF Lib
  <2>3. /\ user'.src = user.src /\ user'.dst = user.dst /\ user'.sfd = 0
        /\ user'.dfd = user.dfd /\ user' = [f \in StateFields |-> user'[f]]
    BY <2>1 DEF DescriptorInv, StageInv, IsState, StateFields
  <2>4. 0 \in Fds /\ ~Lib(0)
    BY DEF DescriptorInv, TableInv, Lib, Fds, MaxFd
  <2>5. IsState(user)'
    BY <2>3, <2>4 DEF DescriptorInv, StageInv, IsState
  <2>6. Owns(user)'
    BY <1>1, <2>1, <2>2, <2>3, <2>4, NotOpenIsNone DEF DescriptorInv, Owns
  <2>7. Lends(user)'
    BY <1>1, <2>1, <2>2, <2>3, <2>4 DEF DescriptorInv, Lends
  <2>8. Reaches(user)'
    BY <1>1, <2>1, <2>2, <2>3, NotOpenIsNone DEF DescriptorInv, Reaches
  <2>9. TableInv' /\ "close" \notin trouble'
    BY <2>1 DEF DescriptorInv, TableInv
  <2>. QED  BY <1>1, <2>5, <2>6, <2>7, <2>8, <2>9, StepIdle
<1>5. CASE StateFree
  <2>1. Freed(user) /\ user' = NoState /\ calls' = MaxCalls
    BY <1>5 DEF StateFree
  <2>2. IsState(user) /\ Owns(user) /\ Lends(user) /\ Reaches(user) /\ TableInv /\ "close" \notin trouble
    BY <1>1 DEF DescriptorInv, StageInv
  <2>3. /\ TableInv' /\ trouble' = trouble
        /\ \A fd : Lib(fd)' <=> (Lib(fd) /\ fd \notin OwnedFds(user))
    BY <2>1, <2>2, StateFreed
  <2>4. "name" \notin trouble => \A fd \in Fds : ~Lib(fd)'
    BY <2>2, <2>3, OwnedIsLib DEF Lends, Reaches, IsState
  <2>5. NoState.sfd = NotOpen /\ NoState.dfd = NotOpen
    BY DEF NoState, NewState
  <2>6. Owns(user)' /\ Lends(user)'
    BY <2>1, <2>5, NotOpenIsNone DEF Owns, Lends, Lib
  <2>7. ~(calls' < MaxCalls)
    BY <2>1, CopyAssumption
  <2>8. Reaches(user)'
    BY <1>1, <2>3, <2>4, <2>7 DEF Reaches
  <2>9. IsState(user)'
    BY <2>1, NoStateIsState DEF IsState
  <2>. QED  BY <1>1, <2>2, <2>3, <2>6, <2>8, <2>9, StepIdle
<1>. QED  BY <1>2, <1>3, <1>4, <1>5

-----------------------------------------------------------------------------
(* The stages of a call.                                                   *)

LocalFields == {"fcopy", "null", "created", "dsb", "kind", "oflags", "turn", "buf", "zeros", "retries"}

\* The locals are what they are declared as.
LocalsInv == loc = [f \in LocalFields |-> loc[f]]

LEMMA LocalsStep ==
  ASSUME LocalsInv, [Next]_vars
  PROVE  LocalsInv'
<1> USE DEF LocalsInv, LocalFields, NoLocals, Return, ReturnWith, Forget, Fail, FailUnlinked
<1>1. CASE Program
  <2>1. CASE StateAlloc \/ StateSetCallback \/ StateSetFd \/ StateFree
    BY <2>1 DEF StateAlloc, StateSetCallback, StateSetFd, StateFree
  <2>2. ASSUME NEW sn, NEW dn, NEW fl, NEW null, CopyfileCall(sn, dn, fl, null)
        PROVE  LocalsInv'
    <3>1. loc' = [NoLocals EXCEPT !.null = null]
      BY <2>2 DEF CopyfileCall
    <3>. QED  BY <3>1
  <2>3. ASSUME NEW sn, NEW dn, NEW fl, NEW null, NEW which, CopyfileNoName(sn, dn, fl, null, which)
        PROVE  LocalsInv'
    <3>1. loc' = NoLocals
      BY <2>3 DEF CopyfileNoName
    <3>. QED  BY <3>1
  <2>4. ASSUME NEW sf, NEW fl, NEW null, NEW acl, NEW rw, FcopyfileCall(sf, 1, fl, null, acl, rw)
        PROVE  LocalsInv'
    <3>1. loc' = NoLocals \/ \E x : loc' = [NoLocals EXCEPT !.fcopy = TRUE, !.null = null, !.dsb = x]
      BY <2>4, Zenon DEF FcopyfileCall
    <3>2. CASE loc' = NoLocals
      BY <3>2
    <3>3. ASSUME NEW x, loc' = [NoLocals EXCEPT !.fcopy = TRUE, !.null = null, !.dsb = x]
          PROVE  LocalsInv'
      BY <3>3
    <3>. QED  BY <3>1, <3>2, <3>3
  <2>5. ASSUME NEW sf, NEW fl, NEW null, FcopyfileNoStat(sf, fl, null)
        PROVE  LocalsInv'
    BY <2>5 DEF FcopyfileNoStat
  <2>. QED  BY <1>1, <2>1, <2>2, <2>3, <2>4, <2>5 DEF Program
<1>2. CASE MakePermissive
  BY <1>2 DEF MakePermissive
<1>3. CASE NoMemory \/ Check \/ OpenSource \/ RemoveDestination \/ MakeSpecial
  BY <1>3 DEF NoMemory, Check, OpenSource, RemoveDestination, MakeSpecial, OpenMade
<1>4. CASE OpenLoop
  BY <1>4 DEF OpenLoop, OpenFails
<1>5. CASE Internal \/ Xattr
  BY <1>5 DEF Internal, Xattr
<1>6. CASE ReadBlocks \/ \E n \in 0 .. OBlk : WriteBlocks(n)
  BY <1>6 DEF ReadBlocks, WriteBlocks
<1>7. CASE WriteError
  BY <1>7 DEF WriteError, RetryWrite
<1>8. CASE Security \/ Stat \/ RestoreFails \/ ResetFails \/ Finish
  BY <1>8 DEF Security, Stat, RestoreFails, ResetFails, Finish
<1>9. CASE UNCHANGED vars
  BY <1>9 DEF vars
<1>. QED
  BY <1>1, <1>2, <1>3, <1>4, <1>5, <1>6, <1>7, <1>8, <1>9 DEF Next, Step

\* A step of a call that changes nothing about its state.
LEMMA StepQuiet ==
  ASSUME DescriptorInv, pc # "idle", pc' \in Running, StagesAgree,
         user' = user, calls' = calls, trouble' = trouble, loc'.null = loc.null,
         s' = s, fdt' = fdt
  PROVE  DescriptorInv'
<1>1. TableInv' /\ \A fd \in Fds : fdt'[fd].ino = fdt[fd].ino /\ fdt'[fd].by = fdt[fd].by
  BY DEF DescriptorInv, TableInv
<1>2. IsState(s)'
  BY DEF DescriptorInv, StageInv, IsState
<1>. QED  BY <1>1, <1>2, StepInside

\* A call fails with the state it has.
LEMMA StepFailsWith ==
  ASSUME DescriptorInv, pc # "idle", NEW r, NEW e, ReturnWith(s, r, e), calls' = calls
  PROVE  DescriptorInv'
<1>1. PICK st : st = s
  OBVIOUS
<1>2. EndsWith(st)
  BY <1>1 DEF EndsWith, DescriptorInv, StageInv
<1>3. ReturnWith(st, r, e)
  BY <1>1
<1>. QED  BY <1>2, <1>3, StepReturnsWith

LEMMA StepFails ==
  ASSUME DescriptorInv, pc # "idle", NEW r, Return(s, r), calls' = calls
  PROVE  DescriptorInv'
BY StepFailsWith DEF Return

\* The data, or packing, fails.
LEMMA StepFailsUnlinked ==
  ASSUME DescriptorInv, pc # "idle", FailUnlinked, calls' = calls
  PROVE  DescriptorInv'
BY StepFails, StepFailsWith DEF FailUnlinked, Fail

LEMMA StepPerms ==
  ASSUME DescriptorInv, LocalsInv, MakePermissive \/ NoMemory \/ Check
  PROVE  DescriptorInv'
<1>1. CASE MakePermissive
  <2>1. /\ pc = "perms" /\ pc' \in {"check", "opensrc"} /\ s' = s /\ fdt' = fdt
        /\ user' = user /\ calls' = calls /\ trouble' = trouble
    BY <1>1 DEF MakePermissive, Goto
  <2>2. loc'.null = loc.null
    BY <1>1 DEF MakePermissive, LocalsInv, LocalFields
  <2>3. pc # "idle" /\ pc' \in Running /\ StagesAgree
    BY <2>1 DEF StagesAgree, DescriptorInv, StageInv, Stages, Copying, Running
  <2>. QED  BY <2>1, <2>2, <2>3, StepQuiet
<1>2. CASE NoMemory
  <2>1. pc # "idle" /\ Return(s, -1) /\ calls' = calls
    BY <1>2 DEF NoMemory
  <2>. QED  BY <2>1, StepFails
<1>3. CASE Check
  <2>1. PICK st, r : /\ Return(st, r)
                     /\ st = s \/ \E x, y : st = [s EXCEPT !.sb = x, !.acl = y]
    BY <1>3 DEF Check
  <2>2. EndsWith(st)
    <3>1. CASE st = s
      BY <3>1 DEF EndsWith, DescriptorInv, StageInv
    <3>2. ASSUME NEW x, NEW y, st = [s EXCEPT !.sb = x, !.acl = y]
          PROVE  EndsWith(st)
      <4>1. /\ st.src = s.src /\ st.dst = s.dst /\ st.sfd = s.sfd /\ st.dfd = s.dfd
            /\ st = [f \in StateFields |-> st[f]]
        BY <3>2 DEF DescriptorInv, StageInv, IsState, StateFields
      <4>. QED  BY <4>1 DEF EndsWith, DescriptorInv, StageInv, IsState
    <3>. QED  BY <2>1, <3>1, <3>2
  <2>3. pc # "idle" /\ calls' = calls
    BY <1>3 DEF Check
  <2>. QED  BY <2>1, <2>2, <2>3, StepReturns
<1>. QED  BY <1>1, <1>2, <1>3

LEMMA StepOpenSource ==
  ASSUME DescriptorInv, LocalsInv, OpenSource
  PROVE  DescriptorInv'
<1> DEFINE i == Look(s.src, "NOFOLLOW_SRC" \in s.flags)
           stat == [s EXCEPT !.sb = ino[i], !.acl = ino[i].acl]
<1>1. pc = "opensrc" /\ pc # "idle" /\ s.src # NoName /\ s.dst # NoName /\ calls' = calls
  BY DEF OpenSource, DescriptorInv, StageInv, Stages
<1>2. /\ stat.src = s.src /\ stat.dst = s.dst /\ stat.sfd = s.sfd /\ stat.dfd = s.dfd
      /\ stat = [f \in StateFields |-> stat[f]]
  BY DEF DescriptorInv, StageInv, IsState, StateFields
<1>3. CASE /\ pc' = "opendst"
           /\ UNCHANGED <<fdt, s, user, loc, ignored, history, trouble>>
  <2>1. pc' \in Running /\ StagesAgree
    BY <1>1, <1>3 DEF StagesAgree, Stages, Copying, Running
  <2>. QED  BY <1>1, <1>3, <2>1, StepQuiet
<1>4. CASE Return(s, -1)
  BY <1>1, <1>4, StepFails
<1>5. CASE Return(stat, -1)
  <2>1. PICK st : st = stat
    OBVIOUS
  <2>2. EndsWith(st)
    BY <1>2, <2>1 DEF EndsWith, DescriptorInv, StageInv, IsState
  <2>3. Return(st, -1)
    BY <1>5, <2>1
  <2>. QED  BY <1>1, <2>2, <2>3, StepReturns
<1>6. CASE s.sfd = NotOpen /\ Return([stat EXCEPT !.sfd = Failed], -1)
  <2>1. PICK st : st = [stat EXCEPT !.sfd = Failed]
    OBVIOUS
  <2>2. /\ st.src = s.src /\ st.dst = s.dst /\ st.sfd = Failed /\ st.dfd = s.dfd
        /\ st = [f \in StateFields |-> st[f]]
    <3> HIDE DEF stat
    <3>. QED  BY <1>2, <2>1 DEF StateFields
  <2>3. EndsWith(st)
    BY <1>6, <2>2 DEF EndsWith, DescriptorInv, StageInv, IsState
  <2>4. Return(st, -1)
    BY <1>6, <2>1
  <2>. QED  BY <1>1, <2>3, <2>4, StepReturns
<1>7. CASE /\ s.sfd = NotOpen /\ i # 0 /\ fdt' = Open(i)
           /\ s' = [stat EXCEPT !.sfd = Min(FreeFds)]
           /\ loc' = [loc EXCEPT !.kind = MadeAs(stat)]
           /\ pc' = "opendst"
           /\ UNCHANGED <<user, ignored, history, trouble>>
  <2>0. loc'.null = loc.null
    BY <1>7 DEF LocalsInv, LocalFields
  <2>1. /\ s'.src = s.src /\ s'.dst = s.dst /\ s'.sfd = Min(FreeFds) /\ s'.dfd = s.dfd
        /\ s' = [f \in StateFields |-> s'[f]]
    <3> HIDE DEF stat
    <3>. QED  BY <1>2, <1>7 DEF StateFields
  <2>2. Min(FreeFds) \in Fds
    BY <1>1, FreeFdExists DEF DescriptorInv
  <2>3. IsState(s)'
    BY <2>1, <2>2 DEF DescriptorInv, StageInv, IsState
  <2>4. pc' \in Running /\ StagesAgree
    BY <1>1, <1>7, <2>1 DEF StagesAgree, Stages, Copying, Running
  <2>5. PICK j : j = i
    OBVIOUS
  <2>. QED  BY <1>1, <1>7, <2>0, <2>1, <2>3, <2>4, <2>5, StepOpens
<1>. QED  BY <1>3, <1>4, <1>5, <1>6, <1>7 DEF OpenSource, Goto

\* The destination of a call is opened.
LEMMA StepOpensTarget ==
  ASSUME DescriptorInv, pc \in {"make", "openloop"}, pc' = "internal", NEW i, i # 0, fdt' = Open(i),
         s' = [s EXCEPT !.dfd = Min(FreeFds)],
         user' = user, loc' = loc, calls' = calls, trouble' = trouble
  PROVE  DescriptorInv'
<1>1. pc # "idle" /\ s.src # NoName /\ s.dst # NoName /\ s.dfd = NotOpen
  BY DEF DescriptorInv, StageInv, Stages
<1>2. /\ s'.src = s.src /\ s'.dst = s.dst /\ s'.dfd = Min(FreeFds) /\ s'.sfd = s.sfd
      /\ s' = [f \in StateFields |-> s'[f]]
  BY DEF DescriptorInv, StageInv, IsState, StateFields
<1>3. Min(FreeFds) \in Fds
  BY <1>1, FreeFdExists DEF DescriptorInv
<1>4. IsState(s)'
  BY <1>2, <1>3 DEF DescriptorInv, StageInv, IsState
<1>5. pc' \in Running /\ StagesAgree
  BY <1>1, <1>2 DEF StagesAgree, Stages, Copying, Running
<1>. QED  BY <1>1, <1>2, <1>4, <1>5, StepOpens

\* The destination of a call cannot be opened.
LEMMA StepOpenFails ==
  ASSUME DescriptorInv, pc \in {"make", "openloop"}, calls' = calls, NEW fd \in {NotOpen, Failed},
         Return([s EXCEPT !.dfd = fd], -1)
  PROVE  DescriptorInv'
<1>1. pc # "idle" /\ s.dfd = NotOpen
  BY DEF DescriptorInv, StageInv
<1>2. PICK st : st = [s EXCEPT !.dfd = fd]
  OBVIOUS
<1>3. /\ st.src = s.src /\ st.dst = s.dst /\ st.dfd = fd /\ st.sfd = s.sfd
      /\ st = [f \in StateFields |-> st[f]]
  BY <1>2 DEF DescriptorInv, StageInv, IsState, StateFields
<1>4. EndsWith(st)
  BY <1>1, <1>3 DEF EndsWith, DescriptorInv, StageInv, IsState
<1>5. Return(st, -1)
  BY <1>2
<1>. QED  BY <1>1, <1>4, <1>5, StepReturns

LEMMA StepRemove ==
  ASSUME DescriptorInv, LocalsInv, RemoveDestination
  PROVE  DescriptorInv'
<1>1. pc = "opendst" /\ pc # "idle" /\ s.src # NoName /\ s.dst # NoName /\ calls' = calls
  BY DEF RemoveDestination, DescriptorInv, StageInv, Stages
<1>2. CASE pc' = "internal" /\ UNCHANGED <<name, fdt, s, user, loc, ignored, history, trouble>>
  <2>1. pc' \in Running /\ StagesAgree
    BY <1>1, <1>2 DEF StagesAgree, Stages, Copying, Running
  <2>. QED  BY <1>1, <1>2, <2>1, StepQuiet
<1>3. CASE Return(s, -1)
  BY <1>1, <1>3, StepFails
<1>4. CASE /\ s.dfd = NotOpen
           /\ loc' = [loc EXCEPT !.oflags = {"EXCL", "CREAT", "WRONLY"}]
           /\ pc' = (IF IsLink \/ IsDir THEN "make" ELSE "openloop")
           /\ UNCHANGED <<fdt, s, user, ignored, history, trouble>>
  <2>1. loc'.null = loc.null
    BY <1>4 DEF LocalsInv, LocalFields
  <2>2. pc' \in Running /\ StagesAgree
    BY <1>1, <1>4 DEF StagesAgree, Stages, Copying, Running
  <2>. QED  BY <1>1, <1>4, <2>1, <2>2, StepQuiet
<1>. QED  BY <1>2, <1>3, <1>4 DEF RemoveDestination, Goto

LEMMA StepMake ==
  ASSUME DescriptorInv, LocalsInv, MakeSpecial
  PROVE  DescriptorInv'
<1>1. pc = "make" /\ pc # "idle" /\ calls' = calls
  BY DEF MakeSpecial
<1>2. ASSUME NEW i, OpenMade(i)
      PROVE  DescriptorInv'
  <2>1. CASE /\ i # 0 /\ fdt' = Open(i) /\ s' = [s EXCEPT !.dfd = Min(FreeFds)] /\ pc' = "internal"
             /\ UNCHANGED <<user, loc, ignored, history, trouble>>
    BY <1>1, <2>1, StepOpensTarget
  <2>2. CASE Return([s EXCEPT !.dfd = Failed], -1)
    BY <1>1, <2>2, StepOpenFails
  <2>. QED  BY <1>2, <2>1, <2>2 DEF OpenMade, Goto
<1>3. CASE Return(s, -1)
  BY <1>1, <1>3, StepFails
<1>. QED  BY <1>2, <1>3 DEF MakeSpecial

LEMMA StepOpenLoop ==
  ASSUME DescriptorInv, LocalsInv, OpenLoop
  PROVE  DescriptorInv'
<1>1. pc = "openloop" /\ pc # "idle" /\ calls' = calls
  BY DEF OpenLoop, OpenFails
<1>2. CASE /\ fdt' = Open(FreeIno) /\ s' = [s EXCEPT !.dfd = Min(FreeFds)] /\ pc' = "internal"
           /\ UNCHANGED <<user, loc, calls, ignored, history, trouble>>
  <2>1. PICK i : i = FreeIno
    OBVIOUS
  <2>2. i # 0
    BY <2>1, FreeInoExists DEF MaxIno
  <2>. QED  BY <1>1, <1>2, <2>1, <2>2, StepOpensTarget
<1>3. CASE /\ DestinationInode # 0 /\ fdt' = Open(DestinationInode)
           /\ s' = [s EXCEPT !.dfd = Min(FreeFds)] /\ pc' = "internal"
           /\ UNCHANGED <<name, user, loc, calls, ignored, history, trouble>>
  <2>1. PICK i : i = DestinationInode
    OBVIOUS
  <2>. QED  BY <1>1, <1>3, <2>1, StepOpensTarget
<1>4. CASE OpenFails
  <2>1. Return([s EXCEPT !.dfd = Failed], -1)
    BY <1>4 DEF OpenFails
  <2>. QED  BY <1>1, <2>1, StepOpenFails
<1>5. CASE /\ \/ \E x : loc' = [loc EXCEPT !.oflags = x, !.turn = ~@]
              \/ loc' = [loc EXCEPT !.turn = ~@]
           /\ UNCHANGED <<fdt, user, s, pc, calls, trouble>>
  <2>1. loc'.null = loc.null
    BY <1>5 DEF LocalsInv, LocalFields
  <2>2. pc' \in Running /\ StagesAgree
    BY <1>1, <1>5 DEF StagesAgree, Stages, Copying, Running, DescriptorInv, StageInv
  <2>. QED  BY <1>1, <1>5, <2>1, <2>2, StepQuiet
<1>. QED  BY <1>2, <1>3, <1>4, <1>5 DEF OpenLoop, Goto

\* A step of copyfile_internal that does not return.
LEMMA StepGoesOn ==
  ASSUME DescriptorInv, pc \in Copying, pc' \in Copying, user' = user, calls' = calls,
         trouble' = trouble, loc'.null = loc.null, s' = s, fdt' = fdt
  PROVE  DescriptorInv'
<1>1. pc # "idle" /\ pc' \in Running /\ StagesAgree
  BY DEF StagesAgree, DescriptorInv, StageInv, Stages, Copying, Running
<1>. QED  BY <1>1, StepQuiet

\* A step that moves the offset of a descriptor.
LEMMA StepMovesOffset ==
  ASSUME DescriptorInv, pc \in Copying, pc' \in Copying, user' = user, calls' = calls,
         trouble' = trouble, loc'.null = loc.null, s' = s,
         NEW x \in Fds, NEW off, fdt' = [fdt EXCEPT ![x].off = off]
  PROVE  DescriptorInv'
<1>1. pc # "idle" /\ pc' \in Running /\ StagesAgree
  BY DEF StagesAgree, DescriptorInv, StageInv, Stages, Copying, Running
<1>2. fdt = [fd \in Fds |-> [ino |-> fdt[fd].ino, off |-> fdt[fd].off, by |-> fdt[fd].by]]
  BY DEF DescriptorInv, TableInv
<1>3. \A fd \in Fds : fdt'[fd] = [ino |-> fdt[fd].ino, off |-> IF fd = x THEN off ELSE fdt[fd].off,
                                  by |-> fdt[fd].by]
  BY <1>2
<1>4. fdt' = [fd \in Fds |-> fdt'[fd]]
  BY <1>2
<1>5. \A fd \in Fds : fdt'[fd].ino = fdt[fd].ino /\ fdt'[fd].by = fdt[fd].by
  BY <1>3
<1>6. ASSUME NEW fd \in Fds
      PROVE  fdt'[fd] = [ino |-> fdt'[fd].ino, off |-> fdt'[fd].off, by |-> fdt'[fd].by]
  <2>1. PICK a, b, c : fdt'[fd] = [ino |-> a, off |-> b, by |-> c]
    BY <1>3
  <2>. QED  BY <2>1
<1>7. {0, 2, 3, 4, 5} \subseteq Fds
  BY DEF Fds, MaxFd
<1>8. TableInv'
  <2>1. TableInv
    BY DEF DescriptorInv
  <2>2. fdt' = [fd \in Fds |-> [ino |-> fdt'[fd].ino, off |-> fdt'[fd].off, by |-> fdt'[fd].by]]
    BY <1>4, <1>6
  <2>3. \A fd \in {0, 2} : fdt'[fd].ino # 0 /\ fdt'[fd].by = "program"
    BY <1>5, <1>7, <2>1 DEF TableInv
  <2>4. \A fd \in {3, 4, 5} : fdt'[fd].by = "library"
    BY <1>5, <1>7, <2>1 DEF TableInv
  <2>. QED  BY <2>2, <2>3, <2>4 DEF TableInv
<1>9. IsState(s)'
  BY DEF DescriptorInv, StageInv, IsState
<1>. QED  BY <1>1, <1>5, <1>8, <1>9, StepInside

LEMMA StepInternal ==
  ASSUME DescriptorInv, LocalsInv, Internal
  PROVE  DescriptorInv'
<1>1. pc = "internal" /\ pc # "idle" /\ calls' = calls
  BY DEF Internal
<1>2. CASE Fail
  <2>1. Return(s, -1)
    BY <1>2 DEF Fail
  <2>. QED  BY <1>1, <2>1, StepFails
<1>4. CASE FailUnlinked
  BY <1>1, <1>4, StepFailsUnlinked
<1>3. CASE /\ s.sfd >= 0 /\ s.dfd >= 0 /\ pc' \in {"xattr", "finish"}
           /\ UNCHANGED <<fdt, user, s, loc, ignored, history, trouble>>
  <2>1. s.sfd \in Fds /\ s.dfd \in Fds
    BY <1>3 DEF DescriptorInv, StageInv, IsState, Fds, MaxFd, NotOpen, Failed
  <2>2. pc' \in Running /\ StagesAgree
    BY <1>3, <2>1 DEF StagesAgree, Stages, Copying, Running
  <2>. QED  BY <1>1, <1>3, <2>2, StepQuiet
<1>. QED  BY <1>2, <1>3, <1>4 DEF Internal, Goto

LEMMA StepXattr ==
  ASSUME DescriptorInv, LocalsInv, Xattr
  PROVE  DescriptorInv'
<1>1. pc = "xattr" /\ pc # "idle" /\ pc \in Copying /\ calls' = calls
  BY DEF Xattr, Copying
<1>2. CASE Fail
  <2>1. Return(s, -1)
    BY <1>2 DEF Fail
  <2>. QED  BY <1>1, <2>1, StepFails
<1>3. CASE pc' = "data" /\ UNCHANGED <<fdt, user, s, loc, history, trouble>>
  <2>1. pc' \in Copying
    BY <1>3 DEF Copying
  <2>. QED  BY <1>1, <1>3, <2>1, StepGoesOn
<1>. QED  BY <1>2, <1>3 DEF Xattr, Goto

LEMMA StepData ==
  ASSUME DescriptorInv, LocalsInv, ReadBlocks \/ WriteError \/ \E n \in 0 .. OBlk : WriteBlocks(n)
  PROVE  DescriptorInv'
<1>1. pc \in {"data", "write"} /\ pc # "idle" /\ pc \in Copying /\ calls' = calls
  BY DEF ReadBlocks, WriteError, WriteBlocks, Copying
<1>2. s.sfd \in Fds /\ s.dfd \in Fds
  BY <1>1 DEF DescriptorInv, StageInv
<1>3. CASE FailUnlinked
  BY <1>1, <1>3, StepFailsUnlinked
<1>4. CASE ReadBlocks /\ ~FailUnlinked
  <2>1. CASE pc' = "security" /\ UNCHANGED <<fdt, user, s, loc, ignored, history, trouble>>
    <3>1. pc' \in Copying
      BY <2>1 DEF Copying
    <3>. QED  BY <1>1, <2>1, <3>1, StepGoesOn
  <2>2. ASSUME NEW b, NEW o, loc' = [loc EXCEPT !.buf = b, !.zeros = 0],
               fdt' = [fdt EXCEPT ![s.sfd].off = o], pc' = "write",
               UNCHANGED <<user, s, trouble>>
        PROVE  DescriptorInv'
    <3>1. loc'.null = loc.null /\ pc' \in Copying
      BY <2>2 DEF LocalsInv, LocalFields, Copying
    <3>2. PICK x, off : x = s.sfd /\ off = o
      OBVIOUS
    <3>. QED  BY <1>1, <1>2, <2>2, <3>1, <3>2, StepMovesOffset
  <2>. QED  BY <1>4, <2>1, <2>2 DEF ReadBlocks, Goto
<1>5. ASSUME NEW n \in 0 .. OBlk, WriteBlocks(n), ~FailUnlinked
      PROVE  DescriptorInv'
  <2> DEFINE b == SubSeq(loc.buf, n + 1, Len(loc.buf))
             z == IF n = 0 THEN loc.zeros + 1 ELSE 0
             o == fdt[s.dfd].off + n
  <2>1. PICK off : /\ loc' = [loc EXCEPT !.buf = b, !.zeros = z]
                   /\ fdt' = [fdt EXCEPT ![s.dfd].off = off]
    <3>1. loc' = [loc EXCEPT !.buf = b, !.zeros = z] /\ fdt' = [fdt EXCEPT ![s.dfd].off = o]
      BY <1>5 DEF WriteBlocks
    <3>. HIDE DEF b, z, o
    <3>. QED  BY <3>1
  <2>. HIDE DEF b, z, o
  <2>2. pc' \in Copying /\ UNCHANGED <<user, s, trouble>>
    BY <1>5 DEF WriteBlocks, Goto, Copying
  <2>3. loc'.null = loc.null
    BY <2>1 DEF LocalsInv, LocalFields
  <2>4. PICK x : x = s.dfd
    OBVIOUS
  <2>. QED  BY <1>1, <1>2, <2>1, <2>2, <2>3, <2>4, StepMovesOffset
<1>6. CASE WriteError /\ ~FailUnlinked
  <2>1. loc'.null = loc.null
    BY <1>6 DEF WriteError, RetryWrite, LocalsInv, LocalFields
  <2>2. pc' \in Copying /\ UNCHANGED <<fdt, user, s, trouble>>
    BY <1>1, <1>6 DEF WriteError, RetryWrite, Goto, Copying
  <2>. QED  BY <1>1, <2>1, <2>2, StepGoesOn
<1>. QED  BY <1>3, <1>4, <1>5, <1>6

LEMMA StepEnd ==
  ASSUME DescriptorInv, LocalsInv, Security \/ Stat \/ RestoreFails \/ ResetFails \/ Finish
  PROVE  DescriptorInv'
<1>1. pc \in Copying /\ pc # "idle" /\ calls' = calls
  BY DEF Security, Stat, RestoreFails, ResetFails, Finish, Copying
<1>2. CASE \E r : Return(s, r)
  BY <1>1, <1>2, StepFails
<1>3. CASE Security /\ "ACL" \in s.flags /\ ~(\E r : Return(s, r))
  <2>1. /\ \E x : s' = [s EXCEPT !.acl = x]
        /\ pc' = "stat" /\ UNCHANGED <<fdt, user, loc, history, trouble>>
    BY <1>3 DEF Security, Goto, Fail
  <2>2. /\ s'.src = s.src /\ s'.dst = s.dst /\ s'.sfd = s.sfd /\ s'.dfd = s.dfd
        /\ s' = [f \in StateFields |-> s'[f]]
    BY <2>1 DEF DescriptorInv, StageInv, IsState, StateFields
  <2>3. IsState(s)'
    BY <2>2 DEF DescriptorInv, StageInv, IsState
  <2>4. pc' \in Running /\ StagesAgree
    BY <1>1, <2>1, <2>2 DEF StagesAgree, DescriptorInv, StageInv, Stages, Copying, Running
  <2>5. TableInv' /\ \A fd \in Fds : fdt'[fd].ino = fdt[fd].ino /\ fdt'[fd].by = fdt[fd].by
    BY <2>1 DEF DescriptorInv, TableInv
  <2>. QED  BY <1>1, <2>1, <2>2, <2>3, <2>4, <2>5, StepInside
<1>4. CASE /\ (Security /\ "ACL" \notin s.flags) \/ Stat \/ RestoreFails \/ ResetFails
           /\ ~(\E r : Return(s, r))
  <2>1. pc' \in Copying /\ UNCHANGED <<fdt, user, s, loc, history, trouble>>
    BY <1>1, <1>4 DEF Security, Stat, RestoreFails, ResetFails, Goto, Fail, Copying
  <2>. QED  BY <1>1, <2>1, StepGoesOn
<1>. QED  BY <1>2, <1>3, <1>4 DEF Finish

-----------------------------------------------------------------------------
(* Descriptors are closed once, by who opened them.                        *)

LEMMA DescriptorInit == Init => DescriptorInv /\ LocalsInv
<1>1. SUFFICES ASSUME Init
               PROVE  DescriptorInv /\ LocalsInv
  OBVIOUS
<1>2. /\ pc = "idle" /\ user = NoState /\ s = NoState /\ loc = NoLocals
      /\ trouble = {} /\ Holder = user
  BY <1>1 DEF Init, Holder
<1>3. NoState.sfd = NotOpen /\ NoState.dfd = NotOpen
  BY DEF NoState, NewState
<1>4. /\ fdt = [fd \in Fds |-> [ino |-> fdt[fd].ino, off |-> fdt[fd].off, by |-> fdt[fd].by]]
      /\ \A fd \in {0, 2} : fdt[fd].ino # 0 /\ fdt[fd].by = "program"
      /\ \A fd \in {3, 4, 5} : fdt[fd].by = "library" /\ fdt[fd].ino = 0
      /\ \A fd \in {0, 1, 2} : fdt[fd].by = "program"
  <2>1. fdt = [fd \in Fds |->
              [ino |-> CASE fd = 0 -> 1 [] fd = 1 -> name["p"] [] fd = 2 -> 4
                         [] OTHER -> 0,
               off |-> 0, by |-> IF fd < 3 THEN "program" ELSE "library"]]
    BY <1>1 DEF Init
  <2>2. {0, 1, 2, 3, 4, 5} \subseteq Fds
    BY DEF Fds, MaxFd
  <2>. QED  BY <2>1, <2>2
<1>5. TableInv
  BY <1>4 DEF TableInv
<1>6. \A fd \in Fds : ~Lib(fd)
  BY <1>4 DEF Lib, Fds, MaxFd
<1>7. Owns(user) /\ Lends(user) /\ Reaches(user)
  BY <1>2, <1>3, <1>6, NotOpenIsNone DEF Owns, Lends, Reaches, Lib
<1>8. StageInv
  BY <1>2, NoStateIsState DEF StageInv, Stages, Copying
<1>9. LocalsInv
  BY <1>2 DEF LocalsInv, LocalFields, NoLocals
<1>. QED  BY <1>2, <1>5, <1>7, <1>8, <1>9 DEF DescriptorInv

LEMMA DescriptorStep ==
  ASSUME DescriptorInv, LocalsInv, [Next]_vars
  PROVE  DescriptorInv'
<1>1. CASE Step
  BY <1>1, StepPerms, StepOpenSource, StepRemove, StepMake, StepOpenLoop, StepInternal, StepXattr,
     StepData, StepEnd DEF Step
<1>2. CASE Program
  BY <1>2, StepState, StepCopyfile, StepNoName, StepFcopyfile,
     StepFcopyfileNoStat DEF Program
<1>3. CASE UNCHANGED vars
  <2>1. UNCHANGED <<fdt, user, s, loc, pc, calls, trouble>>
    BY <1>3 DEF vars
  <2>2. TableInv' /\ StageInv'
    BY <2>1 DEF DescriptorInv, TableInv, StageInv, IsState
  <2>3. Owns(Holder)' /\ Lends(Holder)' /\ Reaches(Holder)'
    BY <2>1 DEF DescriptorInv, Holder, Owns, Lends, Reaches, Lib
  <2>. QED  BY <2>1, <2>2, <2>3 DEF DescriptorInv
<1>. QED  BY <1>1, <1>2, <1>3 DEF Next

LEMMA DescriptorsFollow == DescriptorInv => DescriptorsKept
<1>1. SUFFICES ASSUME DescriptorInv
               PROVE  ClosesItsOwn /\ NoFdLeak
  BY DEF DescriptorsKept
<1>. QED
  BY <1>1 DEF DescriptorInv, ClosesItsOwn, NoFdLeak, Reaches, Lib, Holder

\* copyfile and fcopyfile close the descriptors they have opened, once, and no
\* other, and as long as names can be kept some state has each of them, whatever
\* the flags, files, failures and sequence of calls (copyfile_close,
\* COPYFILE_SET_FNAME, copyfile_open, copyfile_state_free).
THEOREM DescriptorsAreKept == Spec => []DescriptorsKept
<1>1. Init => DescriptorInv /\ LocalsInv
  BY DescriptorInit
<1>2. (DescriptorInv /\ LocalsInv) /\ [Next]_vars => (DescriptorInv /\ LocalsInv)'
  BY DescriptorStep, LocalsStep
<1>3. DescriptorInv => DescriptorsKept
  BY DescriptorsFollow
<1>. QED  BY <1>1, <1>2, <1>3, PTL DEF Spec

-----------------------------------------------------------------------------
(* What becomes of the data.                                               *)

Block == (Names \cup {"zero", "packed"}) \X Nat
FileFields == {"type", "data", "mode", "acl", "xa", "meta"}
CallFields == {"ret", "flags", "fresh", "fcopy", "src", "dst", "was", "target", "into", "errors"}

IsFile(f) == f = [x \in FileFields |-> f[x]] /\ f.data \in Seq(Block)

\* Types, as far as data is concerned.
FilesInv ==
  /\ name \in [Names -> 0 .. MaxIno]
  /\ ino = [i \in 1 .. MaxIno |-> ino[i]]
  /\ \A i \in 1 .. MaxIno : IsFile(ino[i])
  /\ \A fd \in Fds : fdt[fd].ino \in 0 .. MaxIno /\ fdt[fd].off \in Nat
  /\ IsFile(user.sb) /\ IsFile(s.sb)
  /\ loc.buf \in Seq(Block)

\* What is recorded of a call is what it works with.
CallInv ==
  /\ cur = [f \in CallFields |-> cur[f]]
  /\ pc # "idle" => /\ cur.flags = s.flags /\ cur.fcopy = loc.fcopy
                    /\ ~cur.fcopy => s.dst = cur.dst /\ s.dst \in Names
                    /\ cur.fcopy \in BOOLEAN
  /\ pc \in Stages => s.src \in Names /\ ~cur.fcopy
  /\ pc = "check" => "CHECK" \in s.flags

\* Before the source is open.
BeganInv ==
  pc \in {"perms", "check", "opensrc"} /\ cur.fresh =>
    /\ s.sfd = NotOpen /\ s.dfd = NotOpen
    /\ cur.src = Look(s.src, "NOFOLLOW_SRC" \in s.flags)

HasSource ==
  /\ s.sfd \in Fds /\ fdt[s.sfd].ino = cur.src /\ cur.src \in 1 .. MaxIno
  /\ s.sb.type = ino[cur.src].type

\* The source is open, the destination is not.
SourceInv ==
  pc \in {"opendst", "make", "openloop"} /\ cur.fresh =>
    /\ HasSource /\ s.dfd = NotOpen
    /\ fdt[s.sfd].off = 0 /\ s.sb.data = ino[cur.src].data

\* So many blocks are in the destination, beginning with the first.
Begins(data, from, n) ==
  /\ n <= Len(data) /\ n <= Len(from)
  /\ \A k \in 1 .. n : data[k] = from[k]

\* How far copyfile_data is.
Progress ==
  LET from == ino[cur.src].data
      to   == ino[Dst].data
      rd   == fdt[s.sfd].off
      wr   == fdt[s.dfd].off
  IN /\ pc \in {"internal", "xattr"} => rd = 0 /\ wr = 0
     /\ pc = "data" => rd = wr /\ Begins(to, from, wr)
     /\ pc = "write" => /\ CopiesData
                        /\ rd = wr + Len(loc.buf) /\ rd <= Len(from) /\ Begins(to, from, wr)
                        /\ \A k \in 1 .. Len(loc.buf) : loc.buf[k] = from[wr + k]
     /\ pc \in {"security", "stat", "finish"} =>
          (CopiesData /\ s.flags \cap {"PACK", "UNPACK"} = {} /\ "skip" \notin ignored => to = from)

\* Both are open, and are two files or one.
BothInv ==
  pc \in Copying \cup {"internal"} /\ cur.fresh =>
    /\ HasSource /\ s.dfd \in Fds /\ s.dfd # s.sfd /\ Dst \in 1 .. MaxIno
    /\ Dst # cur.src => s.sb.data = ino[cur.src].data /\ Progress

\* What is under the destination's name.
NamedInv ==
  pc # "idle" /\ cur.fresh /\ ~cur.fcopy
  /\ name[s.dst] # 0 /\ ino[name[s.dst]].type = "reg" =>
    /\ pc \in Stages => ino[name[s.dst]].data = cur.was.data
    /\ pc \in Copying \cup {"internal"} => Dst = name[s.dst]
    /\ (pc \in {"internal", "xattr", "security", "stat", "finish"} \/ (pc = "data" /\ ~CopiesData))
       /\ "skip" \notin ignored =>
         ino[name[s.dst]].data \in {cur.was.data, <<>>, ino[cur.src].data, <<<<"packed", cur.src>>>>}

\* COPYFILE_EXCL with a destination that was there.
Excludes(c) == c.fresh /\ ~c.fcopy
               /\ {"EXCL", "UNLINK", "CHECK"} \cap c.flags = {"EXCL"} /\ c.was # NoFile

ExclusiveInv ==
  pc # "idle" /\ Excludes(cur) =>
    /\ pc \in Stages /\ (pc = "openloop" => "CREAT" \in loc.oflags)
    /\ name[s.dst] = cur.target /\ cur.target \in 1 .. MaxIno
    /\ ino[cur.target].data = cur.was.data

DataInv ==
  /\ FilesInv /\ CallInv /\ BeganInv /\ SourceInv /\ BothInv /\ NamedInv /\ ExclusiveInv
  /\ DataWhole

\* The inodes are files, with data and types as before.
SameFiles ==
  /\ ino' = [i \in 1 .. MaxIno |-> ino'[i]]
  /\ \A i \in 1 .. MaxIno : /\ IsFile(ino'[i])
                            /\ ino'[i].data = ino[i].data /\ ino'[i].type = ino[i].type

\* One inode is replaced.
LEMMA OneReplaced ==
  ASSUME FilesInv, NEW i, NEW file, ino' = [ino EXCEPT ![i] = file],
         i \in 1 .. MaxIno => IsFile(file)
  PROVE  /\ ino' = [j \in 1 .. MaxIno |-> ino'[j]]
         /\ \A j \in 1 .. MaxIno : IsFile(ino'[j]) /\ ino'[j] = IF j = i THEN file ELSE ino[j]
BY DEF FilesInv

LEMMA OneChanged ==
  ASSUME FilesInv, NEW i, NEW file, ino' = [ino EXCEPT ![i] = file],
         i \in 1 .. MaxIno => IsFile(file) /\ file.data = ino[i].data /\ file.type = ino[i].type
  PROVE  SameFiles
<1>1. /\ ino' = [j \in 1 .. MaxIno |-> ino'[j]]
      /\ \A j \in 1 .. MaxIno : IsFile(ino'[j]) /\ ino'[j] = IF j = i THEN file ELSE ino[j]
  BY OneReplaced
<1>. QED  BY <1>1 DEF SameFiles

LEMMA DataSet ==
  ASSUME NEW f, IsFile(f), NEW d \in Seq(Block)
  PROVE  LET g == [f EXCEPT !.data = d]
         IN IsFile(g) /\ g.data = d /\ g.type = f.type
BY DEF IsFile, FileFields

LEMMA NothingChanged ==
  ASSUME FilesInv, ino' = ino
  PROVE  SameFiles
BY DEF FilesInv, SameFiles

\* Setting properties of an inode.
LEMMA SetProperties ==
  ASSUME FilesInv, NEW i, NEW m, NEW a, NEW x, NEW t,
         \/ ino' = [ino EXCEPT ![i].mode = m, ![i].acl = a]
         \/ ino' = [ino EXCEPT ![i].mode = m]
         \/ ino' = [ino EXCEPT ![i].xa = x]
         \/ ino' = [ino EXCEPT ![i].mode = m, ![i].meta = t]
  PROVE  SameFiles
<1>1. CASE i \notin 1 .. MaxIno
  <2>1. ino' = ino
    BY <1>1 DEF FilesInv
  <2>. QED  BY <2>1, NothingChanged
<1>2. CASE i \in 1 .. MaxIno
  <2>1. IsFile(ino[i])
    BY <1>2 DEF FilesInv
  <2>2. ASSUME NEW file, ino' = [ino EXCEPT ![i] = file],
               IsFile(file) /\ file.data = ino[i].data /\ file.type = ino[i].type
        PROVE  SameFiles
    BY <2>2, OneChanged
  <2>3. PICK f : f = ino[i]
    OBVIOUS
  <2>4. CASE ino' = [ino EXCEPT ![i].mode = m, ![i].acl = a]
    <3>1. PICK g : g = [f EXCEPT !.mode = m, !.acl = a]
      OBVIOUS
    <3>2. ino' = [ino EXCEPT ![i] = g]
      BY <1>2, <2>3, <2>4, <3>1 DEF FilesInv
    <3>3. IsFile(g) /\ g.data = f.data /\ g.type = f.type
      BY <2>1, <2>3, <3>1 DEF IsFile, FileFields
    <3>. QED  BY <2>2, <2>3, <3>2, <3>3
  <2>5. CASE ino' = [ino EXCEPT ![i].mode = m]
    <3>1. PICK g : g = [f EXCEPT !.mode = m]
      OBVIOUS
    <3>2. ino' = [ino EXCEPT ![i] = g]
      BY <1>2, <2>3, <2>5, <3>1 DEF FilesInv
    <3>3. IsFile(g) /\ g.data = f.data /\ g.type = f.type
      BY <2>1, <2>3, <3>1 DEF IsFile, FileFields
    <3>. QED  BY <2>2, <2>3, <3>2, <3>3
  <2>6. CASE ino' = [ino EXCEPT ![i].xa = x]
    <3>1. PICK g : g = [f EXCEPT !.xa = x]
      OBVIOUS
    <3>2. ino' = [ino EXCEPT ![i] = g]
      BY <1>2, <2>3, <2>6, <3>1 DEF FilesInv
    <3>3. IsFile(g) /\ g.data = f.data /\ g.type = f.type
      BY <2>1, <2>3, <3>1 DEF IsFile, FileFields
    <3>. QED  BY <2>2, <2>3, <3>2, <3>3
  <2>7. CASE ino' = [ino EXCEPT ![i].mode = m, ![i].meta = t]
    <3>1. PICK g : g = [f EXCEPT !.mode = m, !.meta = t]
      OBVIOUS
    <3>2. ino' = [ino EXCEPT ![i] = g]
      BY <1>2, <2>3, <2>7, <3>1 DEF FilesInv
    <3>3. IsFile(g) /\ g.data = f.data /\ g.type = f.type
      BY <2>1, <2>3, <3>1 DEF IsFile, FileFields
    <3>. QED  BY <2>2, <2>3, <3>2, <3>3
  <2>. QED  BY <2>4, <2>5, <2>6, <2>7
<1>. QED  BY <1>1, <1>2

LEMMA SetMeta ==
  ASSUME FilesInv, NEW i, NEW t, ino' = [ino EXCEPT ![i].meta = t]
  PROVE  SameFiles
<1>1. CASE i \notin 1 .. MaxIno
  <2>1. ino' = ino
    BY <1>1 DEF FilesInv
  <2>. QED  BY <2>1, NothingChanged
<1>2. CASE i \in 1 .. MaxIno
  <2>1. PICK f, g : f = ino[i] /\ g = [f EXCEPT !.meta = t]
    OBVIOUS
  <2>2. ino' = [ino EXCEPT ![i] = g]
    BY <1>2, <2>1 DEF FilesInv
  <2>3. IsFile(g) /\ g.data = f.data /\ g.type = f.type
    BY <1>2, <2>1 DEF FilesInv, IsFile, FileFields
  <2>. QED  BY <1>2, <2>1, <2>2, <2>3, OneChanged
<1>. QED  BY <1>1, <1>2

LEMMA SecuredFiles ==
  ASSUME FilesInv, NEW i, NEW sec, ino' = Secured(i, sec)
  PROVE  SameFiles
<1>1. PICK m, a : ino' = [ino EXCEPT ![i].mode = m, ![i].acl = a]
  BY DEF Secured
<1>. QED  BY <1>1, SetProperties

\* The mode is put back and the helper entry taken away.
LEMMA FinishedFiles ==
  ASSUME FilesInv, NEW f, IsFile(f)
  PROVE  /\ IsFile(RestoredMode(f)) /\ RestoredMode(f).data = f.data /\ RestoredMode(f).type = f.type
         /\ IsFile(ResetSecurity(f)) /\ ResetSecurity(f).data = f.data
         /\ ResetSecurity(f).type = f.type
<1>1. ASSUME NEW g, NEW m, NEW a,
             g = f \/ g = [f EXCEPT !.mode = m] \/ g = [f EXCEPT !.mode = m, !.acl = a]
      PROVE  IsFile(g) /\ g.data = f.data /\ g.type = f.type
  BY <1>1 DEF IsFile, FileFields
<1>2. RestoredMode(f) = f \/ \E m : RestoredMode(f) = [f EXCEPT !.mode = m]
  BY DEF RestoredMode
<1>3. ResetSecurity(f) = f \/ \E m, a : ResetSecurity(f) = [f EXCEPT !.mode = m, !.acl = a]
  BY DEF ResetSecurity
<1>4. PICK g, h : g = RestoredMode(f) /\ h = ResetSecurity(f)
  OBVIOUS
<1>5. IsFile(g) /\ g.data = f.data /\ g.type = f.type
  BY <1>1, <1>2, <1>4
<1>6. IsFile(h) /\ h.data = f.data /\ h.type = f.type
  BY <1>1, <1>3, <1>4
<1>. QED  BY <1>4, <1>5, <1>6

\* The stages that leave data and types alone.
LEMMA FilesKept ==
  ASSUME FilesInv,
         \/ MakePermissive \/ NoMemory \/ Check \/ OpenSource \/ RemoveDestination
         \/ Xattr \/ WriteError \/ Security \/ Stat \/ RestoreFails \/ ResetFails \/ Finish
  PROVE  SameFiles
<1>1. CASE ino' = ino
  BY <1>1, NothingChanged
<1>2. CASE MakePermissive /\ ino' # ino
  <2>1. PICK d, sec : ino' = Secured(d, sec)
    BY <1>2 DEF MakePermissive
  <2>. QED  BY <2>1, SecuredFiles
<1>3. CASE Xattr /\ ino' # ino
  <2>2. PICK i, x : ino' = [ino EXCEPT ![i].xa = x]
    <3>1. PICK failed, oldend, newend : ino' = AfterXattr(failed, oldend, newend)
      BY <1>3 DEF Xattr
    <3>2. PICK d, x : d = Dst /\ x = XattrResult(ino[d].xa, ino[Src].xa, failed, oldend, newend)
      OBVIOUS
    <3>3. ino' = [ino EXCEPT ![d].xa = x]
      BY <3>1, <3>2 DEF AfterXattr
    <3>. QED  BY <3>3
  <2>. QED  BY <2>2, SetProperties
<1>4. CASE Security /\ ino' # ino
  <2>1. \/ \E i, sec : ino' = Secured(i, sec)
        \/ \E i, m : ino' = [ino EXCEPT ![i].mode = m]
    BY <1>4 DEF Security
  <2>. QED  BY <2>1, SecuredFiles, SetProperties
<1>5. CASE Stat /\ ino' # ino
  <2>1. \/ \E i, m, t : ino' = [ino EXCEPT ![i].mode = m, ![i].meta = t]
        \/ \E i, t : ino' = [ino EXCEPT ![i].meta = t]
    BY <1>5 DEF Stat
  <2>. QED  BY <2>1, SetProperties, SetMeta
<1>6. CASE Finish
  <2>1. PICK i : i = Dst
    OBVIOUS
  <2>2. PICK f : f = ino[i]
    OBVIOUS
  <2>3. PICK g : ino' = [ino EXCEPT ![i] = g] /\ g \in {RestoredMode(f), ResetSecurity(RestoredMode(f))}
    BY <1>6, <2>1, <2>2 DEF Finish
  <2>4. i \in 1 .. MaxIno => IsFile(g) /\ g.data = f.data /\ g.type = f.type
    <3>1. SUFFICES ASSUME i \in 1 .. MaxIno
                   PROVE  IsFile(g) /\ g.data = f.data /\ g.type = f.type
      OBVIOUS
    <3>2. IsFile(f)
      BY <2>2, <3>1 DEF FilesInv
    <3>3. PICK h : h = RestoredMode(f)
      OBVIOUS
    <3>4. IsFile(h) /\ h.data = f.data /\ h.type = f.type
      BY <3>2, <3>3, FinishedFiles
    <3>5. IsFile(ResetSecurity(h)) /\ ResetSecurity(h).data = h.data /\ ResetSecurity(h).type = h.type
      BY <3>4, FinishedFiles
    <3>. QED  BY <2>3, <3>3, <3>4, <3>5
  <2>. QED  BY <2>2, <2>3, <2>4, OneChanged
<1>7. \/ NoMemory \/ Check \/ OpenSource \/ RemoveDestination \/ WriteError
      \/ RestoreFails \/ ResetFails
      => ino' = ino
  BY DEF NoMemory, Check, OpenSource, RemoveDestination, WriteError, RestoreFails, ResetFails, fs
<1>. QED  BY <1>1, <1>2, <1>3, <1>4, <1>5, <1>6, <1>7

FileTable ==
  /\ ino' = [i \in 1 .. MaxIno |-> ino'[i]]
  /\ \A i \in 1 .. MaxIno : IsFile(ino'[i])

\* The source that a state has is open.
SourceOpen == Holder.sfd \in Fds => fdt[Holder.sfd].ino # 0

AllInv == DescriptorInv /\ LocalsInv /\ SourceOpen /\ DataInv

LEMMA NoFileIsFile == IsFile(NoFile) /\ IsFile(NoState.sb) /\ IsFile(NewState.sb)
<1>1. IsFile(NoFile)
  <2>1. NoFile = [x \in FileFields |-> NoFile[x]]
    BY DEF NoFile, FileFields
  <2>2. NoFile.data = <<>>
    BY DEF NoFile
  <2>3. <<>> \in Seq(Block)
    OBVIOUS
  <2>. QED  BY <2>1, <2>2, <2>3 DEF IsFile
<1>. QED  BY <1>1 DEF NoState, NewState

\* Closing leaves the table typed.
LEMMA ClosedTyped ==
  ASSUME TableInv, FilesInv, NEW S, fdt' = Close(fdt, S)
  PROVE  \A fd \in Fds : fdt'[fd].ino \in 0 .. MaxIno /\ fdt'[fd].off \in Nat
<1>1. SUFFICES ASSUME NEW fd \in Fds
               PROVE  fdt'[fd].ino \in 0 .. MaxIno /\ fdt'[fd].off \in Nat
  OBVIOUS
<1>2. PICK a, b, c : fdt[fd] = [ino |-> a, off |-> b, by |-> c]
  <2>1. fdt[fd] = [ino |-> fdt[fd].ino, off |-> fdt[fd].off, by |-> fdt[fd].by]
    BY DEF TableInv
  <2>. QED  BY <2>1
<1>3. a \in 0 .. MaxIno /\ b \in Nat
  BY <1>2 DEF FilesInv
<1>4. fdt'[fd] = [fdt[fd] EXCEPT !.ino = 0] \/ fdt'[fd] = fdt[fd]
  BY DEF Close
<1>5. fdt'[fd] = [ino |-> 0, off |-> b, by |-> c] \/ fdt'[fd] = [ino |-> a, off |-> b, by |-> c]
  BY <1>2, <1>4
<1>6. 0 \in 0 .. MaxIno
  BY DEF MaxIno
<1>. QED  BY <1>3, <1>5, <1>6

\* Between calls only the last call matters.
LEMMA DataIdle ==
  ASSUME FilesInv', pc' = "idle", cur' = NoCall, DataWhole'
  PROVE  DataInv'
<1>1. NoCall = [f \in CallFields |-> NoCall[f]]
  BY DEF NoCall, CallFields
<1>2. CallInv'
  BY <1>1 DEF CallInv, Stages
<1>3. BeganInv' /\ SourceInv'
  BY DEF BeganInv, SourceInv
<1>4. BothInv' /\ NamedInv' /\ ExclusiveInv'
  BY DEF BothInv, NamedInv, ExclusiveInv, Copying
<1>. QED  BY <1>2, <1>3, <1>4 DEF DataInv

\* Types when a call returns.
LEMMA ReturnTyped ==
  ASSUME AllInv, NEW st, NEW r, NEW e, ReturnWith(st, r, e), IsFile(st.sb), FileTable,
         name' \in [Names -> 0 .. MaxIno]
  PROVE  FilesInv'
<1>2. \A fd \in Fds : fdt'[fd].ino \in 0 .. MaxIno /\ fdt'[fd].off \in Nat
  <2>1. CASE fdt' = fdt
    BY <2>1 DEF AllInv, DataInv, FilesInv
  <2>2. CASE fdt' # fdt
    <3>1. PICK S : fdt' = Close(fdt, S)
      BY <2>2 DEF ReturnWith, Freed
    <3>. QED  BY <3>1, ClosedTyped DEF AllInv, DescriptorInv, DataInv
  <2>. QED  BY <2>1, <2>2
<1>3. user' = user \/ user' = st
  BY DEF ReturnWith
<1>4. IsFile(user'.sb)
  BY <1>3 DEF AllInv, DataInv, FilesInv
<1>5. s' = NoState /\ loc' = NoLocals
  BY DEF ReturnWith
<1>6. IsFile(s'.sb)
  BY <1>5, NoFileIsFile
<1>7. loc'.buf \in Seq(Block)
  BY <1>5 DEF NoLocals
<1>8. \A f : IsFile(f)' <=> IsFile(f)
  BY DEF IsFile
<1>. QED  BY <1>2, <1>4, <1>6, <1>7, <1>8 DEF FileTable, FilesInv, IsFile

\* A call returns: what DataWhole says of it follows from how far it has come.
LEMMA DataReturnsWith ==
  ASSUME AllInv, pc # "idle", NEW st, NEW r, NEW e, ReturnWith(st, r, e), IsFile(st.sb),
         FileTable, ignored \subseteq e, SameFiles \/ pc = "write",
         \/ name' = name /\ (pc \in {"data", "write"} => "unlink" \in e)
         \/ name' = Unlinked /\ pc \notin Stages,
         r # 0 \/ "CHECK" \in s.flags \/ (pc = "finish" /\ st = s),
         r = -1 \/ "CHECK" \in s.flags \/ pc \notin Stages
  PROVE  DataInv'
<1>1. FilesInv'
  <2>1. name' \in [Names -> 0 .. MaxIno]
    BY DEF AllInv, DataInv, FilesInv, Unlinked, MaxIno
  <2>. QED  BY <2>1, ReturnTyped
<1>2. pc' = "idle" /\ cur' = NoCall
  BY DEF ReturnWith
<1>3. PICK c : c = cur
  OBVIOUS
<1>4. c = [f \in CallFields |-> c[f]]
  BY <1>3 DEF AllInv, DataInv, CallInv
<1>5. last' = [c EXCEPT !.ret = r, !.errors = e,
                        !.into = IF st.dfd >= 0 THEN fdt[st.dfd].ino ELSE 0]
  BY <1>3 DEF ReturnWith
<1>6. /\ last'.ret = r /\ last'.errors = e
      /\ last'.into = (IF st.dfd >= 0 THEN fdt[st.dfd].ino ELSE 0)
      /\ last'.flags = c.flags /\ last'.fresh = c.fresh /\ last'.fcopy = c.fcopy
      /\ last'.src = c.src /\ last'.dst = c.dst /\ last'.was = c.was /\ last'.target = c.target
  BY <1>4, <1>5 DEF CallFields
<1>7. c.flags = s.flags /\ (~c.fcopy => c.dst = s.dst /\ s.dst \in Names)
  BY <1>3 DEF AllInv, DataInv, CallInv
<1>8. DataCopied'
  <2>1. SUFFICES ASSUME r = 0, c.fresh, c.flags \cap {"CHECK", "PACK", "UNPACK"} = {},
                        "DATA" \in c.flags, ino'[c.src].type = "reg", "skip" \notin e
                 PROVE  ino'[last'.into].data = ino'[c.src].data
    BY <1>6 DEF DataCopied, Copied
  <2>2. pc = "finish" /\ st = s
    BY <1>7, <2>1
  <2>3. /\ c.src \in 1 .. MaxIno /\ s.sb.type = ino[c.src].type
        /\ s.dfd \in Fds /\ Dst \in 1 .. MaxIno
        /\ Dst # c.src => Progress
    BY <1>3, <2>1, <2>2 DEF AllInv, DataInv, BothInv, HasSource, Copying
  <2>4. last'.into = Dst
    BY <1>6, <2>2, <2>3 DEF Dst, Fds, MaxFd
  <2>5. SameFiles
    BY <2>2
  <2>6. ino[Dst].data = ino[c.src].data
    BY <1>3, <1>7, <2>1, <2>2, <2>3, <2>5 DEF Progress, CopiesData, SameFiles
  <2>. QED  BY <2>3, <2>4, <2>5, <2>6 DEF SameFiles
<1>9. NoPartialCopy'
  <2>1. SUFFICES ASSUME c.fresh, ~c.fcopy, e \cap {"skip", "unlink"} = {}, c.src # 0, name'[c.dst] # 0,
                        ino'[name'[c.dst]].type = "reg"
                 PROVE  ino'[name'[c.dst]].data \in
                          {c.was.data, <<>>, ino'[c.src].data, <<<<"packed", c.src>>>>}
    BY <1>6 DEF NoPartialCopy
  <2>2. c.dst = s.dst /\ s.dst \in Names
    BY <1>7, <2>1
  <2>3. s.dst # NoName
    BY <2>2 DEF Names, NoName
  <2>4. name' = name /\ pc \notin {"data", "write"}
    BY <2>1, <2>2, <2>3 DEF Unlinked, AllInv, DataInv, FilesInv
  <2>5. SameFiles
    BY <2>4
  <2>6. name[s.dst] \in 1 .. MaxIno
    BY <2>1, <2>2, <2>4 DEF AllInv, DataInv, FilesInv, MaxIno
  <2>7. ino[name[s.dst]].type = "reg"
    BY <2>1, <2>2, <2>4, <2>5, <2>6 DEF SameFiles
  <2>8. pc \in Stages \/ pc \in {"internal", "xattr", "security", "stat", "finish"}
    BY <2>4 DEF AllInv, DescriptorInv, StageInv, Copying
  <2>9. CASE pc \in Stages
    <3>1. ino[name[s.dst]].data = c.was.data
      BY <1>3, <2>1, <2>2, <2>6, <2>7, <2>9 DEF AllInv, DataInv, NamedInv
    <3>. QED  BY <2>2, <2>4, <2>5, <2>6, <3>1 DEF SameFiles
  <2>10. CASE pc \in {"internal", "xattr", "security", "stat", "finish"}
    <3>1. ino[name[s.dst]].data \in {c.was.data, <<>>, ino[c.src].data, <<<<"packed", c.src>>>>}
      BY <1>3, <2>1, <2>2, <2>6, <2>7, <2>10 DEF AllInv, DataInv, NamedInv
    <3>2. c.src \in 1 .. MaxIno
      BY <1>3, <2>1, <2>10 DEF AllInv, DataInv, BothInv, HasSource, Copying
    <3>. QED  BY <2>2, <2>4, <2>5, <2>6, <3>1, <3>2 DEF SameFiles
  <2>. QED  BY <2>8, <2>9, <2>10
<1>10. ExclusiveFails'
  <2>1. SUFFICES ASSUME Excludes(c)
                 PROVE  r = -1 /\ name'[c.dst] = c.target /\ ino'[c.target].data = c.was.data
    BY <1>6 DEF ExclusiveFails, Excludes
  <2>2. /\ pc \in Stages /\ name[s.dst] = c.target /\ c.target \in 1 .. MaxIno
        /\ ino[c.target].data = c.was.data
    BY <1>3, <2>1 DEF AllInv, DataInv, ExclusiveInv
  <2>3. "CHECK" \notin s.flags /\ ~c.fcopy
    BY <1>7, <2>1 DEF Excludes
  <2>4. r = -1 /\ name' = name
    BY <2>2, <2>3
  <2>5. SameFiles
    BY <2>2 DEF Stages
  <2>. QED  BY <1>7, <2>2, <2>3, <2>4, <2>5 DEF SameFiles
<1>. QED  BY <1>1, <1>2, <1>8, <1>9, <1>10, DataIdle DEF DataWhole

LEMMA DataReturns ==
  ASSUME AllInv, pc # "idle", NEW st, NEW r, Return(st, r), IsFile(st.sb), FileTable,
         SameFiles \/ pc = "write",
         \/ name' = name /\ pc \notin {"data", "write"}
         \/ name' = Unlinked /\ pc \notin Stages,
         r # 0 \/ "CHECK" \in s.flags \/ (pc = "finish" /\ st = s),
         r = -1 \/ "CHECK" \in s.flags \/ pc \notin Stages
  PROVE  DataInv'
BY DataReturnsWith DEF Return

\* Names lead where they led.
LEMMA LookSame ==
  ASSUME FilesInv, SameFiles, name' = name, NEW n \in Names, NEW nofollow
  PROVE  Look(n, nofollow)' = Look(n, nofollow)
<1>1. name[n] # 0 => name[n] \in 1 .. MaxIno
  BY DEF FilesInv, MaxIno
<1>. QED  BY <1>1 DEF Look, SameFiles

\* Types, when the state and the tables stay.
LEMMA TypesStay ==
  ASSUME FilesInv, FileTable, name' \in [Names -> 0 .. MaxIno], fdt' = fdt, user' = user,
         s'.sb = s.sb, loc'.buf = loc.buf
  PROVE  FilesInv'
BY DEF FilesInv, FileTable, IsFile

LEMMA SameIsTable == SameFiles => FileTable
BY DEF SameFiles, FileTable

\* During a call nothing is said of the last one.
LEMMA DataLater == pc' # "idle" => DataWhole'
BY DEF DataWhole, DataCopied, Copied, NoPartialCopy, ExclusiveFails

\* A stage before the destination is open that changes neither names nor data.
LEMMA DataStage ==
  ASSUME AllInv, SameFiles, name' = name, cur' = cur, s' = s, fdt' = fdt, user' = user,
         loc'.buf = loc.buf, loc'.fcopy = loc.fcopy, pc \in Stages,
         \/ pc = "perms" /\ pc' \in {"check", "opensrc"} /\ (pc' = "check" => "CHECK" \in s.flags)
         \/ pc = "opensrc" /\ pc' = "opendst" /\ ~cur.fresh
         \/ pc = "opendst" /\ pc' = "make"
         \/ pc = "opendst" /\ pc' = "openloop" /\ "CREAT" \in loc'.oflags
         \/ pc = "openloop" /\ pc' = "openloop" /\ (Excludes(cur) => "CREAT" \in loc'.oflags)
  PROVE  DataInv'
<1>1. pc' \in Stages /\ pc' # "idle" /\ pc # "idle"
  BY DEF Stages
<1>2. FilesInv'
  BY TypesStay, SameIsTable DEF AllInv, DataInv, FilesInv
<1>3. CallInv'
  BY <1>1 DEF AllInv, DataInv, CallInv
<1>4. BeganInv'
  <2>1. SUFFICES ASSUME pc' \in {"perms", "check", "opensrc"}, cur.fresh
                 PROVE  BeganInv'
    BY DEF BeganInv
  <2>2. PICK n, nofollow : n = s.src /\ nofollow = ("NOFOLLOW_SRC" \in s.flags)
    OBVIOUS
  <2>3. s.sfd = NotOpen /\ s.dfd = NotOpen /\ cur.src = Look(n, nofollow) /\ n \in Names
    BY <2>1, <2>2 DEF AllInv, DataInv, BeganInv, CallInv
  <2>4. Look(n, nofollow)' = Look(n, nofollow)
    BY <2>3, LookSame DEF AllInv, DataInv
  <2>. QED  BY <2>2, <2>3, <2>4 DEF BeganInv, Look
<1>5. SourceInv'
  <2>1. SUFFICES ASSUME pc' \in {"opendst", "make", "openloop"}, cur.fresh
                 PROVE  /\ HasSource' /\ s.dfd = NotOpen /\ fdt[s.sfd].off = 0
                        /\ s.sb.data = ino'[cur.src].data
    BY DEF SourceInv
  <2>2. /\ HasSource /\ s.dfd = NotOpen /\ fdt[s.sfd].off = 0 /\ s.sb.data = ino[cur.src].data
    BY <2>1 DEF AllInv, DataInv, SourceInv
  <2>. QED  BY <2>2 DEF HasSource, SameFiles
<1>6. BothInv'
  BY <1>1 DEF BothInv, Stages, Copying
<1>7. NamedInv'
  <2>1. SUFFICES ASSUME cur.fresh, ~cur.fcopy, name[s.dst] # 0, ino'[name[s.dst]].type = "reg"
                 PROVE  ino'[name[s.dst]].data = cur.was.data
    BY <1>1 DEF NamedInv, Stages, Copying
  <2>2. name[s.dst] \in 1 .. MaxIno
    BY <1>1, <2>1 DEF AllInv, DataInv, CallInv, FilesInv, MaxIno
  <2>. QED  BY <1>1, <2>1, <2>2 DEF AllInv, DataInv, NamedInv, SameFiles
<1>8. ExclusiveInv'
  <2>1. SUFFICES ASSUME Excludes(cur)
                 PROVE  /\ pc' = "openloop" => "CREAT" \in loc'.oflags
                        /\ name[s.dst] = cur.target /\ cur.target \in 1 .. MaxIno
                        /\ ino'[cur.target].data = cur.was.data
    BY <1>1 DEF ExclusiveInv, Excludes
  <2>. QED  BY <1>1, <2>1 DEF AllInv, DataInv, ExclusiveInv, SameFiles
<1>. QED  BY <1>1, <1>2, <1>3, <1>4, <1>5, <1>6, <1>7, <1>8, DataLater DEF DataInv

\* Where a name leads.
LEMMA LookRange ==
  ASSUME FilesInv, NEW n \in Names, NEW nofollow
  PROVE  Look(n, nofollow) \in 0 .. MaxIno
<1>1. \A m \in Names : name[m] \in 0 .. MaxIno
  BY DEF FilesInv
<1>2. 0 \in 0 .. MaxIno
  BY DEF MaxIno
<1>. QED  BY <1>1, <1>2 DEF Look

\* A call that fails with its state as it is.
LEMMA DataFails ==
  ASSUME AllInv, pc # "idle", Return(s, -1), FileTable, SameFiles \/ pc = "write",
         \/ name' = name /\ pc \notin {"data", "write"}
         \/ name' = Unlinked /\ pc \notin Stages
  PROVE  DataInv'
<1>1. PICK st : st = s
  OBVIOUS
<1>2. Return(st, -1)
  BY <1>1 DEF Return, Freed, Close, BadClose, OwnedFds
<1>3. IsFile(st.sb)
  BY <1>1 DEF AllInv, DataInv, FilesInv
<1>. QED  BY <1>2, <1>3, DataReturns

\* The data, or packing, fails: the name is removed, or that is noted.
LEMMA DataFailsUnlinked ==
  ASSUME AllInv, pc \in {"internal", "data", "write"}, FailUnlinked, FileTable,
         SameFiles \/ pc = "write"
  PROVE  DataInv'
<1>1. pc # "idle" /\ pc \notin Stages
  BY DEF Stages
<1>2. CASE name' = Unlinked /\ Fail
  BY <1>1, <1>2, DataFails DEF Fail
<1>3. CASE ReturnWith(s, -1, ignored \cup {"unlink"}) /\ UNCHANGED name
  <2>1. PICK st, e : st = s /\ e = ignored \cup {"unlink"}
    OBVIOUS
  <2>2. ReturnWith(st, -1, e) /\ name' = name
    BY <1>3, <2>1
  <2>3. IsFile(st.sb)
    BY <2>1 DEF AllInv, DataInv, FilesInv
  <2>4. ignored \subseteq e /\ "unlink" \in e
    BY <2>1
  <2>. QED  BY <1>1, <2>2, <2>3, <2>4, DataReturnsWith
<1>. QED  BY <1>2, <1>3 DEF FailUnlinked

LEMMA DataNoMemory == AllInv /\ NoMemory => DataInv'
<1>1. SUFFICES ASSUME AllInv, NoMemory PROVE DataInv'
  OBVIOUS
<1>2. SameFiles /\ FileTable
  BY <1>1, FilesKept, SameIsTable DEF AllInv, DataInv
<1>3. pc = "perms" /\ Return(s, -1) /\ name' = name
  BY <1>1 DEF NoMemory, fs
<1>. QED  BY <1>1, <1>2, <1>3, DataFails

\* The state with what stat() has found.
LEMMA StatFound ==
  ASSUME AllInv, pc \in Stages, NEW i, i = Look(s.src, "NOFOLLOW_SRC" \in s.flags), i # 0
  PROVE  i \in 1 .. MaxIno /\ IsFile(ino[i]) /\ s = [f \in StateFields |-> s[f]]
<1>1. s.src \in Names
  BY DEF AllInv, DataInv, CallInv
<1>2. i \in 1 .. MaxIno
  <2>1. i \in 0 .. MaxIno
    BY <1>1, LookRange DEF AllInv, DataInv
  <2>. QED  BY <2>1 DEF MaxIno
<1>3. s = [f \in StateFields |-> s[f]]
  BY DEF AllInv, DescriptorInv, StageInv, IsState
<1>4. IsFile(ino[i])
  BY <1>2 DEF AllInv, DataInv, FilesInv
<1>. QED  BY <1>2, <1>3, <1>4

LEMMA DataCheck == AllInv /\ Check => DataInv'
<1>1. SUFFICES ASSUME AllInv, Check PROVE DataInv'
  OBVIOUS
<1>2. SameFiles /\ FileTable
  BY <1>1, FilesKept, SameIsTable DEF AllInv, DataInv
<1>3. pc = "check" /\ name' = name
  BY <1>1 DEF Check, fs
<1>4. "CHECK" \in s.flags
  BY <1>1, <1>3 DEF AllInv, DataInv, CallInv
<1>5. PICK i : i = Look(s.src, "NOFOLLOW_SRC" \in s.flags)
  OBVIOUS
<1>6. PICK st, r : /\ Return(st, r)
                   /\ st = s \/ (i # 0 /\ st = [s EXCEPT !.sb = ino[i], !.acl = ino[i].acl])
  BY <1>1, <1>5 DEF Check
<1>7. IsFile(st.sb)
  <2>1. CASE st = s
    BY <1>1, <2>1 DEF AllInv, DataInv, FilesInv
  <2>2. CASE i # 0 /\ st = [s EXCEPT !.sb = ino[i], !.acl = ino[i].acl]
    <3>1. pc \in Stages
      BY <1>3 DEF Stages
    <3>2. IsFile(ino[i]) /\ s = [f \in StateFields |-> s[f]]
      BY <1>1, <1>5, <2>2, <3>1, StatFound
    <3>. QED  BY <2>2, <3>2 DEF StateFields
  <2>. QED  BY <1>6, <2>1, <2>2
<1>. QED  BY <1>1, <1>2, <1>3, <1>4, <1>6, <1>7, DataReturns

LEMMA DataPermissive == AllInv /\ MakePermissive => DataInv'
<1>1. SUFFICES ASSUME AllInv, MakePermissive PROVE DataInv'
  OBVIOUS
<1>2. SameFiles
  BY <1>1, FilesKept DEF AllInv, DataInv
<1>3. /\ pc = "perms" /\ pc' \in {"check", "opensrc"} /\ (pc' = "check" => "CHECK" \in s.flags)
      /\ name' = name /\ cur' = cur /\ s' = s /\ fdt' = fdt /\ user' = user
  BY <1>1 DEF MakePermissive, Goto, history
<1>4. PICK x : \/ loc' = [loc EXCEPT !.dsb = x] \/ loc' = [loc EXCEPT !.created = TRUE]
  BY <1>1 DEF MakePermissive
<1>5. loc'.buf = loc.buf /\ loc'.fcopy = loc.fcopy
  BY <1>1, <1>4 DEF AllInv, LocalsInv, LocalFields
<1>. QED  BY <1>1, <1>2, <1>3, <1>5, DataStage DEF Stages

\* What is recorded of a call stays while it goes on.
LEMMA CallStays ==
  ASSUME AllInv, pc # "idle", pc' # "idle", cur' = cur, s'.flags = s.flags, s'.src = s.src,
         s'.dst = s.dst, loc'.fcopy = loc.fcopy, pc' \in Stages => pc \in Stages, pc' # "check"
  PROVE  CallInv'
BY DEF AllInv, DataInv, CallInv

\* Nothing is said of what a call does that did not begin with a state of its own.
LEMMA DataStale ==
  ASSUME FilesInv', CallInv', pc' # "idle", ~cur'.fresh
  PROVE  DataInv'
<1>1. BeganInv' /\ SourceInv' /\ BothInv' /\ NamedInv'
  BY DEF BeganInv, SourceInv, BothInv, NamedInv
<1>2. ExclusiveInv'
  BY DEF ExclusiveInv, Excludes
<1>. QED  BY <1>1, <1>2, DataLater DEF DataInv

\* The table with one more descriptor open, as far as data is concerned.
LEMMA OpenedFiles ==
  ASSUME DescriptorInv, pc # "idle", FilesInv, NEW i \in 1 .. MaxIno, NEW new,
         new = Min(FreeFds), fdt' = Open(i)
  PROVE  /\ new \in Fds /\ fdt[new].ino = 0
         /\ fdt'[new].ino = i /\ fdt'[new].off = 0
         /\ \A fd \in Fds : fd # new => fdt'[fd] = fdt[fd]
         /\ \A fd \in Fds : fdt'[fd].ino \in 0 .. MaxIno /\ fdt'[fd].off \in Nat
<1>1. new \in Fds /\ fdt[new].ino = 0
  BY FreeFdExists DEF DescriptorInv
<1>2. fdt' = [fdt EXCEPT ![new] = [ino |-> i, off |-> 0, by |-> "library"]]
  BY DEF Open
<1>3. \A fd \in Fds : fdt'[fd] = IF fd = new THEN [ino |-> i, off |-> 0, by |-> "library"] ELSE fdt[fd]
  BY <1>1, <1>2 DEF DescriptorInv, TableInv
<1>4. i \in 0 .. MaxIno
  BY DEF MaxIno
<1>5. fdt'[new].ino = i /\ fdt'[new].off = 0
  BY <1>1, <1>3
<1>6. \A fd \in Fds : fdt'[fd].ino \in 0 .. MaxIno /\ fdt'[fd].off \in Nat
  <2>1. SUFFICES ASSUME NEW fd \in Fds PROVE fdt'[fd].ino \in 0 .. MaxIno /\ fdt'[fd].off \in Nat
    OBVIOUS
  <2>2. CASE fd = new
    BY <1>4, <1>5, <2>2
  <2>3. CASE fd # new
    BY <1>3, <2>3 DEF FilesInv
  <2>. QED  BY <2>2, <2>3
<1>. QED  BY <1>1, <1>3, <1>5, <1>6

\* The source is opened.
LEMMA DataOpensSource ==
  ASSUME AllInv, SameFiles, pc = "opensrc", pc' = "opendst", name' = name, cur' = cur,
         user' = user, loc'.buf = loc.buf, loc'.fcopy = loc.fcopy, s.sfd = NotOpen,
         NEW i, i = Look(s.src, "NOFOLLOW_SRC" \in s.flags), i # 0, fdt' = Open(i), NEW new,
         new = Min(FreeFds), NEW t, t = [s EXCEPT !.sb = ino[i], !.acl = ino[i].acl, !.sfd = new],
         s' = t
  PROVE  DataInv'
<1>1. /\ i \in 1 .. MaxIno /\ IsFile(ino[i]) /\ t.sb = ino[i] /\ t.flags = s.flags
      /\ t.src = s.src /\ t.dst = s.dst /\ t.dfd = s.dfd /\ t.sfd = new
  <2>1. pc \in Stages
    BY DEF Stages
  <2>2. i \in 1 .. MaxIno /\ IsFile(ino[i]) /\ s = [f \in StateFields |-> s[f]]
    BY <2>1, StatFound
  <2>3. /\ t.sb = ino[i] /\ t.flags = s.flags /\ t.src = s.src /\ t.dst = s.dst
        /\ t.dfd = s.dfd /\ t.sfd = new
    BY <2>2 DEF StateFields
  <2>. QED  BY <2>2, <2>3
<1>2. /\ new \in Fds /\ fdt'[new].ino = i /\ fdt'[new].off = 0
      /\ \A fd \in Fds : fdt'[fd].ino \in 0 .. MaxIno /\ fdt'[fd].off \in Nat
  BY <1>1, OpenedFiles DEF AllInv, DataInv
<1>3. FilesInv'
  BY <1>1, <1>2 DEF AllInv, DataInv, FilesInv, SameFiles, IsFile
<1>4. CallInv'
  BY <1>1, CallStays DEF Stages
<1>5. CASE ~cur.fresh
  BY <1>3, <1>4, <1>5, DataStale
<1>6. CASE cur.fresh
  <2>1. s.dfd = NotOpen /\ cur.src = i
    BY <1>6 DEF AllInv, DataInv, BeganInv
  <2>2. SourceInv'
    BY <1>1, <1>2, <2>1 DEF SourceInv, HasSource, SameFiles
  <2>3. BeganInv' /\ BothInv'
    BY DEF BeganInv, BothInv, Copying
  <2>4. NamedInv'
    <3>1. SUFFICES ASSUME cur.fresh, ~cur.fcopy, name[s.dst] # 0, ino'[name[s.dst]].type = "reg"
                   PROVE  ino'[name[s.dst]].data = cur.was.data
      BY <1>1 DEF NamedInv, Stages, Copying
    <3>2. name[s.dst] \in 1 .. MaxIno
      <4>1. s.dst \in Names
        BY <3>1 DEF AllInv, DataInv, CallInv
      <4>2. name[s.dst] \in 0 .. MaxIno
        BY <4>1 DEF AllInv, DataInv, FilesInv
      <4>. QED  BY <3>1, <4>2 DEF MaxIno
    <3>. QED  BY <3>1, <3>2 DEF AllInv, DataInv, NamedInv, SameFiles, Stages
  <2>5. ExclusiveInv'
    <3>1. SUFFICES ASSUME Excludes(cur)
                   PROVE  /\ name[s.dst] = cur.target /\ cur.target \in 1 .. MaxIno
                          /\ ino'[cur.target].data = cur.was.data
      BY <1>1 DEF ExclusiveInv, Excludes, Stages
    <3>. QED  BY <3>1 DEF AllInv, DataInv, ExclusiveInv, SameFiles
  <2>. QED  BY <1>3, <1>4, <2>2, <2>3, <2>4, <2>5, DataLater DEF DataInv
<1>. QED  BY <1>5, <1>6

LEMMA DataOpenSource == AllInv /\ OpenSource => DataInv'
<1>1. SUFFICES ASSUME AllInv, OpenSource PROVE DataInv'
  OBVIOUS
<1>2. SameFiles /\ FileTable
  BY <1>1, FilesKept, SameIsTable DEF AllInv, DataInv
<1>3. pc = "opensrc" /\ name' = name
  BY <1>1 DEF OpenSource, fs
<1>4. PICK i : i = Look(s.src, "NOFOLLOW_SRC" \in s.flags)
  OBVIOUS
<1>5. PICK st : st = [s EXCEPT !.sb = ino[i], !.acl = ino[i].acl]
  OBVIOUS
<1>6. PICK failed : failed = [s EXCEPT !.sb = ino[i], !.acl = ino[i].acl, !.sfd = Failed]
  OBVIOUS
<1>7. \/ /\ s.sfd # NotOpen /\ pc' = "opendst" /\ fdt' = fdt /\ s' = s /\ user' = user
         /\ loc' = loc /\ cur' = cur
      \/ Return(s, -1)
      \/ i # 0 /\ (Return(st, -1) \/ Return(failed, -1))
      \/ /\ s.sfd = NotOpen /\ i # 0 /\ fdt' = Open(i) /\ pc' = "opendst" /\ user' = user
         /\ loc' = [loc EXCEPT !.kind = MadeAs(st)] /\ cur' = cur
         /\ s' = [s EXCEPT !.sb = ino[i], !.acl = ino[i].acl, !.sfd = Min(FreeFds)]
  BY <1>1, <1>4, <1>5, <1>6 DEF OpenSource, Goto, history
<1>8. CASE /\ s.sfd # NotOpen /\ pc' = "opendst" /\ fdt' = fdt /\ s' = s /\ user' = user
           /\ loc' = loc /\ cur' = cur
  <2>1. ~cur.fresh
    BY <1>1, <1>3, <1>8 DEF AllInv, DataInv, BeganInv
  <2>. QED  BY <1>1, <1>2, <1>3, <1>8, <2>1, DataStage DEF Stages
<1>9. CASE Return(s, -1)
  BY <1>1, <1>2, <1>3, <1>9, DataFails
<1>10. CASE i # 0 /\ (Return(st, -1) \/ Return(failed, -1))
  <2>1. PICK t \in {st, failed} : Return(t, -1)
    BY <1>10
  <2>2. pc \in Stages
    BY <1>3 DEF Stages
  <2>3. IsFile(t.sb)
    <3>1. IsFile(ino[i]) /\ s = [f \in StateFields |-> s[f]]
      BY <1>1, <1>4, <1>10, <2>2, StatFound
    <3>2. st.sb = ino[i] /\ failed.sb = ino[i]
      BY <1>5, <1>6, <3>1 DEF StateFields
    <3>. QED  BY <3>1, <3>2
  <2>. QED  BY <1>1, <1>2, <1>3, <2>1, <2>3, DataReturns
<1>11. CASE /\ s.sfd = NotOpen /\ i # 0 /\ fdt' = Open(i) /\ pc' = "opendst" /\ user' = user
            /\ loc' = [loc EXCEPT !.kind = MadeAs(st)] /\ cur' = cur
            /\ s' = [s EXCEPT !.sb = ino[i], !.acl = ino[i].acl, !.sfd = Min(FreeFds)]
  <2>1. PICK new : new = Min(FreeFds)
    OBVIOUS
  <2>2. PICK t : t = [s EXCEPT !.sb = ino[i], !.acl = ino[i].acl, !.sfd = new]
    OBVIOUS
  <2>3. s' = t
    BY <1>11, <2>1, <2>2
  <2>4. loc'.buf = loc.buf /\ loc'.fcopy = loc.fcopy
    BY <1>1, <1>11 DEF AllInv, LocalsInv, LocalFields
  <2>. QED  BY <1>1, <1>2, <1>3, <1>4, <1>11, <2>1, <2>2, <2>3, <2>4, DataOpensSource
<1>. QED  BY <1>7, <1>8, <1>9, <1>10, <1>11

\* The destination's name is removed.
LEMMA DataRemoves ==
  ASSUME AllInv, SameFiles, pc = "opendst", pc' \in {"make", "openloop"}, Removes,
         name' = [name EXCEPT ![s.dst] = 0], cur' = cur, s' = s, fdt' = fdt, user' = user,
         loc'.buf = loc.buf, loc'.fcopy = loc.fcopy
  PROVE  DataInv'
<1>1. pc' \in Stages /\ pc \in Stages /\ pc' # "idle" /\ pc # "idle" /\ pc' # "check"
  BY DEF Stages
<1>2. name' \in [Names -> 0 .. MaxIno] /\ (s.dst \in Names => name'[s.dst] = 0)
  <2>1. 0 \in 0 .. MaxIno
    BY DEF MaxIno
  <2>2. name \in [Names -> 0 .. MaxIno]
    BY DEF AllInv, DataInv, FilesInv
  <2>. QED  BY <2>1, <2>2
<1>3. FilesInv'
  BY <1>2, TypesStay, SameIsTable DEF AllInv, DataInv
<1>4. CallInv'
  BY <1>1, CallStays
<1>5. BeganInv' /\ BothInv'
  BY <1>1 DEF BeganInv, BothInv, Copying
<1>6. SourceInv'
  <2>1. SUFFICES ASSUME cur.fresh
                 PROVE  /\ HasSource' /\ s.dfd = NotOpen /\ fdt[s.sfd].off = 0
                        /\ s.sb.data = ino'[cur.src].data
    BY DEF SourceInv
  <2>2. /\ HasSource /\ s.dfd = NotOpen /\ fdt[s.sfd].off = 0 /\ s.sb.data = ino[cur.src].data
    BY <2>1 DEF AllInv, DataInv, SourceInv
  <2>. QED  BY <2>2 DEF HasSource, SameFiles
<1>7. NamedInv'
  BY <1>1, <1>2, <1>4 DEF CallInv, NamedInv
<1>8. ExclusiveInv'
  <2>1. cur.flags = s.flags
    BY <1>1 DEF AllInv, DataInv, CallInv
  <2>2. ~Excludes(cur)
    BY <2>1 DEF Excludes, Removes
  <2>. QED  BY <2>2 DEF ExclusiveInv, Excludes
<1>. QED  BY <1>1, <1>3, <1>4, <1>5, <1>6, <1>7, <1>8, DataLater DEF DataInv

LEMMA DataRemove == AllInv /\ RemoveDestination => DataInv'
<1>1. SUFFICES ASSUME AllInv, RemoveDestination PROVE DataInv'
  OBVIOUS
<1>2. SameFiles /\ FileTable
  BY <1>1, FilesKept, SameIsTable DEF AllInv, DataInv
<1>3. pc = "opendst"
  BY <1>1 DEF RemoveDestination
<1>4. CASE /\ s.dfd # NotOpen /\ pc' = "internal"
           /\ UNCHANGED <<name, fdt, s, user, loc, ignored, history, trouble>>
  <2>1. ~cur.fresh
    BY <1>1, <1>3, <1>4 DEF AllInv, DataInv, SourceInv
  <2>2. FilesInv'
    BY <1>1, <1>2, <1>4, TypesStay DEF AllInv, DataInv, FilesInv, history
  <2>3. CallInv'
    BY <1>1, <1>3, <1>4, CallStays DEF history, Stages
  <2>. QED  BY <1>4, <2>1, <2>2, <2>3, DataStale DEF history
<1>5. CASE /\ name' = IF Removes THEN [name EXCEPT ![s.dst] = 0] ELSE name
           /\ loc' = [loc EXCEPT !.oflags = {"EXCL", "CREAT", "WRONLY"}]
           /\ pc' \in {"make", "openloop"}
           /\ UNCHANGED <<fdt, s, user, ignored, history, trouble>>
  <2>1. loc'.buf = loc.buf /\ loc'.fcopy = loc.fcopy /\ "CREAT" \in loc'.oflags
    BY <1>1, <1>5 DEF AllInv, LocalsInv, LocalFields
  <2>2. cur' = cur
    BY <1>5 DEF history
  <2>3. CASE Removes
    BY <1>1, <1>2, <1>3, <1>5, <2>1, <2>2, <2>3, DataRemoves
  <2>4. CASE ~Removes
    BY <1>1, <1>2, <1>3, <1>5, <2>1, <2>2, <2>4, DataStage DEF Stages
  <2>. QED  BY <2>3, <2>4
<1>6. CASE Return(s, -1) /\ name' = name
  BY <1>1, <1>2, <1>3, <1>6, DataFails
<1>. QED  BY <1>1, <1>4, <1>5, <1>6 DEF RemoveDestination, Goto

\* The destination is opened, being there or being made.
LEMMA DataOpens ==
  ASSUME AllInv, FileTable, pc \in {"make", "openloop"}, pc' = "internal", cur' = cur,
         user' = user, loc' = loc, name' \in [Names -> 0 .. MaxIno], NEW i \in 1 .. MaxIno,
         fdt' = Open(i), s' = [s EXCEPT !.dfd = Min(FreeFds)],
         cur.fresh => ino'[cur.src].type = ino[cur.src].type,
         cur.fresh /\ i # cur.src => ino'[cur.src].data = ino[cur.src].data,
         cur.fresh /\ name'[s.dst] # 0 /\ ino'[name'[s.dst]].type = "reg" =>
           /\ i = name'[s.dst]
           /\ ino'[i].data \in {cur.was.data, <<>>, ino'[cur.src].data},
         ~Excludes(cur)
  PROVE  DataInv'
<1>1. PICK new : new = Min(FreeFds)
  OBVIOUS
<1>2. /\ new \in Fds /\ fdt[new].ino = 0 /\ fdt'[new].ino = i /\ fdt'[new].off = 0
      /\ \A fd \in Fds : fd # new => fdt'[fd] = fdt[fd]
      /\ \A fd \in Fds : fdt'[fd].ino \in 0 .. MaxIno /\ fdt'[fd].off \in Nat
  BY <1>1, OpenedFiles DEF AllInv, DataInv
<1>3. /\ s'.src = s.src /\ s'.dst = s.dst /\ s'.flags = s.flags /\ s'.sb = s.sb
      /\ s'.sfd = s.sfd /\ s'.dfd = new
  <2>1. s = [f \in StateFields |-> s[f]] /\ s' = [s EXCEPT !.dfd = new]
    BY <1>1 DEF AllInv, DescriptorInv, StageInv, IsState
  <2>. QED  BY <2>1 DEF StateFields
<1>4. FilesInv'
  BY <1>2, <1>3 DEF AllInv, DataInv, FilesInv, FileTable, IsFile
<1>5. CallInv'
  BY <1>3, CallStays DEF Stages
<1>6. CASE ~cur.fresh
  BY <1>4, <1>5, <1>6, DataStale
<1>7. CASE cur.fresh
  <2>1. /\ HasSource /\ fdt[s.sfd].off = 0 /\ s.sb.data = ino[cur.src].data
    BY <1>7 DEF AllInv, DataInv, SourceInv
  <2>2. s.sfd \in Fds /\ fdt[s.sfd].ino = cur.src /\ cur.src \in 1 .. MaxIno
    BY <2>1 DEF HasSource
  <2>3. s.sfd # new /\ fdt'[s.sfd] = fdt[s.sfd]
    BY <1>2, <2>2 DEF MaxIno
  <2>4. HasSource'
    BY <1>3, <1>7, <2>1, <2>3 DEF HasSource
  <2>5. Dst' = i
    BY <1>2, <1>3 DEF Dst
  <2>6. Progress'
    BY <1>2, <1>3, <2>1, <2>3 DEF Progress
  <2>7. BothInv'
    BY <1>2, <1>3, <1>7, <2>1, <2>3, <2>4, <2>5, <2>6 DEF BothInv
  <2>8. NamedInv'
    BY <1>3, <1>7, <2>5 DEF NamedInv, Stages
  <2>9. BeganInv' /\ SourceInv' /\ ExclusiveInv'
    BY DEF BeganInv, SourceInv, ExclusiveInv, Excludes
  <2>. QED  BY <1>4, <1>5, <2>7, <2>8, <2>9, DataLater DEF DataInv
<1>. QED  BY <1>6, <1>7

\* A new file is one.
LEMMA CreatedFile ==
  ASSUME NEW type, NEW data \in Seq(Block), NEW mode, NEW file \in Created(type, data, mode)
  PROVE  IsFile(file) /\ file.data = data
<1>1. PICK a : file = [NoFile EXCEPT !.type = type, !.data = data, !.mode = mode, !.acl = a,
                                     !.meta = "new"]
  BY DEF Created
<1>2. NoFile = [x \in FileFields |-> NoFile[x]]
  BY NoFileIsFile DEF IsFile
<1>3. file = [x \in FileFields |-> file[x]] /\ file.data = data
  BY <1>1, <1>2 DEF FileFields
<1>. QED  BY <1>3 DEF IsFile

\* The destination is made.
LEMMA DataCreates ==
  ASSUME AllInv, pc \in {"make", "openloop"}, name[s.dst] = 0, NEW file, IsFile(file),
         file.data \in {<<>>, s.sb.data}, ino' = [ino EXCEPT ![FreeIno] = file],
         name' = [name EXCEPT ![s.dst] = FreeIno], fdt' = Open(FreeIno),
         s' = [s EXCEPT !.dfd = Min(FreeFds)], pc' = "internal", cur' = cur, user' = user,
         loc' = loc
  PROVE  DataInv'
<1>1. PICK i : i = FreeIno
  OBVIOUS
<1>2. i \in 1 .. MaxIno /\ \A fd \in Fds : fdt[fd].ino # i
  BY <1>1, FreeInoExists
<1>3. ino' = [ino EXCEPT ![i] = file] /\ name' = [name EXCEPT ![s.dst] = i] /\ fdt' = Open(i)
  BY <1>1
<1>4. FileTable /\ \A j \in 1 .. MaxIno : ino'[j] = IF j = i THEN file ELSE ino[j]
  <2>1. FilesInv
    BY DEF AllInv, DataInv
  <2>2. /\ ino' = [j \in 1 .. MaxIno |-> ino'[j]]
        /\ \A j \in 1 .. MaxIno : IsFile(ino'[j]) /\ ino'[j] = IF j = i THEN file ELSE ino[j]
    <3>1. ino' = [ino EXCEPT ![i] = file] /\ (i \in 1 .. MaxIno => IsFile(file))
      BY <1>3
    <3>. QED  BY <2>1, <3>1, OneReplaced
  <2>. QED  BY <2>2, Zenon DEF FileTable
<1>5. s.dst \in Names
  BY DEF AllInv, DataInv, CallInv, Stages
<1>6. name' \in [Names -> 0 .. MaxIno] /\ name'[s.dst] = i
  <2>1. i \in 0 .. MaxIno
    BY <1>2 DEF MaxIno
  <2>2. name \in [Names -> 0 .. MaxIno]
    BY DEF AllInv, DataInv, FilesInv
  <2>. QED  BY <1>3, <1>5, <2>1, <2>2
<1>7. cur.fresh => /\ cur.src \in 1 .. MaxIno /\ cur.src # i
                   /\ s.sb.data = ino[cur.src].data
  BY <1>2 DEF AllInv, DataInv, SourceInv, HasSource
<1>8. cur.fresh => ino'[cur.src] = ino[cur.src] /\ ino'[i].data \in {<<>>, ino'[cur.src].data}
  BY <1>2, <1>4, <1>7
<1>9. ~Excludes(cur)
  BY DEF AllInv, DataInv, ExclusiveInv, MaxIno
<1>. QED  BY <1>2, <1>3, <1>4, <1>6, <1>8, <1>9, DataOpens

\* What is at the destination is opened, with O_TRUNC or without.
LEMMA DataOpensThere ==
  ASSUME AllInv, pc \in {"make", "openloop"}, name[s.dst] # 0,
         NEW i, i = DestinationInode, i # 0, ~Excludes(cur),
         ino' = ino \/ ino' = [ino EXCEPT ![i].data = <<>>],
         name' = name, fdt' = Open(i), s' = [s EXCEPT !.dfd = Min(FreeFds)],
         pc' = "internal", cur' = cur, user' = user, loc' = loc
  PROVE  DataInv'
<1>1. s.dst \in Names
  BY DEF AllInv, DataInv, CallInv, Stages
<1>2. i \in 1 .. MaxIno
  <2>1. PICK n, nofollow : n = s.dst /\ nofollow = (IsLink \/ "NOFOLLOW_DST" \in s.flags)
    OBVIOUS
  <2>2. i = Look(n, nofollow)
    BY <2>1 DEF DestinationInode
  <2>3. i \in 0 .. MaxIno
    BY <1>1, <2>1, <2>2, LookRange DEF AllInv, DataInv
  <2>. QED  BY <2>3 DEF MaxIno
<1>3. IsFile(ino[i])
  BY <1>2 DEF AllInv, DataInv, FilesInv
<1>4. /\ FileTable
      /\ \A j \in 1 .. MaxIno : j # i => ino'[j] = ino[j]
      /\ ino'[i].type = ino[i].type /\ ino'[i].data \in {<<>>, ino[i].data}
  <2>1. CASE ino' = ino
    BY <2>1 DEF AllInv, DataInv, FilesInv, FileTable
  <2>2. CASE ino' = [ino EXCEPT ![i].data = <<>>]
    <3>1. PICK f, g : f = ino[i] /\ g = [f EXCEPT !.data = <<>>]
      OBVIOUS
    <3>2. IsFile(g) /\ g.data = <<>> /\ g.type = f.type
      BY <1>3, <3>1 DEF IsFile, FileFields
    <3>3. ino' = [ino EXCEPT ![i] = g]
      BY <1>2, <2>2, <3>1 DEF AllInv, DataInv, FilesInv
    <3>4. FileTable /\ \A j \in 1 .. MaxIno : ino'[j] = IF j = i THEN g ELSE ino[j]
      BY <3>2, <3>3, OneReplaced DEF AllInv, DataInv, FileTable
    <3>. QED  BY <1>2, <3>1, <3>2, <3>4
  <2>. QED  BY <2>1, <2>2
<1>5. name \in [Names -> 0 .. MaxIno] /\ name[s.dst] \in 1 .. MaxIno
  BY <1>1 DEF AllInv, DataInv, FilesInv, MaxIno
<1>6. cur.fresh => cur.src \in 1 .. MaxIno
  BY DEF AllInv, DataInv, SourceInv, HasSource
<1>7. /\ cur.fresh => ino'[cur.src].type = ino[cur.src].type
      /\ cur.fresh /\ i # cur.src => ino'[cur.src].data = ino[cur.src].data
  BY <1>2, <1>4, <1>6
<1>8. ASSUME cur.fresh, ino'[name[s.dst]].type = "reg"
      PROVE  i = name[s.dst] /\ ino'[i].data \in {cur.was.data, <<>>}
  <2>1. ino[name[s.dst]].type = "reg"
    BY <1>2, <1>4, <1>5, <1>8
  <2>2. i = name[s.dst]
    BY <2>1 DEF DestinationInode, Look
  <2>3. ~cur.fcopy
    BY DEF AllInv, DataInv, CallInv, Stages
  <2>4. ino[name[s.dst]].data = cur.was.data
    BY <1>8, <2>1, <2>3 DEF AllInv, DataInv, NamedInv, Stages
  <2>. QED  BY <1>4, <2>2, <2>4
<1>. QED  BY <1>2, <1>4, <1>5, <1>7, <1>8, DataOpens

\* open() has failed.
LEMMA DataOpenFails ==
  ASSUME AllInv, pc \in {"make", "openloop"}, Return([s EXCEPT !.dfd = Failed], -1), UNCHANGED fs
  PROVE  DataInv'
<1>1. PICK st : st = [s EXCEPT !.dfd = Failed]
  OBVIOUS
<1>2. Return(st, -1)
  BY <1>1
<1>3. st.sb = s.sb
  BY <1>1 DEF AllInv, DescriptorInv, StageInv, IsState, StateFields
<1>4. IsFile(st.sb)
  BY <1>3 DEF AllInv, DataInv, FilesInv
<1>5. SameFiles /\ FileTable /\ name' = name
  BY NothingChanged, SameIsTable DEF AllInv, DataInv, fs
<1>. QED  BY <1>2, <1>4, <1>5, DataReturns

\* What was made for a source that is no file stays, and open() fails.
LEMMA DataMadeFails ==
  ASSUME AllInv, pc = "make", name[s.dst] = 0, NEW file, IsFile(file), file.data = s.sb.data,
         ino' = [ino EXCEPT ![FreeIno] = file], name' = [name EXCEPT ![s.dst] = FreeIno],
         NEW st, IsFile(st.sb), Return(st, -1)
  PROVE  DataInv'
<1>1. PICK i : i = FreeIno
  OBVIOUS
<1>2. i \in 1 .. MaxIno /\ \A fd \in Fds : fdt[fd].ino # i
  BY <1>1, FreeInoExists
<1>3. ino' = [ino EXCEPT ![i] = file] /\ name' = [name EXCEPT ![s.dst] = i]
  BY <1>1
<1>4. FileTable /\ \A j \in 1 .. MaxIno : ino'[j] = IF j = i THEN file ELSE ino[j]
  <2>1. FilesInv /\ (i \in 1 .. MaxIno => IsFile(file))
    BY DEF AllInv, DataInv
  <2>2. /\ ino' = [j \in 1 .. MaxIno |-> ino'[j]]
        /\ \A j \in 1 .. MaxIno : IsFile(ino'[j]) /\ ino'[j] = IF j = i THEN file ELSE ino[j]
    BY <1>3, <2>1, OneReplaced
  <2>. QED  BY <2>2, Zenon DEF FileTable
<1>5. s.dst \in Names /\ ~cur.fcopy /\ s.dst = cur.dst
  BY DEF AllInv, DataInv, CallInv, Stages
<1>6. name' \in [Names -> 0 .. MaxIno] /\ name'[s.dst] = i
  <2>1. i \in 0 .. MaxIno
    BY <1>2 DEF MaxIno
  <2>2. name \in [Names -> 0 .. MaxIno]
    BY DEF AllInv, DataInv, FilesInv
  <2>. QED  BY <1>3, <1>5, <2>1, <2>2
<1>7. FilesInv'
  BY <1>4, <1>6, ReturnTyped DEF Return
<1>8. PICK c, into : c = cur /\ into = IF st.dfd >= 0 THEN fdt[st.dfd].ino ELSE 0
  OBVIOUS
<1>9. pc' = "idle" /\ cur' = NoCall /\ last' = [c EXCEPT !.ret = -1, !.errors = ignored, !.into = into]
  BY <1>8 DEF Return, ReturnWith
<1>10. c = [f \in CallFields |-> c[f]]
  BY <1>8 DEF AllInv, DataInv, CallInv
<1>11. /\ last'.ret = -1 /\ last'.flags = c.flags /\ last'.fresh = c.fresh /\ last'.fcopy = c.fcopy
       /\ last'.src = c.src /\ last'.dst = c.dst /\ last'.was = c.was /\ last'.target = c.target
  BY <1>9, <1>10 DEF CallFields
<1>12. DataCopied'
  BY <1>11 DEF DataCopied, Copied
<1>13. NoPartialCopy'
  <2>1. SUFFICES ASSUME c.fresh
                 PROVE  ino'[i].data = ino'[c.src].data
    BY <1>5, <1>6, <1>8, <1>11 DEF NoPartialCopy
  <2>2. c.src \in 1 .. MaxIno /\ c.src # i /\ s.sb.data = ino[c.src].data
    BY <1>2, <1>8, <2>1 DEF AllInv, DataInv, SourceInv, HasSource
  <2>. QED  BY <1>2, <1>4, <2>2
<1>14. ExclusiveFails'
  <2>1. ~Excludes(c)
    BY <1>8 DEF AllInv, DataInv, ExclusiveInv, MaxIno
  <2>. QED  BY <1>11, <2>1 DEF ExclusiveFails, Excludes
<1>. QED  BY <1>7, <1>9, <1>12, <1>13, <1>14, DataIdle DEF DataWhole

LEMMA DataMake == AllInv /\ MakeSpecial => DataInv'
<1>1. SUFFICES ASSUME AllInv, MakeSpecial PROVE DataInv'
  OBVIOUS
<1>2. pc = "make"
  BY <1>1 DEF MakeSpecial
<1>a. PICK st : st = [s EXCEPT !.dfd = Failed]
  OBVIOUS
<1>b. IsFile(st.sb)
  <2>1. st.sb = s.sb
    BY <1>1, <1>a DEF AllInv, DescriptorInv, StageInv, IsState, StateFields
  <2>. QED  BY <1>1, <2>1 DEF AllInv, DataInv, FilesInv
<1>3. CASE /\ name[s.dst] = 0
           /\ \E file \in Created(s.sb.type, s.sb.data, s.sb.mode) : ino' = [ino EXCEPT ![FreeIno] = file]
           /\ name' = [name EXCEPT ![s.dst] = FreeIno]
           /\ OpenMade(FreeIno)
  <2>2. PICK t, m, d : t = s.sb.type /\ m = s.sb.mode /\ d = s.sb.data
    OBVIOUS
  <2>3. d \in Seq(Block)
    BY <1>1, <2>2 DEF AllInv, DataInv, FilesInv, IsFile
  <2>4. PICK file \in Created(t, d, m) : ino' = [ino EXCEPT ![FreeIno] = file]
    BY <1>3, <2>2
  <2>5. IsFile(file) /\ file.data = s.sb.data
    BY <2>2, <2>3, <2>4, CreatedFile
  <2>6. CASE Return(st, -1)
    BY <1>1, <1>2, <1>3, <1>b, <2>4, <2>5, <2>6, DataMadeFails
  <2>7. CASE /\ fdt' = Open(FreeIno) /\ s' = [s EXCEPT !.dfd = Min(FreeFds)] /\ pc' = "internal"
             /\ cur' = cur /\ user' = user /\ loc' = loc
    BY <1>1, <1>2, <1>3, <2>4, <2>5, <2>7, DataCreates
  <2>. QED  BY <1>3, <1>a, <2>6, <2>7 DEF OpenMade, Goto, history
<1>4. CASE name[s.dst] # 0 /\ "EXCL" \notin s.flags /\ OpenMade(DestinationInode) /\ UNCHANGED fs
  <2>1. PICK i : i = DestinationInode
    OBVIOUS
  <2>2. CASE Return([s EXCEPT !.dfd = Failed], -1)
    BY <1>1, <1>2, <1>4, <2>2, DataOpenFails
  <2>3. CASE /\ i # 0 /\ fdt' = Open(i) /\ s' = [s EXCEPT !.dfd = Min(FreeFds)] /\ pc' = "internal"
             /\ cur' = cur /\ user' = user /\ loc' = loc
    <3>1. cur.flags = s.flags
      BY <1>1, <1>2 DEF AllInv, DataInv, CallInv
    <3>2. ~Excludes(cur)
      BY <1>4, <3>1 DEF Excludes
    <3>3. ino' = ino /\ name' = name
      BY <1>4 DEF fs
    <3>. QED  BY <1>1, <1>2, <1>4, <2>1, <2>3, <3>2, <3>3, DataOpensThere
  <2>. QED  BY <1>4, <2>1, <2>2, <2>3 DEF OpenMade, Goto, history
<1>5. CASE Return(s, -1) /\ UNCHANGED fs
  <2>1. SameFiles /\ FileTable /\ name' = name
    BY <1>1, <1>5, NothingChanged, SameIsTable DEF AllInv, DataInv, fs
  <2>. QED  BY <1>1, <1>2, <1>5, <2>1, DataFails
<1>. QED  BY <1>1, <1>3, <1>4, <1>5 DEF MakeSpecial

\* Another round of the open loop.
LEMMA DataRetries ==
  ASSUME AllInv, SameFiles, pc = "openloop", pc' = pc, NEW o, Excludes(cur) => "CREAT" \in o,
         loc' = [loc EXCEPT !.oflags = o, !.turn = ~@] \/ (loc' = [loc EXCEPT !.turn = ~@] /\ o = loc.oflags),
         name' = name, fdt' = fdt, user' = user, s' = s, cur' = cur
  PROVE  DataInv'
<1>1. loc'.buf = loc.buf /\ loc'.fcopy = loc.fcopy /\ loc'.oflags = o
  BY DEF AllInv, LocalsInv, LocalFields
<1>. QED  BY <1>1, DataStage DEF Stages

LEMMA DataOpenLoop == AllInv /\ OpenLoop => DataInv'
<1>1. SUFFICES ASSUME AllInv, OpenLoop PROVE DataInv'
  OBVIOUS
<1>2. pc = "openloop"
  BY <1>1 DEF OpenLoop
<1>3. cur.flags = s.flags
  BY <1>1, <1>2 DEF AllInv, DataInv, CallInv
<1>4. Excludes(cur) => "EXCL" \in s.flags /\ "CREAT" \in loc.oflags /\ name[s.dst] # 0
  BY <1>1, <1>2, <1>3 DEF AllInv, DataInv, ExclusiveInv, Excludes, MaxIno
<1>5. PICK i : i = DestinationInode
  OBVIOUS
<1>6. CASE /\ name[s.dst] = 0
           /\ \E file \in Created("reg", <<>>, [s.sb.mode EXCEPT !.rw = TRUE]) :
                ino' = [ino EXCEPT ![FreeIno] = file]
           /\ name' = [name EXCEPT ![s.dst] = FreeIno] /\ fdt' = Open(FreeIno)
           /\ s' = [s EXCEPT !.dfd = Min(FreeFds)] /\ pc' = "internal"
           /\ UNCHANGED <<user, loc, calls, ignored, history, trouble>>
  <2>1. PICK m : m = [s.sb.mode EXCEPT !.rw = TRUE]
    OBVIOUS
  <2>2. PICK file \in Created("reg", <<>>, m) : ino' = [ino EXCEPT ![FreeIno] = file]
    BY <1>6, <2>1
  <2>3. <<>> \in Seq(Block)
    OBVIOUS
  <2>4. IsFile(file) /\ file.data = <<>>
    BY <2>2, <2>3, CreatedFile
  <2>. QED  BY <1>1, <1>2, <1>6, <2>2, <2>4, DataCreates DEF history
<1>7. CASE OpenFails
  BY <1>1, <1>2, <1>7, DataOpenFails DEF OpenFails
<1>8. CASE /\ RetryExists # {} /\ loc' = [loc EXCEPT !.oflags = RetryExists, !.turn = ~@]
           /\ UNCHANGED <<fs, fdt, user, s, pc, calls, ignored, history, trouble>>
  <2>1. ~Excludes(cur)
    BY <1>4, <1>8 DEF RetryExists
  <2>2. PICK o : o = RetryExists
    OBVIOUS
  <2>3. SameFiles
    BY <1>1, <1>8, NothingChanged DEF AllInv, DataInv, fs
  <2>. QED  BY <1>1, <1>2, <1>8, <2>1, <2>2, <2>3, DataRetries DEF fs, history
<1>9. CASE /\ "CREAT" \notin loc.oflags
           /\ loc' = [loc EXCEPT !.oflags = RetryIsDir, !.turn = ~@]
           /\ UNCHANGED <<fs, fdt, user, s, pc, calls, ignored, history, trouble>>
  <2>1. PICK o : o = RetryIsDir
    OBVIOUS
  <2>2. SameFiles
    BY <1>1, <1>9, NothingChanged DEF AllInv, DataInv, fs
  <2>. QED  BY <1>1, <1>2, <1>4, <1>9, <2>1, <2>2, DataRetries DEF fs, history
<1>10. CASE /\ "CREAT" \notin loc.oflags
            /\ ino' = [ino EXCEPT ![i].mode = [s.sb.mode EXCEPT !.rw = TRUE]]
            /\ loc' = [loc EXCEPT !.turn = ~@]
            /\ UNCHANGED <<name, fdt, user, s, pc, calls, ignored, history, trouble>>
  <2>1. PICK o, m : o = loc.oflags /\ m = [s.sb.mode EXCEPT !.rw = TRUE]
    OBVIOUS
  <2>2. SameFiles
    BY <1>1, <1>10, <2>1, SetProperties DEF AllInv, DataInv
  <2>. QED  BY <1>1, <1>2, <1>4, <1>10, <2>1, <2>2, DataRetries DEF history
<1>11. CASE /\ name[s.dst] # 0 /\ "CREAT" \notin loc.oflags /\ i # 0
            /\ ino' = Opened(i) /\ fdt' = Open(i) /\ s' = [s EXCEPT !.dfd = Min(FreeFds)]
            /\ pc' = "internal" /\ UNCHANGED <<name, user, loc, calls, ignored, history, trouble>>
  <2>1. ino' = ino \/ ino' = [ino EXCEPT ![i].data = <<>>]
    BY <1>11 DEF Opened
  <2>. QED  BY <1>1, <1>2, <1>4, <1>5, <1>11, <2>1, DataOpensThere DEF history
<1>. QED  BY <1>1, <1>5, <1>6, <1>7, <1>8, <1>9, <1>10, <1>11 DEF OpenLoop, Goto

\* A call that copies has something to copy to that it need not keep.
LEMMA NotExcluded ==
  ASSUME AllInv, pc \in Copying \cup {"internal"}, cur' = cur
  PROVE  ExclusiveInv' /\ ~Excludes(cur)
<1>1. pc \notin Stages /\ pc # "idle"
  BY DEF Stages, Copying
<1>2. ~Excludes(cur)
  BY <1>1 DEF AllInv, DataInv, ExclusiveInv
<1>. QED  BY <1>2 DEF ExclusiveInv, Excludes

\* Both files while they are copied.
LEMMA Both ==
  ASSUME AllInv, pc \in Copying \cup {"internal"}, cur.fresh
  PROVE  /\ s.sfd \in Fds /\ fdt[s.sfd].ino = cur.src /\ cur.src \in 1 .. MaxIno
         /\ s.sb.type = ino[cur.src].type
         /\ s.dfd \in Fds /\ s.dfd # s.sfd /\ Dst \in 1 .. MaxIno
         /\ Dst # cur.src => s.sb.data = ino[cur.src].data /\ Progress
BY DEF AllInv, DataInv, BothInv, HasSource

\* A stage of copyfile_internal that changes no data.
LEMMA DataCopies ==
  ASSUME AllInv, SameFiles, name' = name, cur' = cur, fdt' = fdt, user' = user,
         loc'.buf = loc.buf, loc'.fcopy = loc.fcopy, s'.src = s.src, s'.dst = s.dst,
         s'.flags = s.flags, s'.sb = s.sb, s'.sfd = s.sfd, s'.dfd = s.dfd,
         "skip" \in ignored => "skip" \in ignored',
         \/ pc = "internal" /\ pc' = "xattr"
         \/ pc = "internal" /\ pc' = "finish" /\ s.flags \cap {"PACK", "UNPACK"} # {}
         \/ pc = "xattr" /\ pc' = "data"
         \/ pc = "data" /\ pc' = "security" /\ ~CopiesData
         \/ pc = "write" /\ pc' = "security" /\ "skip" \in ignored'
         \/ pc = "write" /\ pc' = "write"
         \/ pc \in {"security", "stat", "finish"} /\ pc' \in {"stat", "finish"}
  PROVE  DataInv'
<1>1. /\ pc \in Copying \cup {"internal"} /\ pc' \in Copying /\ pc # "idle" /\ pc' # "idle"
      /\ pc' \notin Stages /\ pc' # "check"
  BY DEF Copying, Stages
<1>2. FilesInv'
  BY TypesStay, SameIsTable DEF AllInv, DataInv, FilesInv
<1>3. CallInv'
  BY <1>1, CallStays
<1>4. CASE ~cur.fresh
  BY <1>1, <1>2, <1>3, <1>4, DataStale
<1>5. CASE cur.fresh
  <2>1. /\ s.sfd \in Fds /\ fdt[s.sfd].ino = cur.src /\ cur.src \in 1 .. MaxIno
        /\ s.sb.type = ino[cur.src].type
        /\ s.dfd \in Fds /\ s.dfd # s.sfd /\ Dst \in 1 .. MaxIno
        /\ Dst # cur.src => s.sb.data = ino[cur.src].data /\ Progress
    BY <1>1, <1>5, Both
  <2>2. Dst' = Dst /\ CopiesData' = CopiesData
    BY DEF Dst, CopiesData
  <2>3. /\ ino'[cur.src].data = ino[cur.src].data /\ ino'[cur.src].type = ino[cur.src].type
        /\ ino'[Dst].data = ino[Dst].data
    BY <2>1 DEF SameFiles
  <2>4. HasSource'
    BY <2>1, <2>3 DEF HasSource
  <2>5. ASSUME Dst # cur.src PROVE Progress'
    <3>1. PICK from, to, rd, wr : /\ from = ino[cur.src].data /\ to = ino[Dst].data
                                  /\ rd = fdt[s.sfd].off /\ wr = fdt[s.dfd].off
      OBVIOUS
    <3>2. from \in Seq(Block) /\ to \in Seq(Block)
      BY <2>1, <3>1 DEF AllInv, DataInv, FilesInv, IsFile
    <3>3. Begins(to, from, 0)
      BY <3>2 DEF Begins
    <3>4. /\ pc \in {"internal", "xattr"} => rd = 0 /\ wr = 0
          /\ pc = "data" => rd = wr /\ Begins(to, from, wr)
          /\ pc = "write" => /\ CopiesData
                             /\ rd = wr + Len(loc.buf) /\ rd <= Len(from) /\ Begins(to, from, wr)
                             /\ \A k \in 1 .. Len(loc.buf) : loc.buf[k] = from[wr + k]
          /\ pc \in {"security", "stat", "finish"} =>
               (CopiesData /\ s.flags \cap {"PACK", "UNPACK"} = {} /\ "skip" \notin ignored => to = from)
      BY <2>1, <2>5, <3>1 DEF Progress
    <3>5. /\ ino'[cur'.src].data = from /\ ino'[Dst'].data = to
          /\ fdt'[s'.sfd].off = rd /\ fdt'[s'.dfd].off = wr
      BY <2>2, <2>3, <3>1
    <3>6. /\ pc' = "xattr" => rd = 0 /\ wr = 0
          /\ pc' = "data" => rd = wr /\ Begins(to, from, wr)
          /\ pc' = "write" => /\ CopiesData
                              /\ rd = wr + Len(loc.buf) /\ rd <= Len(from) /\ Begins(to, from, wr)
                              /\ \A k \in 1 .. Len(loc.buf) : loc.buf[k] = from[wr + k]
          /\ pc' \in {"security", "stat", "finish"} =>
               (CopiesData /\ s.flags \cap {"PACK", "UNPACK"} = {} /\ "skip" \notin ignored' => to = from)
      BY <3>3, <3>4
    <3>7. pc' # "internal"
      BY <1>1 DEF Copying
    <3>. QED  BY <2>2, <3>5, <3>6, <3>7 DEF Progress, Begins
  <2>6. BothInv'
    BY <2>1, <2>2, <2>3, <2>4, <2>5 DEF BothInv
  <2>7. NamedInv'
    <3>1. SUFFICES ASSUME ~cur.fcopy, name[s.dst] # 0, ino'[name[s.dst]].type = "reg"
                   PROVE  /\ Dst = name[s.dst]
                          /\ (pc' \in {"internal", "xattr", "security", "stat", "finish"}
                              \/ (pc' = "data" /\ ~CopiesData)) /\ "skip" \notin ignored' =>
                             ino'[name[s.dst]].data \in
                               {cur.was.data, <<>>, ino'[cur.src].data, <<<<"packed", cur.src>>>>}
      BY <1>1, <2>2 DEF NamedInv
    <3>2. s.dst \in Names
      BY <1>1, <3>1 DEF AllInv, DataInv, CallInv
    <3>3. name[s.dst] \in 1 .. MaxIno
      BY <3>1, <3>2 DEF AllInv, DataInv, FilesInv, MaxIno
    <3>4. /\ ino[name[s.dst]].type = "reg" /\ ino'[name[s.dst]].data = ino[name[s.dst]].data
      BY <3>1, <3>3 DEF SameFiles
    <3>5. /\ Dst = name[s.dst]
          /\ (pc \in {"internal", "xattr", "security", "stat", "finish"} \/ (pc = "data" /\ ~CopiesData))
             /\ "skip" \notin ignored =>
               ino[name[s.dst]].data \in
                 {cur.was.data, <<>>, ino[cur.src].data, <<<<"packed", cur.src>>>>}
      BY <1>1, <1>5, <3>1, <3>4 DEF AllInv, DataInv, NamedInv
    <3>6. CASE pc # "write"
      BY <2>3, <3>4, <3>5, <3>6
    <3>7. CASE pc = "write"
      BY <3>5, <3>7
    <3>. QED  BY <3>6, <3>7
  <2>8. BeganInv' /\ SourceInv'
    BY <1>1 DEF BeganInv, SourceInv, Copying
  <2>. QED  BY <1>1, <1>2, <1>3, <2>6, <2>7, <2>8, NotExcluded, DataLater DEF DataInv
<1>. QED  BY <1>4, <1>5

LEMMA DataXattr == AllInv /\ Xattr => DataInv'
<1>1. SUFFICES ASSUME AllInv, Xattr PROVE DataInv'
  OBVIOUS
<1>2. SameFiles /\ FileTable
  BY <1>1, FilesKept, SameIsTable DEF AllInv, DataInv
<1>3. pc = "xattr" /\ name' = name
  BY <1>1 DEF Xattr
<1>4. \/ Return(s, -1)
      \/ /\ pc' = "data" /\ ("skip" \in ignored => "skip" \in ignored')
         /\ fdt' = fdt /\ user' = user /\ s' = s /\ loc' = loc /\ cur' = cur
  BY <1>1 DEF Xattr, Fail, Goto, history
<1>5. CASE Return(s, -1)
  BY <1>1, <1>2, <1>3, <1>5, DataFails
<1>6. CASE /\ pc' = "data" /\ ("skip" \in ignored => "skip" \in ignored')
           /\ fdt' = fdt /\ user' = user /\ s' = s /\ loc' = loc /\ cur' = cur
  BY <1>1, <1>2, <1>3, <1>6, DataCopies
<1>. QED  BY <1>4, <1>5, <1>6

LEMMA DataSecurity == AllInv /\ Security => DataInv'
<1>1. SUFFICES ASSUME AllInv, Security PROVE DataInv'
  OBVIOUS
<1>2. SameFiles /\ FileTable
  BY <1>1, FilesKept, SameIsTable DEF AllInv, DataInv
<1>3. pc = "security" /\ name' = name
  BY <1>1 DEF Security
<1>4. \/ Return(s, -1)
      \/ /\ pc' = "stat" /\ ("skip" \in ignored => "skip" \in ignored')
         /\ fdt' = fdt /\ user' = user /\ loc' = loc /\ cur' = cur
         /\ s' = s \/ \E a : s' = [s EXCEPT !.acl = a]
  BY <1>1 DEF Security, Fail, Goto, history
<1>5. CASE Return(s, -1)
  BY <1>1, <1>2, <1>3, <1>5, DataFails
<1>6. CASE /\ pc' = "stat" /\ ("skip" \in ignored => "skip" \in ignored')
           /\ fdt' = fdt /\ user' = user /\ loc' = loc /\ cur' = cur
           /\ s' = s \/ \E a : s' = [s EXCEPT !.acl = a]
  <2>1. s = [f \in StateFields |-> s[f]]
    BY <1>1 DEF AllInv, DescriptorInv, StageInv, IsState
  <2>2. /\ s'.src = s.src /\ s'.dst = s.dst /\ s'.flags = s.flags /\ s'.sb = s.sb
        /\ s'.sfd = s.sfd /\ s'.dfd = s.dfd
    BY <1>6, <2>1 DEF StateFields
  <2>. QED  BY <1>1, <1>2, <1>3, <1>6, <2>2, DataCopies
<1>. QED  BY <1>4, <1>5, <1>6

LEMMA DataEnd == AllInv /\ (Stat \/ RestoreFails \/ ResetFails \/ Finish) => DataInv'
<1>1. SUFFICES ASSUME AllInv, Stat \/ RestoreFails \/ ResetFails \/ Finish PROVE DataInv'
  OBVIOUS
<1>2. SameFiles /\ FileTable
  BY <1>1, FilesKept, SameIsTable DEF AllInv, DataInv
<1>3. CASE Stat \/ RestoreFails \/ ResetFails
  <2>1. /\ pc \in {"stat", "finish"} /\ pc' = "finish" /\ name' = name
        /\ "skip" \in ignored => "skip" \in ignored'
        /\ fdt' = fdt /\ user' = user /\ s' = s /\ loc' = loc /\ cur' = cur
    BY <1>3 DEF Stat, RestoreFails, ResetFails, Goto, history, fs
  <2>. QED  BY <1>1, <1>2, <2>1, DataCopies
<1>4. CASE Finish
  <2>1. PICK st : st = s
    OBVIOUS
  <2>2. Return(st, 0) /\ pc = "finish" /\ name' = name
    BY <1>4, <2>1 DEF Finish
  <2>3. IsFile(st.sb)
    BY <1>1, <2>1 DEF AllInv, DataInv, FilesInv
  <2>4. pc \notin Stages
    BY <2>2 DEF Stages
  <2>. QED  BY <1>1, <1>2, <2>1, <2>2, <2>3, <2>4, DataReturns
<1>. QED  BY <1>1, <1>3, <1>4

\* Only the data of one inode changes.
OnlyWrites(i, d) ==
  /\ FileTable
  /\ \A j \in 1 .. MaxIno : /\ ino'[j].type = ino[j].type
                            /\ j # i => ino'[j].data = ino[j].data
  /\ i \in 1 .. MaxIno => ino'[i].data = d

LEMMA OneWritten ==
  ASSUME FilesInv, NEW i, NEW d, i \in 1 .. MaxIno => d \in Seq(Block),
         ino' = [ino EXCEPT ![i].data = d]
  PROVE  OnlyWrites(i, d)
<1>1. CASE i \notin 1 .. MaxIno
  <2>1. ino' = ino
    BY <1>1 DEF FilesInv
  <2>. QED  BY <1>1, <2>1 DEF FilesInv, FileTable, OnlyWrites
<1>2. CASE i \in 1 .. MaxIno
  <2>1. PICK f, g : f = ino[i] /\ g = [f EXCEPT !.data = d]
    OBVIOUS
  <2>2. IsFile(g) /\ g.data = d /\ g.type = f.type
    BY <1>2, <2>1 DEF FilesInv, IsFile, FileFields
  <2>3. ino' = [ino EXCEPT ![i] = g]
    BY <1>2, <2>1 DEF FilesInv
  <2>4. FileTable /\ \A j \in 1 .. MaxIno : ino'[j] = IF j = i THEN g ELSE ino[j]
    BY <2>2, <2>3, OneReplaced DEF FileTable
  <2>. QED  BY <1>2, <2>1, <2>2, <2>4 DEF OnlyWrites
<1>. QED  BY <1>1, <1>2

\* A stage that may change the data of the destination.
LEMMA DataWritten ==
  ASSUME AllInv, FileTable, pc \in Copying \cup {"internal"}, pc' \in Copying,
         name' = name, cur' = cur, user' = user, s' = s, loc'.fcopy = loc.fcopy,
         loc'.buf \in Seq(Block),
         \A fd \in Fds : fdt'[fd].ino = fdt[fd].ino /\ fdt'[fd].off \in Nat,
         \A j \in 1 .. MaxIno : /\ ino'[j].type = ino[j].type
                                /\ j # Dst => ino'[j].data = ino[j].data,
         cur.fresh /\ Dst # cur.src => Progress',
         cur.fresh /\ Dst # cur.src /\ "skip" \notin ignored'
         /\ (pc' \in {"security", "stat", "finish"} \/ (pc' = "data" /\ ~CopiesData))
           => ino'[Dst].data \in {<<>>, ino[cur.src].data, <<<<"packed", cur.src>>>>},
         pc' # "xattr"
  PROVE  DataInv'
<1>1. /\ pc # "idle" /\ pc' # "idle" /\ pc' \notin Stages /\ pc' # "check" /\ pc' # "internal"
  BY DEF Copying, Stages
<1>2. FilesInv'
  BY DEF AllInv, DataInv, FilesInv, FileTable, IsFile
<1>3. CallInv'
  BY <1>1, CallStays
<1>4. CASE ~cur.fresh
  BY <1>1, <1>2, <1>3, <1>4, DataStale
<1>5. CASE cur.fresh
  <2>1. /\ s.sfd \in Fds /\ fdt[s.sfd].ino = cur.src /\ cur.src \in 1 .. MaxIno
        /\ s.sb.type = ino[cur.src].type
        /\ s.dfd \in Fds /\ s.dfd # s.sfd /\ Dst \in 1 .. MaxIno
        /\ Dst # cur.src => s.sb.data = ino[cur.src].data
    BY <1>5, Both
  <2>2. Dst' = Dst /\ CopiesData' = CopiesData
    BY <2>1 DEF Dst, CopiesData
  <2>3. HasSource'
    BY <2>1 DEF HasSource
  <2>4. BothInv'
    BY <1>5, <2>1, <2>2, <2>3 DEF BothInv
  <2>5. NamedInv'
    <3>1. SUFFICES ASSUME ~cur.fcopy, name[s.dst] # 0, ino'[name[s.dst]].type = "reg"
                   PROVE  /\ Dst = name[s.dst]
                          /\ (pc' \in {"security", "stat", "finish"}
                              \/ (pc' = "data" /\ ~CopiesData)) /\ "skip" \notin ignored' =>
                             ino'[name[s.dst]].data \in
                               {cur.was.data, <<>>, ino'[cur.src].data, <<<<"packed", cur.src>>>>}
      BY <1>1, <2>2 DEF NamedInv
    <3>2. s.dst \in Names
      BY <1>1, <3>1 DEF AllInv, DataInv, CallInv
    <3>3. name[s.dst] \in 1 .. MaxIno
      BY <3>1, <3>2 DEF AllInv, DataInv, FilesInv, MaxIno
    <3>4. ino[name[s.dst]].type = "reg"
      BY <3>1, <3>3
    <3>5. Dst = name[s.dst]
      BY <1>1, <1>5, <3>1, <3>4 DEF AllInv, DataInv, NamedInv
    <3>6. CASE Dst = cur.src
      BY <3>5, <3>6
    <3>7. CASE Dst # cur.src
      BY <1>5, <2>1, <3>5, <3>7
    <3>. QED  BY <3>6, <3>7
  <2>6. BeganInv' /\ SourceInv'
    BY <1>1 DEF BeganInv, SourceInv, Copying
  <2>. QED  BY <1>1, <1>2, <1>3, <2>4, <2>5, <2>6, NotExcluded, DataLater DEF DataInv
<1>. QED  BY <1>4, <1>5

\* The descriptors stay as they are typed.
LEMMA TableTyped ==
  ASSUME FilesInv, fdt' = fdt
  PROVE  \A fd \in Fds : fdt'[fd].ino = fdt[fd].ino /\ fdt'[fd].off \in Nat
BY DEF FilesInv

LEMMA DataInternal == AllInv /\ Internal => DataInv'
<1>1. SUFFICES ASSUME AllInv, Internal PROVE DataInv'
  OBVIOUS
<1>2. pc = "internal" /\ pc \notin Stages
  BY <1>1 DEF Internal, Stages
<1>7. CASE FailUnlinked /\ ino' = ino
  <2>1. SameFiles /\ FileTable
    BY <1>1, <1>7, NothingChanged, SameIsTable DEF AllInv, DataInv
  <2>. QED  BY <1>1, <1>2, <1>7, <2>1, DataFailsUnlinked
<1>3. CASE Return(s, -1) /\ ino' = ino /\ name' = name
  <2>1. SameFiles /\ FileTable
    BY <1>1, <1>3, NothingChanged, SameIsTable DEF AllInv, DataInv
  <2>. QED  BY <1>1, <1>2, <1>3, <2>1, DataFails
<1>4. CASE pc' = "xattr" /\ UNCHANGED <<fs, fdt, user, s, loc, ignored, history, trouble>>
  <2>1. SameFiles
    BY <1>1, <1>4, NothingChanged DEF AllInv, DataInv, fs
  <2>. QED  BY <1>1, <1>2, <1>4, <2>1, DataCopies DEF fs, history
<1>5. CASE /\ s.flags \cap {"PACK", "UNPACK"} # {} /\ pc' = "finish"
           /\ UNCHANGED <<name, fdt, user, s, loc, ignored, history, trouble>>
           /\ ino' = [ino EXCEPT ![Dst].xa = {<<"a", "packed">>}]
  <2>1. PICK i, x : i = Dst /\ x = {<<"a", "packed">>}
    OBVIOUS
  <2>2. SameFiles
    BY <1>1, <1>5, <2>1, SetProperties DEF AllInv, DataInv
  <2>. QED  BY <1>1, <1>2, <1>5, <2>2, DataCopies DEF history
<1>6. CASE /\ "PACK" \in s.flags /\ s.sfd >= 0 /\ pc' = "finish"
           /\ UNCHANGED <<name, fdt, user, s, loc, ignored, history, trouble>>
           /\ ino' = [ino EXCEPT ![Dst].data = <<<<"packed", Src>>>>]
  <2>1. PICK i, d : i = Dst /\ d = <<<<"packed", Src>>>>
    OBVIOUS
  <2>2. d \in Seq(Block)
    <3>1. s.sfd \in Fds
      BY <1>1, <1>6 DEF AllInv, DescriptorInv, StageInv, IsState, NotOpen, Failed
    <3>2. Src \in 0 .. MaxIno
      BY <1>1, <3>1 DEF Src, AllInv, DataInv, FilesInv
    <3>3. Src \in Nat
      BY <3>2 DEF MaxIno
    <3>4. <<"packed", Src>> \in Block
      BY <3>3 DEF Block
    <3>. QED  BY <2>1, <3>4
  <2>3. OnlyWrites(i, d)
    <3>1. ino' = [ino EXCEPT ![i].data = d]
      BY <1>6, <2>1
    <3>2. FilesInv
      BY <1>1 DEF AllInv, DataInv
    <3>. QED  BY <2>2, <3>1, <3>2, OneWritten
  <2>4. Progress'
    BY <1>6 DEF Progress
  <2>5. pc' \in Copying /\ pc \in Copying \cup {"internal"}
    BY <1>2, <1>6 DEF Copying
  <2>6. loc'.buf \in Seq(Block) /\ loc'.fcopy = loc.fcopy /\ cur' = cur
    BY <1>1, <1>6 DEF AllInv, DataInv, FilesInv, history
  <2>7. cur.fresh => Src = cur.src /\ i \in 1 .. MaxIno
    BY <1>1, <2>1, <2>5, Both DEF Src
  <2>8. cur.fresh => ino'[i].data = <<<<"packed", cur.src>>>>
    BY <2>1, <2>3, <2>7 DEF OnlyWrites
  <2>9. \A fd \in Fds : fdt'[fd].ino = fdt[fd].ino /\ fdt'[fd].off \in Nat
    BY <1>1, <1>6, TableTyped DEF AllInv, DataInv
  <2>. QED  BY <1>1, <1>6, <2>1, <2>3, <2>4, <2>5, <2>6, <2>8, <2>9, DataWritten DEF OnlyWrites
<1>. QED  BY <1>1, <1>3, <1>4, <1>5, <1>6, <1>7 DEF Internal, Fail, Goto, fs

LEMMA DataWriteError == AllInv /\ WriteError => DataInv'
<1>1. SUFFICES ASSUME AllInv, WriteError PROVE DataInv'
  OBVIOUS
<1>2. SameFiles /\ FileTable
  BY <1>1, FilesKept, SameIsTable DEF AllInv, DataInv
<1>3. pc = "write" /\ pc \notin Stages
  BY <1>1 DEF WriteError, Stages
<1>4. CASE FailUnlinked
  BY <1>1, <1>2, <1>3, <1>4, DataFailsUnlinked
<1>5. CASE /\ ignored' = ignored \cup {"skip"} /\ pc' = "security"
           /\ UNCHANGED <<fs, fdt, user, s, loc, history, trouble>>
  BY <1>1, <1>2, <1>3, <1>5, DataCopies DEF fs, history
<1>6. CASE RetryWrite /\ UNCHANGED <<fs, fdt, user, s, history, trouble>>
  <2>1. loc'.buf = loc.buf /\ loc'.fcopy = loc.fcopy
    BY <1>1, <1>6 DEF RetryWrite, AllInv, LocalsInv, LocalFields
  <2>2. pc' = pc /\ ignored' = ignored
    BY <1>6 DEF RetryWrite
  <2>. QED  BY <1>1, <1>2, <1>3, <1>6, <2>1, <2>2, DataCopies DEF fs, history
<1>. QED  BY <1>1, <1>4, <1>5, <1>6 DEF WriteError, Fail, Goto

-----------------------------------------------------------------------------
(* Blocks that are read and written.                                       *)

LEMMA ZeroIsBlock == Zero \in Block
BY DEF Zero, Block

\* ftruncate() gives blocks, and the source's when they are all there.
LEMMA Truncated ==
  ASSUME NEW to \in Seq(Block), NEW size \in Nat
  PROVE  /\ Truncate(to, size) \in Seq(Block)
         /\ \A from \in Seq(Block) : size = Len(from) /\ Begins(to, from, size) =>
              Truncate(to, size) = from
<1> DEFINE f == [i \in 1 .. size |-> IF i <= Len(to) THEN to[i] ELSE Zero]
<1>1. Truncate(to, size) = f
  BY DEF Truncate
<1>2. \A i \in 1 .. size : f[i] \in Block
  BY ZeroIsBlock
<1>3. f \in Seq(Block)
  BY <1>2
<1>4. ASSUME NEW from \in Seq(Block), size = Len(from), Begins(to, from, size)
      PROVE  f = from
  <2>1. \A k \in 1 .. size : k <= Len(to) /\ to[k] = from[k]
    BY <1>4 DEF Begins
  <2>2. \A k \in 1 .. size : f[k] = from[k]
    BY <2>1
  <2>3. Len(f) = size
    OBVIOUS
  <2>. HIDE DEF f
  <2>. QED  BY <1>3, <1>4, <2>2, <2>3
<1>. QED  BY <1>1, <1>3, <1>4

\* read() gives the blocks after those that were read before.
LEMMA BlocksRead ==
  ASSUME NEW from \in Seq(Block), NEW rd \in Nat, NEW n \in Nat, rd + n <= Len(from), NEW b,
         b = SubSeq(from, rd + 1, rd + n)
  PROVE  /\ b \in Seq(Block) /\ Len(b) = n
         /\ \A k \in 1 .. n : b[k] = from[rd + k]
<1>1. \A k \in rd + 1 .. rd + n : from[k] \in Block
  OBVIOUS
<1>2. Len(b) = n
  OBVIOUS
<1>3. \A k \in 1 .. n : b[k] = from[rd + k]
  OBVIOUS
<1>4. b \in Seq(Block)
  OBVIOUS
<1>. QED  BY <1>2, <1>3, <1>4

\* write() of blocks at an offset.
LEMMA Written ==
  ASSUME NEW to \in Seq(Block), NEW off \in Nat, NEW b \in Seq(Block), NEW w, w = WriteAt(to, off, b)
  PROVE  /\ w \in Seq(Block) /\ Len(w) >= off + Len(b) /\ Len(w) >= Len(to)
         /\ \A k \in 1 .. Len(b) : w[off + k] = b[k]
         /\ \A k \in 1 .. off : k <= Len(to) => w[k] = to[k]
<1> DEFINE size == IF Len(to) > off + Len(b) THEN Len(to) ELSE off + Len(b)
           f == [i \in 1 .. size |-> IF i > off /\ i <= off + Len(b) THEN b[i - off]
                                     ELSE IF i <= Len(to) THEN to[i] ELSE Zero]
<1>1. w = f
  BY DEF WriteAt
<1>2. size \in Nat /\ size >= off + Len(b) /\ size >= Len(to)
  OBVIOUS
<1>. HIDE DEF size
<1>3. \A i \in 1 .. size : f[i] \in Block
  <2>1. SUFFICES ASSUME NEW i \in 1 .. size PROVE f[i] \in Block
    OBVIOUS
  <2>2. CASE i > off /\ i <= off + Len(b)
    <3>1. i - off \in 1 .. Len(b)
      BY <2>2
    <3>2. f[i] = b[i - off]
      BY <2>2
    <3>. QED  BY <3>1, <3>2
  <2>3. CASE ~(i > off /\ i <= off + Len(b)) /\ i <= Len(to)
    BY <2>3
  <2>4. CASE ~(i > off /\ i <= off + Len(b)) /\ ~(i <= Len(to))
    BY <2>4, ZeroIsBlock
  <2>. QED  BY <2>2, <2>3, <2>4
<1>4. f \in Seq(Block) /\ Len(f) = size
  BY <1>2, <1>3
<1>5. \A k \in 1 .. Len(b) : f[off + k] = b[k]
  <2>1. SUFFICES ASSUME NEW k \in 1 .. Len(b) PROVE f[off + k] = b[k]
    OBVIOUS
  <2>2. off + k \in 1 .. size /\ off + k > off /\ off + k <= off + Len(b) /\ (off + k) - off = k
    BY <1>2
  <2>. QED  BY <2>2
<1>6. \A k \in 1 .. off : k <= Len(to) => f[k] = to[k]
  BY <1>2
<1>. HIDE DEF f
<1>. QED  BY <1>1, <1>2, <1>4, <1>5, <1>6

\* One write() of blocks that come next in the source.
LEMMA WrittenBegins ==
  ASSUME NEW from \in Seq(Block), NEW to \in Seq(Block), NEW wr \in Nat, NEW b \in Seq(Block),
         NEW w, w = WriteAt(to, wr, b)
  PROVE  Begins(to, from, wr) /\ wr + Len(b) <= Len(from)
         /\ (\A k \in 1 .. Len(b) : b[k] = from[wr + k])
           => Begins(w, from, wr + Len(b))
<1>1. /\ w \in Seq(Block) /\ Len(w) >= wr + Len(b) /\ Len(w) >= Len(to)
      /\ \A k \in 1 .. Len(b) : w[wr + k] = b[k]
      /\ \A k \in 1 .. wr : k <= Len(to) => w[k] = to[k]
  BY Written
<1>2. SUFFICES ASSUME Begins(to, from, wr), wr + Len(b) <= Len(from),
                      \A k \in 1 .. Len(b) : b[k] = from[wr + k]
               PROVE  Begins(w, from, wr + Len(b))
  OBVIOUS
<1>3. ASSUME NEW k \in 1 .. wr + Len(b) PROVE w[k] = from[k]
  <2>1. CASE k <= wr
    <3>1. k \in 1 .. wr /\ k <= Len(to) /\ to[k] = from[k]
      BY <1>2, <2>1 DEF Begins
    <3>. QED  BY <1>1, <3>1
  <2>2. CASE ~(k <= wr)
    <3>1. PICK j \in 1 .. Len(b) : k = wr + j
      <4>1. k - wr \in 1 .. Len(b) /\ k = wr + (k - wr)
        BY <2>2
      <4>. QED  BY <4>1
    <3>2. w[k] = b[j] /\ b[j] = from[k]
      BY <1>1, <1>2, <3>1
    <3>. QED  BY <3>2
  <2>. QED  BY <2>1, <2>2
<1>. QED  BY <1>1, <1>2, <1>3 DEF Begins

\* The blocks that a write() takes from the buffer, and the ones it leaves.
LEMMA Parted ==
  ASSUME NEW buf \in Seq(Block), NEW n \in Nat, n <= Len(buf),
         NEW b, b = SubSeq(buf, 1, n), NEW rest, rest = SubSeq(buf, n + 1, Len(buf))
  PROVE  /\ b \in Seq(Block) /\ Len(b) = n /\ \A k \in 1 .. n : b[k] = buf[k]
         /\ rest \in Seq(Block) /\ Len(rest) = Len(buf) - n
         /\ \A k \in 1 .. Len(buf) - n : rest[k] = buf[n + k]
<1>1. b \in Seq(Block) /\ Len(b) = n /\ \A k \in 1 .. n : b[k] = buf[k]
  OBVIOUS
<1>2. Len(rest) = Len(buf) - n /\ \A k \in 1 .. Len(buf) - n : rest[k] = buf[n + k]
  OBVIOUS
<1>3. rest \in Seq(Block)
  OBVIOUS
<1>. QED  BY <1>1, <1>2, <1>3

\* The buffer has the blocks of the source from an offset on.
Follows(b, from, off) ==
  off + Len(b) <= Len(from) /\ \A k \in 1 .. Len(b) : b[k] = from[off + k]

\* What a write() of n blocks at off does, whatever the source is.
WritesOn(to, w, buf, rest, off, n) ==
  to \in Seq(Block) => \A from \in Seq(Block) : Begins(to, from, off) /\ Follows(buf, from, off) =>
    /\ Begins(w, from, off + n) /\ Follows(rest, from, off + n)
    /\ (off + n) + Len(rest) = off + Len(buf)

\* One write() of a buffer whose blocks come next in the source.
LEMMA WriteGoesOn ==
  ASSUME NEW to, NEW buf \in Seq(Block), NEW wr \in Nat, NEW n \in Nat, n <= Len(buf),
         NEW b, b = SubSeq(buf, 1, n), NEW rest, rest = SubSeq(buf, n + 1, Len(buf)),
         NEW w, w = WriteAt(to, wr, b)
  PROVE  WritesOn(to, w, buf, rest, wr, n)
<1>1. /\ b \in Seq(Block) /\ Len(b) = n /\ \A k \in 1 .. n : b[k] = buf[k]
      /\ rest \in Seq(Block) /\ Len(rest) = Len(buf) - n
      /\ \A k \in 1 .. Len(buf) - n : rest[k] = buf[n + k]
  BY Parted
<1>2. SUFFICES ASSUME to \in Seq(Block), NEW from \in Seq(Block), Begins(to, from, wr),
                      wr + Len(buf) <= Len(from), \A k \in 1 .. Len(buf) : buf[k] = from[wr + k]
               PROVE  /\ Begins(w, from, wr + n) /\ Follows(rest, from, wr + n)
                      /\ (wr + n) + Len(rest) = wr + Len(buf)
  BY DEF WritesOn, Follows
<1>3. PICK m \in Nat, fl \in Nat : m = Len(buf) /\ fl = Len(from)
  OBVIOUS
<1>4. n <= m /\ wr + m <= fl /\ Len(b) = n /\ Len(rest) = m - n
  BY <1>1, <1>2, <1>3
<1>5. wr + n <= fl
  BY <1>4
<1>6. \A k \in 1 .. n : b[k] = from[wr + k]
  <2>1. SUFFICES ASSUME NEW k \in 1 .. n PROVE b[k] = from[wr + k]
    OBVIOUS
  <2>2. k \in 1 .. Len(buf)
    BY <1>3, <1>4
  <2>. QED  BY <1>1, <1>2, <2>2
<1>7. Begins(w, from, wr + n)
  <2>1. wr + Len(b) <= Len(from) /\ \A k \in 1 .. Len(b) : b[k] = from[wr + k]
    BY <1>3, <1>4, <1>5, <1>6
  <2>2. Begins(w, from, wr + Len(b))
    BY <1>1, <1>2, <2>1, WrittenBegins
  <2>. QED  BY <1>4, <2>2
<1>8. ASSUME NEW k \in 1 .. Len(rest) PROVE rest[k] = from[(wr + n) + k]
  <2>1. n + k \in 1 .. Len(buf) /\ wr + (n + k) = (wr + n) + k /\ k \in 1 .. Len(buf) - n
    BY <1>3, <1>4
  <2>2. rest[k] = buf[n + k] /\ buf[n + k] = from[wr + (n + k)]
    BY <1>1, <1>2, <2>1
  <2>. QED  BY <2>1, <2>2
<1>9. (wr + n) + Len(rest) = wr + Len(buf)
  <2>1. \A x, y, z \in Nat : y <= z => (x + y) + (z - y) = x + z
    OBVIOUS
  <2>2. (wr + n) + (m - n) = wr + m
    BY <1>4, <2>1
  <2>. QED  BY <1>3, <1>4, <2>2
<1>10. Follows(rest, from, wr + n)
  BY <1>2, <1>8, <1>9 DEF Follows
<1>. QED  BY <1>7, <1>9, <1>10

LEMMA MinOfTwo ==
  ASSUME NEW a \in Int, NEW b \in Int
  PROVE  Min({a, b}) \in {a, b} /\ Min({a, b}) <= a /\ Min({a, b}) <= b
<1>1. \E x \in {a, b} : \A y \in {a, b} : x <= y
  OBVIOUS
<1>. QED  BY <1>1 DEF Min

\* The source while the data is copied.
LEMMA SourceData ==
  ASSUME AllInv, pc \in Copying
  PROVE  /\ s.sfd \in Fds /\ Src \in 1 .. MaxIno /\ ino[Src].data \in Seq(Block)
         /\ fdt[s.sfd].off \in Nat /\ s.dfd \in Fds /\ fdt[s.dfd].off \in Nat
         /\ Dst \in 0 .. MaxIno /\ (Dst \in 1 .. MaxIno => ino[Dst].data \in Seq(Block))
         /\ loc.buf \in Seq(Block)
<1>1. pc # "idle"
  BY DEF Copying
<1>2. s.sfd \in Fds /\ s.dfd \in Fds /\ Holder = s
  BY <1>1 DEF AllInv, DescriptorInv, StageInv, Holder
<1>3. Src # 0
  BY <1>2 DEF AllInv, SourceOpen, Src
<1>4. Src \in 0 .. MaxIno /\ fdt[s.sfd].off \in Nat /\ fdt[s.dfd].off \in Nat /\ Dst \in 0 .. MaxIno
  BY <1>2 DEF AllInv, DataInv, FilesInv, Src, Dst
<1>5. Src \in 1 .. MaxIno
  BY <1>3, <1>4 DEF MaxIno
<1>6. \A i \in 1 .. MaxIno : ino[i].data \in Seq(Block)
  BY DEF AllInv, DataInv, FilesInv, IsFile
<1>7. loc.buf \in Seq(Block)
  BY DEF AllInv, DataInv, FilesInv
<1>. QED  BY <1>2, <1>4, <1>5, <1>6, <1>7

\* The offset of one descriptor is moved.
LEMMA MovedOffset ==
  ASSUME TableInv, FilesInv, NEW x \in Fds, NEW o \in Nat, fdt' = [fdt EXCEPT ![x].off = o]
  PROVE  /\ \A fd \in Fds : fdt'[fd].ino = fdt[fd].ino /\ fdt'[fd].off \in Nat
         /\ fdt'[x].off = o
         /\ \A fd \in Fds : fd # x => fdt'[fd].off = fdt[fd].off
<1>1. PICK a, b, c : fdt[x] = [ino |-> a, off |-> b, by |-> c]
  <2>1. fdt[x] = [ino |-> fdt[x].ino, off |-> fdt[x].off, by |-> fdt[x].by]
    BY DEF TableInv
  <2>. QED  BY <2>1
<1>2. fdt = [fd \in Fds |-> fdt[fd]]
  BY DEF TableInv
<1>3. fdt'[x] = [fdt[x] EXCEPT !.off = o] /\ \A fd \in Fds : fd # x => fdt'[fd] = fdt[fd]
  BY <1>2
<1>4. fdt'[x] = [ino |-> a, off |-> o, by |-> c]
  BY <1>1, <1>3
<1>5. fdt'[x].ino = fdt[x].ino /\ fdt'[x].off = o
  BY <1>1, <1>4
<1>6. \A fd \in Fds : fdt[fd].off \in Nat
  BY DEF FilesInv
<1>. QED  BY <1>3, <1>5, <1>6

\* read() has given something.
LEMMA DataReads ==
  ASSUME AllInv, pc = "data", pc' = "write", CopiesData, NEW off, off = fdt[s.sfd].off,
         NEW from, from = ino[Src].data, NEW n \in Nat,
         NEW b \in Seq(Block), Len(b) = n, Follows(b, from, off),
         loc' = [loc EXCEPT !.buf = b, !.zeros = 0],
         fdt' = [fdt EXCEPT ![s.sfd].off = off + n], name' = name, ino' = ino, user' = user,
         s' = s, cur' = cur
  PROVE  DataInv'
<1>1. pc \in Copying /\ pc' \in Copying
  BY DEF Copying
<1>2. /\ s.sfd \in Fds /\ Src \in 1 .. MaxIno /\ from \in Seq(Block) /\ off \in Nat
      /\ s.dfd \in Fds /\ fdt[s.dfd].off \in Nat
  BY <1>1, SourceData
<1>5. loc'.buf = b /\ loc'.fcopy = loc.fcopy
  BY DEF AllInv, LocalsInv, LocalFields
<1>6. PICK x \in Fds, o \in Nat : x = s.sfd /\ o = off + n
  BY <1>2
<1>7. /\ \A fd \in Fds : fdt'[fd].ino = fdt[fd].ino /\ fdt'[fd].off \in Nat
      /\ fdt'[x].off = o
      /\ \A fd \in Fds : fd # x => fdt'[fd].off = fdt[fd].off
  <2>1. fdt' = [fdt EXCEPT ![x].off = o]
    BY <1>6
  <2>. QED  BY <2>1, MovedOffset DEF AllInv, DescriptorInv, DataInv
<1>8. FileTable
  BY DEF AllInv, DataInv, FilesInv, FileTable
<1>9. ASSUME cur.fresh, Dst # cur.src
      PROVE  Progress'
  <2>1. /\ s.dfd # s.sfd /\ Src = cur.src /\ Progress
    BY <1>1, <1>9, Both DEF Src
  <2>2. PICK to, wr : to = ino[Dst].data /\ wr = fdt[s.dfd].off
    OBVIOUS
  <2>3. off = wr /\ Begins(to, from, wr)
    BY <2>1, <2>2 DEF Progress
  <2>4. /\ fdt'[s'.dfd].off = wr /\ fdt'[s'.sfd].off = o /\ ino'[cur'.src].data = from
        /\ Dst' = Dst /\ ino'[Dst'].data = to /\ CopiesData'
    BY <1>2, <1>6, <1>7, <2>1, <2>2 DEF Dst, CopiesData
  <2>5. o = wr + Len(b) /\ o <= Len(from) /\ \A k \in 1 .. Len(b) : b[k] = from[wr + k]
    BY <1>6, <2>3 DEF Follows
  <2>. QED  BY <1>5, <2>3, <2>4, <2>5 DEF Progress, Begins
<1>. QED  BY <1>1, <1>5, <1>7, <1>8, <1>9, DataWritten

\* All is read, and the destination cut to the source's size.
LEMMA DataTruncates ==
  ASSUME AllInv, pc = "data", pc' = "security", CopiesData, NEW off, off = fdt[s.sfd].off,
         NEW from, from = ino[Src].data, off >= Len(from), NEW to, to = ino[Dst].data,
         NEW d, d = Truncate(to, Len(s.sb.data)), NEW i, i = Dst, OnlyWrites(i, d),
         name' = name, fdt' = fdt, user' = user, s' = s, loc' = loc, cur' = cur
  PROVE  DataInv'
<1>1. pc \in Copying /\ pc' \in Copying
  BY DEF Copying
<1>2. /\ Src \in 1 .. MaxIno /\ from \in Seq(Block) /\ off \in Nat /\ loc.buf \in Seq(Block)
      /\ Dst \in 1 .. MaxIno => to \in Seq(Block)
  BY <1>1, SourceData
<1>3. PICK size : size = Len(s.sb.data)
  OBVIOUS
<1>4. size \in Nat
  BY <1>3 DEF AllInv, DataInv, FilesInv, IsFile
<1>7. ASSUME cur.fresh, Dst # cur.src
      PROVE  Progress' /\ ino'[Dst].data = ino[cur.src].data
  <2>1. /\ Src = cur.src /\ Progress /\ i \in 1 .. MaxIno /\ s.sb.data = ino[cur.src].data
    BY <1>1, <1>3, <1>7, Both DEF Src
  <2>2. PICK wr : wr = fdt[s.dfd].off
    OBVIOUS
  <2>3. off = wr /\ Begins(to, from, wr) /\ size = Len(from)
    BY <1>3, <2>1, <2>2 DEF Progress
  <2>4. wr = Len(from)
    BY <1>2, <2>3 DEF Begins
  <2>5. d = from
    BY <1>2, <1>3, <1>4, <2>1, <2>3, <2>4, Truncated
  <2>6. /\ ino'[i].data = from /\ ino'[cur.src].data = from
    BY <1>2, <1>3, <1>7, <2>1, <2>5 DEF OnlyWrites
  <2>7. Dst' = i /\ cur'.src = cur.src /\ pc' = "security"
    BY <1>3 DEF Dst
  <2>8. Progress'
    BY <2>6, <2>7 DEF Progress
  <2>. QED  BY <1>3, <2>1, <2>6, <2>8
<1>8. \A fd \in Fds : fdt'[fd].ino = fdt[fd].ino /\ fdt'[fd].off \in Nat
  BY TableTyped DEF AllInv, DataInv
<1>. QED  BY <1>1, <1>2, <1>3, <1>7, <1>8, DataWritten DEF OnlyWrites

LEMMA DataRead == AllInv /\ ReadBlocks => DataInv'
<1>1. SUFFICES ASSUME AllInv, ReadBlocks PROVE DataInv'
  OBVIOUS
<1>2. pc = "data" /\ pc \in Copying /\ pc \notin Stages
  BY <1>1 DEF ReadBlocks, Copying, Stages
<1>3. PICK off, from, to : off = fdt[s.sfd].off /\ from = ino[Src].data /\ to = ino[Dst].data
  OBVIOUS
<1>4. from \in Seq(Block) /\ off \in Nat
  BY <1>1, <1>2, <1>3, SourceData
<1>5. PICK n, left : n = Min({IBlk, left}) /\ left = Len(from) - off
  OBVIOUS
<1>6. IBlk \in Int /\ left \in Int /\ IBlk > 0
  BY <1>4, <1>5, CopyAssumption
<1>7. n \in {IBlk, left} /\ n <= left /\ n \in Int
  BY <1>5, <1>6, MinOfTwo
<1>8. PICK b : b = SubSeq(from, off + 1, off + n)
  OBVIOUS
<1>9. CASE ~CopiesData /\ pc' = "security" /\ UNCHANGED <<fs, fdt, user, s, loc, ignored, history, trouble>>
  <2>1. SameFiles
    BY <1>1, <1>9, NothingChanged DEF AllInv, DataInv, fs
  <2>. QED  BY <1>1, <1>2, <1>9, <2>1, DataCopies DEF fs, history
<1>10. CASE /\ CopiesData /\ n > 0 /\ loc' = [loc EXCEPT !.buf = b, !.zeros = 0]
            /\ fdt' = [fdt EXCEPT ![s.sfd].off = off + n] /\ pc' = "write"
            /\ UNCHANGED <<fs, user, s, ignored, history, trouble>>
  <2>1. n \in Nat /\ off + n <= Len(from)
    BY <1>4, <1>5, <1>7, <1>10
  <2>3. b \in Seq(Block) /\ Len(b) = n /\ \A k \in 1 .. n : b[k] = from[off + k]
    BY <1>4, <1>8, <2>1, BlocksRead
  <2>4. Follows(b, from, off)
    BY <2>1, <2>3 DEF Follows
  <2>5. b \in Seq(Block) /\ Len(b) = n
    BY <2>3
  <2>2. name' = name /\ ino' = ino /\ user' = user /\ s' = s /\ cur' = cur
    BY <1>10 DEF fs, history
  <2>. QED  BY <1>1, <1>2, <1>3, <1>10, <2>1, <2>2, <2>4, <2>5, DataReads
<1>11. CASE /\ CopiesData /\ n <= 0 /\ ino' = [ino EXCEPT ![Dst].data = Truncate(@, Len(s.sb.data))]
            /\ pc' = "security" /\ UNCHANGED <<name, fdt, user, s, loc, ignored, history, trouble>>
  <2>1. off >= Len(from)
    BY <1>4, <1>5, <1>6, <1>7, <1>11
  <2>2. PICK d : d = Truncate(to, Len(s.sb.data))
    OBVIOUS
  <2>3. PICK i : i = Dst
    OBVIOUS
  <2>5. OnlyWrites(i, d)
    <3>1. ino' = [ino EXCEPT ![i].data = d]
      BY <1>3, <1>11, <2>2, <2>3
    <3>2. FilesInv
      BY <1>1 DEF AllInv, DataInv
    <3>3. PICK size : size = Len(s.sb.data)
      OBVIOUS
    <3>4. size \in Nat
      BY <1>1, <3>3 DEF AllInv, DataInv, FilesInv, IsFile
    <3>5. i \in 1 .. MaxIno => to \in Seq(Block)
      BY <1>1, <1>2, <1>3, <2>3, SourceData
    <3>6. i \in 1 .. MaxIno => d \in Seq(Block)
      BY <2>2, <3>3, <3>4, <3>5, Truncated
    <3>. QED  BY <3>1, <3>2, <3>6, OneWritten
  <2>4. cur' = cur
    BY <1>11 DEF history
  <2>. QED  BY <1>1, <1>2, <1>3, <1>11, <2>1, <2>2, <2>3, <2>4, <2>5, DataTruncates
<1>12. CASE FailUnlinked /\ ino' = ino
  <2>1. SameFiles /\ FileTable
    BY <1>1, <1>12, NothingChanged, SameIsTable DEF AllInv, DataInv
  <2>. QED  BY <1>1, <1>2, <1>12, <2>1, DataFailsUnlinked
<1>. QED  BY <1>1, <1>3, <1>5, <1>8, <1>9, <1>10, <1>11, <1>12 DEF ReadBlocks, Fail, Goto

\* One write() of what was read.
LEMMA DataWrites ==
  ASSUME AllInv, pc = "write", NEW n \in Nat, NEW off, off = fdt[s.dfd].off,
         NEW buf, buf = loc.buf, NEW rest \in Seq(Block), NEW to, to = ino[Dst].data,
         NEW w, NEW i, i = Dst, OnlyWrites(i, w), WritesOn(to, w, buf, rest, off, n),
         loc'.buf = rest, loc'.fcopy = loc.fcopy, fdt' = [fdt EXCEPT ![s.dfd].off = off + n],
         pc' \in {"data", "write"}, pc' = "data" => Len(rest) = 0,
         name' = name, user' = user, s' = s, cur' = cur
  PROVE  DataInv'
<1>1. pc \in Copying /\ pc' \in Copying /\ pc' \in {"data", "write"}
  BY DEF Copying
<1>2. /\ s.sfd \in Fds /\ s.dfd \in Fds /\ off \in Nat /\ buf \in Seq(Block)
      /\ Dst \in 1 .. MaxIno => to \in Seq(Block)
  BY <1>1, SourceData
<1>4. PICK x \in Fds, o \in Nat : x = s.dfd /\ o = off + n
  BY <1>2
<1>5. /\ \A fd \in Fds : fdt'[fd].ino = fdt[fd].ino /\ fdt'[fd].off \in Nat
      /\ fdt'[x].off = o
      /\ \A fd \in Fds : fd # x => fdt'[fd].off = fdt[fd].off
  <2>1. fdt' = [fdt EXCEPT ![x].off = o]
    BY <1>4
  <2>2. TableInv /\ FilesInv
    BY DEF AllInv, DescriptorInv, DataInv
  <2>. QED  BY <2>1, <2>2, MovedOffset
<1>6. ASSUME cur.fresh, Dst # cur.src
      PROVE  Progress' /\ CopiesData
  <2>1. /\ s.dfd # s.sfd /\ Progress /\ i \in 1 .. MaxIno /\ cur.src \in 1 .. MaxIno
    BY <1>1, <1>6, Both
  <2>2. PICK from, rd : from = ino[cur.src].data /\ rd = fdt[s.sfd].off
    OBVIOUS
  <2>3. from \in Seq(Block) /\ to \in Seq(Block)
    BY <1>2, <2>1, <2>2 DEF AllInv, DataInv, FilesInv, IsFile
  <2>4. /\ CopiesData /\ rd = off + Len(buf) /\ rd <= Len(from) /\ Begins(to, from, off)
        /\ Follows(buf, from, off)
    BY <2>1, <2>2 DEF Progress, Follows
  <2>5. /\ Begins(w, from, off + n) /\ Follows(rest, from, off + n)
        /\ (off + n) + Len(rest) = off + Len(buf)
    BY <2>3, <2>4 DEF WritesOn
  <2>6. /\ fdt'[s'.dfd].off = o /\ fdt'[s'.sfd].off = rd /\ Dst' = Dst /\ CopiesData'
    BY <1>2, <1>4, <1>5, <2>1, <2>2, <2>4 DEF Dst, CopiesData
  <2>7. ino'[Dst'].data = w /\ ino'[cur'.src].data = from
    BY <1>6, <2>1, <2>2, <2>6 DEF OnlyWrites
  <2>8. /\ Begins(w, from, o) /\ rd = o + Len(rest)
        /\ \A k \in 1 .. Len(rest) : rest[k] = from[o + k]
    BY <1>4, <2>4, <2>5 DEF Follows
  <2>9. pc' = "data" => rd = o
    <3>1. SUFFICES ASSUME pc' = "data" PROVE rd = o
      OBVIOUS
    <3>2. Len(rest) = 0
      BY <3>1
    <3>3. rd = o + 0
      BY <2>8, <3>2
    <3>. QED  BY <1>4, <3>3
  <2>10. Progress'
    BY <1>1, <2>4, <2>6, <2>7, <2>8, <2>9 DEF Progress, Begins
  <2>. QED  BY <2>4, <2>10
<1>. QED  BY <1>1, <1>5, <1>6, DataWritten DEF OnlyWrites

LEMMA DataWrite ==
  ASSUME AllInv, NEW n \in 0 .. OBlk, WriteBlocks(n)
  PROVE  DataInv'
<1>1. pc = "write" /\ pc \in Copying /\ pc \notin Stages
  BY DEF WriteBlocks, Copying, Stages
<1>2. PICK off, buf, to, i : /\ off = fdt[s.dfd].off /\ buf = loc.buf
                             /\ to = ino[Dst].data /\ i = Dst
  OBVIOUS
<1>3. /\ off \in Nat /\ buf \in Seq(Block) /\ (i \in 1 .. MaxIno => to \in Seq(Block))
  BY <1>1, <1>2, SourceData
<1>4. n \in Nat /\ n <= Len(buf)
  BY <1>2, CopyAssumption DEF WriteBlocks
<1>5. PICK b, rest : b = SubSeq(buf, 1, n) /\ rest = SubSeq(buf, n + 1, Len(buf))
  OBVIOUS
<1>6. PICK w : w = WriteAt(to, off, b)
  OBVIOUS
<1>7. b \in Seq(Block) /\ rest \in Seq(Block)
  BY <1>3, <1>4, <1>5, Parted
<1>11. WritesOn(to, w, buf, rest, off, n)
  BY <1>3, <1>4, <1>5, <1>6, WriteGoesOn
<1>8. OnlyWrites(i, w)
  <2>1. ino' = [ino EXCEPT ![i].data = w]
    BY <1>2, <1>5, <1>6 DEF WriteBlocks
  <2>2. i \in 1 .. MaxIno => w \in Seq(Block)
    BY <1>3, <1>6, <1>7, Written
  <2>3. FilesInv
    BY DEF AllInv, DataInv
  <2>. QED  BY <2>1, <2>2, <2>3, OneWritten
<1>9. CASE FailUnlinked
  BY <1>1, <1>8, <1>9, DataFailsUnlinked DEF OnlyWrites
<1>10. ASSUME NEW tick, loc' = [loc EXCEPT !.buf = rest, !.zeros = tick],
              fdt' = [fdt EXCEPT ![s.dfd].off = off + n],
              pc' = IF rest = <<>> THEN "data" ELSE "write",
              UNCHANGED <<name, user, s, ignored, history, trouble>>
       PROVE  DataInv'
  <2>1. loc'.buf = rest /\ loc'.fcopy = loc.fcopy
    BY <1>10 DEF AllInv, LocalsInv, LocalFields
  <2>2. cur' = cur
    BY <1>10 DEF history
  <2>3. pc' \in {"data", "write"} /\ (pc' = "data" => Len(rest) = 0)
    BY <1>10
  <2>. QED  BY <1>1, <1>2, <1>4, <1>7, <1>8, <1>10, <1>11, <2>1, <2>2, <2>3, DataWrites
<1>. QED  BY <1>2, <1>5, <1>9, <1>10 DEF WriteBlocks, Fail, Goto

-----------------------------------------------------------------------------
(* The source stays open.                                                  *)

LEMMA SourceReturnsWith ==
  ASSUME DescriptorInv, SourceOpen, pc # "idle", NEW st, NEW r, NEW e, ReturnWith(st, r, e),
         st.sfd \in {s.sfd, Failed}
  PROVE  SourceOpen'
<1>1. Holder = s /\ Holder' = user'
  BY DEF Holder, ReturnWith
<1>2. CASE loc.null
  <2>1. user' = NoState
    BY <1>2 DEF ReturnWith, DescriptorInv, StageInv
  <2>2. NoState.sfd = NotOpen
    BY DEF NoState, NewState
  <2>. QED  BY <1>1, <2>1, <2>2, NotOpenIsNone DEF SourceOpen
<1>3. CASE ~loc.null
  <2>1. user' = st /\ fdt' = fdt
    BY <1>3 DEF ReturnWith
  <2>. QED  BY <1>1, <2>1, NotOpenIsNone DEF SourceOpen
<1>. QED  BY <1>2, <1>3

LEMMA SourceReturns ==
  ASSUME DescriptorInv, SourceOpen, pc # "idle", NEW st, NEW r, Return(st, r),
         st.sfd \in {s.sfd, Failed}
  PROVE  SourceOpen'
BY SourceReturnsWith DEF Return

\* A state that has the name of its source owns the descriptor.
LEMMA NamedIsOpen ==
  ASSUME DescriptorInv', Holder'.src # NoName
  PROVE  SourceOpen'
BY DEF DescriptorInv, Owns, Lib, SourceOpen

\* A step of a call that has no name for its source, or of any, that opens nothing.
LEMMA SourceInside ==
  ASSUME SourceOpen, pc # "idle", pc' # "idle", s'.sfd = s.sfd,
         \A fd \in Fds : fdt'[fd].ino = fdt[fd].ino
  PROVE  SourceOpen'
BY DEF SourceOpen, Holder

LEMMA SourceStages ==
  ASSUME AllInv, DescriptorInv',
         \/ MakePermissive \/ NoMemory \/ Check \/ OpenSource \/ RemoveDestination
         \/ MakeSpecial \/ OpenLoop
  PROVE  SourceOpen'
<1>1. pc \in Stages /\ pc # "idle"
  BY DEF MakePermissive, NoMemory, Check, OpenSource, RemoveDestination, MakeSpecial, OpenLoop, Stages
<1>2. s.src # NoName /\ s = [f \in StateFields |-> s[f]]
  BY <1>1 DEF AllInv, DescriptorInv, StageInv, IsState
<1>3. CASE pc' # "idle" /\ s'.src = s.src
  BY <1>2, <1>3, NamedIsOpen DEF Holder
<1>4. ASSUME NEW st, NEW r, Return(st, r), st.sfd \in {s.sfd, Failed}
      PROVE  SourceOpen'
  BY <1>1, <1>4, SourceReturns DEF AllInv
<1>r. ASSUME NEW r, Return(s, r) PROVE SourceOpen'
  <2>1. s.sfd \in {s.sfd, Failed}
    OBVIOUS
  <2>. QED  BY <1>4, <1>r, <2>1
<1>x. ASSUME NEW a, NEW c, NEW st, st = [s EXCEPT !.sb = a, !.acl = c], NEW r, Return(st, r)
      PROVE  SourceOpen'
  <2>1. st.sfd = s.sfd
    BY <1>2, <1>x DEF StateFields
  <2>. QED  BY <1>4, <1>x, <2>1
<1>y. ASSUME NEW a, NEW c, NEW st, st = [s EXCEPT !.sb = a, !.acl = c, !.sfd = Failed], NEW r, Return(st, r)
      PROVE  SourceOpen'
  <2>1. st.sfd = Failed
    BY <1>2, <1>y DEF StateFields
  <2>. QED  BY <1>4, <1>y, <2>1
<1>z. ASSUME NEW d, NEW r, NEW st, st = [s EXCEPT !.dfd = d], Return(st, r)
      PROVE  SourceOpen'
  <2>1. st.sfd = s.sfd
    BY <1>2, <1>z DEF StateFields
  <2>. QED  BY <1>4, <1>z, <2>1
<1>5. CASE MakePermissive
  BY <1>3, <1>5 DEF MakePermissive, Goto
<1>6. CASE NoMemory \/ Check
  <2>1. \/ \E r : Return(s, r)
        \/ \E a, c, r : Return([s EXCEPT !.sb = a, !.acl = c], r)
    BY <1>6 DEF NoMemory, Check
  <2>2. ASSUME NEW a, NEW c, NEW r, Return([s EXCEPT !.sb = a, !.acl = c], r) PROVE SourceOpen'
    BY <1>x, <2>2, Zenon
  <2>. QED  BY <1>r, <2>1, <2>2, Zenon
<1>7. CASE OpenSource
  <2>1. PICK i : i = Look(s.src, "NOFOLLOW_SRC" \in s.flags)
    OBVIOUS
  <2>2. PICK st : st = [s EXCEPT !.sb = ino[i], !.acl = ino[i].acl]
    OBVIOUS
  <2>3. PICK failed : failed = [s EXCEPT !.sb = ino[i], !.acl = ino[i].acl, !.sfd = Failed]
    OBVIOUS
  <2>4. \/ pc' = "opendst" /\ s' = s
        \/ Return(s, -1) \/ Return(st, -1) \/ Return(failed, -1)
        \/ /\ pc' = "opendst"
           /\ s' = [s EXCEPT !.sb = ino[i], !.acl = ino[i].acl, !.sfd = Min(FreeFds)]
    BY <1>7, <2>1, <2>2, <2>3 DEF OpenSource, Goto
  <2>5. CASE /\ pc' = "opendst"
             /\ s' = [s EXCEPT !.sb = ino[i], !.acl = ino[i].acl, !.sfd = Min(FreeFds)]
    <3>1. PICK a, c, fd : s' = [s EXCEPT !.sb = a, !.acl = c, !.sfd = fd]
      BY <2>5
    <3>2. pc' # "idle" /\ s'.src = s.src
      BY <1>2, <2>5, <3>1 DEF StateFields
    <3>. QED  BY <1>3, <3>2
  <2>6. CASE Return(st, -1) \/ Return(failed, -1)
    <3>1. PICK a, c : /\ st = [s EXCEPT !.sb = a, !.acl = c]
                      /\ failed = [s EXCEPT !.sb = a, !.acl = c, !.sfd = Failed]
      BY <2>2, <2>3
    <3>. QED  BY <1>x, <1>y, <2>6, <3>1, Zenon
  <2>7. CASE Return(s, -1)
    BY <1>r, <2>7
  <2>. QED  BY <1>3, <2>4, <2>5, <2>6, <2>7
<1>8. CASE RemoveDestination
  <2>1. (pc' # "idle" /\ s' = s) \/ \E r : Return(s, r)
    BY <1>8 DEF RemoveDestination, Goto
  <2>. QED  BY <1>3, <1>r, <2>1
<1>9. CASE MakeSpecial \/ OpenLoop
  <2>1. \/ pc' # "idle" /\ s' = s
        \/ \E d : pc' = "internal" /\ s' = [s EXCEPT !.dfd = d]
        \/ \E r : Return(s, r)
        \/ \E d, r : Return([s EXCEPT !.dfd = d], r)
    BY <1>1, <1>9 DEF MakeSpecial, OpenMade, OpenLoop, OpenFails, Goto
  <2>2. CASE \E d : pc' = "internal" /\ s' = [s EXCEPT !.dfd = d]
    <3>1. pc' # "idle" /\ s'.src = s.src
      BY <1>2, <2>2 DEF StateFields
    <3>. QED  BY <1>3, <3>1
  <2>3. ASSUME NEW d, NEW r, Return([s EXCEPT !.dfd = d], r) PROVE SourceOpen'
    BY <1>z, <2>3, Zenon
  <2>. QED  BY <1>3, <1>r, <2>1, <2>2, <2>3
<1>. QED  BY <1>5, <1>6, <1>7, <1>8, <1>9

LEMMA SourceCopies ==
  ASSUME AllInv, \/ Internal \/ Xattr \/ ReadBlocks \/ WriteError
                 \/ \E n \in 0 .. OBlk : WriteBlocks(n)
                 \/ Security \/ Stat \/ RestoreFails \/ ResetFails \/ Finish
  PROVE  SourceOpen'
<1>1. pc \in Copying \cup {"internal"} /\ pc # "idle"
  BY DEF Internal, Xattr, ReadBlocks, WriteError, WriteBlocks, Security, Stat, RestoreFails, ResetFails, Finish,
     Copying
<1>2. s = [f \in StateFields |-> s[f]]
  BY DEF AllInv, DescriptorInv, StageInv, IsState
<1>3. ASSUME NEW r, Return(s, r) PROVE SourceOpen'
  <2>1. PICK st : st = s
    OBVIOUS
  <2>2. Return(st, r)
    BY <1>3, <2>1
  <2>. QED  BY <1>1, <2>1, <2>2, SourceReturns DEF AllInv
<1>u. CASE FailUnlinked
  <2>1. ASSUME NEW e, ReturnWith(s, -1, e) PROVE SourceOpen'
    <3>1. PICK st : st = s
      OBVIOUS
    <3>2. ReturnWith(st, -1, e) /\ st.sfd \in {s.sfd, Failed}
      BY <2>1, <3>1
    <3>. QED  BY <1>1, <3>2, SourceReturnsWith DEF AllInv
  <2>. QED  BY <1>3, <1>u, <2>1, Zenon DEF FailUnlinked, Fail
<1>4. CASE pc' # "idle" /\ fdt' = fdt /\ (s' = s \/ \E a : s' = [s EXCEPT !.acl = a])
  <2>1. s'.sfd = s.sfd
    BY <1>2, <1>4 DEF StateFields
  <2>. QED  BY <1>1, <1>4, <2>1, SourceInside DEF AllInv
<1>5. CASE Internal \/ Xattr \/ WriteError \/ Stat \/ RestoreFails \/ ResetFails \/ Finish
  <2>1. (pc' # "idle" /\ fdt' = fdt /\ s' = s) \/ (\E r : Return(s, r)) \/ FailUnlinked
    BY <1>1, <1>5 DEF Internal, Xattr, WriteError, RetryWrite, Stat, RestoreFails, ResetFails, Finish, Fail, Goto
  <2>. QED  BY <1>3, <1>4, <1>u, <2>1
<1>6. CASE Security
  <2>1. \/ pc' # "idle" /\ fdt' = fdt /\ (s' = s \/ \E a : s' = [s EXCEPT !.acl = a])
        \/ \E r : Return(s, r)
    BY <1>6 DEF Security, Fail, Goto
  <2>. QED  BY <1>3, <1>4, <2>1
<1>7. CASE ReadBlocks \/ \E n \in 0 .. OBlk : WriteBlocks(n)
  <2>1. \/ pc' # "idle" /\ fdt' = fdt /\ s' = s
        \/ FailUnlinked
        \/ /\ pc' # "idle" /\ s' = s
           /\ \E x \in {s.sfd, s.dfd} : \E o : fdt' = [fdt EXCEPT ![x].off = o]
    BY <1>7 DEF ReadBlocks, WriteBlocks, Fail, Goto
  <2>2. ASSUME NEW x \in {s.sfd, s.dfd}, NEW o, fdt' = [fdt EXCEPT ![x].off = o], pc' # "idle", s' = s
        PROVE  SourceOpen'
    <3>1. x \in Fds
      <4>1. pc \in Copying
        BY <1>7 DEF ReadBlocks, WriteBlocks, Copying
      <4>. QED  BY <4>1 DEF AllInv, DescriptorInv, StageInv
    <3>2. PICK a, b, c : fdt[x] = [ino |-> a, off |-> b, by |-> c]
      <4>1. fdt[x] = [ino |-> fdt[x].ino, off |-> fdt[x].off, by |-> fdt[x].by]
        BY <3>1 DEF AllInv, DescriptorInv, TableInv
      <4>. QED  BY <4>1
    <3>3. fdt = [fd \in Fds |-> fdt[fd]]
      BY DEF AllInv, DescriptorInv, TableInv
    <3>4. fdt'[x] = [fdt[x] EXCEPT !.off = o] /\ \A fd \in Fds : fd # x => fdt'[fd] = fdt[fd]
      BY <2>2, <3>1, <3>3
    <3>5. fdt'[x].ino = fdt[x].ino
      BY <3>2, <3>4
    <3>6. \A fd \in Fds : fdt'[fd].ino = fdt[fd].ino
      BY <3>4, <3>5
    <3>. QED  BY <1>1, <2>2, <3>6, SourceInside DEF AllInv
  <2>. QED  BY <1>u, <1>4, <2>1, <2>2
<1>. QED  BY <1>5, <1>6, <1>7

-----------------------------------------------------------------------------
(* Data between calls and when they begin.                                 *)

LEMMA NoStateHasNone == NoState.sfd = NotOpen /\ NoState.dfd = NotOpen /\ NewState.sfd = NotOpen
BY DEF NoState, NewState

\* Types, when no file changes.
LEMMA TypesKept ==
  ASSUME FilesInv, fs' = fs, IsFile(user'.sb), IsFile(s'.sb), loc'.buf \in Seq(Block),
         \A fd \in Fds : fdt'[fd].ino \in 0 .. MaxIno /\ fdt'[fd].off \in Nat
  PROVE  FilesInv'
BY DEF FilesInv, IsFile, fs

\* The program's state changes, no file does.
LEMMA DataBetween ==
  ASSUME AllInv, pc = "idle", pc' = "idle", cur' = cur, last' = last, fs' = fs, FilesInv'
  PROVE  DataInv'
<1>1. CallInv'
  BY DEF AllInv, DataInv, CallInv, Stages
<1>2. BeganInv' /\ SourceInv'
  BY DEF BeganInv, SourceInv
<1>3. BothInv' /\ NamedInv' /\ ExclusiveInv'
  BY DEF BothInv, NamedInv, ExclusiveInv, Copying
<1>4. DataWhole'
  BY DEF AllInv, DataInv, DataWhole, DataCopied, Copied, NoPartialCopy, ExclusiveFails, fs
<1>. QED  BY <1>1, <1>2, <1>3, <1>4 DEF DataInv

LEMMA DataState ==
  ASSUME AllInv, StateAlloc \/ StateSetCallback \/ StateSetFd \/ StateFree
  PROVE  DataInv' /\ SourceOpen'
<1>1. /\ pc = "idle" /\ pc' = "idle" /\ cur' = cur /\ last' = last /\ fs' = fs
      /\ s' = s /\ loc' = loc /\ Holder = user /\ Holder' = user'
  BY DEF StateAlloc, StateSetCallback, StateSetFd, StateFree, fs, history, Holder
<1>2. user = [f \in StateFields |-> user[f]]
  BY DEF AllInv, DescriptorInv, StageInv, IsState
<1>3. PICK u : u = user
  OBVIOUS
<1>4. \/ user' \in {NewState, NoState}
      \/ user' = [u EXCEPT !.cb = TRUE]
      \/ user' = [u EXCEPT !.sfd = 0]
  BY <1>3 DEF StateAlloc, StateSetCallback, StateSetFd, StateFree
<1>5. user'.sb \in {NewState.sb, NoState.sb, u.sb}
  BY <1>2, <1>3, <1>4 DEF StateFields
<1>6. IsFile(user'.sb)
  BY <1>3, <1>5, NoFileIsFile DEF AllInv, DataInv, FilesInv
<1>7. \A fd \in Fds : fdt'[fd].ino \in 0 .. MaxIno /\ fdt'[fd].off \in Nat
  <2>1. fdt' = fdt \/ \E S : fdt' = Close(fdt, S)
    BY DEF StateAlloc, StateSetCallback, StateSetFd, StateFree, Freed
  <2>2. CASE fdt' = fdt
    BY <2>2 DEF AllInv, DataInv, FilesInv
  <2>3. CASE \E S : fdt' = Close(fdt, S)
    BY <2>3, ClosedTyped DEF AllInv, DescriptorInv, DataInv
  <2>. QED  BY <2>1, <2>2, <2>3
<1>8. FilesInv'
  BY <1>1, <1>6, <1>7, TypesKept DEF AllInv, DataInv, FilesInv
<1>9. DataInv'
  BY <1>1, <1>8, DataBetween
<1>10. SourceOpen'
  <2>1. CASE user' \in {NewState, NoState}
    BY <1>1, <2>1, NotOpenIsNone, NoStateHasNone DEF SourceOpen
  <2>2. CASE user' \notin {NewState, NoState}
    <3>1. fdt' = fdt
      BY <2>2 DEF StateAlloc, StateSetCallback, StateSetFd, StateFree
    <3>2. user'.sfd \in {u.sfd, 0}
      BY <1>2, <1>3, <1>4, <2>2 DEF StateFields
    <3>3. fdt[0].ino # 0
      BY DEF AllInv, DescriptorInv, TableInv
    <3>. QED  BY <1>1, <1>3, <3>1, <3>2, <3>3 DEF AllInv, SourceOpen
  <2>. QED  BY <2>1, <2>2
<1>. QED  BY <1>9, <1>10

\* A call returns early and forgets.
LEMMA DataForgets ==
  ASSUME AllInv, NEW st, NEW null, NEW closed, Forget(st, null, closed), fs' = fs, IsFile(st.sb)
  PROVE  DataInv'
<1>1. pc' = "idle" /\ s' = NoState /\ loc' = NoLocals /\ cur' = NoCall /\ last' = NoCall
  BY DEF Forget
<1>2. user' \in {user, st}
  BY DEF Forget
<1>3. IsFile(user'.sb) /\ IsFile(s'.sb)
  BY <1>1, <1>2, NoFileIsFile DEF AllInv, DataInv, FilesInv
<1>4. \A fd \in Fds : fdt'[fd].ino \in 0 .. MaxIno /\ fdt'[fd].off \in Nat
  <2>1. fdt' = Close(fdt, closed)
    BY DEF Forget
  <2>. QED  BY <2>1, ClosedTyped DEF AllInv, DescriptorInv, DataInv
<1>5. loc'.buf \in Seq(Block)
  <2>1. loc'.buf = <<>>
    BY <1>1 DEF NoLocals
  <2>. QED  BY <2>1
<1>6. FilesInv'
  BY <1>3, <1>4, <1>5, TypesKept DEF AllInv, DataInv
<1>7. last'.fresh = FALSE
  BY <1>1 DEF NoCall
<1>8. DataWhole'
  BY <1>7 DEF DataWhole, DataCopied, Copied, NoPartialCopy, ExclusiveFails
<1>. QED  BY <1>1, <1>6, <1>8, DataIdle

\* The state a call begins with has the sb of the program's, or none.
LEMMA PreambleFile ==
  ASSUME AllInv, NEW fl, NEW null \in BOOLEAN
  PROVE  /\ IsFile(Preamble(fl, null).sb)
         /\ Preamble(fl, null) = [f \in StateFields |-> Preamble(fl, null)[f]]
         /\ Preamble(fl, null).flags = fl
<1>1. PICK b : b = IF null THEN NewState ELSE user
  OBVIOUS
<1>2. b = [f \in StateFields |-> b[f]] /\ IsFile(b.sb)
  BY <1>1, NoStateIsState, NoFileIsFile DEF AllInv, DataInv, FilesInv, DescriptorInv, StageInv, IsState
<1>3. PICK st : st = Preamble(fl, null)
  OBVIOUS
<1>4. st = [b EXCEPT !.flags = fl]
  BY <1>1, <1>3 DEF Preamble
<1>5. st.sb = b.sb /\ st.flags = fl /\ st = [f \in StateFields |-> st[f]]
  BY <1>2, <1>4 DEF StateFields
<1>. QED  BY <1>2, <1>3, <1>5

LEMMA DataNoName ==
  ASSUME AllInv, DescriptorInv', NEW sn \in Sources, NEW dn \in Targets, NEW fl, NEW null \in BOOLEAN,
         NEW which \in {"src", "dst"}, ForNames(user), CopyfileNoName(sn, dn, fl, null, which)
  PROVE  DataInv' /\ SourceOpen'
<1>1. pc = "idle" /\ calls < MaxCalls /\ null = (user = NoState) /\ fs' = fs
  BY DEF CopyfileNoName, fs
<1>2. PICK st : st = Preamble(fl, null)
  OBVIOUS
<1>3. Fits(st) /\ ForNames(st)
  BY <1>1, <1>2, PreambleFits DEF AllInv
<1>4. st = [f \in StateFields |-> st[f]] /\ IsFile(st.sb)
  BY <1>2, PreambleFile
<1>5. PICK new : new = [st EXCEPT !.src = IF which = "src" THEN NoName ELSE sn,
                        !.dst = IF which = "dst" THEN NoName ELSE @,
                        !.sfd = SetFname(sn, st.src, @),
                        !.dfd = IF which = "src" THEN @ ELSE SetFname(dn, st.dst, @)]
  OBVIOUS
<1>6. new.sfd = SetFname(sn, st.src, st.sfd) /\ new.sb = st.sb
      /\ new.dfd \in {st.dfd, SetFname(dn, st.dst, st.dfd)}
  BY <1>4, <1>5 DEF StateFields
<1>7. Forget(new, null, FnameCloses(st, new))
  BY <1>2, <1>5 DEF CopyfileNoName
<1>8. DataInv'
  BY <1>1, <1>4, <1>6, <1>7, DataForgets
<1>9. SourceOpen'
  <2>1. Holder' = user'
    BY <1>7 DEF Holder, Forget
  <2>2. CASE null
    <3>1. user' = NoState
      BY <1>1, <1>7, <2>2 DEF Forget
    <3>. QED  BY <2>1, <3>1, NotOpenIsNone, NoStateHasNone DEF SourceOpen
  <2>3. CASE ~null
    <3>1. user' = new
      BY <1>7, <2>3 DEF Forget
    <3>2. SUFFICES ASSUME new.sfd \in Fds
                   PROVE  fdt'[new.sfd].ino # 0
      BY <2>1, <3>1 DEF SourceOpen
    <3>3. new.sfd = st.sfd /\ st.sfd \in Fds /\ st.src # NoName
      BY <1>3, <1>6, <3>2, NotOpenIsNone, SetFnameKeeps DEF Fits, IsState, ForNames
    <3>4. Lib(st.sfd) /\ st.sfd # st.dfd
      BY <1>3, <3>3 DEF Fits, Owns
    <3>5. st.sfd \notin FnameCloses(st, new)
      BY <3>3, <3>4 DEF FnameCloses
    <3>6. fdt'[st.sfd] = fdt[st.sfd]
      BY <1>7, <3>3, <3>5 DEF Forget, Close
    <3>. QED  BY <3>3, <3>4, <3>6 DEF Lib
  <2>. QED  BY <2>2, <2>3
<1>. QED  BY <1>8, <1>9

\* copyfile begins.
LEMMA DataCopyfile ==
  ASSUME AllInv, DescriptorInv', NEW sn \in Sources, NEW dn \in Targets, NEW fl, NEW null \in BOOLEAN,
         CopyfileCall(sn, dn, fl, null)
  PROVE  DataInv' /\ SourceOpen'
<1>1. /\ pc' = "perms" /\ fs' = fs /\ user' = user
      /\ loc' = [NoLocals EXCEPT !.null = null]
  BY DEF CopyfileCall, Goto, fs
<1>2. PICK st : st = Preamble(fl, null)
  OBVIOUS
<1>3. st = [f \in StateFields |-> st[f]] /\ IsFile(st.sb) /\ st.flags = fl
  BY <1>2, PreambleFile
<1>4. PICK a, b : s' = [st EXCEPT !.src = sn, !.dst = dn, !.sfd = a, !.dfd = b]
  BY <1>2 DEF CopyfileCall
<1>5. s'.src = sn /\ s'.dst = dn /\ s'.flags = fl /\ s'.sb = st.sb
  BY <1>3, <1>4 DEF StateFields
<1>6. sn \in Names /\ dn \in Names /\ sn # NoName
  BY CopyAssumption DEF Names, NoName
<1>7. PICK from, was, target, fresh :
        /\ from = Look(sn, "NOFOLLOW_SRC" \in fl)
        /\ was = IF name[dn] = 0 THEN NoFile ELSE ino[name[dn]]
        /\ target = name[dn]
        /\ fresh = (s'.sfd = NotOpen /\ s'.dfd = NotOpen)
  OBVIOUS
<1>8. cur' = [NoCall EXCEPT !.flags = fl, !.dst = dn, !.src = from, !.was = was,
                            !.target = target, !.fresh = fresh]
  BY <1>7 DEF CopyfileCall
<1>9. /\ cur' = [f \in CallFields |-> cur'[f]]
      /\ cur'.flags = fl /\ cur'.dst = dn /\ cur'.src = from /\ cur'.was = was
      /\ cur'.target = target /\ cur'.fresh = fresh /\ cur'.fcopy = FALSE
  BY <1>8 DEF NoCall, CallFields
<1>10. loc'.fcopy = FALSE /\ loc'.buf = <<>>
  BY <1>1 DEF NoLocals
<1>11. FilesInv'
  <2>1. PICK S : fdt' = Close(fdt, S)
    BY DEF CopyfileCall
  <2>2. \A fd \in Fds : fdt'[fd].ino \in 0 .. MaxIno /\ fdt'[fd].off \in Nat
    BY <2>1, ClosedTyped DEF AllInv, DescriptorInv, DataInv
  <2>3. loc'.buf \in Seq(Block)
    BY <1>10
  <2>4. IsFile(user'.sb) /\ IsFile(s'.sb)
    BY <1>1, <1>3, <1>5 DEF AllInv, DataInv, FilesInv
  <2>. QED  BY <1>1, <2>2, <2>3, <2>4, TypesKept DEF AllInv, DataInv
<1>12. CallInv'
  BY <1>1, <1>5, <1>6, <1>9, <1>10 DEF CallInv, Stages
<1>13. BeganInv'
  <2>1. Look(sn, "NOFOLLOW_SRC" \in fl)' = Look(sn, "NOFOLLOW_SRC" \in fl)
    BY <1>1 DEF Look, fs
  <2>2. cur'.src = Look(s.src, "NOFOLLOW_SRC" \in s.flags)'
    BY <1>5, <1>7, <1>9, <2>1 DEF Look
  <2>. QED  BY <1>7, <1>9, <2>2 DEF BeganInv
<1>14. SourceInv' /\ BothInv'
  BY <1>1 DEF SourceInv, BothInv, Copying
<1>15. name' = name /\ ino' = ino /\ pc' \in Stages /\ pc' \notin Copying \cup {"internal"}
  BY <1>1 DEF fs, Stages, Copying
<1>16. NamedInv'
  BY <1>1, <1>5, <1>7, <1>9, <1>15 DEF NamedInv
<1>17. ExclusiveInv'
  <2>1. SUFFICES ASSUME was # NoFile
                 PROVE  target \in 1 .. MaxIno /\ ino[target].data = was.data
    BY <1>1, <1>5, <1>7, <1>9, <1>15 DEF ExclusiveInv, Excludes
  <2>2. target # 0 /\ was = ino[target]
    BY <1>7, <2>1
  <2>3. target \in 1 .. MaxIno
    BY <1>6, <1>7, <2>2 DEF AllInv, DataInv, FilesInv, MaxIno
  <2>. QED  BY <2>2, <2>3
<1>18. DataInv'
  BY <1>1, <1>11, <1>12, <1>13, <1>14, <1>16, <1>17, DataLater DEF DataInv
<1>19. SourceOpen'
  <2>1. Holder'.src = sn
    BY <1>1, <1>5 DEF Holder
  <2>. QED  BY <1>6, <2>1, NamedIsOpen
<1>. QED  BY <1>18, <1>19

\* A file is made writable.
LEMMA MadeWritable ==
  ASSUME FilesInv, NEW i, ino' = [ino EXCEPT ![i].mode.rw = TRUE]
  PROVE  SameFiles
<1>1. PICK m : m = [ino[i].mode EXCEPT !.rw = TRUE]
  OBVIOUS
<1>2. ino' = [ino EXCEPT ![i].mode = m]
  BY <1>1
<1>. QED  BY <1>2, SetProperties

LEMMA FcopyfileState ==
  ASSUME AllInv, NEW sf \in {0, 2}, NEW st, st = [f \in StateFields |-> st[f]], IsFile(st.sb),
         st.sfd \in Fds => fdt[st.sfd].ino # 0, NEW acl, NEW st1, st1 = SourceTaken(st, sf, acl)
  PROVE  /\ st1 = [f \in StateFields |-> st1[f]] /\ IsFile(st1.sb)
         /\ st1.dfd = st.dfd /\ st1.flags = st.flags
         /\ st1.sfd = (IF st.sfd = NotOpen THEN sf ELSE st.sfd)
         /\ st.sfd = NotOpen => st1.sb = ino[fdt[sf].ino]
         /\ fdt[sf].ino \in 1 .. MaxIno /\ sf \in Fds
         /\ st1.sfd \in Fds => fdt[st1.sfd].ino # 0
<1>1. sf \in Fds /\ fdt[sf].ino # 0
  BY DEF AllInv, DescriptorInv, TableInv, Fds, MaxFd
<1>2. PICK i : i = fdt[sf].ino
  OBVIOUS
<1>3. i \in 1 .. MaxIno
  BY <1>1, <1>2 DEF AllInv, DataInv, FilesInv, MaxIno
<1>4. IsFile(ino[i])
  BY <1>3 DEF AllInv, DataInv, FilesInv
<1>5. CASE st.sfd = NotOpen
  <2>0. st1 = Statted(st, sf, acl)
    BY <1>5 DEF SourceTaken
  <2>1. PICK a : st1 = [st EXCEPT !.sfd = sf, !.sb = ino[i], !.acl = a]
    BY <1>2, <2>0 DEF Statted
  <2>2. /\ st1 = [f \in StateFields |-> st1[f]] /\ st1.sb = ino[i]
        /\ st1.dfd = st.dfd /\ st1.flags = st.flags /\ st1.sfd = sf
    BY <2>1 DEF StateFields
  <2>. QED  BY <1>1, <1>2, <1>3, <1>4, <1>5, <2>2
<1>6. CASE st.sfd # NotOpen
  BY <1>1, <1>2, <1>3, <1>6 DEF SourceTaken
<1>. QED  BY <1>5, <1>6

LEMMA DataFcopyfile ==
  ASSUME AllInv, DescriptorInv', NEW sf \in {0, 2}, NEW fl, NEW null \in BOOLEAN,
         NEW acl, NEW rw, ForDescriptors(user), FcopyfileCall(sf, 1, fl, null, acl, rw)
  PROVE  DataInv' /\ SourceOpen'
<1>1. /\ pc = "idle" /\ calls < MaxCalls /\ null = (user = NoState)
      /\ fdt[sf].ino # 0 /\ fdt[1].ino # 0
  BY DEF FcopyfileCall
<1>2. PICK st : st = Preamble(fl, null)
  OBVIOUS
<1>3. st = [f \in StateFields |-> st[f]] /\ IsFile(st.sb) /\ st.flags = fl
  BY <1>2, PreambleFile
<1>4. Fits(st) /\ st.sfd = user.sfd /\ st.dfd = user.dfd /\ {st.sfd, st.dfd} \subseteq {NotOpen, 0, 1, 2}
  <2>1. /\ Fits(st) /\ st.sfd = user.sfd /\ st.dfd = user.dfd
        /\ null => st.sfd = NotOpen /\ st.dfd = NotOpen
    BY <1>1, <1>2, PreambleFits DEF AllInv
  <2>. QED  BY <1>1, <2>1 DEF ForDescriptors
<1>5. st.sfd \in Fds => fdt[st.sfd].ino # 0
  BY <1>1, <1>4 DEF AllInv, SourceOpen, Holder
<1>6. PICK st1 : st1 = SourceTaken(st, sf, acl)
  OBVIOUS
<1>7. /\ st1 = [f \in StateFields |-> st1[f]] /\ IsFile(st1.sb)
      /\ st1.dfd = st.dfd /\ st1.flags = st.flags
      /\ st1.sfd = (IF st.sfd = NotOpen THEN sf ELSE st.sfd)
      /\ st.sfd = NotOpen => st1.sb = ino[fdt[sf].ino]
      /\ fdt[sf].ino \in 1 .. MaxIno /\ sf \in Fds
      /\ st1.sfd \in Fds => fdt[st1.sfd].ino # 0
  BY <1>3, <1>5, <1>6, FcopyfileState
<1>t. PICK st2 : st2 = TargetTaken(st1, 1)
  OBVIOUS
<1>i. PICK i : i = fdt[st2.dfd].ino
  OBVIOUS
<1>b. Begun(st, st1, st2, i, sf, fl, null, rw)
  BY <1>2, <1>6, <1>t, <1>i, FcopyfileIs
<1>8. CASE st1.sb.type \notin {"reg", "dir", "lnk"}
  <2>1. Forget(st1, null, {}) /\ fs' = fs
    BY <1>b, <1>8 DEF Begun, fs
  <2>2. DataInv'
    BY <1>7, <2>1, DataForgets
  <2>3. SourceOpen'
    <3>1. Holder' = user' /\ (user' = NoState \/ user' = st1)
      BY <1>1, <2>1 DEF Holder, Forget
    <3>2. \A fd \in Fds : fdt'[fd] = fdt[fd]
      BY <2>1 DEF Forget, Close
    <3>. QED  BY <1>7, <3>1, <3>2, NotOpenIsNone, NoStateHasNone DEF SourceOpen
  <2>. QED  BY <2>2, <2>3
<1>9. CASE st1.sb.type \in {"reg", "dir", "lnk"}
  <2>1. st2 = [st1 EXCEPT !.dfd = IF @ = NotOpen THEN 1 ELSE @]
    BY <1>t, Zenon DEF TargetTaken
  <2>2. i = fdt[st2.dfd].ino
    BY <1>i
  <2>3. /\ s' = st2 /\ (ino' = [ino EXCEPT ![i].mode.rw = TRUE] \/ ino' = ino)
        /\ loc' = [NoLocals EXCEPT !.fcopy = TRUE, !.null = null, !.dsb = ino[i]]
        /\ pc' = "internal" /\ name' = name /\ fdt' = fdt /\ user' = user
    BY <1>b, <1>9 DEF Begun, Goto
  <2>4. PICK from, was, fresh : /\ from = fdt[sf].ino /\ was = ino[i]
                                /\ fresh = (st.sfd = NotOpen /\ fdt[sf].off = 0 /\ fdt[1].off = 0)
    OBVIOUS
  <2>5. cur' = [NoCall EXCEPT !.flags = fl, !.src = from, !.fcopy = TRUE, !.was = was,
                              !.target = i, !.fresh = fresh]
    BY <1>b, <1>9, <2>4 DEF Begun
  <2>6. /\ cur' = [f \in CallFields |-> cur'[f]]
        /\ cur'.flags = fl /\ cur'.src = from /\ cur'.fcopy = TRUE /\ cur'.fresh = fresh
    BY <2>5 DEF NoCall, CallFields
  <2>7. /\ st2 = [f \in StateFields |-> st2[f]] /\ st2.sb = st1.sb /\ st2.flags = fl
        /\ st2.sfd = st1.sfd /\ st2.dfd = (IF st.dfd = NotOpen THEN 1 ELSE st.dfd)
    BY <1>3, <1>7, <2>1 DEF StateFields
  <2>8. loc'.fcopy = TRUE /\ loc'.buf = <<>>
    BY <2>3 DEF NoLocals
  <2>9. SameFiles
    BY <2>3, MadeWritable, NothingChanged DEF AllInv, DataInv
  <2>10. FilesInv'
    <3>1. loc'.buf \in Seq(Block)
      BY <2>8
    <3>2. IsFile(s'.sb)
      BY <1>7, <2>3, <2>7
    <3>3. FileTable
      BY <2>9, SameIsTable
    <3>. QED  BY <2>3, <3>1, <3>2, <3>3 DEF AllInv, DataInv, FilesInv, FileTable, IsFile
  <2>11. CallInv'
    BY <2>3, <2>6, <2>7, <2>8 DEF CallInv, Stages
  <2>12. BeganInv' /\ SourceInv' /\ NamedInv' /\ ExclusiveInv'
    BY <2>3, <2>6 DEF BeganInv, SourceInv, NamedInv, ExclusiveInv, Excludes
  <2>13. BothInv'
    <3>1. SUFFICES ASSUME fresh
                   PROVE  BothInv'
      BY <2>6 DEF BothInv
    <3>2. st.sfd = NotOpen /\ fdt[sf].off = 0 /\ fdt[1].off = 0
      BY <2>4, <3>1
    <3>3. st2.dfd = 1 /\ 1 \in Fds /\ sf # 1
      <4>1. st.dfd \in Fds => Lib(st.dfd)
        BY <1>4, <3>2 DEF Fits, Owns
      <4>2. ~Lib(0) /\ ~Lib(2)
        BY DEF AllInv, DescriptorInv, TableInv, Lib
      <4>3. {0, 1, 2} \subseteq Fds
        BY DEF Fds, MaxFd
      <4>. QED  BY <1>4, <2>7, <4>1, <4>2, <4>3
    <3>4. s'.sfd = sf /\ s'.dfd = 1 /\ s'.sb = ino[from]
      BY <1>7, <2>3, <2>4, <2>7, <3>2, <3>3
    <3>5. from \in 1 .. MaxIno
      BY <1>7, <2>4
    <3>6. ino'[from].data = ino[from].data /\ ino'[from].type = ino[from].type
      BY <2>9, <3>5 DEF SameFiles
    <3>7. HasSource'
      BY <1>7, <2>3, <2>4, <2>6, <3>4, <3>5, <3>6 DEF HasSource
    <3>8. fdt[1].ino \in 1 .. MaxIno
      BY <1>1, <3>3 DEF AllInv, DataInv, FilesInv, MaxIno
    <3>9. Dst' \in 1 .. MaxIno
      BY <2>3, <3>4, <3>8 DEF Dst
    <3>10. Progress'
      BY <2>3, <3>2, <3>4 DEF Progress
    <3>11. s'.sb.data = ino'[cur'.src].data
      BY <2>6, <3>4, <3>6
    <3>. QED  BY <3>3, <3>4, <3>7, <3>9, <3>10, <3>11 DEF BothInv
  <2>14. DataInv'
    BY <2>3, <2>10, <2>11, <2>12, <2>13, DataLater DEF DataInv
  <2>15. SourceOpen'
    BY <1>7, <2>3, <2>7 DEF SourceOpen, Holder
  <2>. QED  BY <2>14, <2>15
<1>. QED  BY <1>8, <1>9

LEMMA DataFcopyfileNoStat ==
  ASSUME AllInv, DescriptorInv', NEW sf \in {0, 2}, NEW fl, NEW null \in BOOLEAN,
         FcopyfileNoStat(sf, fl, null)
  PROVE  DataInv' /\ SourceOpen'
<1>1. pc = "idle" /\ null = (user = NoState) /\ fs' = fs
  BY DEF FcopyfileNoStat, fs
<1>2. PICK st : st = Preamble(fl, null)
  OBVIOUS
<1>3. st = [f \in StateFields |-> st[f]] /\ IsFile(st.sb)
  BY <1>2, PreambleFile
<1>4. PICK new : new = [st EXCEPT !.sfd = sf]
  OBVIOUS
<1>5. new.sfd = sf /\ IsFile(new.sb)
  BY <1>3, <1>4 DEF StateFields
<1>6. Forget(new, null, {})
  BY <1>2, <1>4 DEF FcopyfileNoStat
<1>7. DataInv'
  BY <1>1, <1>5, <1>6, DataForgets
<1>8. SourceOpen'
  <2>1. Holder' = user' /\ (user' = NoState \/ user' = new)
    BY <1>1, <1>6 DEF Holder, Forget
  <2>2. fdt[sf].ino # 0 /\ sf \in Fds
    BY DEF AllInv, DescriptorInv, TableInv, Fds, MaxFd
  <2>3. \A fd \in Fds : fdt'[fd] = fdt[fd]
    BY <1>6 DEF Forget, Close
  <2>. QED  BY <1>5, <2>1, <2>2, <2>3, NotOpenIsNone, NoStateHasNone DEF SourceOpen
<1>. QED  BY <1>7, <1>8

-----------------------------------------------------------------------------
(* Data comes over whole.                                                  *)

LEMMA BlocksAreData ==
  ASSUME NEW n \in Names, NEW k \in Nat
  PROVE  Blocks(n, k) \in Seq(Block)
<1>1. \A i \in 1 .. k : <<n, i>> \in Block
  BY DEF Block
<1>. QED  BY <1>1 DEF Blocks

LEMMA FileIsFile ==
  ASSUME NEW n, NEW type, NEW data \in Seq(Block), NEW rw, NEW acl
  PROVE  IsFile(File(n, type, data, rw, acl))
BY DEF File, IsFile, FileFields

LEMMA PlaceIsFile ==
  ASSUME NEW p \in Places
  PROVE  IsFile(Place[p])
<1>1. "p" \in Names /\ 4 \in Nat /\ <<>> \in Seq(Block)
  BY DEF Names
<1>2. Blocks("p", 4) \in Seq(Block)
  BY <1>1, BlocksAreData
<1>3. p \in {"none", "file", "acl", "dir"}
  BY CopyAssumption
<1>4. \/ Place[p] = NoFile
      \/ \E type, rw, acl : \E data \in {Blocks("p", 4), <<>>} :
           Place[p] = File("p", type, data, rw, acl)
  <2>1. PICK a, b, c :
          /\ a = File("p", "reg", Blocks("p", 4), TRUE, NoAcl)
          /\ b = File("p", "reg", Blocks("p", 4), FALSE, TwoAces("p"))
          /\ c = File("p", "dir", <<>>, TRUE, TwoAces("p"))
    OBVIOUS
  <2>2. Place = [none |-> NoFile, file |-> a, acl |-> b, dir |-> c]
    BY <2>1 DEF Place
  <2>3. Place[p] \in {NoFile, a, b, c}
    BY <1>3, <2>2
  <2>. QED  BY <2>1, <2>3
<1>5. CASE Place[p] = NoFile
  BY <1>5, NoFileIsFile
<1>6. CASE \E type, rw, acl : \E data \in {Blocks("p", 4), <<>>} :
             Place[p] = File("p", type, data, rw, acl)
  <2>1. PICK type, rw, acl, data : data \in {Blocks("p", 4), <<>>}
                                   /\ Place[p] = File("p", type, data, rw, acl)
    BY <1>6
  <2>2. data \in Seq(Block)
    BY <1>1, <1>2, <2>1
  <2>. QED  BY <2>1, <2>2, FileIsFile
<1>. QED  BY <1>4, <1>5, <1>6

LEMMA DataInit == Init => SourceOpen /\ DataInv
<1>1. SUFFICES ASSUME Init
               PROVE  SourceOpen /\ DataInv
  OBVIOUS
<1>2. /\ pc = "idle" /\ user = NoState /\ s = NoState /\ loc = NoLocals
      /\ cur = NoCall /\ last = NoCall /\ Holder = user
  BY <1>1 DEF Init, Holder
<1>3. SourceOpen
  BY <1>2, NotOpenIsNone, NoStateHasNone DEF SourceOpen
<1>4. name \in [Names -> 0 .. MaxIno]
  <2>1. {0, 1, 2, 3, 4, 5} \subseteq 0 .. MaxIno
    BY DEF MaxIno
  <2>2. PICK p : name = [n \in Names |-> CASE n = "x" -> 1 [] n = "l" -> 2 [] n = "d" -> 3
                                    [] n = "f" -> 4 [] n = "q" -> 0
                                    [] n = "p" -> IF p = "none" THEN 0 ELSE 5]
    BY <1>1 DEF Init
  <2>3. ASSUME NEW n \in Names
        PROVE  name[n] \in {0, 1, 2, 3, 4, 5}
    <3>1. n \in {"x", "l", "d", "f", "p", "q"}
      BY DEF Names
    <3>. QED  BY <2>2, <3>1
  <2>4. name = [n \in Names |-> name[n]]
    <3> DEFINE of(n) == CASE n = "x" -> 1 [] n = "l" -> 2 [] n = "d" -> 3
                          [] n = "f" -> 4 [] n = "q" -> 0
                          [] n = "p" -> IF p = "none" THEN 0 ELSE 5
    <3>1. name = [n \in Names |-> of(n)]
      BY <2>2
    <3> HIDE DEF of
    <3>. QED  BY <3>1
  <2>. QED  BY <2>1, <2>3, <2>4
<1>5. PICK p \in Places :
        ino = [i \in 1 .. MaxIno |->
                   CASE i = 1 -> File("x", "reg", Blocks("x", 3), TRUE, TwoAces("x"))
                     [] i = 2 -> File("l", "lnk", <<<<"x", 0>>>>, TRUE, NoAcl)
                     [] i = 3 -> File("d", "dir", <<>>, TRUE, TwoAces("d"))
                     [] i = 4 -> File("f", "fifo", <<>>, TRUE, NoAcl)
                     [] i = 5 -> Place[p]
                     [] OTHER -> NoFile]
  BY <1>1 DEF Init
<1>6. ASSUME NEW i \in 1 .. MaxIno
      PROVE  IsFile(ino[i])
  <2>1. /\ <<>> \in Seq(Block) /\ <<<<"x", 0>>>> \in Seq(Block) /\ "x" \in Names /\ 3 \in Nat
    BY DEF Block, Names
  <2>2. Blocks("x", 3) \in Seq(Block)
    BY <2>1, BlocksAreData
  <2>3. PICK a, b, c, d, e :
          /\ a = File("x", "reg", Blocks("x", 3), TRUE, TwoAces("x"))
          /\ b = File("l", "lnk", <<<<"x", 0>>>>, TRUE, NoAcl)
          /\ c = File("d", "dir", <<>>, TRUE, TwoAces("d"))
          /\ d = File("f", "fifo", <<>>, TRUE, NoAcl) /\ e = Place[p]
    OBVIOUS
  <2>4. IsFile(a) /\ IsFile(b)
    BY <2>1, <2>2, <2>3, FileIsFile
  <2>5. IsFile(c) /\ IsFile(d)
    BY <2>1, <2>3, FileIsFile
  <2>6. IsFile(e)
    BY <2>3, PlaceIsFile
  <2>7. ino[i] \in {a, b, c, d, e, NoFile}
    <3>1. ino = [j \in 1 .. MaxIno |-> CASE j = 1 -> a [] j = 2 -> b [] j = 3 -> c [] j = 4 -> d
                                         [] j = 5 -> e [] OTHER -> NoFile]
      BY <1>5, <2>3
    <3>. QED  BY <3>1
  <2>. QED  BY <2>4, <2>5, <2>6, <2>7, NoFileIsFile
<1>7. \A fd \in Fds : fdt[fd].ino \in 0 .. MaxIno /\ fdt[fd].off \in Nat
  <2>1. {0, 1, 4} \subseteq 0 .. MaxIno /\ name["p"] \in 0 .. MaxIno
    <3>1. "p" \in Names
      BY DEF Names
    <3>2. {0, 1, 4} \subseteq 0 .. MaxIno
      BY DEF MaxIno
    <3>. QED  BY <1>4, <3>1, <3>2
  <2>2. PICK i : i = name["p"]
    OBVIOUS
  <2>3. fdt = [fd \in Fds |->
              [ino |-> CASE fd = 0 -> 1 [] fd = 1 -> i [] fd = 2 -> 4 [] OTHER -> 0,
               off |-> 0, by |-> IF fd < 3 THEN "program" ELSE "library"]]
    BY <1>1, <2>2 DEF Init
  <2>4. ASSUME NEW fd \in Fds
        PROVE  fdt[fd].ino \in {0, 1, 4, i} /\ fdt[fd].off = 0
    BY <2>3
  <2>. QED  BY <2>1, <2>2, <2>4
<1>8. loc.buf \in Seq(Block)
  <2>1. loc.buf = <<>>
    BY <1>2 DEF NoLocals
  <2>. QED  BY <2>1
<1>9. FilesInv
  <2>1. ino = [i \in 1 .. MaxIno |-> ino[i]]
    BY <1>5
  <2>. QED  BY <1>2, <1>4, <1>6, <1>7, <1>8, <2>1, NoFileIsFile DEF FilesInv
<1>10. NoCall = [f \in CallFields |-> NoCall[f]] /\ NoCall.fresh = FALSE
  BY DEF NoCall, CallFields
<1>11. CallInv
  BY <1>2, <1>10 DEF CallInv, Stages
<1>12. BeganInv /\ SourceInv /\ BothInv /\ NamedInv /\ ExclusiveInv
  BY <1>2 DEF BeganInv, SourceInv, BothInv, NamedInv, ExclusiveInv, Copying
<1>13. DataWhole
  BY <1>2, <1>10 DEF DataWhole, DataCopied, Copied, NoPartialCopy, ExclusiveFails
<1>. QED  BY <1>3, <1>9, <1>11, <1>12, <1>13 DEF DataInv

LEMMA DataStep ==
  ASSUME AllInv, DescriptorInv', [Next]_vars
  PROVE  SourceOpen' /\ DataInv'
<1>1. CASE Step
  <2>1. SourceOpen'
    BY <1>1, SourceStages, SourceCopies DEF Step
  <2>2. DataInv'
    BY <1>1, DataPermissive, DataNoMemory, DataCheck, DataOpenSource, DataRemove, DataMake,
       DataOpenLoop, DataInternal, DataXattr, DataRead, DataWriteError, DataWrite, DataSecurity,
       DataEnd DEF Step
  <2>. QED  BY <2>1, <2>2
<1>2. CASE Program
  BY <1>2, DataState, DataCopyfile, DataNoName, DataFcopyfile, DataFcopyfileNoStat DEF Program
<1>3. CASE UNCHANGED vars
  <2>0. UNCHANGED <<ino, name, fdt, user, s, loc, pc, calls, ignored, cur, last, trouble>>
    BY <1>3 DEF vars, fs, history
  <2>1. SourceOpen'
    BY <2>0 DEF AllInv, SourceOpen, Holder
  <2>2. FilesInv'
    BY <2>0 DEF AllInv, DataInv, FilesInv, IsFile
  <2>3. CallInv' /\ BeganInv'
    BY <2>0 DEF AllInv, DataInv, CallInv, BeganInv, Look
  <2>4. SourceInv'
    BY <2>0 DEF AllInv, DataInv, SourceInv, HasSource, Look
  <2>5. BothInv'
    BY <2>0 DEF AllInv, DataInv, BothInv, HasSource, Progress, Begins, CopiesData, Dst
  <2>6. NamedInv' /\ ExclusiveInv'
    BY <2>0 DEF AllInv, DataInv, CopiesData, Dst, NamedInv, ExclusiveInv, Excludes
  <2>7. DataWhole'
    BY <2>0 DEF AllInv, DataInv, DataWhole, DataCopied, Copied, NoPartialCopy, ExclusiveFails
  <2>. QED  BY <2>1, <2>2, <2>3, <2>4, <2>5, <2>6, <2>7 DEF DataInv
<1>. QED  BY <1>1, <1>2, <1>3 DEF Next

\* A copy that succeeds with COPYFILE_DATA leaves all of the source's data in the
\* destination, however reads and writes were cut, failed and tried again; one that
\* fails leaves none of it under the destination's name; and COPYFILE_EXCL leaves
\* what was there (copyfile_data, copyfile_open, the error exit of
\* copyfile_internal).  The blocks may have any size and calls may follow one another
\* with any flags.
THEOREM DataIsWhole == Spec => []DataWhole
<1>1. Init => AllInv
  BY DescriptorInit, DataInit DEF AllInv
<1>2. AllInv /\ [Next]_vars => AllInv'
  BY DescriptorStep, LocalsStep, DataStep DEF AllInv
<1>3. AllInv => DataWhole
  BY DEF AllInv, DataInv
<1>. QED  BY <1>1, <1>2, <1>3, PTL DEF Spec
=============================================================================
