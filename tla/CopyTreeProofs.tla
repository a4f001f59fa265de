--------------------------- MODULE CopyTreeProofs ---------------------------
(***************************************************************************)
(* Proofs about copytree, for every hierarchy, every order in which fts    *)
(* may return it, every state of the destination and every set of flags:   *)
(* the callback's answers are followed, nothing is lost without a report,  *)
(* and the helper access entry is there while it is needed.                *)
(***************************************************************************)
EXTENDS CopyTree, TLAPS

-----------------------------------------------------------------------------
(* The hierarchy.                                                          *)

\* What is inside something below p is below p, and so is what is inside p.
LEMMA ChildBelow ==
  ASSUME NEW p \in Nodes, NEW m \in Nodes \ {Root}, Parent[m] \in Below(p) \cup {p}
  PROVE  m \in Below(p)
  BY DEF Below, Inside, Closed, Children

\* Below is transitive.
LEMMA BelowTransitive ==
  ASSUME NEW p \in Nodes, NEW m \in Below(p), NEW n \in Below(m)
  PROVE  n \in Below(p)
  <1>1. m \in Nodes /\ n \in Nodes
    BY DEF Below, Inside
  <1>2. ASSUME NEW S \in SUBSET Nodes, Closed(p, S)
        PROVE  n \in S
    <2>1. m \in S
      BY <1>2 DEF Below, Inside
    <2>2. Closed(m, S)
      BY <1>2, <2>1 DEF Closed, Children
    <2> QED
      BY <1>1, <2>2 DEF Below, Inside
  <1> QED
    BY <1>1, <1>2 DEF Below, Inside

\* Nothing is below what is not a directory.
LEMMA NothingBelowFile ==
  ASSUME NEW n \in Nodes, ~IsDir(n)
  PROVE  Below(n) = {}
  <1>1. Closed(n, {})
    BY TreeAssumption DEF Closed, Children
  <1> QED
    BY <1>1 DEF Below, Inside

-----------------------------------------------------------------------------
(* The inductive invariant.                                                *)

\* An entry that fts_read will not return, being below a directory that is skipped.
Passed(i) == \E p \in pruned : walk[i][1] \in Below(p)

\* The loop's body has been run for an entry, or fts_read did not return it.
Over(i) == i < at \/ (i = at /\ (pc = "next" \/ (pc = "done" /\ retval = 0)))

\* Where the loop is decides which kind of entry is at hand.
AtHand ==
  /\ pc \notin {"begin", "next", "done", "killed"} => at > 0 /\ ~Passed(at)
  /\ pc \in {"start", "copy", "copyerror", "finish"} => First(ent)
  /\ pc = "seterror" => ent[2] = "D" /\ Said("START", ent[1], "SKIP")
  /\ pc \in {"cleanup", "open"} => ent[2] = "DP"
  /\ pc = "error" => ent[2] \notin {"D", "F", "DP"}
  /\ retval = -1 => pc = "done"
  /\ pc = "done" /\ retval = 0 /\ ~cut => Left = {}
  /\ pc \in {"begin", "killed"} => at = 0
  /\ pc = "copyerror" => ent[1] \in failed

\* What is changed at the destination was an entry of its own.
ChangedByEntry ==
  \A m \in Nodes : dst[m] # was[m] =>
    \E i \in 1 .. at : /\ walk[i][1] = m /\ First(walk[i])
                       /\ i < at \/ pc \in {"finish", "copyerror", "next", "done"}

\* fts_set was called for a directory that is skipped, or the callback is told that it
\* has failed, or the copy has ended.
SetOrTold(n) ==
  \/ n \in pruned \/ Said("SETERR", n, "CONTINUE") \/ retval = -1
  \/ pc = "seterror" /\ ent[1] = n

\* A skipped entry is behind.
SkippedEntry ==
  \A n \in Nodes : Said("START", n, "SKIP") =>
    \E i \in 1 .. at : /\ walk[i][1] = n /\ First(walk[i])
                       /\ i < at \/ pc \in {"seterror", "next", "done"}
                       /\ walk[i][2] = "D" => SetOrTold(n)

PrunedSaid == \A n \in pruned : Said("START", n, "SKIP")

\* What became of a file that was an entry.
FileOver ==
  "DATA" \in flags => \A i \in 1 .. at : walk[i][2] = "F" =>
    /\ i = at /\ pc = "finish" => dst[walk[i][1]] = "copy"
    /\ Over(i) => \/ Passed(i) \/ dst[walk[i][1]] = "copy"
                  \/ Said("START", walk[i][1], "SKIP")
                  \/ Said("ERR", walk[i][1], "CONTINUE")

\* What became of an entry that could not be read.
ErrorOver ==
  \A i \in 1 .. at : walk[i][2] = "DNR" /\ Over(i) =>
    Passed(i) \/ Said("ERROR", walk[i][1], "CONTINUE")

\* A directory with an ACL that was an entry has the uberace until it comes a second time.
UberaceGiven ==
  "ACL" \in flags =>
    \A i \in 1 .. at : walk[i][2] = "D" /\ walk[i][1] \in acl /\ (Over(i) \/ pc = "finish") =>
      \/ walk[i][1] \in uber \cup failed \cup refused
      \/ Said("START", walk[i][1], "SKIP") \/ Passed(i)
      \/ \E k \in 1 .. at : walk[k] = <<walk[i][1], "DP">>

\* A directory with the uberace was an entry, will come a second time, and if it
\* has, the callback was asked.
OwedByDir(n) ==
  /\ \E i \in 1 .. at : /\ walk[i] = <<n, "D">>
                        /\ i < at \/ pc \in {"finish", "copyerror", "next", "done"}
  /\ \A p \in pruned : n \notin Below(p)
  /\ \A k \in 1 .. at : walk[k] = <<n, "DP">> /\ Over(k) =>
       Said("CSTART", n, "SKIP") \/ Said("CERR", n, "CONTINUE")

\* Anything else with the uberace could not be copied, which the callback was told.
OwedByFile(n) ==
  \E i \in 1 .. at : /\ walk[i] = <<n, "F">>
                     /\ i < at \/ pc \in {"copyerror", "next", "done"}
                     /\ Over(i) => Said("ERR", n, "CONTINUE")

UberaceOwed == SameUid => \A n \in uber : n \in refused \/ OwedByDir(n) \/ OwedByFile(n)

\* The inductive invariant of copytree.
IInv ==
  /\ TypeOK /\ AtHand /\ ChangedByEntry /\ SkippedEntry /\ PrunedSaid
  /\ FileOver /\ ErrorOver /\ UberaceGiven /\ UberaceOwed
  /\ SkippedUntouched /\ QuitEnds

-----------------------------------------------------------------------------
(* Initial states.                                                         *)

\* Before the copy nothing is owed.
LEMMA InitIInv == Init => IInv
  <1> SUFFICES ASSUME Init PROVE IInv
    OBVIOUS
  <1>1. walk \in Walks /\ Len(walk) \in Nat
    BY TreeAssumption DEF Init
  <1>2. TypeOK
    <2>1. acl \cup uber \cup refused \cup failed \subseteq Nodes /\ {dst, was} \subseteq [Nodes -> {"none", "file", "dir", "copy"}]
      BY TreeAssumption DEF Init
    <2>2. asked \in Seq(Calls) /\ at \in 0 .. Len(walk) /\ retval \in {0, -1}
      BY <1>1 DEF Init
    <2>3. cut \in BOOLEAN /\ cb \in BOOLEAN
      BY DEF Init
    <2> QED
      BY <1>1, <2>1, <2>2, <2>3 DEF Init, TypeOK
  <1>3. Asked = {} /\ Len(asked) = 0
    BY DEF Init, Asked
  <1>4. AtHand /\ ChangedByEntry /\ SkippedEntry /\ PrunedSaid
    BY <1>3 DEF Init, AtHand, ChangedByEntry, SkippedEntry, PrunedSaid, Said
  <1>5. FileOver /\ ErrorOver /\ UberaceGiven /\ UberaceOwed
    BY <1>1, <1>3, TreeAssumption DEF Init, FileOver, ErrorOver, UberaceGiven, UberaceOwed, Over
  <1>6. SkippedUntouched /\ QuitEnds
    BY <1>3 DEF Init, SkippedUntouched, QuitEnds, Said
  <1> QED
    BY <1>2, <1>4, <1>5, <1>6 DEF IInv

-----------------------------------------------------------------------------
(* Steps.                                                                  *)

\* A call of the callback is added to those made.
LEMMA AskAdds ==
  ASSUME asked \in Seq(Calls), NEW e \in Calls, asked' = Append(asked, e)
  PROVE  /\ asked' \in Seq(Calls)
         /\ Asked' = Asked \cup {e}
         /\ Len(asked') = Len(asked) + 1
         /\ \A i \in 1 .. Len(asked) : asked'[i] = asked[i]
         /\ asked'[Len(asked) + 1] = e
  BY DEF Asked

\* The entry at hand is one.
LEMMA EntryTyped ==
  ASSUME TypeOK, NEW i \in 1 .. Len(walk)
  PROVE  /\ walk[i] \in Nodes \X {"D", "F", "DP", "DNR", "NS"}
         /\ walk[i][1] \in Nodes /\ walk[i][2] \in {"D", "F", "DP", "DNR", "NS"}
         /\ walk[i] = <<walk[i][1], walk[i][2]>>
  <1>1. walk \in Seq(Nodes \X {"D", "F", "DP", "DNR", "NS"})
    BY TreeAssumption DEF TypeOK
  <1> QED
    BY <1>1

\* The stages and what they are about, as the callback is told them.
Stages == {"START", "FINISH", "ERR", "ERROR", "SETERR", "CSTART", "CFINISH", "CERR"}

\* A step asks the callback once, about the entry at hand, or not at all; the answer QUIT
\* ends the loop, but for the end of a cleanup.
LEMMA OneCall ==
  ASSUME TypeOK, AtHand, [Next]_vars
  PROVE  \/ UNCHANGED asked
         \/ /\ at \in 1 .. Len(walk) /\ pc \notin {"begin", "next", "done", "killed"}
            /\ \E w \in Stages, a \in Answers :
                 /\ <<w, ent[1], a>> \in Calls
                 /\ asked' = Append(asked, <<w, ent[1], a>>)
                 /\ a = "QUIT" /\ w # "CFINISH" => pc' = "done" /\ retval' = -1
  <1>1. \/ UNCHANGED asked
        \/ /\ pc \notin {"begin", "next", "done", "killed"}
           /\ \E w \in Stages, a \in Answers :
                Ask(w, a) /\ (a = "QUIT" /\ w # "CFINISH" => pc' = "done" /\ retval' = -1)
    BY DEF Next, vars, acls, history, Begin, NextEntry, EntryError, Start, SetError, CopyEntry, CopyError, CopyFinish,
           CleanupStart, Cleanup, Answers, StopOrGo, Stages, Quit, Goto
  <1>2. pc \notin {"begin", "next", "done", "killed"} => at \in 1 .. Len(walk)
    BY TreeAssumption DEF AtHand, TypeOK
  <1>3. pc \notin {"begin", "next", "done", "killed"} =>
          \A w \in Stages, a \in Answers : <<w, ent[1], a>> \in Calls
    BY <1>2, EntryTyped DEF Calls, ent, Stages
  <1> QED
    BY <1>1, <1>2, <1>3 DEF Ask

\* What the callback was asked, what is behind and what is skipped only grows.
LEMMA Grows ==
  ASSUME TypeOK, AtHand, [Next]_vars
  PROVE  /\ walk' = walk /\ was' = was /\ cb' = cb
         /\ pc # "begin" => flags' = flags
         /\ pruned \subseteq pruned' /\ Asked \subseteq Asked'
         /\ at' \in at .. Len(walk)
         /\ asked' \in Seq(Calls)
  <1>1. Len(walk) \in Nat /\ at \in 0 .. Len(walk)
    BY TreeAssumption DEF TypeOK
  <1>2. /\ walk' = walk /\ was' = was /\ cb' = cb
        /\ pc # "begin" => flags' = flags
    BY DEF Next, vars, acls, history, Begin, NextEntry, EntryError, Start, SetError, CopyEntry, CopyError, CopyFinish,
           CleanupStart, Cleanup
  <1>3. pruned \subseteq pruned'
    BY DEF Next, vars, acls, history, Begin, NextEntry, EntryError, Start, SetError, CopyEntry, CopyError, CopyFinish,
           CleanupStart, Cleanup, Pruned
  <1>4. at' \in at .. Len(walk)
    BY <1>1 DEF Next, vars, acls, history, Begin, NextEntry, EntryError, Start, SetError, CopyEntry, CopyError, CopyFinish,
           CleanupStart, Cleanup, Left
  <1>5. Asked \subseteq Asked' /\ asked' \in Seq(Calls)
    <2>1. CASE UNCHANGED asked
      BY <2>1 DEF Asked, TypeOK
    <2>2. ASSUME NEW e \in Calls, asked' = Append(asked, e)
          PROVE  Asked \subseteq Asked' /\ asked' \in Seq(Calls)
      BY <2>2, AskAdds DEF TypeOK
    <2> QED
      BY <2>1, <2>2, OneCall
  <1> QED
    BY <1>2, <1>3, <1>4, <1>5

\* Types are kept.
LEMMA TypeStep == TypeOK /\ AtHand /\ [Next]_vars => TypeOK'
  <1> SUFFICES ASSUME TypeOK, AtHand, [Next]_vars PROVE TypeOK'
    OBVIOUS
  <1>1. walk' \in Walks /\ at' \in 0 .. Len(walk') /\ asked' \in Seq(Calls) /\ cb' \in BOOLEAN
    BY Grows, TreeAssumption DEF TypeOK
  <1>2. flags' \subseteq {"ACL", "STAT", "XATTR", "DATA", "NOFOLLOW", "VERBOSE"}
    BY DEF TypeOK, Next, vars, acls, history, Begin, NextEntry, EntryError, Start, SetError, CopyEntry, CopyError, CopyFinish,
           CleanupStart, Cleanup, PassedFlags
  <1>3. /\ retval' \in {0, -1}
        /\ pc' \in {"begin", "next", "error", "start", "copy", "copyerror", "finish",
                    "cleanup", "open", "seterror", "done", "killed"}
    BY DEF TypeOK, Next, vars, acls, history, Begin, NextEntry, EntryError, Start, SetError, CopyEntry, CopyError, CopyFinish,
           CleanupStart, Cleanup, NobodyAsked, Skip, Quit, Goto
  <1>4. pc \notin {"begin", "next", "done", "killed"} => ent[1] \in Nodes
    BY EntryTyped, TreeAssumption DEF AtHand, TypeOK, ent
  <1>5. /\ pruned' \subseteq Nodes /\ failed' \subseteq Nodes /\ cut' \in BOOLEAN
        /\ acl' \cup uber' \cup refused' \subseteq Nodes
    <2>1. CASE CopyEntry
      <3> PICK n \in Nodes : n = ent[1]
        BY <1>4, <2>1 DEF CopyEntry
      <3>1. Listed(n) \subseteq Nodes /\ Lasting(n) \subseteq Nodes
        BY DEF TypeOK, Listed, Lasting
      <3> QED
        BY <2>1, <3>1 DEF TypeOK, CopyEntry
    <2>2. CASE ~CopyEntry
      <3>1. cut' \in BOOLEAN
        BY <2>2 DEF TypeOK, Next, vars, acls, history, Begin, NextEntry, EntryError, Start, SetError, CopyError,
               CopyFinish, CleanupStart, Cleanup
      <3> QED
        BY <1>4, <2>2, <3>1 DEF TypeOK, Next, vars, acls, history, Begin, NextEntry, EntryError, Start, SetError,
               CopyError, CopyFinish, CleanupStart, Cleanup, Cleaned, Pruned
    <2> QED
      BY <2>1, <2>2
  <1>6. {dst', was'} \subseteq [Nodes -> {"none", "file", "dir", "copy"}]
    <2>1. CASE CopyEntry
      <3> PICK n \in Nodes : n = ent[1]
        BY <1>4, <2>1 DEF CopyEntry
      <3>1. CopiedAs(n) \in {"none", "file", "dir", "copy"} /\ dst[n] \in {"none", "file", "dir", "copy"}
        BY DEF TypeOK, CopiedAs
      <3>2. Remains(n) \subseteq {"none", "file", "dir", "copy"}
        BY <3>1 DEF Remains
      <3> QED
        BY <2>1, <3>1, <3>2 DEF TypeOK, CopyEntry
    <2>2. CASE ~CopyEntry
      BY <2>2 DEF TypeOK, Next, vars, acls, history, Begin, NextEntry, EntryError, Start, SetError, CopyError,
             CopyFinish, CleanupStart, Cleanup
    <2> QED
      BY <2>1, <2>2
  <1> QED
    BY <1>1, <1>2, <1>3, <1>5, <1>6 DEF TypeOK

\* What was asked and answered has been said, and nothing else.
LEMMA AskSays ==
  ASSUME TypeOK, AtHand, pc \notin {"begin", "next", "done", "killed"},
         NEW w \in Stages, NEW a \in Answers, Ask(w, a)
  PROVE  Asked' = Asked \cup {<<w, ent[1], a>>}
  <1>1. at \in 1 .. Len(walk)
    BY TreeAssumption DEF AtHand, TypeOK
  <1>2. <<w, ent[1], a>> \in Calls
    BY <1>1, EntryTyped DEF Calls, ent, Stages
  <1> QED
    BY <1>2, AskAdds DEF TypeOK, Ask

\* The loop is at an entry of the right kind.
LEMMA AtHandStep == TypeOK /\ AtHand /\ [Next]_vars => AtHand'
  <1> SUFFICES ASSUME TypeOK, AtHand, [Next]_vars PROVE AtHand'
    OBVIOUS
  <1>1. Len(walk) \in Nat /\ at \in 0 .. Len(walk)
    BY TreeAssumption DEF TypeOK
  <1>2. CASE NextEntry
    BY <1>1, <1>2, EntryTyped DEF AtHand, NextEntry, Left, Passed, ent, First, TypeOK, Goto
  <1>3. CASE UNCHANGED vars
    BY <1>3 DEF AtHand, vars, history, Passed, Left, ent, Said, Asked
  <1>4. CASE Begin
    <2>1. pc' \in {"done", "killed", "next"} /\ at' = 0 /\ (retval' = -1 => pc' = "done")
      BY <1>4 DEF AtHand, Begin, Goto
    <2>2. pc' = "done" /\ retval' = 0 => cut'
      BY <1>4, Zenon DEF Begin
    <2> QED
      BY <2>1, <2>2 DEF AtHand
  <1>5. CASE CopyEntry
    BY <1>1, <1>5 DEF AtHand, CopyEntry, Goto, Passed, Left, ent, First
  <1>6. CASE Start
    <2>1. ASSUME pc' = "seterror" PROVE Said("START", ent[1], "SKIP")'
      <3>1. Ask("START", "SKIP") /\ ent' = ent
        BY <1>6, <2>1 DEF Start, Goto, Quit, ent
      <3>2. "START" \in Stages /\ "SKIP" \in Answers /\ pc = "start"
        BY <1>6 DEF Stages, Answers, Start
      <3>3. Asked' = Asked \cup {<<"START", ent[1], "SKIP">>}
        BY <3>1, <3>2, AskSays
      <3> QED
        BY <3>1, <3>3 DEF Said
    <2> QED
      BY <1>6, <2>1 DEF AtHand, Start, Goto, Passed, Left, ent, Skip, Quit, First
  <1>7. CASE EntryError \/ CopyError \/ CopyFinish \/ SetError
    BY <1>7 DEF AtHand, EntryError, CopyError, CopyFinish, SetError, Goto, Passed, Left, ent, NobodyAsked,
                Skip, Quit
  <1>8. CASE CleanupStart \/ Cleanup
    BY <1>8 DEF AtHand, CleanupStart, Cleanup, Goto, Passed, Left, ent, NobodyAsked, Skip, Quit
  <1> QED
    BY <1>2, <1>3, <1>4, <1>5, <1>6, <1>7, <1>8 DEF Next

\* The answer QUIT is the last one.
LEMMA QuitStep == TypeOK /\ AtHand /\ QuitEnds /\ [Next]_vars => QuitEnds'
  <1> SUFFICES ASSUME TypeOK, AtHand, QuitEnds, [Next]_vars PROVE QuitEnds'
    OBVIOUS
  <1>1. Len(asked) \in Nat
    BY DEF TypeOK
  <1>2. CASE UNCHANGED asked
    <2>1. (pc' = pc /\ retval' = retval) \/ pc # "done"
      BY DEF Next, vars, acls, history, Begin, NextEntry, EntryError, Start, SetError, CopyEntry, CopyError, CopyFinish,
             CleanupStart, Cleanup
    <2> QED
      BY <1>1, <1>2, <2>1 DEF QuitEnds
  <1>3. ASSUME pc \notin {"begin", "next", "done", "killed"},
               NEW w \in Stages, NEW a \in Answers, <<w, ent[1], a>> \in Calls,
               asked' = Append(asked, <<w, ent[1], a>>),
               a = "QUIT" /\ w # "CFINISH" => pc' = "done" /\ retval' = -1
        PROVE  QuitEnds'
    <2> DEFINE e == <<w, ent[1], a>>
    <2>1. e[3] = a /\ e[1] = w
      OBVIOUS
    <2>2. \A i \in 1 .. Len(asked) : ~(asked[i][3] = "QUIT" /\ asked[i][1] # "CFINISH")
      BY <1>3 DEF QuitEnds
    <2>3. e \in Calls /\ asked' = Append(asked, e)
      BY <1>3
    <2> HIDE DEF e
    <2>4. /\ Len(asked') = Len(asked) + 1
          /\ \A i \in 1 .. Len(asked) : asked'[i] = asked[i]
          /\ asked'[Len(asked) + 1] = e
      BY <2>3, AskAdds DEF TypeOK
    <2> QED
      BY <1>1, <1>3, <2>1, <2>2, <2>4 DEF QuitEnds
  <1> QED
    BY <1>2, <1>3, OneCall

\* A destination changes only in copyfile() of its own entry.
LEMMA ChangedStep == TypeOK /\ AtHand /\ ChangedByEntry /\ [Next]_vars => ChangedByEntry'
  <1> SUFFICES ASSUME TypeOK, AtHand, ChangedByEntry, [Next]_vars,
                      NEW m \in Nodes, dst'[m] # was'[m]
               PROVE  \E i \in 1 .. at' : /\ walk'[i][1] = m /\ First(walk'[i])
                                          /\ i < at' \/ pc' \in {"finish", "copyerror", "next", "done"}
    BY DEF ChangedByEntry, First
  <1>1. /\ walk' = walk /\ was' = was /\ at \in 0 .. Len(walk) /\ at' \in at .. Len(walk)
        /\ Len(walk) \in Nat
    BY Grows, TreeAssumption DEF TypeOK
  <1>2. CASE CopyEntry
    <2>1. at \in 1 .. Len(walk) /\ First(walk[at])
      BY <1>1, <1>2 DEF AtHand, CopyEntry, ent
    <2>2. CASE dst'[m] = dst[m]
      BY <1>1, <1>2, <2>1, <2>2 DEF ChangedByEntry, CopyEntry, Goto
    <2>3. CASE dst'[m] # dst[m]
      <3>1. m = ent[1] /\ pc' \in {"finish", "copyerror"} /\ at' = at
        BY <1>2, <2>3 DEF CopyEntry, TypeOK, Goto
      <3> QED
        BY <1>1, <2>1, <3>1 DEF ent
    <2> QED
      BY <2>2, <2>3
  <1> DEFINE Behind == {"finish", "copyerror", "next", "done"}
  <1>3. CASE dst' = dst /\ (pc' \in Behind \/ at < at' \/ pc \notin Behind)
    BY <1>1, <1>3 DEF ChangedByEntry
  <1>4. CopyEntry \/ (dst' = dst /\ (pc' \in Behind \/ at < at' \/ pc \notin Behind))
    <2>1. CASE NextEntry
      <3>1. at' > at \/ pc' = "done"
        BY <1>1, <2>1 DEF NextEntry, Left, Goto
      <3> QED
        BY <1>1, <2>1, <3>1 DEF NextEntry
    <2>2. CASE Begin
      BY <2>2 DEF Begin
    <2> QED
      BY <2>1, <2>2 DEF Next, vars, EntryError, Start, SetError, CopyError, CopyFinish,
           CleanupStart, Cleanup, Skip, Quit, Goto, NobodyAsked
  <1> QED
    BY <1>2, <1>3, <1>4

\* Only the question before an entry can be answered with SKIP for that entry.
LEMMA SkipAnswer ==
  ASSUME TypeOK, AtHand, [Next]_vars, NEW n \in Nodes,
         Said("START", n, "SKIP")', ~Said("START", n, "SKIP")
  PROVE  /\ Start /\ n = ent[1] /\ pc' \in {"next", "seterror"}
         /\ ent[2] = "D" /\ pc' = "next" => n \in pruned'
  <1>1. Asked' # Asked
    BY DEF Said
  <1>2. ~ UNCHANGED asked
    BY <1>1 DEF Asked
  <1>3. ASSUME NEW w \in Stages, NEW a \in Answers, Ask(w, a), pc \notin {"begin", "next", "done", "killed"}
        PROVE  w = "START" /\ a = "SKIP" /\ n = ent[1]
    BY <1>3, AskSays DEF Said
  <1>4. CASE EntryError \/ CopyError \/ CopyFinish \/ SetError
    BY <1>2, <1>3, <1>4 DEF EntryError, CopyError, CopyFinish, SetError, Stages, Answers, StopOrGo
  <1>5. CASE CleanupStart
    BY <1>2, <1>3, <1>5 DEF CleanupStart, Stages, Answers
  <1>6. CASE Cleanup
    BY <1>2, <1>3, <1>6 DEF Cleanup, Stages, Answers, StopOrGo
  <1>7. CASE Start
    BY <1>2, <1>3, <1>7 DEF Start, Stages, Answers, Skip, Goto, Pruned
  <1> QED
    BY <1>2, <1>4, <1>5, <1>6, <1>7 DEF Next, vars, acls, history, Begin, NextEntry, CopyEntry

\* A skipped entry stays behind, and skipped.
LEMMA SkippedStep == TypeOK /\ AtHand /\ SkippedEntry /\ [Next]_vars => SkippedEntry'
  <1> SUFFICES ASSUME TypeOK, AtHand, SkippedEntry, [Next]_vars,
                      NEW n \in Nodes, Said("START", n, "SKIP")'
               PROVE  \E i \in 1 .. at' : /\ walk'[i][1] = n /\ First(walk'[i])
                                          /\ i < at' \/ pc' \in {"seterror", "next", "done"}
                                          /\ walk'[i][2] = "D" => SetOrTold(n)'
    BY DEF SkippedEntry, First
  <1>1. /\ walk' = walk /\ at \in 0 .. Len(walk) /\ at' \in at .. Len(walk)
        /\ pruned \subseteq pruned' /\ Asked \subseteq Asked' /\ Len(walk) \in Nat
    BY Grows, TreeAssumption DEF TypeOK
  <1>2. CASE Said("START", n, "SKIP")
    <2>1. PICK i \in 1 .. at : /\ walk[i][1] = n /\ First(walk[i])
                               /\ i < at \/ pc \in {"seterror", "next", "done"}
                               /\ walk[i][2] = "D" => SetOrTold(n)
      BY <1>2 DEF SkippedEntry
    <2>2. pc \in {"seterror", "next", "done"} => at' > at \/ pc' \in {"seterror", "next", "done"}
      BY <1>1 DEF Next, vars, acls, history, Begin, NextEntry, EntryError, Start, SetError, CopyEntry, CopyError,
             CopyFinish, CleanupStart, Cleanup, Left, Goto, Skip, Quit
    <2>3. SetOrTold(n) => SetOrTold(n)'
      <3>1. retval = -1 => retval' = -1
        BY DEF AtHand, Next, vars, acls, history, Begin, NextEntry, EntryError, Start, SetError, CopyEntry, CopyError,
               CopyFinish, CleanupStart, Cleanup
      <3>2. CASE SetError /\ ent[1] = n
        <4>1. CASE Ask("SETERR", "QUIT") /\ Quit
          BY <4>1 DEF Quit, SetOrTold
        <4>2. CASE Ask("SETERR", "CONTINUE")
          <5>1. Asked' = Asked \cup {<<"SETERR", ent[1], "CONTINUE">>}
            BY <3>2, <4>2, AskSays DEF SetError, Stages, Answers
          <5> QED
            BY <3>2, <5>1 DEF SetOrTold, Said
        <4> QED
          BY <3>2, <4>1, <4>2 DEF SetError, StopOrGo
      <3>3. CASE UNCHANGED vars
        BY <3>3 DEF vars, acls, history, SetOrTold, ent, Said, Asked
      <3>4. pc = "seterror" => SetError \/ UNCHANGED vars
        BY DEF Next, Begin, NextEntry, EntryError, Start, CopyEntry, CopyError, CopyFinish, CleanupStart, Cleanup
      <3> QED
        BY <1>1, <3>1, <3>2, <3>3, <3>4 DEF SetOrTold, Said
    <2> QED
      BY <1>1, <2>1, <2>2, <2>3
  <1>3. CASE ~Said("START", n, "SKIP")
    <2>1. /\ Start /\ n = ent[1] /\ pc' \in {"next", "seterror"}
          /\ ent[2] = "D" /\ pc' = "next" => n \in pruned'
      BY <1>3, SkipAnswer
    <2>2. at \in 1 .. Len(walk) /\ First(walk[at]) /\ at' = at
      BY <1>1, <2>1 DEF AtHand, Start, ent
    <2>3. ent[2] = "D" => SetOrTold(n)'
      BY <1>1, <2>1, <2>2 DEF SetOrTold, ent
    <2> QED
      BY <1>1, <2>1, <2>2, <2>3 DEF ent
  <1> QED
    BY <1>2, <1>3

\* fts_set is called for nothing else.
LEMMA PrunedStep == TypeOK /\ AtHand /\ PrunedSaid /\ [Next]_vars => PrunedSaid'
  <1> SUFFICES ASSUME TypeOK, AtHand, PrunedSaid, [Next]_vars, NEW n \in pruned'
               PROVE  Said("START", n, "SKIP")'
    BY DEF PrunedSaid
  <1>1. Asked \subseteq Asked'
    BY Grows
  <1>2. CASE n \in pruned
    BY <1>1, <1>2 DEF PrunedSaid, Said
  <1>3. CASE n \notin pruned
    <2>1. /\ pc \notin {"begin", "next", "done", "killed"} /\ Ask("START", "SKIP") /\ n = ent[1]
      BY <1>3 DEF Next, vars, acls, history, Begin, NextEntry, EntryError, Start, SetError, CopyEntry, CopyError, CopyFinish,
             CleanupStart, Cleanup, Pruned
    <2>2. "START" \in Stages /\ "SKIP" \in Answers
      BY DEF Stages, Answers
    <2>3. Asked' = Asked \cup {<<"START", ent[1], "SKIP">>}
      BY <2>1, <2>2, AskSays
    <2> QED
      BY <2>1, <2>3 DEF Said
  <1> QED
    BY <1>2, <1>3

\* Skipped destinations are not touched: what is below a skipped entry was no entry
\* before and will be none.
LEMMA UntouchedStep ==
  TypeOK /\ AtHand /\ ChangedByEntry /\ SkippedEntry /\ SkippedUntouched /\ [Next]_vars
    => SkippedUntouched'
  <1> SUFFICES ASSUME TypeOK, AtHand, ChangedByEntry, SkippedEntry, SkippedUntouched, [Next]_vars,
                      NEW n \in Nodes, Said("START", n, "SKIP")', ~Said("SETERR", n, "CONTINUE")',
                      NEW m \in Below(n) \cup {n}
               PROVE  dst'[m] = was'[m]
    BY DEF SkippedUntouched
  <1>1. /\ walk' = walk /\ was' = was /\ at \in 0 .. Len(walk) /\ walk \in Walks
        /\ Len(walk) \in Nat /\ m \in Nodes /\ ~Said("SETERR", n, "CONTINUE")
    BY Grows, TreeAssumption DEF TypeOK, Below, Inside, Said
  <1>2. CASE Said("START", n, "SKIP")
    <2>1. dst[m] = was[m]
      BY <1>1, <1>2 DEF SkippedUntouched
    <2>2. CASE dst' # dst
      <3>1. CopyEntry
        BY <2>2 DEF Next, vars, acls, history, Begin, NextEntry, EntryError, Start, SetError, CopyError, CopyFinish,
             CleanupStart, Cleanup
      <3>2. /\ at \in 1 .. Len(walk) /\ First(walk[at]) /\ ~Passed(at)
            /\ dst'[m] # dst[m] => m = walk[at][1]
        BY <1>1, <3>1 DEF CopyEntry, AtHand, ent, TypeOK
      <3>3. PICK i \in 1 .. at : /\ walk[i][1] = n /\ First(walk[i])
                                 /\ i < at
                                 /\ walk[i][2] = "D" => n \in pruned
        BY <1>1, <1>2, <3>1 DEF SkippedEntry, SetOrTold, CopyEntry, AtHand
      <3>4. walk[at][1] # n
        BY <1>1, <3>2, <3>3, WalkAssumption
      <3>5. walk[at][1] \notin Below(n)
        <4>1. CASE walk[i][2] = "D"
          BY <3>2, <3>3, <4>1 DEF Passed
        <4>2. CASE walk[i][2] = "F"
          BY <1>1, <3>3, <4>2, WalkAssumption, NothingBelowFile
        <4> QED
          BY <3>3, <4>1, <4>2 DEF First
      <3> QED
        BY <1>1, <2>1, <3>2, <3>4, <3>5
    <2> QED
      BY <1>1, <2>1, <2>2
  <1>3. CASE ~Said("START", n, "SKIP")
    <2>1. Start /\ n = ent[1]
      BY <1>3, SkipAnswer
    <2>2. at \in 1 .. Len(walk) /\ First(walk[at]) /\ dst' = dst /\ pc = "start"
      BY <1>1, <2>1 DEF AtHand, Start, ent
    <2>3. SUFFICES ASSUME dst[m] # was[m] PROVE FALSE
      BY <1>1, <2>2
    <2>4. PICK i \in 1 .. at : walk[i][1] = m /\ First(walk[i]) /\ i < at
      BY <1>1, <2>2, <2>3 DEF ChangedByEntry
    <2> QED
      BY <1>1, <2>1, <2>2, <2>4, WalkAssumption DEF ent
  <1> QED
    BY <1>2, <1>3

\* An entry that is behind after a step was behind before it, or is the one at hand, or was
\* passed by fts_read.
LEMMA OverBefore ==
  ASSUME TypeOK, AtHand, [Next]_vars, NEW i \in 1 .. at', Over(i)'
  PROVE  \/ i \in 1 .. at /\ Over(i)
         \/ Passed(i)' /\ pc = "next"
         \/ i = at /\ at' = at /\ pc \notin {"begin", "next", "done", "killed"}
            /\ pc' \in {"next", "done"} /\ (pc' = "done" => retval' = 0)
  <1>1. /\ walk' = walk /\ at \in 0 .. Len(walk) /\ at' \in at .. Len(walk)
        /\ Len(walk) \in Nat /\ at \in Int /\ at' \in Int /\ i \in Int
    BY Grows, TreeAssumption DEF TypeOK
  <1>2. CASE NextEntry
    BY <1>1, <1>2 DEF NextEntry, Over, Left, Passed, First, Goto
  <1>3. CASE at' = at /\ ~NextEntry
    BY <1>1, <1>3 DEF Over, AtHand, Next, vars, acls, history, Begin, EntryError, Start, SetError, CopyEntry, CopyError, CopyFinish,
             CleanupStart, Cleanup, Quit, Skip, Goto, NobodyAsked
  <1> QED
    BY <1>2, <1>3 DEF Next, vars, acls, history, Begin, EntryError, Start, SetError, CopyEntry, CopyError, CopyFinish,
             CleanupStart, Cleanup

\* What fts_read passes stays passed.
LEMMA PassedStays ==
  ASSUME TypeOK, AtHand, [Next]_vars, NEW i \in 1 .. at, Passed(i)
  PROVE  Passed(i)'
  BY Grows DEF Passed

\* A file is copied, or skipped or its failure told, before the loop goes on.
LEMMA FileStep == TypeOK /\ AtHand /\ FileOver /\ [Next]_vars => FileOver'
  <1> SUFFICES ASSUME TypeOK, AtHand, FileOver, [Next]_vars, "DATA" \in flags',
                      NEW i \in 1 .. at', walk'[i][2] = "F"
               PROVE  /\ i = at' /\ pc' = "finish" => dst'[walk'[i][1]] = "copy"
                      /\ Over(i)' => \/ Passed(i)' \/ dst'[walk'[i][1]] = "copy"
                                     \/ Said("START", walk[i][1], "SKIP")'
                                     \/ Said("ERR", walk[i][1], "CONTINUE")'
    BY DEF FileOver
  <1> PICK n : n = walk[i][1]
    OBVIOUS
  <1>1. /\ walk' = walk /\ at \in 0 .. Len(walk) /\ at' \in at .. Len(walk) /\ walk \in Walks
        /\ Len(walk) \in Nat /\ at \in Int /\ at' \in Int /\ i \in Int /\ i \in 1 .. Len(walk)
    BY Grows, TreeAssumption DEF TypeOK
  <1>2. n \in Nodes /\ ~IsDir(n)
    BY <1>1, WalkAssumption, EntryTyped
  <1>3. pc # "begin" => flags' = flags
    BY Grows
  <1>4. dst[n] = "copy" /\ ~(CopyEntry /\ n = ent[1]) => dst'[n] = "copy"
    BY <1>2 DEF TypeOK, Next, vars, acls, history, Begin, NextEntry, EntryError, Start, SetError, CopyEntry, CopyError,
             CopyFinish, CleanupStart, Cleanup
  <1>5. ASSUME i = at', pc' = "finish"
        PROVE  dst'[n] = "copy"
    <2>1. (CopyEntry \/ UNCHANGED vars) /\ i = at
      BY <1>5 DEF Next, vars, acls, history, Begin, NextEntry, EntryError, Start, SetError, CopyEntry, CopyError, CopyFinish,
             CleanupStart, Cleanup, Quit, Skip, Goto, NobodyAsked
    <2>2. CASE UNCHANGED vars
      BY <1>1, <1>3, <1>5, <2>1, <2>2 DEF FileOver, vars
    <2>3. CASE CopyEntry
      BY <1>1, <1>2, <1>3, <1>5, <2>1, <2>3 DEF CopyEntry, CopiedAs, ent, Goto, TypeOK
    <2> QED
      BY <2>1, <2>2, <2>3
  <1>6. ASSUME Over(i)', ~Passed(i)', dst'[n] # "copy"
        PROVE  Said("START", n, "SKIP")' \/ Said("ERR", n, "CONTINUE")'
    <2>1. CASE i \in 1 .. at /\ Over(i)
      <3>1. pc # "begin"
        BY <1>1, <2>1 DEF AtHand, Over
      <3>2. ~(CopyEntry /\ n = ent[1])
        <4>1. SUFFICES ASSUME CopyEntry, n = ent[1] PROVE FALSE
          OBVIOUS
        <4>2. at \in 1 .. Len(walk) /\ First(walk[at]) /\ i < at /\ First(walk[i])
          BY <1>1, <2>1, <4>1 DEF AtHand, CopyEntry, Over, ent, First
        <4>3. walk[i][1] = walk[at][1] /\ i \in 1 .. Len(walk)
          BY <1>1, <4>1, <4>2 DEF ent
        <4> QED
          BY <1>1, <4>2, <4>3, WalkAssumption
      <3> QED
        BY <1>1, <1>3, <1>4, <1>6, <2>1, <3>1, <3>2, PassedStays, Grows DEF FileOver, Said
    <2>2. CASE /\ i = at /\ at' = at /\ pc \notin {"begin", "next", "done", "killed"}
               /\ pc' \in {"next", "done"} /\ (pc' = "done" => retval' = 0)
      <3>1. pc # "finish"
        BY <1>1, <1>3, <1>4, <1>6, <2>2 DEF FileOver, CopyEntry
      <3>2. pc = "start" \/ pc = "copyerror"
        BY <1>1, <2>2, <3>1 DEF AtHand, ent, TypeOK, First, Next, vars, acls, history, Begin, NextEntry, EntryError, Start, SetError, CopyEntry, CopyError, CopyFinish,
             CleanupStart, Cleanup, Quit, Skip, Goto, NobodyAsked
      <3>3. CASE pc = "start"
        <4>1. Ask("START", "SKIP")
          BY <2>2, <3>3 DEF Next, vars, acls, history, Begin, NextEntry, EntryError, Start, SetError, CopyEntry, CopyError, CopyFinish,
             CleanupStart, Cleanup, Quit, Skip, Goto, NobodyAsked
        <4>2. "START" \in Stages /\ "SKIP" \in Answers
          BY DEF Stages, Answers
        <4>3. Asked' = Asked \cup {<<"START", ent[1], "SKIP">>}
          BY <2>2, <4>1, <4>2, AskSays
        <4> QED
          BY <2>2, <4>3 DEF Said, ent
      <3>4. CASE pc = "copyerror"
        <4>1. Ask("ERR", "CONTINUE")
          BY <2>2, <3>4 DEF Next, vars, acls, history, Begin, NextEntry, EntryError, Start, SetError, CopyEntry, CopyError, CopyFinish,
             CleanupStart, Cleanup, Quit, Skip, Goto, NobodyAsked, StopOrGo
        <4>2. "ERR" \in Stages /\ "CONTINUE" \in Answers
          BY DEF Stages, Answers
        <4>3. Asked' = Asked \cup {<<"ERR", ent[1], "CONTINUE">>}
          BY <2>2, <4>1, <4>2, AskSays
        <4> QED
          BY <2>2, <4>3 DEF Said, ent
      <3> QED
        BY <3>2, <3>3, <3>4
    <2> QED
      BY <1>6, <2>1, <2>2, OverBefore
  <1> QED
    BY <1>1, <1>5, <1>6 DEF Said

\* An entry that could not be read is told before the loop goes on.
LEMMA ErrorStep == TypeOK /\ AtHand /\ ErrorOver /\ [Next]_vars => ErrorOver'
  <1> SUFFICES ASSUME TypeOK, AtHand, ErrorOver, [Next]_vars,
                      NEW i \in 1 .. at', walk'[i][2] = "DNR", Over(i)', ~Passed(i)'
               PROVE  Said("ERROR", walk[i][1], "CONTINUE")'
    BY DEF ErrorOver
  <1>1. /\ walk' = walk /\ at \in 0 .. Len(walk) /\ at' \in at .. Len(walk)
        /\ Len(walk) \in Nat
    BY Grows, TreeAssumption DEF TypeOK
  <1> PICK n : n = walk[i][1]
    OBVIOUS
  <1>2. CASE i \in 1 .. at /\ Over(i)
    BY <1>1, <1>2, PassedStays, Grows DEF ErrorOver, Said
  <1>3. CASE /\ i = at /\ at' = at /\ pc \notin {"begin", "next", "done", "killed"}
             /\ pc' \in {"next", "done"} /\ (pc' = "done" => retval' = 0)
    <2>1. pc = "error"
      BY <1>1, <1>3 DEF AtHand, ent, TypeOK, First
    <2>2. Ask("ERROR", "CONTINUE")
      BY <1>3, <2>1 DEF Next, vars, acls, history, Begin, NextEntry, EntryError, Start, SetError, CopyEntry, CopyError, CopyFinish,
             CleanupStart, Cleanup, Quit, Skip, Goto, NobodyAsked, StopOrGo
    <2>3. "ERROR" \in Stages /\ "CONTINUE" \in Answers
      BY DEF Stages, Answers
    <2>4. Asked' = Asked \cup {<<"ERROR", ent[1], "CONTINUE">>}
      BY <1>3, <2>2, <2>3, AskSays
    <2> QED
      BY <1>1, <1>3, <2>4 DEF Said, ent
  <1> QED
    BY <1>2, <1>3, OverBefore

\* A directory is given the uberace with its entry, and loses it only when it comes a second
\* time.
LEMMA GivenStep == TypeOK /\ AtHand /\ UberaceGiven /\ [Next]_vars => UberaceGiven'
  <1> SUFFICES ASSUME TypeOK, AtHand, UberaceGiven, [Next]_vars, "ACL" \in flags',
                      NEW i \in 1 .. at', walk'[i][2] = "D", walk'[i][1] \in acl',
                      Over(i)' \/ pc' = "finish"
               PROVE  \/ walk'[i][1] \in uber' \cup failed' \cup refused'
                      \/ Said("START", walk[i][1], "SKIP")' \/ Passed(i)'
                      \/ \E k \in 1 .. at' : walk'[k] = <<walk'[i][1], "DP">>
    BY DEF UberaceGiven
  <1> PICK n : n = walk[i][1]
    OBVIOUS
  <1>1. /\ walk' = walk /\ at \in 0 .. Len(walk) /\ at' \in at .. Len(walk) /\ walk \in Walks
        /\ Len(walk) \in Nat /\ at \in Int /\ at' \in Int /\ i \in Int
        /\ Asked \subseteq Asked' /\ pruned \subseteq pruned'
    BY Grows, TreeAssumption DEF TypeOK
  <1>2. pc # "begin" => flags' = flags
    BY Grows
  <1>3. failed \subseteq failed' /\ refused \subseteq refused'
    BY DEF Next, vars, acls, history, Begin, NextEntry, EntryError, Start, SetError, CopyEntry, CopyError, CopyFinish,
             CleanupStart, Cleanup, Quit, Skip, Goto, NobodyAsked
  <1>4. n \in uber /\ ~(CopyEntry /\ ent[1] = n) => n \in uber' \/ (ent[1] = n /\ pc = "open" /\ at' = at)
    <2>1. CASE CopyEntry
      BY <2>1 DEF CopyEntry, Lasting
    <2>2. CASE ~CopyEntry
      BY <2>2 DEF Next, vars, acls, history, Begin, NextEntry, EntryError, Start, SetError, CopyError, CopyFinish,
             CleanupStart, Cleanup, Quit, Skip, Goto, NobodyAsked, Cleaned
    <2> QED
      BY <2>1, <2>2
  <1>10. n \in acl' /\ ~(CopyEntry /\ ent[1] = n) => n \in acl
    <2>1. CASE CopyEntry
      BY <2>1 DEF CopyEntry, Listed
    <2>2. CASE ~CopyEntry
      BY <2>2 DEF Next, vars, acls, history, Begin, NextEntry, EntryError, Start, SetError, CopyError, CopyFinish,
             CleanupStart, Cleanup
    <2> QED
      BY <2>1, <2>2
  <1>5. CASE i \in 1 .. at /\ (Over(i) \/ pc = "finish")
    <2>1. pc # "begin"
      BY <1>1, <1>5 DEF AtHand, Over
    <2>5. ~(CopyEntry /\ ent[1] = n)
      <3>1. SUFFICES ASSUME CopyEntry, n = ent[1] PROVE FALSE
        OBVIOUS
      <3>2. at \in 1 .. Len(walk) /\ First(walk[at]) /\ i < at /\ First(walk[i])
        BY <1>1, <1>5, <3>1 DEF AtHand, CopyEntry, Over, ent, First
      <3>3. walk[i][1] = walk[at][1] /\ i \in 1 .. Len(walk)
        BY <1>1, <3>1, <3>2 DEF ent
      <3> QED
        BY <1>1, <3>2, <3>3, WalkAssumption
    <2>2. \/ n \in uber \cup failed \cup refused \/ Said("START", n, "SKIP") \/ Passed(i)
          \/ \E k \in 1 .. at : walk[k] = <<n, "DP">>
      BY <1>1, <1>2, <1>5, <1>10, <2>1, <2>5 DEF UberaceGiven
    <2>3. ASSUME ent[1] = n, pc = "open", at' = at
          PROVE  \E k \in 1 .. at' : walk'[k] = <<n, "DP">>
      BY <1>1, <2>3, EntryTyped DEF AtHand, ent
    <2>4. Passed(i) => Passed(i)'
      BY <1>5, PassedStays
    <2> QED
      BY <1>1, <1>3, <1>4, <2>2, <2>3, <2>4, <2>5 DEF Said
  <1>6. CASE i = at /\ at' = at /\ pc' = "finish" /\ pc # "finish"
    <2>1. CopyEntry
      BY <1>6 DEF Next, vars, acls, history, Begin, NextEntry, EntryError, Start, SetError, CopyEntry, CopyError, CopyFinish,
             CleanupStart, Cleanup, Quit, Skip, Goto, NobodyAsked
    <2> QED
      BY <1>1, <1>2, <1>6, <2>1 DEF CopyEntry, Given, Lasting, Delays, ent, Goto
  <1>7. CASE /\ i = at /\ at' = at /\ pc \notin {"begin", "next", "done", "killed", "finish"}
             /\ pc' \in {"next", "done"} /\ (pc' = "done" => retval' = 0)
    <2>1. pc \in {"start", "copyerror", "seterror"}
      BY <1>1, <1>7 DEF AtHand, ent, TypeOK, First, Next, vars, acls, history, Begin, NextEntry, EntryError, Start, SetError, CopyEntry, CopyError, CopyFinish,
             CleanupStart, Cleanup, Quit, Skip, Goto, NobodyAsked
    <2>2. CASE pc = "start"
      <3>1. Ask("START", "SKIP")
        BY <1>7, <2>2 DEF Next, vars, acls, history, Begin, NextEntry, EntryError, Start, SetError, CopyEntry, CopyError, CopyFinish,
             CleanupStart, Cleanup, Quit, Skip, Goto, NobodyAsked
      <3>2. "START" \in Stages /\ "SKIP" \in Answers
        BY DEF Stages, Answers
      <3>3. Asked' = Asked \cup {<<"START", ent[1], "SKIP">>}
        BY <1>7, <3>1, <3>2, AskSays
      <3> QED
        BY <1>1, <1>7, <3>3 DEF Said, ent
    <2>3. CASE pc = "copyerror"
      BY <1>1, <1>3, <1>7, <2>3 DEF AtHand, ent
    <2>4. CASE pc = "seterror"
      BY <1>1, <1>7, <2>4 DEF AtHand, ent, Said
    <2> QED
      BY <2>1, <2>2, <2>3, <2>4
  <1>8. CASE Passed(i)'
    BY <1>8
  <1>9. CASE Over(i)'
    BY <1>5, <1>7, <1>8, <1>9, OverBefore
  <1>11. CASE pc' = "finish"
    <2>1. at' = at
      BY <1>11 DEF Next, vars, acls, history, Begin, NextEntry, EntryError, Start, SetError, CopyEntry, CopyError, CopyFinish,
             CleanupStart, Cleanup, Quit, Skip, Goto, NobodyAsked
    <2> QED
      BY <1>1, <1>5, <1>6, <1>11, <2>1 DEF Over
  <1> QED
    BY <1>9, <1>11

\* Where the uberace comes from: a copy of the entry at hand, of a directory that keeps it or
\* of something that could not be copied; or its ACL could not be set.
LEMMA UberaceFrom ==
  ASSUME TypeOK, AtHand, [Next]_vars, SameUid, NEW n \in uber', n \notin uber, n \notin refused'
  PROVE  /\ CopyEntry /\ n = ent[1] /\ at' = at /\ pruned' = pruned
         /\ \/ ent[2] = "D" /\ pc' \in {"finish", "copyerror"}
            \/ pc' = "copyerror"
  <1>1. CopyEntry
    BY DEF Next, vars, acls, history, Begin, NextEntry, EntryError, Start, SetError, CopyError, CopyFinish,
           CleanupStart, Cleanup, Cleaned
  <1>2. /\ at' = at /\ pruned' = pruned
        /\ \/ uber' = Lasting(ent[1]) /\ pc' = "finish"
           \/ uber' \in {uber, uber \cup {ent[1]}} /\ refused' = refused \cup {ent[1]}
           \/ uber' \in {uber, uber \cup ({ent[1]} \cap acl)} /\ pc' = "copyerror"
    BY <1>1 DEF CopyEntry, Goto
  <1>3. n \in Lasting(ent[1]) => n = ent[1] /\ ent[2] = "D"
    BY DEF Lasting, Delays
  <1> QED
    BY <1>1, <1>2, <1>3

\* A directory that has the uberace will come a second time, and then it loses it unless the
\* callback said otherwise or was told.
LEMMA OwedByDirStep ==
  ASSUME TypeOK, AtHand, [Next]_vars, NEW n \in uber, n \in uber', n \notin refused', OwedByDir(n), SameUid
  PROVE  OwedByDir(n)'
  <1>1. /\ walk' = walk /\ at \in 0 .. Len(walk) /\ at' \in at .. Len(walk) /\ walk \in Walks
        /\ Len(walk) \in Nat /\ at \in Int /\ at' \in Int
        /\ Asked \subseteq Asked' /\ pruned \subseteq pruned'
    BY Grows, TreeAssumption DEF TypeOK
  <1>2. PICK i \in 1 .. at : /\ walk[i] = <<n, "D">>
                             /\ i < at \/ pc \in {"finish", "copyerror", "next", "done"}
    BY DEF OwedByDir
  <1>3. ASSUME NEW p \in pruned' PROVE n \notin Below(p)
    <2>1. CASE p \in pruned
      BY <2>1 DEF OwedByDir
    <2>2. CASE p \notin pruned
      <3>1. Start /\ p = ent[1]
        BY <1>3, <2>2 DEF Next, vars, acls, history, Begin, NextEntry, EntryError, Start, SetError, CopyEntry, CopyError, CopyFinish,
             CleanupStart, Cleanup, Quit, Skip, Goto, NobodyAsked, Pruned
      <3>2. at \in 1 .. Len(walk) /\ First(walk[at]) /\ p = walk[at][1]
        BY <1>1, <3>1 DEF AtHand, Start, ent
      <3>3. First(walk[i]) /\ walk[i][1] = n
        BY <1>2 DEF First
      <3>4. i < at
        BY <1>2, <3>1 DEF Start
      <3> QED
        BY <1>1, <3>2, <3>3, <3>4, WalkAssumption
    <2> QED
      BY <2>1, <2>2
  <1>4. ASSUME NEW k \in 1 .. at', walk[k] = <<n, "DP">>, Over(k)'
        PROVE  Said("CSTART", n, "SKIP")' \/ Said("CERR", n, "CONTINUE")'
    <2>1. CASE k \in 1 .. at /\ Over(k)
      BY <1>1, <1>4, <2>1 DEF OwedByDir, Said
    <2>2. CASE Passed(k)'
      BY <1>1, <1>3, <1>4, <2>2 DEF Passed
    <2>3. CASE /\ k = at /\ at' = at /\ pc \notin {"begin", "next", "done", "killed"}
               /\ pc' \in {"next", "done"} /\ (pc' = "done" => retval' = 0)
      <3>1. (pc = "cleanup" \/ pc = "open") /\ ent[1] = n
        BY <1>1, <1>4, <2>3 DEF AtHand, ent, TypeOK, First
      <3>2. CASE pc = "cleanup"
        <4>1. Ask("CSTART", "SKIP")
          BY <2>3, <3>2 DEF Next, vars, acls, history, Begin, NextEntry, EntryError, Start, SetError, CopyEntry, CopyError, CopyFinish,
             CleanupStart, Cleanup, Quit, Skip, Goto, NobodyAsked
        <4>2. "CSTART" \in Stages /\ "SKIP" \in Answers
          BY DEF Stages, Answers
        <4>3. Asked' = Asked \cup {<<"CSTART", ent[1], "SKIP">>}
          BY <2>3, <4>1, <4>2, AskSays
        <4> QED
          BY <3>1, <4>2, <4>3 DEF Said
      <3>3. CASE pc = "open"
        <4>1. Cleanup
          BY <2>3, <3>3 DEF Next, vars, acls, history, Begin, NextEntry, EntryError, Start, SetError, CopyEntry, CopyError, CopyFinish,
             CleanupStart, Cleanup
        <4>2. ~(uber' = Cleaned(n)) /\ ~(refused' = refused \cup {n})
          BY DEF Cleaned
        <4>3. Ask("CERR", "CONTINUE")
          BY <2>3, <3>1, <4>1, <4>2 DEF Cleanup, NobodyAsked, Quit, Skip, Goto, StopOrGo
        <4>4. "CERR" \in Stages /\ "CONTINUE" \in Answers
          BY DEF Stages, Answers
        <4>5. Asked' = Asked \cup {<<"CERR", ent[1], "CONTINUE">>}
          BY <2>3, <4>3, <4>4, AskSays
        <4> QED
          BY <3>1, <4>5 DEF Said
      <3> QED
        BY <3>1, <3>2, <3>3
    <2> QED
      BY <1>4, <2>1, <2>2, <2>3, OverBefore
  <1>5. i < at' \/ pc' \in {"finish", "copyerror", "next", "done"}
    BY <1>1, <1>2 DEF Next, vars, acls, history, Begin, NextEntry, EntryError, Start, SetError, CopyEntry, CopyError, CopyFinish,
             CleanupStart, Cleanup, Quit, Skip, Goto, NobodyAsked, Left
  <1> QED
    BY <1>1, <1>2, <1>3, <1>4, <1>5 DEF OwedByDir

\* A file is left with the uberace by a copy that failed, which the callback is told.
LEMMA OwedByFileStep ==
  ASSUME TypeOK, AtHand, [Next]_vars, NEW n, OwedByFile(n)
  PROVE  OwedByFile(n)'
  <1>1. /\ walk' = walk /\ at \in 0 .. Len(walk) /\ at' \in at .. Len(walk) /\ walk \in Walks
        /\ Len(walk) \in Nat /\ at \in Int /\ at' \in Int
        /\ Asked \subseteq Asked' /\ pruned' \subseteq Nodes
    BY Grows, TypeStep, TreeAssumption DEF TypeOK
  <1>2. PICK i \in 1 .. at : /\ walk[i] = <<n, "F">>
                             /\ i < at \/ pc \in {"copyerror", "next", "done"}
                             /\ Over(i) => Said("ERR", n, "CONTINUE")
    BY DEF OwedByFile
  <1>3. i < at' \/ pc' \in {"copyerror", "next", "done"}
    BY <1>1, <1>2 DEF Next, vars, acls, history, Begin, NextEntry, EntryError, Start, SetError, CopyEntry, CopyError, CopyFinish,
             CleanupStart, Cleanup, Quit, Skip, Goto, NobodyAsked, Left
  <1>4. CASE Over(i)
    BY <1>1, <1>2, <1>3, <1>4 DEF OwedByFile, Said
  <1>5. CASE ~Over(i)
    <2>1. i = at /\ pc \in {"copyerror", "done"} /\ (pc = "done" => retval # 0)
      BY <1>1, <1>2, <1>5 DEF Over
    <2>2. CASE pc = "done"
      <3>1. at' = at /\ pc' = pc /\ retval' = retval
        BY <2>2 DEF Next, vars, acls, history, Begin, NextEntry, EntryError, Start, SetError, CopyEntry, CopyError, CopyFinish,
             CleanupStart, Cleanup
      <3> QED
        BY <1>1, <1>2, <2>1, <2>2, <3>1 DEF OwedByFile, Over
    <2>3. CASE pc = "copyerror"
      <3>1. (CopyError \/ UNCHANGED vars) /\ at' = at
        BY <2>3 DEF Next, vars, acls, history, Begin, NextEntry, EntryError, Start, SetError, CopyEntry, CopyError, CopyFinish,
             CleanupStart, Cleanup
      <3>2. CASE Over(i)'
        <4>1. Ask("ERR", "CONTINUE")
          BY <1>1, <2>1, <2>3, <3>1, <3>2 DEF CopyError, Over, vars, NobodyAsked, Quit, Skip, Goto, StopOrGo
        <4>2. "ERR" \in Stages /\ "CONTINUE" \in Answers
          BY DEF Stages, Answers
        <4>3. Asked' = Asked \cup {<<"ERR", ent[1], "CONTINUE">>}
          BY <2>3, <4>1, <4>2, AskSays
        <4>4. ent[1] = n
          BY <1>2, <2>1 DEF ent
        <4> QED
          BY <1>1, <1>2, <1>3, <3>1, <4>3, <4>4 DEF OwedByFile, Said
      <3>3. CASE ~Over(i)'
        BY <1>1, <1>2, <1>3, <3>1, <3>3 DEF OwedByFile
      <3> QED
        BY <3>2, <3>3
    <2> QED
      BY <2>1, <2>2, <2>3
  <1> QED
    BY <1>4, <1>5

\* What has the uberace is owed its removal, or its ACL was refused.
LEMMA OwedStep == TypeOK /\ AtHand /\ UberaceOwed /\ [Next]_vars => UberaceOwed'
  <1> SUFFICES ASSUME TypeOK, AtHand, UberaceOwed, [Next]_vars, SameUid, NEW n \in uber', n \notin refused'
               PROVE  OwedByDir(n)' \/ OwedByFile(n)'
    BY DEF UberaceOwed
  <1>1. /\ walk' = walk /\ at \in 0 .. Len(walk) /\ at' \in at .. Len(walk) /\ walk \in Walks
        /\ Len(walk) \in Nat /\ at \in Int /\ at' \in Int
    BY Grows, TreeAssumption DEF TypeOK
  <1>2. CASE n \notin uber
    <2>1. /\ CopyEntry /\ n = ent[1] /\ at' = at /\ pruned' = pruned
          /\ \/ ent[2] = "D" /\ pc' \in {"finish", "copyerror"}
             \/ pc' = "copyerror"
      BY <1>2, UberaceFrom
    <2>2. at \in 1 .. Len(walk) /\ ~Passed(at) /\ First(walk[at])
      BY <1>1, <2>1 DEF AtHand, CopyEntry, ent
    <2>3. CASE walk[at] = <<n, "D">>
      <3>1. \A k \in 1 .. Len(walk) : walk[k] = <<n, "DP">> => at < k
        BY <1>1, <2>2, <2>3, WalkAssumption
      <3>2. \A p \in pruned' : n \notin Below(p)
        BY <2>1, <2>2 DEF Passed, ent
      <3>3. pc' \in {"finish", "copyerror"}
        BY <2>1
      <3> QED
        BY <1>1, <2>1, <2>2, <2>3, <3>1, <3>2, <3>3 DEF OwedByDir, Over
    <2>4. CASE walk[at] = <<n, "F">>
      <3>1. pc' = "copyerror"
        BY <2>1, <2>4 DEF ent
      <3> QED
        BY <1>1, <2>1, <2>2, <2>4, <3>1 DEF OwedByFile, Over
    <2> QED
      BY <2>1, <2>2, <2>3, <2>4, EntryTyped DEF ent, First
  <1>3. CASE n \in uber
    <2>1. n \notin refused
      BY DEF Next, vars, acls, history, Begin, NextEntry, EntryError, Start, SetError, CopyEntry, CopyError, CopyFinish,
             CleanupStart, Cleanup
    <2> QED
      BY <1>3, <2>1, OwedByDirStep, OwedByFileStep DEF UberaceOwed
  <1> QED
    BY <1>2, <1>3

\* The invariant is inductive.
LEMMA NextIInv == IInv /\ [Next]_vars => IInv'
  BY TypeStep, AtHandStep, ChangedStep, SkippedStep, PrunedStep, FileStep, ErrorStep, GivenStep,
     OwedStep, UntouchedStep, QuitStep DEF IInv

\* The states copytree reaches satisfy it.
LEMMA Inductive == Spec => []IInv
  BY InitIInv, NextIInv, PTL DEF Spec

-----------------------------------------------------------------------------
(* The properties.                                                         *)

\* The variables of copytree keep their types.
THEOREM TypeCorrect == Spec => []TypeOK
  <1>1. IInv => TypeOK
    BY DEF IInv
  <1> QED
    BY <1>1, Inductive, PTL

\* The callback's answers are followed: what it skips is not touched, with all that is below
\* it, and QUIT ends the copy (copytree, for every hierarchy).
THEOREM AnswersAreFollowed == Spec => []AnswersFollowed
  <1>1. IInv => AnswersFollowed
    BY DEF IInv, AnswersFollowed
  <1> QED
    BY <1>1, Inductive, PTL

\* When copytree reports success and fts did not fail, a file that was not copied was skipped
\* by the callback or reported to it, or something above it was.
THEOREM NoSilentLoss == Spec => []NothingLostSilently
  <1>1. IInv => NothingLostSilently
    <2> SUFFICES ASSUME IInv, pc = "done", retval = 0, ~cut, NEW n \in Nodes,
                        Kind[n] = "file", "DATA" \in flags, dst[n] # "copy"
                 PROVE  \E m \in Nodes :
                          /\ m = n \/ n \in Below(m)
                          /\ \/ Said("START", m, "SKIP")
                             \/ Said("ERR", m, "CONTINUE") \/ Said("ERROR", m, "CONTINUE")
      BY DEF NothingLostSilently, LossesTold
    <2>1. /\ TypeOK /\ walk \in Walks /\ Len(walk) \in Nat /\ at \in 0 .. Len(walk)
          /\ pruned \subseteq Nodes
      BY TreeAssumption DEF IInv, TypeOK
    <2>2. PICK i \in 1 .. Len(walk) : \/ walk[i] = <<n, "F">>
                                      \/ walk[i][2] = "DNR" /\ n \in Below(walk[i][1])
      BY <2>1, WalkAssumption
    <2>3. PICK m \in Nodes : m = walk[i][1]
      BY <2>1, EntryTyped
    <2>4. m = n \/ n \in Below(m)
      BY <2>2, <2>3
    <2>5. CASE Passed(i)
      <3>1. PICK p \in pruned : m \in Below(p)
        BY <2>3, <2>5 DEF Passed
      <3>2. p \in Nodes /\ n \in Below(p)
        BY <2>1, <2>4, <3>1, BelowTransitive
      <3>3. Said("START", p, "SKIP")
        BY <3>1 DEF IInv, PrunedSaid
      <3> QED
        BY <3>2, <3>3
    <2>6. CASE ~Passed(i)
      <3>1. i \in 1 .. at /\ Over(i)
        BY <2>1, <2>6 DEF IInv, AtHand, Left, Passed, Over
      <3>2. CASE walk[i] = <<n, "F">>
        BY <2>3, <2>6, <3>1, <3>2 DEF IInv, FileOver, Said
      <3>3. CASE walk[i][2] = "DNR"
        BY <2>3, <2>4, <2>6, <3>1, <3>3 DEF IInv, ErrorOver, Said
      <3> QED
        BY <2>2, <3>2, <3>3
    <2> QED
      BY <2>5, <2>6
  <1> QED
    BY <1>1, Inductive, PTL

\* What is copied into a directory finds the helper access entry there, and at the end no
\* directory has it any more, with the exceptions UberaceKept names (copytree, cfDelayAce).
THEOREM UberaceIsKept == Spec => []UberaceKept
  <1>1. IInv => UberaceWhileInside
    <2> SUFFICES ASSUME IInv, pc = "finish", "ACL" \in flags, ent[1] # Root, Parent[ent[1]] \in acl
                 PROVE  \/ Parent[ent[1]] \in uber \cup failed \cup refused
                        \/ Said("START", Parent[ent[1]], "SKIP")
      BY DEF UberaceWhileInside
    <2>1. /\ TypeOK /\ walk \in Walks /\ Len(walk) \in Nat /\ at \in 1 .. Len(walk)
          /\ First(walk[at]) /\ ~Passed(at) /\ pruned \subseteq Nodes
      BY TreeAssumption DEF IInv, TypeOK, AtHand, ent
    <2>2. PICK n \in Nodes \ {Root} : n = ent[1]
      BY <2>1, EntryTyped DEF ent
    <2>3. PICK i \in 1 .. at - 1 : walk[i] = <<Parent[n], "D">>
      BY <2>1, <2>2, WalkAssumption DEF ent
    <2>4. Over(i) /\ i \in 1 .. at /\ walk[i][1] = Parent[n] /\ walk[i][2] = "D"
      BY <2>1, <2>3 DEF Over
    <2>5. ~Passed(i)
      BY <2>1, <2>2, <2>4, ChildBelow DEF Passed, ent
    <2>6. ~ \E k \in 1 .. at : walk[k] = <<Parent[n], "DP">>
      BY <2>1, <2>2, WalkAssumption DEF ent
    <2> QED
      BY <2>2, <2>4, <2>5, <2>6 DEF IInv, UberaceGiven, Said
  <1>2. IInv => UberaceRemoved
    <2> SUFFICES ASSUME IInv, pc = "done", retval = 0, ~cut, SameUid, NEW n \in uber, n \notin refused,
                        Kind[n] # "unread"
                 PROVE  \/ Said("CSTART", n, "SKIP") \/ Said("CERR", n, "CONTINUE")
                        \/ ~IsDir(n) /\ Said("ERR", n, "CONTINUE")
      BY DEF UberaceRemoved
    <2>1. /\ TypeOK /\ walk \in Walks /\ Len(walk) \in Nat /\ at \in 0 .. Len(walk)
      BY TreeAssumption DEF IInv, TypeOK
    <2>2. CASE OwedByDir(n)
      <3>1. PICK i \in 1 .. at : walk[i] = <<n, "D">>
        BY <2>2 DEF OwedByDir
      <3> i \in 1 .. Len(walk) /\ walk[i][1] = n /\ walk[i][2] = "D"
        BY <2>1, <3>1
      <3>2. PICK k \in 1 .. Len(walk) : walk[k] = <<n, "DP">>
        BY <2>1, WalkAssumption
      <3>3. ~Passed(k)
        BY <2>2, <3>2 DEF OwedByDir, Passed
      <3>4. k \in 1 .. at /\ Over(k)
        BY <2>1, <3>3 DEF IInv, AtHand, Left, Passed, Over
      <3> QED
        BY <2>2, <3>2, <3>4 DEF OwedByDir
    <2>3. CASE OwedByFile(n)
      <3>1. PICK i \in 1 .. at : walk[i] = <<n, "F">> /\ (Over(i) => Said("ERR", n, "CONTINUE"))
        BY <2>3 DEF OwedByFile
      <3>2. Over(i)
        BY <2>1 DEF Over
      <3>3. ~IsDir(n)
        BY <2>1, <3>1, WalkAssumption
      <3> QED
        BY <3>1, <3>2, <3>3
    <2> QED
      BY <2>2, <2>3 DEF IInv, UberaceOwed
  <1> QED
    BY <1>1, <1>2, Inductive, PTL DEF UberaceKept
=============================================================================
