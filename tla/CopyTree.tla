------------------------------ MODULE CopyTree ------------------------------
(***************************************************************************)
(* copytree of src/copyfile.c: the recursive copy of a hierarchy, entry by *)
(* entry as fts_read returns them, with the program's status callback      *)
(* asked before and after each.                                            *)
(*                                                                         *)
(* A copyfile() of one entry is one step here (module Copyfile has its     *)
(* stages).  A directory is copied with cfDelayAce: it keeps the uberace   *)
(* that lets its contents be written until fts returns it a second time,   *)
(* if it has an ACL, in the source or at the destination: without one      *)
(* there is nothing the entry is added to.                                 *)
(***************************************************************************)
EXTENDS Integers, Sequences, FiniteSets

CONSTANTS
  Nodes,      \* entries of the source hierarchy, its root included
  Root,
  Parent,     \* the directory of each node but the root
  Kind,       \* "dir", "file", "unread" (a directory that cannot be read) or
              \* "nostat" (an entry that cannot be looked at)
  Walks,      \* what fts_read may return: pairs of a node and its fts_info
  Existing,   \* what the destinations of the nodes may be before
  SourceAcls, \* nodes that have an ACL in the source
  TargetAcls, \* nodes whose destination has an ACL when it is there before
  Inherits,   \* nodes whose destination is given an ACL by its directory when
              \* it is made
  SameUid,    \* getuid() = geteuid()
  Flags,      \* the flags copyfile() is called with
  MayFail     \* whether the system's calls may fail

IsDir(n) == Kind[n] \in {"dir", "unread"}

\* The nodes below n: the least set that has the entries of n and the entries of
\* what it has.
Children(S) == {m \in Nodes \ {Root} : Parent[m] \in S}
Closed(n, S) == Children(S \cup {n}) \subseteq S
Inside == [n \in Nodes |-> {m \in Nodes : \A S \in SUBSET Nodes : Closed(n, S) => m \in S}]
Below(n) == Inside[n]

ASSUME TreeAssumption ==
  /\ Root \in Nodes /\ IsFiniteSet(Nodes) /\ {MayFail, SameUid} \subseteq BOOLEAN
  /\ SourceAcls \cup TargetAcls \cup Inherits \subseteq Nodes
  /\ Parent \in [Nodes \ {Root} -> Nodes]
  /\ Kind \in [Nodes -> {"dir", "file", "unread", "nostat"}]
  /\ \A n \in Nodes \ {Root} : IsDir(Parent[n])
  /\ Existing \subseteq [Nodes -> {"none", "file", "dir"}]
  /\ Walks \subseteq Seq(Nodes \X {"D", "F", "DP", "DNR", "NS"})

\* The order in which fts_read returns a hierarchy.  Each entry comes once, not
\* after anything that is below it; its directory came before, and does not come
\* a second time until later; a directory comes a second time unless it could
\* not be read; a file comes as one, unless a directory above it could not be
\* read.
First(e) == e[2] \in {"D", "F"}

ASSUME WalkAssumption == \A w \in Walks :
  /\ \A i \in 1 .. Len(w) : w[i][2] = "F" => ~IsDir(w[i][1])
  /\ \A i, j \in 1 .. Len(w) : i < j /\ First(w[i]) /\ First(w[j]) =>
       w[i][1] \notin Below(w[j][1]) \cup {w[j][1]}
  /\ \A i \in 1 .. Len(w) : First(w[i]) =>
       w[i][1] = Root \/ \E j \in 1 .. i - 1 : w[j] = <<Parent[w[i][1]], "D">>
  /\ \A i, j \in 1 .. Len(w) : First(w[j]) /\ w[j][1] # Root
                              /\ w[i] = <<Parent[w[j][1]], "DP">> => j < i
  /\ \A i, j \in 1 .. Len(w) : w[i] = <<w[j][1], "D">> /\ w[j][2] = "DP" => i < j
  /\ \A i \in 1 .. Len(w) : w[i][2] = "D" =>
       \/ Kind[w[i][1]] = "unread"
       \/ \E j \in 1 .. Len(w) : w[j] = <<w[i][1], "DP">>
  /\ \A n \in Nodes : Kind[n] = "file" =>
       \E i \in 1 .. Len(w) : \/ w[i] = <<n, "F">>
                              \/ w[i][2] = "DNR" /\ n \in Below(w[i][1])

VARIABLES
  flags,   \* the flags copytree passes on
  walk, at, \* what fts_read returns, and how far it is
  pruned,  \* directories given to fts_set with FTS_SKIP
  cb,      \* whether there is a status callback
  pc,
  retval,
  dst,     \* the destination of each node: "none", "file", "dir", or "copy" for
           \* a file that holds the source's data
  acl,     \* nodes whose destination has an ACL, apart from the uberace
  uber,    \* nodes whose destination has the uberace
  was,     \* history: dst before
  asked,   \* history: the callbacks made, each with its answer
  failed,  \* history: nodes whose copy failed
  refused, \* history: nodes whose ACL could not be set, which is only logged
  cut      \* history: fts_open or fts_read has failed

acls    == <<acl, uber, refused>>
history == <<was, asked, failed, cut>>
vars    == <<flags, walk, at, pruned, cb, pc, retval, dst, acls, history>>

\* The entry at hand.
ent == walk[at]

Init ==
  /\ flags = {}
  /\ walk \in Walks /\ at = 0 /\ pruned = {}
  /\ cb \in BOOLEAN
  /\ pc = "begin" /\ retval = 0
  /\ was \in Existing /\ dst = was
  /\ acl = {n \in TargetAcls : was[n] # "none"}
  /\ uber = {} /\ asked = <<>> /\ failed = {} /\ refused = {} /\ cut = FALSE

Goto(l) == pc' = l

\* s->flags & (COPYFILE_ALL | COPYFILE_NOFOLLOW | COPYFILE_VERBOSE).
PassedFlags(fl) == fl \cap {"ACL", "STAT", "XATTR", "DATA", "NOFOLLOW", "VERBOSE"}

\* The arguments are checked; then the destination decides whether the hierarchy
\* goes into it or onto it, which is where the nodes of dst are, and fts_open
\* is called, always with FTS_PHYSICAL.  What it returns is not looked at:
\* fts_read(NULL) ends the process, or the loop.
Begin ==
  /\ pc = "begin"
  /\ IF Flags \cap {"MOVE", "UNLINK", "CHECK", "PACK", "UNPACK"} # {}
     THEN retval' = -1 /\ Goto("done")
     ELSE \/ retval' = 0 /\ Goto("next")
          \/ MayFail /\ retval' = -1 /\ Goto("done")          \* stat, basename
          \/ MayFail /\ retval' = 0 /\ (Goto("done") \/ Goto("killed"))
  /\ cut' = (pc' = "killed" \/ (pc' = "done" /\ retval' = 0))
  /\ flags' = PassedFlags(Flags)
  /\ UNCHANGED <<walk, at, pruned, cb, dst, acls, was, asked, failed>>

\* What is left for fts_read to return: what is below a directory that is skipped
\* is not, the directory itself is, a second time.
Left == {i \in at + 1 .. Len(walk) : \A n \in pruned : walk[i][1] \notin Below(n)}

\* fts_read, and the command the kind of entry leads to.  NULL ends the loop,
\* whether it means the end or an error.
NextEntry ==
  /\ pc = "next"
  /\ \/ Left = {} /\ Goto("done") /\ UNCHANGED <<at, retval, cut>>
     \/ Left # {} /\ MayFail /\ cut' = TRUE /\ Goto("done") /\ UNCHANGED <<at, retval>>
     \/ /\ UNCHANGED cut
        /\ \E i \in Left :
             /\ \A j \in Left : i <= j
             /\ at' = i
             /\ \/ /\ Goto(CASE First(walk[i])     -> "start"
                             [] walk[i][2] = "DP" -> "cleanup"
                             [] OTHER             -> "error")
                   /\ UNCHANGED retval
                \/ MayFail /\ retval' = -1 /\ Goto("done")       \* tstate, dstfile
  /\ UNCHANGED <<flags, walk, pruned, cb, dst, acls, was, asked, failed>>

\* The callback is called for the entry at hand and answers.
Ask(what, answer) == asked' = Append(asked, <<what, ent[1], answer>>)

Answers == {"CONTINUE", "SKIP", "QUIT"}

\* The answers where COPYFILE_SKIP is taken for COPYFILE_CONTINUE: everywhere but
\* before an entry or a cleanup.
StopOrGo == {"CONTINUE", "QUIT"}
Calls == {"START", "FINISH", "ERR", "ERROR", "SETERR", "CSTART", "CFINISH", "CERR"} \X Nodes \X Answers

\* The rest of the loop's body: the next entry, or out.
Skip == Goto("next") /\ UNCHANGED retval

\* retval is -1: the loop is left.
Quit == Goto("done") /\ retval' = -1

\* Mutant: without a callback errors are passed over.
NobodyAskedGoesOn == Skip

\* Without a callback an error ends the copy.
NobodyAsked == Quit

\* An entry that could not be read or looked at.
EntryError ==
  /\ pc = "error"
  /\ \/ ~cb /\ NobodyAsked /\ UNCHANGED asked
     \/ /\ cb
        /\ \E a \in StopOrGo : Ask("ERROR", a) /\ IF a = "QUIT" THEN Quit ELSE Skip
  /\ UNCHANGED <<flags, walk, at, pruned, cb, dst, acls, was, failed, cut>>

\* Mutant: COPYFILE_SKIP leaves a directory out and not what is in it.
PrunedNot(n) == pruned

\* fts_set(FTS_SKIP).
Pruned(n) == pruned \cup {n}

\* COPYFILE_START of a file or a directory.
Start ==
  /\ pc = "start"
  /\ \/ ~cb /\ Goto("copy") /\ UNCHANGED <<retval, pruned, asked>>
     \/ cb /\ Ask("START", "CONTINUE") /\ Goto("copy") /\ UNCHANGED <<retval, pruned>>
     \/ cb /\ Ask("START", "QUIT") /\ Quit /\ UNCHANGED pruned
     \/ /\ cb /\ Ask("START", "SKIP") /\ UNCHANGED retval
        /\ \/ /\ Goto("next")
              /\ pruned' = IF ent[2] = "D" THEN Pruned(ent[1]) ELSE pruned
           \/ MayFail /\ ent[2] = "D" /\ Goto("seterror") /\ UNCHANGED pruned
  /\ UNCHANGED <<flags, walk, at, cb, dst, acls, was, failed, cut>>

\* fts_set fails: the callback is told, with COPYFILE_ERR and no command, and what
\* is in the directory will come nevertheless, unless it answers COPYFILE_QUIT.
SetError ==
  /\ pc = "seterror"
  /\ \E a \in StopOrGo : Ask("SETERR", a) /\ IF a = "QUIT" THEN Quit ELSE Skip
  /\ UNCHANGED <<flags, walk, at, pruned, cb, dst, acls, was, failed, cut>>

Reachable(n) == IF n = Root THEN TRUE ELSE dst[Parent[n]] = "dir"

\* A directory that is there, or even a file, is taken for the new directory.
CopiedAs(n) == IF ~IsDir(n) THEN IF "DATA" \in flags THEN "copy" ELSE "file"
               ELSE IF dst[n] = "none" THEN "dir" ELSE dst[n]

\* tstate->internal_flags |= cfDelayAce.
Delays(n) == ent[2] = "D"

\* What a copyfile() that fails leaves: what was there, an empty or a complete
\* copy, or nothing when the data failed.
Remains(n) == {dst[n]} \cup (IF IsDir(n) THEN {CopiedAs(n)} ELSE {"none", "file", CopiedAs(n)})

\* copyfile_open can make or open the destination: the directory above is there, a
\* file would not replace a directory, and with COPYFILE_EXCL there is nothing.
Possible(n) ==
  /\ Reachable(n)
  /\ ~IsDir(n) => dst[n] # "dir"
  /\ "EXCL" \in flags => dst[n] = "none"

\* The ACL the destination has before copyfile_security.
Has(n) == n \in acl \/ (dst[n] = "none" /\ n \in Inherits)

\* The nodes with an ACL after a copy of n.
Listed(n) == acl \cup (IF Has(n) \/ ("ACL" \in flags /\ n \in SourceAcls) THEN {n} ELSE {})

\* The uberace: copyfile_fix_perms adds it to an ACL that is there before,
\* copyfile_security with cfDelayAce to one that is there after;
\* reset_security takes it off, unless it is delayed.
Given(n) == n \in acl \/ ("ACL" \in flags /\ Delays(n) /\ n \in Listed(n))
Lasting(n) == uber \cup (IF Given(n) /\ (Delays(n) \/ ~SameUid) THEN {n} ELSE {})

\* copyfile().  A failure to set an ACL, or to take the uberace off it, is only
\* logged; a copy that fails does not take it off.
CopyEntry ==
  LET n == ent[1]
  IN /\ pc = "copy"
     /\ \/ /\ Possible(n)
           /\ dst' = [dst EXCEPT ![n] = CopiedAs(n)]
           /\ \/ acl' = Listed(n) /\ uber' = Lasting(n) /\ UNCHANGED refused
              \/ /\ MayFail /\ n \in Listed(n)
                 /\ acl' \in {acl, Listed(n)}
                 /\ uber' \in {uber, uber \cup {n}}
                 /\ refused' = refused \cup {n}
           /\ Goto("finish")
           /\ UNCHANGED failed
        \/ /\ MayFail \/ ~Possible(n)
           /\ failed' = failed \cup {n}
           /\ Goto("copyerror")
           /\ \E d \in IF Possible(n) THEN Remains(n) ELSE {dst[n]} :
                dst' = [dst EXCEPT ![n] = d]
           /\ uber' \in {uber, uber \cup ({n} \cap acl)}
           /\ UNCHANGED <<acl, refused>>
     /\ UNCHANGED <<flags, walk, at, pruned, cb, retval, was, asked, cut>>

\* COPYFILE_ERR after a copy that failed.
CopyError ==
  /\ pc = "copyerror"
  /\ \/ ~cb /\ NobodyAsked /\ UNCHANGED asked
     \/ /\ cb
        /\ \E a \in StopOrGo : Ask("ERR", a) /\ IF a = "QUIT" THEN Quit ELSE Skip
  /\ UNCHANGED <<flags, walk, at, pruned, cb, dst, acls, was, failed, cut>>

\* COPYFILE_FINISH after a copy.
CopyFinish ==
  /\ pc = "finish"
  /\ \/ ~cb /\ Skip /\ UNCHANGED asked
     \/ /\ cb
        /\ \E a \in StopOrGo : Ask("FINISH", a) /\ IF a = "QUIT" THEN Quit ELSE Skip
  /\ UNCHANGED <<flags, walk, at, pruned, cb, dst, acls, was, failed, cut>>

\* COPYFILE_RECURSE_DIR_CLEANUP: COPYFILE_START.
CleanupStart ==
  /\ pc = "cleanup"
  /\ \/ ~cb /\ Goto("open") /\ UNCHANGED <<retval, asked>>
     \/ cb /\ Ask("CSTART", "CONTINUE") /\ Goto("open") /\ UNCHANGED retval
     \/ cb /\ Ask("CSTART", "QUIT") /\ Quit
     \/ cb /\ Ask("CSTART", "SKIP") /\ Skip
  /\ UNCHANGED <<flags, walk, at, pruned, cb, dst, acls, was, failed, cut>>

\* Mutant: the uberace is only removed if something was copied.
CleanedNot(n) == uber

\* remove_uberace on the destination.
Cleaned(n) == IF SameUid THEN uber \ {n} ELSE uber

\* The destination is opened, the uberace removed and COPYFILE_FINISH or
\* COPYFILE_ERR asked; a COPYFILE_QUIT after COPYFILE_FINISH sets rv and not
\* retval, so that the loop goes on.
Cleanup ==
  LET n == ent[1]
  IN /\ pc = "open"
     /\ \/ /\ dst[n] # "none"
           /\ \/ uber' = Cleaned(n) /\ UNCHANGED refused
              \/ MayFail /\ n \in uber /\ refused' = refused \cup {n} /\ UNCHANGED uber
           /\ \/ ~cb /\ Skip /\ UNCHANGED asked
              \/ cb /\ Skip /\ \E a \in StopOrGo : Ask("CFINISH", a)
        \/ /\ MayFail \/ dst[n] = "none"
           /\ \/ ~cb /\ NobodyAsked /\ UNCHANGED asked
              \/ /\ cb
                 /\ \E a \in StopOrGo : Ask("CERR", a) /\ IF a = "QUIT" THEN Quit ELSE Skip
           /\ UNCHANGED <<uber, refused>>
     /\ UNCHANGED <<flags, walk, at, pruned, cb, dst, acl, was, failed, cut>>

Next ==
  \/ Begin \/ NextEntry \/ EntryError \/ Start \/ SetError \/ CopyEntry \/ CopyError
  \/ CopyFinish \/ CleanupStart \/ Cleanup

Spec == Init /\ [][Next]_vars

-----------------------------------------------------------------------------
TypeOK ==
  /\ flags \subseteq {"ACL", "STAT", "XATTR", "DATA", "NOFOLLOW", "VERBOSE"}
  /\ walk \in Walks /\ at \in 0 .. Len(walk) /\ pruned \subseteq Nodes
  /\ cb \in BOOLEAN /\ retval \in {0, -1}
  /\ pc \in {"begin", "next", "error", "start", "copy", "copyerror", "finish",
            "cleanup", "open", "seterror", "done", "killed"}
  /\ {dst, was} \subseteq [Nodes -> {"none", "file", "dir", "copy"}]
  /\ asked \in Seq(Calls)
  /\ acl \cup uber \cup refused \cup failed \subseteq Nodes /\ cut \in BOOLEAN

Asked == {asked[i] : i \in 1 .. Len(asked)}
Said(what, n, answer) == <<what, n, answer>> \in Asked

\* A file that was not copied when copytree reports success was left out by the
\* callback or was reported to it: without one, every file is there.
LossesTold ==
  \A n \in Nodes :
    Kind[n] = "file" /\ "DATA" \in flags /\ dst[n] # "copy" =>
      \E m \in Nodes :
        /\ m = n \/ n \in Below(m)
        /\ \/ Said("START", m, "SKIP")
           \/ Said("ERR", m, "CONTINUE") \/ Said("ERROR", m, "CONTINUE")

\* It does so unless fts itself has failed, which copytree takes for the end.
NothingLostSilently == pc = "done" /\ retval = 0 /\ ~cut => LossesTold

\* "copyfile() and fcopyfile() return less than 0 on error, and 0 on success": no
\* error excepted.
SuccessIsWhole == pc = "done" /\ retval = 0 => LossesTold

\* What is copied into a directory that has an ACL is copied while that has the
\* uberace too, so that its mode cannot keep it out, unless the directory itself
\* was not copied or its ACL could not be set.
UberaceWhileInside ==
  pc = "finish" /\ "ACL" \in flags /\ ent[1] # Root /\ Parent[ent[1]] \in acl =>
    \/ Parent[ent[1]] \in uber \cup failed \cup refused
    \/ Said("START", Parent[ent[1]], "SKIP")

\* At the end nothing has the uberace any more, unless the copy stopped, or its ACL
\* could not be set, or the callback skipped the cleanup or was told that this or
\* the copy of a file failed, or a directory could not be read, for which there is
\* no cleanup at all.  The process is one whose uberace is_uberace knows again.
UberaceRemoved ==
  pc = "done" /\ retval = 0 /\ ~cut /\ SameUid =>
    \A n \in uber :
      \/ Kind[n] = "unread" \/ n \in refused
      \/ Said("CSTART", n, "SKIP") \/ Said("CERR", n, "CONTINUE")
      \/ ~IsDir(n) /\ Said("ERR", n, "CONTINUE")

\* The helper access entry of a directory is there while it is needed, and no longer
\* (copytree, COPYFILE_DELAYED uberace).
UberaceKept == UberaceWhileInside /\ UberaceRemoved

\* No entry of a directory that the callback has skipped is made or overwritten
\* (fts still returns the directory for its cleanup), unless the callback was told
\* that fts_set has failed.
SkippedUntouched ==
  \A n \in Nodes :
    Said("START", n, "SKIP") /\ ~Said("SETERR", n, "CONTINUE") =>
    \A m \in Below(n) \cup {n} : dst[m] = was[m]

\* The answer COPYFILE_QUIT ends the copy with -1, and nothing more is asked,
\* except after the cleanup of a directory, where it is not noticed.
QuitEnds ==
  \A i \in 1 .. Len(asked) :
    asked[i][3] = "QUIT" /\ asked[i][1] # "CFINISH"
    => i = Len(asked) /\ pc = "done" /\ retval = -1

\* The callback's answers are followed: SKIP for an entry and all below it, QUIT for the
\* whole copy (copytree).
AnswersFollowed == SkippedUntouched /\ QuitEnds

\* "fails if COPYFILE_EXCLUSIVE is set": nothing that was there is overwritten.
ExclusiveKeeps ==
  "EXCL" \in Flags => \A n \in Nodes : was[n] # "none" => dst[n] = was[n]
=============================================================================
