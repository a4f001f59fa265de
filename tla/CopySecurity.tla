---------------------------- MODULE CopySecurity ----------------------------
(***************************************************************************)
(* What src/copyfile.c does to access control lists, as operators: the     *)
(* entry it puts first while it copies ("uberace"), the list it gives the  *)
(* destination, and the removal of the entry.                              *)
(*                                                                         *)
(* An ACL is [has, aces]: has is whether filesec_get_property finds one,   *)
(* aces its entries [who, inh], inh being ACL_ENTRY_INHERITED.  A filesec  *)
(* is [mode, acl].  A mode is [of, rw]: whose bits they are, and whether   *)
(* S_IRUSR and S_IWUSR are among them.                                     *)
(***************************************************************************)
EXTENDS Integers, Sequences

NoAcl == [has |-> FALSE, aces |-> <<>>]
Acl(aces) == [has |-> TRUE, aces |-> aces]

\* The entry add_uberace makes: allow, for getuid(), the five write permissions.
Uberace == [who |-> "uberace", inh |-> FALSE]

\* add_uberace: the new entry is ACL_FIRST_ENTRY.
AddUberace(acl) == Acl(<<Uberace>> \o acl.aces)

\* is_uberace: an allow entry for geteuid() with the same permissions.  Whether
\* getuid() and geteuid() are the same user is sameuid.
IsUberace(ace, sameuid) == sameuid /\ ace = Uberace

\* Is the first entry the one to be removed?
FirstIsUberace(acl, sameuid) ==
  acl.has /\ acl.aces # <<>> /\ IsUberace(Head(acl.aces), sameuid)

HasUberace(acl) == \E i \in 1 .. Len(acl.aces) : acl.aces[i] = Uberace

\* copyfile_fix_perms: the entry is only added to a list that is there.
FixPerms(sec) ==
  [mode |-> [sec.mode EXCEPT !.rw = TRUE],
   acl  |-> IF sec.acl.has THEN AddUberace(sec.acl) ELSE NoAcl]


\* copyfile_security: of the destination's entries a leading uberace and the
\* inherited ones are kept.
KeptEntries(aces, sameuid) ==
  LET inherited(ace) == ace.inh
  IN IF aces # <<>> /\ IsUberace(Head(aces), sameuid)
     THEN <<Head(aces)>> \o SelectSeq(Tail(aces), inherited)
     ELSE SelectSeq(aces, inherited)

\* copyfile_security: the list of the destination, from those of the source and
\* of the destination; delay is cfDelayAce.
MergeAcl(src, dst, delay, sameuid) ==
  LET own(ace) == ~ace.inh
      kept     == IF dst.has THEN KeptEntries(dst.aces, sameuid) ELSE <<>>
      merged   == kept \o SelectSeq(src.aces, own)
  IN IF ~src.has /\ ~dst.has THEN NoAcl
     ELSE IF delay /\ ~FirstIsUberace(dst, sameuid) THEN AddUberace(Acl(merged))
     ELSE Acl(merged)

\* remove_uberace, when its calls succeed: without the entry nothing is done,
\* with it the entry goes and the mode is set.
RemoveUberace(sec, mode, sameuid) ==
  IF FirstIsUberace(sec.acl, sameuid)
  THEN [mode |-> mode, acl |-> Acl(Tail(sec.acl.aces))]
  ELSE sec
=============================================================================
