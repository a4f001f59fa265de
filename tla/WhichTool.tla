----------------------------- MODULE WhichTool -----------------------------
(***************************************************************************)
(* The which command for 10.4, tiger_only/src/which.c.                     *)
(*                                                                         *)
(* A file system is a function from the paths that exist, pairs <<d, f>>   *)
(* of a directory and a file name, to [regular, xbits]; access(2) says     *)
(* that the superuser may execute any file.  A name with a slash in it is  *)
(* a member of Slashed and stands for a path of its own, <<"", f>>.  PATH  *)
(* is a sequence of directories, "" for an empty component.                *)
(***************************************************************************)
EXTENDS Integers, Sequences, SequencesExt

CONSTANTS
  Slashed,     \* names with a slash
  TooLong,     \* paths that do not fit in PATH_MAX
  TooLongName  \* names of FILENAME_MAX characters or more

Access(fs, p, root) == p \in DOMAIN fs /\ (root \/ fs[p].xbits)

\* Mutant: what access(2) says of the superuser is taken as it is.
IsThereAccess(fs, p, root) == Access(fs, p, root) /\ fs[p].regular

\* is_there: for the superuser one of the x bits must be set.
IsThere(fs, p, root) == Access(fs, p, root) /\ fs[p].regular /\ (~root \/ fs[p].xbits)

Component(d) == IF d = "" THEN "." ELSE d

\* print_matches: what is printed, in the order of PATH, the first only without -a.
Matches(fs, path, f, root, all) ==
  IF f \in Slashed THEN IF IsThere(fs, <<"", f>>, root) THEN << <<"", f>> >> ELSE <<>>
  ELSE LET candidates == [i \in DOMAIN path |-> <<Component(path[i]), f>>]
           found == SelectSeq(candidates, LAMBDA p : p \notin TooLong /\ IsThere(fs, p, root))
       IN IF all \/ found = <<>> THEN found ELSE <<Head(found)>>

\* main: every name is looked up in a fresh copy of PATH; one that is not found
\* makes the command fail, and the others are still printed (unless -s).
Which(fs, path, names, root, all, silent) ==
  LET found == [i \in DOMAIN names |->
                  IF names[i] \in TooLongName THEN <<>> ELSE Matches(fs, path, names[i], root, all)]
  IN [out |-> IF silent THEN <<>> ELSE FlattenSeq(found),
      status |-> IF \E i \in DOMAIN names : found[i] = <<>> THEN 1 ELSE 0]

-----------------------------------------------------------------------------
\* The path printed for a name is the one the shell would run: the first in PATH
\* that is a regular file somebody may execute; the status says whether all names
\* have one (which).
FirstInPath(fs, path, names, root, silent, r) ==
  LET executable(p) == p \in DOMAIN fs /\ fs[p].regular /\ fs[p].xbits /\ p \notin TooLong
      place(f) == {i \in DOMAIN path : executable(<<Component(path[i]), f>>)}
      runs(f) == IF f \in Slashed THEN executable(<<"", f>>)
                 ELSE f \notin TooLongName /\ place(f) # {}
  IN /\ r.status = 0 <=> \A i \in DOMAIN names : runs(names[i])
     /\ \A i \in DOMAIN names :
          ~silent /\ names[i] \notin Slashed /\ runs(names[i]) =>
            LET first == CHOOSE k \in place(names[i]) : \A j \in place(names[i]) : k <= j
            IN \E k \in DOMAIN r.out : r.out[k] = <<Component(path[first]), names[i]>>
     /\ \A k \in DOMAIN r.out : executable(r.out[k])
=============================================================================
