------------------------------- MODULE PathOps ------------------------------
(***************************************************************************)
(* Operations that find out about an object first and then name it by its  *)
(* path: linkat and renameat between two directories (atcalls.c),          *)
(* fgetattrlist and fsetattrlist (fxetattrlist.c), lutimes and lchmod.     *)
(* Another process moves things around at any moment.                      *)
(*                                                                         *)
(* A path that is not cut is the place it names. File f in directory d is  *)
(* <<d, "f">>.                                                             *)
(***************************************************************************)
EXTENDS Naturals, Sequences

CONSTANTS
  Objects,   \* what is moved around
  Start,     \* [Places -> Objects or Nothing], at first
  Dirs,      \* directories among the objects
  LinkTo,    \* [symbolic links among the objects -> Objects]
  Deep,      \* places whose path leaves no room for "/" and a name in PATH_MAX
  Cwd,       \* the working directory
  MaxMoves   \* bound

VARIABLES
  where,   \* [Places -> Objects or Nothing]
  opc,     \* where the call is
  op,      \* the call and its arguments
  found,   \* what it has found out: paths (places), or whether it is a link
  want,    \* ghost: the objects it is about, at the time of the call
  hit,     \* the objects it worked on, or Failed
  moves, moved  \* moves so far; ghost: one of them during the call

pvars == <<where, opc, op, found, want, hit, moves, moved>>

Places == DOMAIN Start
Nothing == "nothing"
Failed == <<"error">>
CutPath == "cut"

PInit ==
  /\ where = Start /\ opc = "idle" /\ op = <<>> /\ found = <<>> /\ want = <<>> /\ hit = <<>>
  /\ moves = 0 /\ moved = FALSE

(* Another process renames something.                                      *)
Move ==
  /\ moves < MaxMoves
  /\ \E from, to \in Places :
       /\ where[from] # Nothing /\ where[to] = Nothing
       /\ where' = [where EXCEPT ![to] = where[from], ![from] = Nothing]
  /\ moves' = moves + 1 /\ moved' = TRUE
  /\ UNCHANGED <<opc, op, found, want, hit>>

Begin(o, next, about) ==
  op' = o /\ opc' = next /\ found' = <<>> /\ want' = about /\ moved' = FALSE /\ UNCHANGED <<where, moves>>
Finds(what, next) == found' = Append(found, what) /\ opc' = next /\ UNCHANGED hit
Ends(result) == opc' = "done" /\ hit' = result
Fails == Ends(Failed) /\ UNCHANGED found
Working == UNCHANGED <<where, op, want, moves, moved>>

(* fcntl(F_GETPATH): where the object is now.                              *)
GetPath(object) == CHOOSE p \in Places : where[p] = object

-----------------------------------------------------------------------------
(* linkat and renameat. A path is absolute (in the directory at Root) or   *)
(* relative to its descriptor.                                             *)
Descriptors == Dirs \cup {"AT_FDCWD"}
DirOf(fd) == IF fd = "AT_FDCWD" THEN Cwd ELSE fd
Root == CHOOSE p \in Places : Start[p] \in Dirs

(* A path that was cut off names something else, if anything.              *)
InDir(path, name) ==
  IF path = CutPath THEN <<CutPath, name>>
  ELSE IF where[path] \in Dirs THEN <<where[path], name>> ELSE Failed
Named(abs, dir, name) == IF abs THEN InDir(Root, name) ELSE <<dir, name>>

LinkCalls == [oldabs : BOOLEAN, newabs : BOOLEAN, oldfd : Descriptors, newfd : Descriptors]

(* One of the paths is absolute, or both start in the same directory: the  *)
(* call is made there, by descriptor (ATCALL), and resolves both paths.    *)
InOneDir(o) == o.oldabs \/ o.newabs \/ o.oldfd = o.newfd

\* Mutant: the new path's directory when the new path is absolute.
NewDirFirst(o) == DirOf(IF o.newabs THEN o.newfd ELSE IF o.oldabs THEN o.newfd ELSE o.oldfd)

CalledIn(o) == DirOf(IF o.oldabs THEN o.newfd ELSE o.oldfd)

LinkAt ==
  /\ opc = "idle"
  /\ \E o \in LinkCalls :
       LET dir == CalledIn(o)
       IN /\ Begin(o, IF InOneDir(o) THEN "done" ELSE "old path",
                   <<Named(o.oldabs, DirOf(o.oldfd), "old"), Named(o.newabs, DirOf(o.newfd), "new")>>)
          /\ hit' = IF InOneDir(o) THEN <<Named(o.oldabs, dir, "old"), Named(o.newabs, dir, "new")>>
                    ELSE hit

(* _fullpathat: strlcat cuts the path off at PATH_MAX without notice.      *)
FullPathAt(fd) == LET p == GetPath(DirOf(fd)) IN IF p \in Deep THEN CutPath ELSE p

(* The directory cannot be opened or has no path any more: an error.       *)
OldPath == opc = "old path" /\ (Finds(FullPathAt(op.oldfd), "new path") \/ Fails) /\ Working
NewPath == opc = "new path" /\ (Finds(FullPathAt(op.newfd), "link") \/ Fails) /\ Working
Link == opc = "link" /\ Ends(<<InDir(found[1], "old"), InDir(found[2], "new")>>) /\ UNCHANGED found /\ Working

-----------------------------------------------------------------------------
Follow(object) == IF object \in DOMAIN LinkTo THEN LinkTo[object] ELSE object

(* fgetattrlist and fsetattrlist with a descriptor of an object.           *)
FAttrList ==
  /\ opc = "idle"
  /\ \E object \in Objects \ DOMAIN LinkTo : Begin([fd |-> object], "path", <<object>>)
  /\ UNCHANGED hit
AttrPath == opc = "path" /\ (Finds(GetPath(op.fd), "attr") \/ Fails) /\ Working
Attr == opc = "attr" /\ Ends(<<Follow(where[found[1]])>>) /\ UNCHANGED found /\ Working

(* lutimes and lchmod: lstat, then the object itself if it is a link, and  *)
(* the call that follows links if it is not.                               *)
LCall ==
  /\ opc = "idle"
  /\ \E p \in Places : Begin([path |-> p], "lstat", <<where[p]>>)
  /\ UNCHANGED hit
LStat ==
  /\ opc = "lstat"
  /\ IF where[op.path] = Nothing THEN Fails
     ELSE Finds(IF where[op.path] \in DOMAIN LinkTo THEN "link" ELSE "other", "change")
  /\ Working
Changed == IF found[1] = "link" THEN where[op.path] ELSE Follow(where[op.path])
Change == opc = "change" /\ Ends(<<Changed>>) /\ UNCHANGED found /\ Working

Return ==
  /\ opc = "done" /\ opc' = "idle" /\ op' = <<>> /\ found' = <<>> /\ want' = <<>> /\ hit' = <<>>
  /\ UNCHANGED <<where, moves, moved>>

PNext ==
  \/ Move \/ LinkAt \/ OldPath \/ NewPath \/ Link
  \/ FAttrList \/ AttrPath \/ Attr \/ LCall \/ LStat \/ Change \/ Return

-----------------------------------------------------------------------------
\* A call that does not fail works on the objects it was called for, unless something was moved between its
\* finding out and its doing, or a path was cut off: the directory of linkat and renameat
\* that is not named by a path, the file of a descriptor, the link and not its target.
WorksOnWhatItNames ==
  opc = "done" /\ ~moved /\ CutPath \notin {found[i] : i \in DOMAIN found} => hit \in {want, Failed}
=============================================================================
