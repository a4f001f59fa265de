----------------------------- MODULE MCCopyTree -----------------------------
(* A hierarchy for the model of copytree:                                  *)
(*   r/  d/ g   f   u/ (unreadable)   n (not to be looked at)              *)
EXTENDS CopyTree

TreeNodes == {"r", "f", "d", "g", "u", "n"}
TreeParent == [f |-> "r", d |-> "r", g |-> "d", u |-> "r", n |-> "r"]
TreeKind == [r |-> "dir", f |-> "file", d |-> "dir", g |-> "file",
             u |-> "unread", n |-> "nostat"]
TreeWalk == << <<"r", "D">>, <<"d", "D">>, <<"g", "F">>, <<"d", "DP">>,
               <<"f", "F">>, <<"r", "DP">> >>
ErrorWalk == << <<"r", "D">>, <<"d", "D">>, <<"g", "F">>, <<"d", "DP">>,
                <<"f", "F">>, <<"u", "D">>, <<"u", "DNR">>, <<"n", "NS">>,
                <<"r", "DP">> >>
TreeWalks == {TreeWalk, ErrorWalk}

Nothing == [m \in TreeNodes |-> "none"]

\* Nothing, a hierarchy with older copies, or one whose kinds do not fit.
TreeExisting == {Nothing,
                 [Nothing EXCEPT !["r"] = "dir", !["f"] = "file", !["d"] = "dir"],
                 [Nothing EXCEPT !["r"] = "dir", !["f"] = "dir", !["d"] = "file"]}

\* The root has an ACL in the source, d and f have one if they are there before,
\* and d inherits one when it is made.
AclSource == {"r"}
AclTarget == {"d", "f"}
AclInherited == {"d"}

AllFlags == {"ACL", "STAT", "XATTR", "DATA", "EXCL"}
=============================================================================
