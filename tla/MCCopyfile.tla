----------------------------- MODULE MCCopyfile -----------------------------
(* Flags for the model of copyfile.                                        *)
EXTENDS Copyfile

All == {"ACL", "STAT", "XATTR", "DATA"}

\* One flag set for each way through the stages.
SomeFlags == {All, {"DATA"}, {"ACL", "DATA"}, {"XATTR", "STAT"},
              All \cup {"EXCL"}, All \cup {"UNLINK"},
              All \cup {"NOFOLLOW_SRC", "NOFOLLOW_DST"}, {"PACK", "XATTR"},
              {"UNPACK", "XATTR"}, {"CHECK", "ACL", "XATTR"}}
=============================================================================
