----------------------------- MODULE FMemSizes -----------------------------
(* The sizes that the stream of src/fmemopen.c is about.                   *)
EXTENDS Integers, Sequences

CONSTANTS
  Size,           \* the buffer's size in bytes
  SizeModulus,    \* size_t counts modulo this
  Reach,          \* bound: the largest offset
  MaxCount,       \* bound: bytes in one read or write
  Bytes           \* bytes the program writes, the null byte 0 apart

\* The bounds cut no callback off that begins in the buffer, and no difference of two
\* offsets wraps to as few as a count.
ASSUME FMemAssumption ==
  /\ Size \in Nat \ {0} /\ MaxCount \in Nat
  /\ Reach \in Nat /\ Reach >= Size + MaxCount
  /\ SizeModulus \in Nat /\ SizeModulus > Reach + MaxCount
  /\ Bytes \subseteq Nat \ {0}
=============================================================================
