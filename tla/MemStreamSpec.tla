--------------------------- MODULE MemStreamSpec ---------------------------
(***************************************************************************)
(* What open_memstream promises, in the words of the manual page at the    *)
(* top of src/memstream.c: a stream over a growing array of bytes with a   *)
(* file position.  Moving the position past the end fills the gap with     *)
(* zeros, the caller finds the array through *bufp and *sizep, and closing *)
(* the stream cuts it at the position.  When memory runs out the stream    *)
(* fails for good and what had been written stays visible.                 *)
(***************************************************************************)
EXTENDS Integers, Sequences

CONSTANTS Bytes,      \* bytes the program writes
          MaxLength   \* bound: longest array

VARIABLES state,      \* "none", "open", "failed" or "closed"
          data,       \* the bytes of the stream
          pos,        \* the file position
          visible     \* what *bufp and *sizep show the caller

vars == <<state, data, pos, visible>>

Zeros(n) == [i \in 1 .. n |-> 0]
Smaller(a, b) == IF a < b THEN a ELSE b

\* s with bs written at p, where 0 <= p <= Len(s).
Overwrite(s, p, bs) ==
  SubSeq(s, 1, p) \o bs \o SubSeq(s, p + Len(bs) + 1, Len(s))

Init == state = "none" /\ data = <<>> /\ pos = 0 /\ visible = <<>>

Open == /\ state = "none"
        /\ state' = "open"
        /\ UNCHANGED <<data, pos, visible>>

Write == /\ state = "open"
         /\ \E n \in 1 .. MaxLength - pos :
              \E bs \in [1 .. n -> Bytes] :
                /\ data' = Overwrite(data, pos, bs)
                /\ pos' = pos + n
         /\ visible' = data'
         /\ UNCHANGED state

Seek == /\ state = "open"
        /\ \E p \in 0 .. MaxLength :
             /\ data' = data \o Zeros(p - Len(data))
             /\ pos' = p
        /\ visible' = data'
        /\ UNCHANGED state

Read == /\ state = "open"
        /\ \E n \in 1 .. Len(data) - pos : pos' = pos + n
        /\ UNCHANGED <<state, data, visible>>

Fail == /\ state = "open"
        /\ state' = "failed"
        /\ UNCHANGED <<data, pos, visible>>

Close == /\ state \in {"open", "failed"}
         /\ state' = "closed"
         /\ data' = IF state = "open"
                    THEN SubSeq(data, 1, Smaller(Len(data), pos)) ELSE data
         /\ visible' = data'
         /\ UNCHANGED pos

Next == Open \/ Write \/ Seek \/ Read \/ Fail \/ Close

Spec == Init /\ [][Next]_vars
=============================================================================
