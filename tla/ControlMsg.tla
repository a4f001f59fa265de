----------------------------- MODULE ControlMsg -----------------------------
(***************************************************************************)
(* The repair of control messages in recvmsg, src/packet.c.                *)
(*                                                                         *)
(* A stream is a sequence of messages [socket, ts, words, sec, usec]: is   *)
(* its level SOL_SOCKET, is its type SCM_TIMESTAMP, the length of its      *)
(* payload and, for a timestamp, the time it stands for.  Lengths are in   *)
(* 32-bit words, to which messages are aligned.                            *)
(***************************************************************************)
EXTENDS Integers, Sequences, SequencesExt, FiniteSetsExt

CONSTANTS
  CBuf,          \* words of the local buffer cbuf (1024 bytes in the code)
  Swapped(_)     \* a number with its bytes swapped

Header == 3      \* sizeof(struct cmsghdr)
Native == 4      \* sizeof(struct timeval) in a 64-bit build
Foreign == {2, 3}  \* struct timeval_3232 and the packed timeval_6432

Timestamp(m) == m.socket /\ m.ts
CmsgLen(m) == Header + m.words
Words(s) == MapThenSumSet(LAMBDA i : CmsgLen(s[i]), DOMAIN s)

\* fetch_cmsg_timeval, with the header that fix_cmsg_formats gives the message:
\* a timestamp of any other length is cleared.
Fetch(m) ==
  IF m.words \in Foreign \cup {Native} THEN [m EXCEPT !.words = Native]
  ELSE [m EXCEPT !.words = Native, !.sec = 0, !.usec = 0]

\* What fix_cmsg_formats writes for a message.
Converted(m) == IF Timestamp(m) THEN Fetch(m) ELSE m

\* check_cmsg_lengths: the new length counts the SOL_SOCKET messages only.
NewLen(s) ==
  MapThenSumSet(LAMBDA i : Header + IF s[i].ts THEN Native ELSE s[i].words,
                {i \in DOMAIN s : s[i].socket})
NeedAdjust(s) == \E i \in DOMAIN s : Timestamp(s[i]) /\ s[i].words # Native

\* fix_cmsg_formats: everything is copied to the local buffer, and back from it
\* only if the length is as expected.  The messages of other levels are copied but
\* not counted in newlen: with them the copies may overrun the buffer, and then
\* nothing is known of what follows.
FixFormats(s, newlen) ==
  LET new == [i \in DOMAIN s |-> Converted(s[i])]
  IN [stream |-> IF newlen > CBuf \/ Words(new) # newlen THEN s ELSE new,
      overrun |-> newlen <= CBuf /\ Words(new) > CBuf]

\* fix_cmsg_endianness: the native timestamps.
FixEndianness(s) ==
  [i \in DOMAIN s |->
     IF Timestamp(s[i]) /\ s[i].words = Native
     THEN [s[i] EXCEPT !.sec = Swapped(@), !.usec = Swapped(@)] ELSE s[i]]

\* check_rosetta: a failed sysctl is a real ppc.
IsRosetta(env) == ~env.sysctlFails /\ ~env.native

\* The reformatted stream must fit in what the caller gave.
Room(newlen, init) == newlen <= init

\* recvmsg_internal after the system's recvmsg filled in s; init is the length
\* of the caller's control buffer, formatFix and rosettaFix what is compiled in.
Received(s, ret, init, env, formatFix, rosettaFix) ==
  LET rosetta == rosettaFix /\ IsRosetta(env)
      asis  == [stream |-> s, overrun |-> FALSE]
      fixed == IF formatFix /\ NeedAdjust(s) /\ Room(NewLen(s), init)
               THEN FixFormats(s, NewLen(s)) ELSE asis
  IN IF (~formatFix /\ ~rosetta) \/ ret < 0 \/ s = <<>> THEN asis
     ELSE IF rosetta THEN [fixed EXCEPT !.stream = FixEndianness(@)] ELSE fixed

-----------------------------------------------------------------------------
Meaning(s) == [i \in DOMAIN s |-> [s[i] EXCEPT !.words = IF Timestamp(s[i]) THEN 0 ELSE @]]
KnownLengths(s) == \A i \in DOMAIN s : Timestamp(s[i]) => s[i].words \in Foreign \cup {Native}

\* Without Rosetta the stream keeps its messages, their order and their times; it
\* is reformatted as a whole or not at all, and never outgrows the caller's buffer,
\* unless the local buffer was overrun (recvmsg_internal).
StreamKept(s, init, r) ==
  KnownLengths(s) /\ ~r.overrun =>
    /\ Meaning(r.stream) = Meaning(s)
    /\ Words(r.stream) <= init
    /\ r.stream # s => \A i \in DOMAIN r.stream : Timestamp(r.stream[i]) => r.stream[i].words = Native

\* If all messages are SOL_SOCKET ones the local buffer is not overrun, and every
\* timestamp is native in the end if it and the caller's buffer have room
\* (fix_cmsg_formats).  With a message of another level none is.
AllNative(s, init, r) ==
  IF \A i \in DOMAIN s : s[i].socket
  THEN /\ ~r.overrun
       /\ NewLen(s) <= init /\ NewLen(s) <= CBuf =>
            \A i \in DOMAIN r.stream : Timestamp(r.stream[i]) => r.stream[i].words = Native
  ELSE r.overrun \/ r.stream = s

\* Under Rosetta, whose timestamps arrive swapped, the native ones end up right
\* and nothing else is touched (fix_cmsg_endianness).
SwappedBack(sent, r) ==
  \A i \in DOMAIN sent :
    r.stream[i] = IF Timestamp(sent[i]) /\ sent[i].words # Native
                  THEN [sent[i] EXCEPT !.sec = Swapped(@), !.usec = Swapped(@)] ELSE sent[i]

\* What Rosetta delivers: the headers right, the payloads of timestamps swapped.
Garbled(sent) ==
  [i \in DOMAIN sent |->
     IF Timestamp(sent[i]) THEN [sent[i] EXCEPT !.sec = Swapped(@), !.usec = Swapped(@)] ELSE sent[i]]
=============================================================================
