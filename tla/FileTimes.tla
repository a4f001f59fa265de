----------------------------- MODULE FileTimes -----------------------------
(***************************************************************************)
(* Setting the times of a file: utimensat and futimens of src/utimensat.c, *)
(* which pack the times for setattrlist, and the empty-list repair of      *)
(* src/setattrlist.c below them.                                           *)
(*                                                                         *)
(* A time is [sec, nsec], where nsec may be UtimeNow or UtimeOmit; a file is *)
(* [atime, mtime].                                                         *)
(***************************************************************************)
EXTENDS Integers, Sequences, FiniteSets

UtimeNow == -1
UtimeOmit == -2
AccessTime == 1
ModTime == 2

\* The caller's times, or times_now for a null pointer.
TimesIn(times) ==
  IF times = <<>> THEN << [sec |-> 0, nsec |-> UtimeNow], [sec |-> 0, nsec |-> UtimeNow] >> ELSE times

\* UTIME_NOW is the time of day.
Resolve(t, now) == IF t.nsec = UtimeNow THEN now ELSE t

Given(t) == t.nsec # UtimeOmit

\* The buffer: the modification time first, then the access time.
Packed(times) ==
  (IF Given(times[ModTime]) THEN <<times[ModTime]>> ELSE <<>>)
  \o (IF Given(times[AccessTime]) THEN <<times[AccessTime]>> ELSE <<>>)

\* prepare_times_array_and_attrs.
PrepareTimes(in, now) ==
  LET times == [i \in 1 .. 2 |-> Resolve(in[i], now)]
  IN IF ~Given(in[1]) /\ ~Given(in[2]) THEN [attrs |-> {}, buf |-> <<>>]
     ELSE [attrs |-> {a \in {"ACCTIME", "MODTIME"} :
                        Given(times[IF a = "ACCTIME" THEN AccessTime ELSE ModTime])},
           buf |-> Packed(times)]

\* The kernel takes the attributes' values off the buffer in the order of their
\* bits: MODTIME comes before ACCTIME.  With the fault, an empty list is ENOMEM.
KernelSetAttrList(file, attrs, buf, faulty) ==
  IF attrs = {} THEN [file |-> file, ret |-> IF faulty THEN "ENOMEM" ELSE "OK"]
  ELSE IF Len(buf) # Cardinality(attrs) THEN [file |-> file, ret |-> "EINVAL"]
  ELSE [ret |-> "OK",
        file |-> [mtime |-> IF "MODTIME" \in attrs THEN buf[1] ELSE file.mtime,
                  atime |-> IF "ACCTIME" \in attrs THEN buf[Len(buf)] ELSE file.atime]]

\* fix_ret: only the empty list with no buffer is made a success.
FixRet(ret, attrs, buf) == IF attrs = {} /\ buf = <<>> THEN "OK" ELSE ret

\* setattrlist; nomem is a failure for real lack of memory.
SetAttrList(file, attrs, buf, faulty, nomem) ==
  LET r == IF nomem THEN [file |-> file, ret |-> "ENOMEM"]
           ELSE KernelSetAttrList(file, attrs, buf, faulty)
  IN IF r.ret # "ENOMEM" THEN r ELSE [r EXCEPT !.ret = FixRet(r.ret, attrs, buf)]

\* utimensat, futimens.
UTimens(file, times, now, faulty, nomem) ==
  LET p == PrepareTimes(TimesIn(times), now) IN SetAttrList(file, p.attrs, p.buf, faulty, nomem)

-----------------------------------------------------------------------------
\* Each time is set to what was asked for: the given one, the time of day, or left
\* as it was; leaving out both succeeds even on systems that refuse an empty list,
\* and any other lack of memory is reported with the file unchanged (utimensat).
TimesSet(file, times, now, nomem, r) ==
  LET in == TimesIn(times)
      want(t, old) == CASE t.nsec = UtimeNow -> now [] t.nsec = UtimeOmit -> old [] OTHER -> t
      empty == ~Given(in[1]) /\ ~Given(in[2])
  IN /\ r.ret = IF nomem /\ ~empty THEN "ENOMEM" ELSE "OK"
     /\ r.file = IF r.ret = "OK"
                 THEN [atime |-> want(in[1], file.atime), mtime |-> want(in[2], file.mtime)]
                 ELSE file
=============================================================================
