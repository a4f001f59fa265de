------------------------------ MODULE PathLock ------------------------------
(***************************************************************************)
(* fcntl(F_GETPATH) for 64-bit programs on 10.4 (fcntl.c): the kernel      *)
(* refuses a buffer above 4 GB, so the path goes through a static buffer   *)
(* that a pthread mutex protects. The path of descriptor t is t.           *)
(***************************************************************************)
EXTENDS Integers

CONSTANT LThreads

VARIABLES
  holder,   \* of path_lock, NoOne, or Stuck: unlocking it failed
  pathbuf,  \* the static buffer
  lpc,      \* [LThreads -> where the thread is]
  into,     \* [LThreads -> the caller's buffer]
  answer    \* [LThreads -> 0 or -1]

lvars == <<holder, pathbuf, lpc, into, answer>>

NoOne == 0
Stuck == -1
Empty == 0

LInit ==
  /\ holder = NoOne /\ pathbuf = Empty
  /\ lpc = [t \in LThreads |-> "idle"]
  /\ into = [t \in LThreads |-> Empty]
  /\ answer = [t \in LThreads |-> 0]

LGo(t, where) == lpc' = [lpc EXCEPT ![t] = where]
Answer(t, r) == LGo(t, "done") /\ answer' = [answer EXCEPT ![t] = r]

(* pthread_mutex_lock waits for the mutex or fails; pthread_mutex_unlock   *)
(* may fail as well.                                                       *)
Lock == holder = NoOne
Unlock(ok) == holder' = IF ok THEN NoOne ELSE Stuck

(* The first try, and what is asked after EFAULT: the path; an error, which *)
(* a bad buffer is; or a good buffer above 4 GB, which goes on.            *)
TryDirect(t) ==
  /\ lpc[t] = "idle"
  /\ \/ into' = [into EXCEPT ![t] = t] /\ Answer(t, 0)
     \/ into' = [into EXCEPT ![t] = Empty] /\ Answer(t, -1)
     \/ into' = [into EXCEPT ![t] = Empty] /\ LGo(t, "lock") /\ UNCHANGED answer
  /\ UNCHANGED <<holder, pathbuf>>

Acquire(t) ==
  /\ lpc[t] = "lock"
  /\ \/ Lock /\ holder' = t /\ LGo(t, "fetch") /\ UNCHANGED answer
     \/ Answer(t, -1) /\ UNCHANGED holder
  /\ UNCHANGED <<pathbuf, into>>

\* Mutant: the lock is given back before the path is copied.
FetchUnlocks(t) ==
  /\ lpc[t] = "fetch"
  /\ \/ pathbuf' = t /\ LGo(t, "copy") /\ UNCHANGED answer
     \/ Answer(t, -1) /\ UNCHANGED pathbuf
  /\ \E ok \in BOOLEAN : Unlock(ok)
  /\ UNCHANGED into

(* The path is read into the static buffer; an error gives the lock back,  *)
(* and nobody asks whether that worked.                                    *)
Fetch(t) ==
  /\ lpc[t] = "fetch"
  /\ \/ pathbuf' = t /\ LGo(t, "copy") /\ UNCHANGED <<answer, holder>>
     \/ Answer(t, -1) /\ (\E ok \in BOOLEAN : Unlock(ok)) /\ UNCHANGED pathbuf
  /\ UNCHANGED into

Copy(t) ==
  /\ lpc[t] = "copy"
  /\ into' = [into EXCEPT ![t] = pathbuf]
  /\ LGo(t, "unlock")
  /\ UNCHANGED <<holder, pathbuf, answer>>

Release(t) ==
  /\ lpc[t] = "unlock"
  /\ \E ok \in BOOLEAN : Unlock(ok) /\ Answer(t, IF ok THEN 0 ELSE -1)
  /\ UNCHANGED <<pathbuf, into>>

NextCall(t) ==
  /\ lpc[t] = "done" /\ LGo(t, "idle")
  /\ UNCHANGED <<holder, pathbuf, into, answer>>

LNext ==
  \E t \in LThreads :
    TryDirect(t) \/ Acquire(t) \/ Fetch(t) \/ Copy(t) \/ Release(t) \/ NextCall(t)

-----------------------------------------------------------------------------
\* A call that succeeds has the path of its own descriptor in the caller's buffer,
\* whatever the other threads put into the static one (fcntl).
OwnPath == \A t \in LThreads : lpc[t] = "done" /\ answer[t] = 0 => into[t] = t

\* The lock is held by a thread between its lock and unlock, and by no thread that has
\* returned: no way out of the call leaves the others waiting, unless unlocking itself
\* failed (fcntl).
LockGivenBack == holder \notin {NoOne, Stuck} => lpc[holder] \in {"fetch", "copy", "unlock"}
=============================================================================
