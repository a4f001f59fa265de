----------------------------- MODULE MCAtCalls -----------------------------
(* Constants for model-checking AtCalls: a set-user-ID program. *)
EXTENDS AtCalls, TLC

SetuidCred == [ruid |-> "user", euid |-> "owner",
               rgid |-> "users", egid |-> "group"]

\* Numbers passed as dirfd without being held: -1 and descriptors that may be
\* closed, or be another thread's.
BadNumbers == {NoFd, 0}

ThreadSymmetry == Permutations(Threads)
=============================================================================
