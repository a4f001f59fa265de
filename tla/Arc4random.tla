----------------------------- MODULE Arc4random -----------------------------
(***************************************************************************)
(* arc4random.c and getentropy.c: a generator in every thread, seeded from *)
(* the system and replaced when it has given out too much or when its      *)
(* process was forked.                                                     *)
(*                                                                         *)
(* A byte of key stream is <<seed, gen, pos>>: the seed the key comes from,*)
(* how many times the key was replaced since, and the place in the buffer. *)
(* The ChaCha rounds are data: different keys give different bytes.        *)
(***************************************************************************)
EXTENDS Naturals, FiniteSets

CONSTANTS
  Pids,       \* process identifiers
  RThreads,   \* threads of a process
  RsBufSz,    \* ARC4R_RSBUFSZ
  KeyIvSz,    \* ARC4R_KEYSZ + ARC4R_IVSZ
  ValSz,      \* sizeof(uint32_t)
  Reseed,     \* 1600000, the bytes till reseed
  RWord,      \* one more than the largest size_t
  Lengths,    \* lengths of requests
  MaxRequests, MaxForks  \* bounds of the model

VARIABLES
  proc,    \* [Pids -> a process, or Dead]
  seeds,   \* seeds taken from the system so far
  used,    \* bytes given out, by whatever process
  twice,   \* ghost: a byte was given out twice
  requests, forks,
  drawing, \* the threads inside the loop of arc4random_uniform
  pids,    \* ghost: process identifiers that were ever in use
  odd      \* ghost: "reused" when a child got one of them, "late" when a thread
           \* without a generator was the first to call after a fork

rvars == <<proc, seeds, used, twice, requests, forks, drawing, pids, odd>>

NoState == [none |-> TRUE]
Dead == [alive |-> FALSE, once |-> FALSE, rforked |-> 0, st |-> [t \in RThreads |-> NoState]]

RInit ==
  LET p == CHOOSE q \in Pids : TRUE
  IN /\ proc = [q \in Pids |-> [Dead EXCEPT !.alive = (q = p)]]
     /\ seeds = 0 /\ used = {} /\ twice = FALSE /\ requests = 0 /\ forks = 0
     /\ drawing = {} /\ pids = {p} /\ odd = {}

-----------------------------------------------------------------------------
(* The key stream of the key st.gen, once it is in the buffer: the last    *)
(* rs_have bytes of it may be given out.                                   *)
Keystream(st, m) ==
  {<<st.seed, st.gen - 1, i>> : i \in (RsBufSz - st.have) .. (RsBufSz - st.have + m - 1)}

(* _rs_init: the next key is set up from bytes of the one before.          *)
NextKey(gen) == gen + 1

(* The buffer is filled, its first bytes become the next key and are wiped. *)
Rekey(st) == [st EXCEPT !.gen = NextKey(@), !.have = RsBufSz - KeyIvSz]

(* A fresh seed from getentropy goes into the key, the buffer is emptied.   *)
(* given and wrapped are ghosts: bytes since the seed, and whether one       *)
(* request was longer than the limit.                                       *)
Stir(st, seed) ==
  [st EXCEPT !.seed = seed, !.gen = 0, !.have = 0, !.count = Reseed, !.given = 0, !.wrapped = FALSE]

\* Mutant: the seed is replaced only when the count is exactly 0.
StirIfNeededLate(g, len) ==
  LET st == IF g.st.count = 0 THEN Stir(g.st, g.seeds + 1) ELSE g.st
  IN [st |-> [st EXCEPT !.count = (st.count + RWord - len) % RWord, !.wrapped = @ \/ len > Reseed],
      seeds |-> IF g.st.count = 0 THEN g.seeds + 1 ELSE g.seeds]

(* _rs_stir_if_needed: g is the generator and the number of seeds taken.    *)
(* The count is unsigned and wraps when one request is longer than Reseed.  *)
StirIfNeeded(g, len) ==
  LET stir == g.st.count <= len
      st == IF stir THEN Stir(g.st, g.seeds + 1) ELSE g.st
  IN [st |-> [st EXCEPT !.count = (st.count + RWord - len) % RWord, !.wrapped = @ \/ len > Reseed],
      seeds |-> IF stir THEN g.seeds + 1 ELSE g.seeds]

(* What is taken from the buffer is wiped.                                  *)
Take(st, m) == [st EXCEPT !.have = @ - m, !.given = @ + m]

(* The loop of _rs_random_buf: what is left in the buffer, then the buffers of as many keys  *)
(* as are needed. Byte i after the first buffer is byte i % FreshSz of key i \div FreshSz.   *)
FreshSz == RsBufSz - KeyIvSz
Following(st, more) ==
  {<<st.seed, st.gen + (i \div FreshSz), KeyIvSz + (i % FreshSz)>> : i \in 0 .. more - 1}

Rekeys(st, more) == [Rekey(st) EXCEPT !.gen = @ + ((more - 1) \div FreshSz),
                                      !.have = @ - ((more - 1) % FreshSz) - 1,
                                      !.given = @ + more]

Draw(st, n) ==
  IF n <= st.have THEN [st |-> Take(st, n), bytes |-> Keystream(st, n)]
  ELSE LET more == n - st.have
       IN [st |-> Rekeys(Take(st, st.have), more),
           bytes |-> Keystream(st, st.have) \cup Following(st, more)]

RandomBuf(g, n) ==
  LET h == StirIfNeeded(g, n)
      d == Draw(h.st, n)
  IN [st |-> d.st, seeds |-> h.seeds, bytes |-> d.bytes]

(* A value is not put together from two buffers: what is left is dropped.   *)
RandomU32(g) ==
  LET h == StirIfNeeded(g, ValSz)
      st == IF h.st.have < ValSz THEN Rekey(h.st) ELSE h.st
  IN [st |-> Take(st, ValSz), seeds |-> h.seeds, bytes |-> Keystream(st, ValSz)]

-----------------------------------------------------------------------------
(* _sget: the generator of thread t of process p, new or, after a fork,     *)
(* stirred. getentropy reads until it has all it wants: a seed is whole.    *)
GetEntropy(taken) == taken + 1
New(p) == [seed |-> 0, gen |-> 0, have |-> 0, count |-> 0, given |-> 0, wrapped |-> FALSE, pid |-> p]

ForkSeen(p, st) == proc[p].rforked > 0 \/ p # st.pid

Sget(p, t) ==
  LET fresh == proc[p].st[t] = NoState
      taken == IF fresh THEN GetEntropy(seeds) ELSE seeds
      st == IF fresh THEN Stir(New(p), taken) ELSE proc[p].st[t]
  IN IF ForkSeen(p, st)
     THEN [st |-> [Stir(st, GetEntropy(taken)) EXCEPT !.pid = p], seeds |-> GetEntropy(taken), forked |-> TRUE]
     ELSE [st |-> st, seeds |-> taken, forked |-> FALSE]

Give(p, t, s, g) ==
  /\ requests < MaxRequests
  /\ requests' = requests + 1
  /\ proc' = [proc EXCEPT ![p].once = TRUE,
                          ![p].rforked = IF s.forked THEN 0 ELSE @,
                          ![p].st[t] = g.st]
  /\ seeds' = g.seeds
  /\ used' = used \cup g.bytes
  /\ twice' = (twice \/ used \cap g.bytes # {})
  /\ odd' = IF proc[p].rforked > 0 /\ proc[p].st[t] = NoState THEN odd \cup {"late"} ELSE odd
  /\ UNCHANGED <<forks, pids>>

Arc4randomBuf(p, t) ==
  /\ proc[p].alive /\ <<p, t>> \notin drawing
  /\ \E n \in Lengths : Give(p, t, Sget(p, t), RandomBuf(Sget(p, t), n))
  /\ UNCHANGED drawing

(* arc4random_uniform: nothing is drawn for a bound below 2, though the      *)
(* generator is made ready all the same. A value that is rejected is drawn  *)
(* again, any number of times (which ones are: see Uniform).                *)
Arc4randomUniform(p, t) ==
  /\ proc[p].alive /\ <<p, t>> \notin drawing
  /\ LET s == Sget(p, t)
     IN \/ Give(p, t, s, [st |-> s.st, seeds |-> s.seeds, bytes |-> {}]) /\ UNCHANGED drawing
        \/ Give(p, t, s, RandomU32(s)) /\ drawing' \in {drawing, drawing \cup {<<p, t>>}}

(* The loop goes on with the generator it has: _sget is not called again.   *)
UniformAgain(p, t) ==
  /\ <<p, t>> \in drawing
  /\ LET s == [st |-> proc[p].st[t], seeds |-> seeds, forked |-> FALSE]
     IN Give(p, t, s, RandomU32(s)) /\ drawing' \in {drawing, drawing \ {<<p, t>>}}

\* Mutant: the child is not told of the fork.
AtForkForgotten(child) == child

(* The handler that _screate registers with the first call: in the child.    *)
AtFork(child) == IF child.once THEN [child EXCEPT !.rforked = @ + 1] ELSE child

(* fork in thread t: the child has a copy of that thread only.               *)
Fork(p, t) ==
  /\ proc[p].alive /\ <<p, t>> \notin drawing /\ forks < MaxForks
  /\ \E c \in {q \in Pids : ~proc[q].alive} :
       /\ proc' = [proc EXCEPT ![c] = AtFork([proc[p] EXCEPT !.st = [u \in RThreads |->
                                                IF u = t THEN proc[p].st[t] ELSE NoState]])]
       /\ pids' = pids \cup {c}
       /\ odd' = IF c \in pids THEN odd \cup {"reused"} ELSE odd
  /\ forks' = forks + 1
  /\ UNCHANGED <<seeds, used, twice, requests, drawing>>

(* A process ends by itself, or because getentropy could not open or read.   *)
Exit(p) ==
  /\ proc[p].alive /\ Cardinality({q \in Pids : proc[q].alive}) > 1
  /\ proc' = [proc EXCEPT ![p] = Dead] /\ drawing' = {d \in drawing : d[1] # p}
  /\ UNCHANGED <<seeds, used, twice, requests, forks, pids, odd>>

RNext ==
  \E p \in Pids :
    \/ \E t \in RThreads :
         Arc4randomBuf(p, t) \/ Arc4randomUniform(p, t) \/ UniformAgain(p, t) \/ Fork(p, t)
    \/ Exit(p)

-----------------------------------------------------------------------------
\* No byte is given out twice, to whichever threads and processes, however they fork.
\* The one case left open: the identifier of a process came back in a descendant, and
\* there another thread took the notice of the fork first (_sget clears Rforked for all).
NoByteTwice == twice => odd = {"reused", "late"}

\* A generator gives out at most Reseed bytes of a seed, except after a request longer
\* than that, which wraps the count (_rs_stir_if_needed).
SeedReplaced ==
  \A p \in Pids, t \in RThreads :
    LET st == proc[p].st[t] IN st # NoState /\ st.given > Reseed => st.wrapped

\* The bytes that became a key are never given out (_rs_rekey: "backtracking resistance").
KeyNeverGiven == \A b \in used : b[3] >= KeyIvSz
=============================================================================
