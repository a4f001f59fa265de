------------------------------ MODULE SysInfo ------------------------------
(***************************************************************************)
(* Answers of the system that are corrected or replaced: sysctl and        *)
(* sysctlbyname of the boot time (src/sysctl.c), sysconf (src/sysconf.c)    *)
(* and posix_memalign (src/posix_memalign_emulation.c).                    *)
(***************************************************************************)
EXTENDS Integers, Sequences

CONSTANTS
  PageSize,        \* getpagesize()
  PointerSize,     \* sizeof(void *)
  MallocAlign,     \* the alignment of malloc, 16
  LongLimit        \* one more than the largest long

TvSize == 4        \* sizeof(struct timeval) in a 64-bit build, in 32-bit words
Tv32Size == 2      \* sizeof(tv32_t)

-----------------------------------------------------------------------------
(* The caller's buffer is a sequence of words, or NoBuffer.                *)
NoBuffer == <<>>

\* The kernel copies what fits and sets the length; a 32-bit kernel gives tv32.
KernelBoottime(buf, oldlen, tv, kernel32) ==
  LET value == IF kernel32 THEN <<tv.sec, tv.usec>> ELSE <<tv.sec, 0, tv.usec, 0>>
  IN IF buf = NoBuffer THEN [ret |-> 0, buf |-> buf, len |-> Len(value)]
     ELSE IF oldlen < Len(value) THEN [ret |-> -1, buf |-> buf, len |-> oldlen]
     ELSE [ret |-> 0, len |-> Len(value),
           buf |-> value \o SubSeq(buf, Len(value) + 1, Len(buf))]

\* The caller wanted a timeval.
WantedTimeval(buf, origlen) == buf # NoBuffer /\ origlen >= TvSize

\* fix_boottime: the two fields are taken out before they are written wider.
FixBoottime(r, origlen) ==
  IF WantedTimeval(r.buf, origlen) /\ r.len = Tv32Size
  THEN [r EXCEPT !.buf = <<r.buf[1], 0, r.buf[2], r.buf[4]>> \o SubSeq(r.buf, TvSize + 1, Len(r.buf)),
                 !.len = TvSize]
  ELSE r

\* sysctl, sysctlbyname.
Sysctl(isBoottime, buf, oldlen, tv, kernel32) ==
  LET r == KernelBoottime(buf, oldlen, tv, kernel32)
  IN IF r.ret # 0 \/ ~isBoottime THEN r ELSE FixBoottime(r, oldlen)

(* sysconf: a number the kernel gives is Refused when sysctl fails. hw is   *)
(* what it says of the processors and of memory, os what the system's own  *)
(* sysconf answers.                                                        *)
Refused == -1
ToLong(n) == ((n + LongLimit) % (2 * LongLimit)) - LongLimit

Nprocessors(hw, name) ==
  IF name = "NPROCESSORS_ONLN" /\ hw.avail >= 1 THEN hw.avail
  ELSE IF hw.ncpu >= 1 THEN hw.ncpu ELSE 1

Sysconf(name, hw, os) ==
  CASE name \in {"NPROCESSORS_ONLN", "NPROCESSORS_CONF"} -> Nprocessors(hw, name)
    [] name = "PHYS_PAGES" -> IF hw.memsize = Refused THEN -1 ELSE ToLong(hw.memsize \div PageSize)
    [] OTHER -> os

PowerOf2(n) == \E k \in 0 .. n : n = 2 ^ k

BadAlignment(alignment) == alignment < PointerSize \/ ~PowerOf2(alignment)

\* posix_memalign: malloc gives some multiple of its alignment, valloc of the page.
PosixMemalign(alignment, block, nomem) ==
  IF BadAlignment(alignment) THEN [ret |-> "EINVAL", mem |-> 0]
  ELSE IF nomem THEN [ret |-> "ENOMEM", mem |-> 0]
  ELSE [ret |-> "OK", mem |-> block * IF alignment <= MallocAlign THEN MallocAlign ELSE PageSize]

-----------------------------------------------------------------------------
\* A caller with room for a timeval gets one, whatever the kernel's format; one
\* without room gets what the system said, and nothing past the length it gave is
\* written (sysctl, fix_boottime).
BoottimeRight(buf, oldlen, tv, r) ==
  /\ r.ret = 0 /\ buf # NoBuffer /\ oldlen >= TvSize =>
       r.len = TvSize /\ r.buf[1] = tv.sec /\ r.buf[2] = 0 /\ r.buf[3] = tv.usec
  /\ \A i \in oldlen + 1 .. Len(buf) : r.buf[i] = buf[i]

\* There is a processor, those that are online are no guess when the kernel knows them,
\* and the pages of memory are all that fit, for as many as a long can count (sysconf).
SysconfTold(name, hw, r) ==
  /\ name \in {"NPROCESSORS_ONLN", "NPROCESSORS_CONF"} =>
       /\ r >= 1
       /\ r \in {1, hw.avail, hw.ncpu}
       /\ hw.avail >= 1 /\ name = "NPROCESSORS_ONLN" => r = hw.avail
       /\ r # hw.avail /\ hw.ncpu >= 1 => r = hw.ncpu
  /\ name = "PHYS_PAGES" /\ hw.memsize # Refused /\ hw.memsize < LongLimit * PageSize =>
       r * PageSize <= hw.memsize /\ hw.memsize < (r + 1) * PageSize

\* What posix_memalign gives is aligned as asked for up to the page size, and what
\* it refuses is not a power of two that holds a pointer.
Aligned(alignment, r) ==
  /\ r.ret = "EINVAL" <=> ~(alignment \in {PointerSize * 2 ^ k : k \in 0 .. alignment})
  /\ r.ret = "OK" /\ alignment <= PageSize => r.mem % alignment = 0
=============================================================================
