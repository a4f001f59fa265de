---------------------------- MODULE MCAlgorithms ----------------------------
(***************************************************************************)
(* The library's functions without state of their own, called one at a     *)
(* time: fn is the function, in its arguments and out what it gives.       *)
(***************************************************************************)
EXTENDS Integers, Sequences, FiniteSets

CONSTANTS
  Half, Extra, Thousand, Million, Precision,                  \* MachScale
  MaxSize, MaxHdrSize, MaxAttrLen, FinderInfoSize,            \* AppleDouble
  CBuf,                                                       \* ControlMsg
  Bits,                                                       \* StringOps
  PageSize, PointerSize, MallocAlign, LongLimit,              \* SysInfo
  StdioBuf,                                                   \* Dprintf
  UWord,                                                      \* Uniform
  Micro, MachUnit, NumDiffs,                                  \* ClockInfo
  VmPage, StatSize, Stat64Size, LowLimit, MaxPathLen          \* StatAccess

VARIABLES fn, in, out
vars == <<fn, in, out>>

\* Bytes are two bits wide; a letter and its capital are 2 apart.
SwapBytes(n) == ((n % 4) * 4) + (n \div 4)
ToLower(c) == IF c = 3 THEN 1 ELSE c
Names == {"a", "b", "FinderInfo", "ResourceFork", "acl.text"}
NameLengths == [n \in Names |-> CASE n = "a" -> 2 [] n = "b" -> 4 [] OTHER -> 9]

Clk == INSTANCE MachScale
Ad == INSTANCE AppleDouble WITH NameLen <- NameLengths
Cm == INSTANCE ControlMsg WITH Swapped <- SwapBytes
Str == INSTANCE StringOps WITH Lower <- ToLower
Sys == INSTANCE SysInfo
Dp == INSTANCE Dprintf
Sta == INSTANCE StatAccess WITH SwapFd <- SwapBytes
Ft == INSTANCE FileTimes
Uni == INSTANCE Uniform
Ci == INSTANCE ClockInfo
Wh == INSTANCE WhichTool
        WITH Slashed <- {"./x"}, TooLong <- {<<"far", "x">>}, TooLongName <- {"long"}

\* A half word holds the nanoseconds of a second, and a numerator shifted by EXTRA_SHIFT
\* more than a half word fits in a word exactly if it has HIGH_BITS bits.
ASSUME WordAssumption ==
  /\ Clk!H \in Nat /\ 2 ^ Extra \in 1 .. Clk!H
  /\ Clk!NullScale = Clk!H * 2 ^ Extra
  /\ 2 ^ (2 * Half - Clk!HighShift) \in Nat
  /\ 2 ^ (2 * Half - Clk!HighShift) * Clk!NullScale = Clk!Word
  /\ Thousand \in Nat /\ Million \in Nat /\ Clk!Billion \in 2 .. Clk!H
\* A double holds the nanoseconds of two seconds, and more than a few bits.
ASSUME DoubleAssumption == Precision \in Nat /\ Precision >= 16 /\ Precision >= 2 * Clk!Billion
ASSUME UWordAssumption == UWord \in Nat \ {0}
\* A stat and a path are no longer than a page, and the 64-bit inode stat is the longer one.
ASSUME PageAssumption ==
  /\ VmPage \in Nat \ {0} /\ LowLimit \in Int
  /\ MaxPathLen \in 1 .. VmPage /\ Stat64Size \in 2 .. VmPage /\ StatSize \in 1 .. Stat64Size - 1
ASSUME StdioAssumption == StdioBuf \in Nat \ {0}

Calls(f, args, result) == fn' = f /\ in' = args /\ out' = result

Init == fn = "idle" /\ in = <<>> /\ out = <<>>

-----------------------------------------------------------------------------
TvSecs == [sec : 0 .. 1, usec : 0 .. Million - 1]
Failing == {{}, {"gettimeofday", "getrusage", "thread_info"}}

MiddleWord ==
  /\ fn = "idle"
  /\ \E a, b \in 0 .. Clk!Word - 1 : Calls("mmul64", <<a, b>>, Clk!MiddleProduct(a, b))
Scale ==
  /\ fn = "idle"
  /\ \E mach \in 0 .. Clk!Word - 1, numer, denom \in 1 .. Clk!H - 1 :
       Calls("mach2nanos", <<mach, numer, denom>>, Clk!Mach2Nanos(mach, Clk!MachMult(numer, denom)))
Timespec ==
  /\ fn = "idle"
  /\ \E nanos \in 0 .. Clk!Word - 1 : Calls("nanos2timespec", nanos, Clk!Nanos2Timespec(nanos))
SinceBoot ==
  /\ fn = "idle"
  /\ \E now, boot \in 0 .. Clk!H - 1, u1, u2 \in 0 .. Million - 1, narrow \in BOOLEAN,
        numer, denom \in 1 .. 2 :
       LET tv1 == [sec |-> IF narrow THEN Clk!Signed(now) ELSE now, usec |-> u1]
           tv2 == [sec |-> IF narrow THEN Clk!Signed(boot) ELSE boot, usec |-> u2]
       IN \E diff \in Clk!TvDiff2Mach(tv1, tv2, narrow, numer, denom) :
            Calls("tvdiff2mach", <<now, boot, u1 - u2, numer, denom>>, diff)
Readings(clk, src) ==
  [ts |-> Clk!ClockGettime(clk, src), ns |-> Clk!ClockNsec(clk, src),
   set |-> Clk!ClockSettime(Clk!ClockGettime(clk, src).ts),
   utc |-> Clk!TimespecGet(Clk!TimeUtc, src), res |-> Clk!ClockGetres(clk, src)]
ReadClock ==
  /\ fn = "idle"
  /\ \E clk \in Clk!Clocks, tod, utime, stime \in TvSecs, mach \in {0, 3, Clk!Word - 3},
        mult \in {0, 37, Clk!NullScale}, fails \in Failing, hires \in BOOLEAN :
       LET src == [tod |-> tod, utime |-> utime, stime |-> stime, mach |-> mach, mult |-> mult,
                   fails |-> fails, hires |-> hires]
       IN /\ hires => clk = "THREAD_CPUTIME"
          /\ (mach = 3 /\ mult = 0) \/ clk = "MONOTONIC" \/ Clk!HasMachUnits(clk, src)
          /\ clk # "REALTIME" => tod.sec = 1 /\ tod.usec = 0
          /\ hires \/ clk \notin {"PROCESS_CPUTIME", "THREAD_CPUTIME"} =>
               utime.sec = 0 /\ utime.usec = 0 /\ stime = utime
          /\ Calls("clock", <<clk, src>>, Readings(clk, src))

\* mmul64 is the middle word of the exact product.
MulExact == fn = "mmul64" => Clk!MiddleExact(in[1], in[2], out)

\* A scaled time is off by less than a nanosecond and the multiplier's rounding
\* (setup_mach_mult, mach2nanos).
ScaledRight == fn = "mach2nanos" => Clk!ScaleAccurate(in[1], in[2], in[3], out)

\* The 32-bit remainder of nanos2timespec is the exact one.
SplitExact == fn = "nanos2timespec" => Clk!TimespecExact(in, out)

\* The time since boot is right up to the rounding of doubles, although the seconds are
\* signed and of 32 bits, also when they have passed the largest one in between
\* (tvdiff2mach).
SinceBootRight ==
  fn = "tvdiff2mach" => Clk!DifferenceRight(in[1], in[2], in[3], in[4], in[5], out)

\* The two forms of a clock agree on the time and on what is an error
\* (clock_gettime, clock_gettime_nsec_np, timespec_get), and setting the clock to the
\* time read sets the time of day that it came from (clock_settime).
ClockFormsAgree ==
  fn = "clock" =>
    /\ Clk!FormsAgree(in[1], in[2], out.ts, out.ns)
    /\ in[1] = "REALTIME" => out.set = in[2].tod /\ (out.utc = Clk!TimeUtc <=> out.ts.ret = 0)

\* A clock's readings are multiples of the resolution it states (clock_getres).
ClockResolution == fn = "clock" => Clk!ResolutionKept(in[1], out.ns, out.res)

-----------------------------------------------------------------------------
Values == {<<>>, <<1>>, <<1, 2>>, <<3, 1, 2>>}
Choices(n) == CASE n = "FinderInfo" -> {<<1>>, <<0, 0>>, <<0, 1>>}
                [] n = "ResourceFork" -> {<<>>, <<4>>, <<4, 4>>}
                [] OTHER -> Values
Files == UNION {{[xattr |-> x, acl |-> acl, dir |-> dir] :
                   x \in {x \in [ns -> Values \cup {<<0, 0>>, <<0, 1>>, <<4>>, <<4, 4>>}] :
                            \A n \in ns : x[n] \in Choices(n)},
                   acl \in {Ad!NoAcl, <<2>>, <<2, 3>>}, dir \in BOOLEAN} :
                ns \in SUBSET (Names \ {"acl.text"})}
Targets == {[xattr |-> <<>>, acl |-> Ad!NoAcl], [xattr |-> [n \in {"b"} |-> <<2>>], acl |-> <<3>>]}

PackUnpack ==
  /\ fn = "idle"
  /\ \E f \in Files, dst \in Targets, refuses \in {{}, {"a"}, {"FinderInfo"}, {"ResourceFork"}},
        flags \in {{"XATTR"}, {"XATTR", "ACL"}, {"XATTR", "ACL", "STAT"}, {"ACL"}}, listed \in BOOLEAN,
        fails \in {{}, {"list"}, {"a"}, {"FinderInfo"}, {"ResourceFork"}, {"fork"}, {"header"}} :
       LET packed == Ad!Pack(f, flags, fails)
           target == [xattr |-> dst.xattr, acl |-> dst.acl, dir |-> f.dir]
       IN /\ fails = {} \/ (refuses = {} /\ listed)
          /\ Calls("copyfile", <<f, flags, refuses, listed, fails>>,
                [packed |-> packed, unpacked |-> Ad!Unpack(packed, target, flags, <<4, 4>>, refuses, listed)])
PointerTest ==
  /\ fn = "idle"
  /\ \E buffer, offset, length \in 0 .. 15, hdrsize \in {3, 5} :
       buffer + hdrsize < 16 /\ Calls("pointers", <<offset, length, hdrsize>>,
                                      Ad!InBuffer(offset, length, hdrsize, buffer, 16))

\* Packing a file and unpacking it gives back the attributes and the ACL that could be
\* read, or one of the two tells of an error (copyfile_pack, copyfile_unpack), if the
\* target's attributes could be listed.
PackRoundTrip ==
  fn = "copyfile" =>
    /\ in[3] = {} /\ in[4] => Ad!RoundTrip(in[1], in[2], in[5], out.packed, out.unpacked)
    /\ Ad!PastBuffer(in[1], out.packed)

\* An attribute that the target refuses is reported (copyfile_unpack).
RefusalReported ==
  fn = "copyfile" /\ in[4] => Ad!Refusal(in[1], in[2], in[5], in[3], out.unpacked)

\* The pointer test lets through exactly the data within the header's bytes,
\* although pointers wrap around (copyfile_unpack).
PointersExact == fn = "pointers" => Ad!BufferTest(in[1], in[2], in[3], out)

-----------------------------------------------------------------------------
Messages == [socket : BOOLEAN, ts : BOOLEAN, words : 1 .. 5, sec : {1}, usec : {6}]
Streams == {<<>>} \cup {<<m>> : m \in Messages} \cup {<<m, n>> : m \in Messages, n \in Messages}
Environments == [sysctlFails : BOOLEAN, native : BOOLEAN]

Receive ==
  /\ fn = "idle"
  /\ \E s \in Streams, room \in 0 .. 2, ret \in {-1, 0} :
       LET init == Cm!Words(s) + room
           env == [sysctlFails |-> TRUE, native |-> TRUE]
       IN Calls("recvmsg", <<s, init, ret>>, Cm!Received(s, ret, init, env, TRUE, FALSE))
ReceiveRosetta ==
  /\ fn = "idle"
  /\ \E sent \in Streams, env \in Environments :
       LET s == IF env.native \/ env.sysctlFails THEN sent ELSE Cm!Garbled(sent)
       IN Calls("recvmsg_ppc", <<sent, env>>, Cm!Received(s, 0, Cm!Words(s), env, FALSE, TRUE))

\* Control messages keep their number, order and meaning, all timestamps are
\* reformatted or none, and the caller's buffer is not outgrown, unless messages of
\* other levels overran the local buffer (recvmsg).
ControlKept == fn = "recvmsg" => Cm!StreamKept(in[1], in[2], out)

\* With no message of another level the local buffer is not overrun, and with room
\* every timestamp is native (fix_cmsg_formats).
TimestampsNative == fn = "recvmsg" /\ in[3] = 0 => Cm!AllNative(in[1], in[2], out)

\* Timestamps that Rosetta swapped are swapped back, on a real ppc none is touched
\* (check_rosetta, fix_cmsg_endianness).
RosettaSwapped ==
  fn = "recvmsg_ppc" => IF Cm!IsRosetta(in[2]) THEN Cm!SwappedBack(in[1], out) ELSE out.stream = in[1]

-----------------------------------------------------------------------------
Text(c, n) == UNION {[1 .. k -> c] : k \in 0 .. n}

FindString ==
  /\ fn = "idle"
  /\ \E l \in Text({1, 2}, 5), s \in Text({1, 2}, 3) : Calls("memmem", <<l, s>>, Str!MemMem(l, s))
CopyString ==
  /\ fn = "idle"
  /\ \E src \in [1 .. 3 -> 0 .. 1], n \in 0 .. 3 :
       LET dst == <<7, 7, 7, 7>>
           text == Append(src, 0)
       IN Calls("stpncpy", <<dst, text, n>>,
                [narrow |-> Str!StpNCpyChk(dst, text, n, 4), wide |-> Str!WcpNCpy(dst, text, n),
                 dup |-> Str!StrNDup(text, n, FALSE), len |-> Str!WcsNLen(text, n),
                 cpy |-> Str!WcpCpy(dst, text), wdup |-> Str!WcsDup(text, FALSE)])
CompareCase ==
  /\ fn = "idle"
  /\ \E l, r \in [1 .. 3 -> 0 .. 3], n \in 0 .. 4 :
       Calls("wcsncasecmp", <<Append(l, 0), Append(r, 0), n>>, Str!WcsNCaseCmp(Append(l, 0), Append(r, 0), n))
FindBit ==
  /\ fn = "idle"
  /\ \E mask \in -(2 ^ (Bits - 1)) .. 2 ^ (Bits - 1) - 1 :
       Calls("ffs", mask, [low |-> Str!Ffs(mask), high |-> Str!Fls(mask)])

\* memmem finds the first occurrence.
MemmemFirst == fn = "memmem" => Str!FoundFirst(in[1], in[2], out)

\* The bounded copies write exactly n characters and return where the copy ends;
\* strndup's copy is the cut string, and the unbounded copies are those bounded by the
\* string (stpncpy, wcpncpy, wcpcpy, strnlen, wcsnlen, strndup, wcsdup).
BoundedCopy ==
  fn = "stpncpy" =>
    /\ Str!CopiedN(in[1], in[2], in[3], out.narrow)
    /\ Str!CopiedN(in[1], in[2], in[3], out.wide)
    /\ out.dup = Append(SubSeq(in[2], 1, out.narrow.ret), 0)
    /\ out.len = out.narrow.ret
    /\ SubSeq(out.cpy.dst, 1, Len(out.wdup)) = out.wdup /\ out.cpy.ret = Len(out.wdup) - 1
    /\ Str!CopiedN(in[1], in[2], Len(out.wdup), out.cpy)

\* The case comparison is that of the folded strings (wcsncasecmp_l).
CaseCompared == fn = "wcsncasecmp" => Str!ComparesFolded(in[1], in[2], in[3], out)

\* ffs and fls find the lowest and the highest bit, of negative masks too.
BitsFound == fn = "ffs" => Str!BitFound(in, out.low, out.high)

-----------------------------------------------------------------------------
Boottime ==
  /\ fn = "idle"
  /\ \E size \in 0 .. 5, oldlen \in 0 .. 5, kernel32, isBoottime \in BOOLEAN :
       LET buf == [i \in 1 .. size |-> 9]
           tv == [sec |-> 6, usec |-> 3]
       IN oldlen <= size /\ Calls("sysctl", <<buf, oldlen, tv, isBoottime>>,
                                  Sys!Sysctl(isBoottime, buf, oldlen, tv, kernel32))
Memalign ==
  /\ fn = "idle"
  /\ \E alignment \in 0 .. 20, block \in 1 .. 3, nomem \in BOOLEAN :
       Calls("posix_memalign", alignment, Sys!PosixMemalign(alignment, block, nomem))
SetTimes ==
  /\ fn = "idle"
  /\ \E a, m \in [sec : {1}, nsec : {Ft!UtimeNow, Ft!UtimeOmit, 5}], null, faulty, nomem \in BOOLEAN :
       LET file == [atime |-> [sec |-> 0, nsec |-> 1], mtime |-> [sec |-> 0, nsec |-> 2]]
           now == [sec |-> 2, nsec |-> 3]
           times == IF null THEN <<>> ELSE <<a, m>>
       IN Calls("utimensat", <<file, times, now, nomem>>, Ft!UTimens(file, times, now, faulty, nomem))

SystemConf ==
  /\ fn = "idle"
  /\ \E name \in {"NPROCESSORS_ONLN", "NPROCESSORS_CONF", "PHYS_PAGES", "OTHER"},
        avail, ncpu \in {Sys!Refused, 0, 1, 2}, memsize \in {Sys!Refused} \cup 0 .. 3 * LongLimit * PageSize :
       /\ name # "PHYS_PAGES" => memsize = 0
       /\ name = "PHYS_PAGES" => avail = 1 /\ ncpu = 1
       /\ LET hw == [avail |-> avail, ncpu |-> ncpu, memsize |-> memsize]
          IN Calls("sysconf", <<name, hw>>, Sys!Sysconf(name, hw, 7))
PrintToFd ==
  /\ fn = "idle"
  /\ \E fdopens, asExpected \in BOOLEAN, n, room \in 0 .. 3 * StdioBuf :
       Calls("dprintf", <<asExpected, n, room>>, Dp!VDPrintf(fdopens, asExpected, n, room))

\* sysconf answers with what the kernel knows, and never with no processor.
SysconfRight == fn = "sysconf" => Sys!SysconfTold(in[1], in[2], out)

\* dprintf has written what it says, and the caller can go on with the descriptor.
DprintfRight == fn = "dprintf" => Dp!PrintedAll(in[1], in[2], in[3], out)

\* A caller with room gets the boot time as a timeval (sysctl, sysctlbyname).
BoottimeFixed == fn = "sysctl" /\ in[4] => Sys!BoottimeRight(in[1], in[2], in[3], out)

\* Memory is aligned as asked for up to the page size, and no valid alignment is
\* refused (posix_memalign).
MemoryAligned == fn = "posix_memalign" => Sys!Aligned(in, out)

\* Each time of a file becomes what was asked for (utimensat, futimens,
\* setattrlist).
TimesAsAsked == fn = "utimensat" => Ft!TimesSet(in[1], in[2], in[3], in[4], out)

-----------------------------------------------------------------------------
Memories == [0 .. 4 -> {"none", "ro", "rw"}]
Bytes == 0 .. 5 * VmPage - 1
Times == {<<1, 0>>, <<1, 2>>, <<2, 1>>}

CheckMemory ==
  /\ fn = "idle"
  /\ \E mem \in Memories, start \in Bytes, size \in 1 .. VmPage + 1, okadr \in {Sta!NoAdr} \cup Bytes :
       /\ start + size <= 5 * VmPage
       /\ okadr # Sta!NoAdr => okadr \in {start, start - 1}
       /\ Calls("check_access", <<mem, start, size, okadr>>, Sta!CheckAccess(mem, start, size, okadr))
StatFile ==
  /\ fn = "idle"
  /\ \E mem \in Memories, adr \in 0 .. 3 * VmPage, mtime, ctime \in Times, fails, ppc64 \in BOOLEAN :
       LET st == [atime |-> <<3, 3>>, mtime |-> mtime, ctime |-> ctime, rest |-> "rest"]
       IN /\ mem[3] = "none" /\ mem[4] = "none"
          /\ Calls("stat", <<mem, adr, st, fails, ppc64>>, Sta!Stat64(mem, adr, st, fails, ppc64))
StatDescriptor ==
  /\ fn = "idle"
  /\ \E fd \in 0 .. 15, fsec, sysctlFails, native, tiger \in BOOLEAN, known \in BOOLEAN :
       LET env == [sysctlFails |-> sysctlFails, native |-> native, tiger |-> tiger]
           cached == IF known THEN Sta!IsTigerRosetta(env) ELSE 0
       IN Calls("fstatx_np", <<fd, fsec, env>>, Sta!FdPassed(cached, fsec, fd, env))
FilePath ==
  /\ fn = "idle"
  /\ \E mem \in Memories, adr \in 0 .. 5 * VmPage - MaxPathLen :
       Calls("getpath", <<mem, adr>>, Sta!GetPath(mem, adr))

\* The check of the caller's memory is exact for up to a page (__mpls_check_access).
MemoryChecked == fn = "check_access" => Sta!AccessExact(in[1], in[2], in[3], in[4], out)

\* A 64-bit inode stat is whole or not there (convert_stat).
StatConverted == fn = "stat" => Sta!StatWhole(in[1], in[2], in[3], in[4], in[5], out)

\* The descriptor that the system works on is the caller's (fstatx_np).
DescriptorKept == fn = "fstatx_np" => Sta!RightFd(in[1], in[2], out, in[3])

\* F_GETPATH answers for every good buffer and faults for every other (fcntl).
PathForGoodBuffers == fn = "getpath" => Sta!PathAnswered(in[1], in[2], out)

-----------------------------------------------------------------------------
Dirs == {"", "bin", "far"}
Kinds == [regular : BOOLEAN, xbits : BOOLEAN]
Trees == UNION {[ps -> Kinds] : ps \in SUBSET {<<".", "x">>, <<"bin", "x">>, <<"far", "x">>, <<"", "./x">>}}

FindCommand ==
  /\ fn = "idle"
  /\ \E fs \in Trees, path \in {<<>>, <<"bin">>, <<"far", "bin">>, <<"bin", "">>, <<"", "bin", "">>},
        names \in {<<"x">>, <<"x", "./x">>, <<"long">>}, root, all, silent \in BOOLEAN :
       Calls("which", <<fs, path, names, root, silent>>, Wh!Which(fs, path, names, root, all, silent))

\* which prints the executable that the shell would run (print_matches, is_there).
WhichFirst == fn = "which" => Wh!FirstInPath(in[1], in[2], in[3], in[4], in[5], out)

-----------------------------------------------------------------------------
DrawBelow ==
  /\ fn = "idle"
  /\ \E upper \in 0 .. UWord - 1 : Calls("uniform", upper, Uni!RandomUniform(upper))

\* Every number below the bound comes from equally many of the values that are not
\* rejected (arc4random_uniform: "avoiding modulo bias").
NoModuloBias == fn = "uniform" => Uni!Unbiased(in, out)

-----------------------------------------------------------------------------
\* Instants with short and long times between them.
Instants(len) ==
  {[i \in 1 .. len |-> 10 + i + 6 * Cardinality({j \in longer : j < i})] :
     longer \in SUBSET (1 .. len - 1)}

SampleClock ==
  /\ fn = "idle"
  /\ \E type \in Ci!ClockTypes, at \in Instants(NumDiffs + 2), fail \in {0, 1, 3} :
       LET c == Ci!Collect(type, at, NumDiffs, 0, fail)
       IN ~c.err /\ Calls("clock_hist", Ci!Deltas(c.ns), Ci!Histogram(Ci!Deltas(c.ns)))
CompareClock ==
  /\ fn = "idle"
  /\ \E type \in Ci!ClockTypes, at \in Instants(2 * NumDiffs + 3), skew \in {0, 5}, fail \in {0, 4} :
       LET c == Ci!Compare(type, at, NumDiffs, skew, fail)
       IN ~c.err /\ Calls("clock_hist2", <<type, skew, c>>,
                          [offsets |-> Ci!Offsets(c.ns, c.ref),
                           hist |-> Ci!Histogram(Ci!Offsets(c.ns, c.ref))])

\* A histogram, collapsed in the buffer that was sorted, has every difference with the
\* number of times it was measured (gen_hist, gen_hist2, hcoll_diff).
HistogramExact ==
  /\ fn = "clock_hist" => Ci!HistogramOf(in, out)
  /\ fn = "clock_hist2" => Ci!HistogramOf(out.offsets, out.hist)

\* Offsets of a clock against mach_absolute_time are right up to half of the time between
\* two references (clock_compare, gen_offsets).
OffsetsBounded == fn = "clock_hist2" => Ci!OffsetsRight(in[1], in[2], in[3], out.offsets)

\* The clock functions compute what the exact arithmetic does (time.c).
ClocksExact ==
  MulExact /\ ScaledRight /\ SplitExact /\ SinceBootRight /\ ClockFormsAgree /\ ClockResolution

\* The clock functions compute what the exact arithmetic does, and so does the boot time
\* (time.c, sysctl.c).
ClocksRight == ClocksExact /\ BoottimeFixed


\* Strings, bits and memory blocks are what C and POSIX say (memmem.c, stpncpy.c,
\* wcscasecmp_family.c, strings.c, posix_memalign_emulation.c and others), and so are the
\* numbers of processors and pages (sysconf.c).
MemoryRight == MemmemFirst /\ BoundedCopy /\ CaseCompared /\ BitsFound /\ MemoryAligned /\ SysconfRight

\* Files are looked at and changed as asked for, and only memory is written that may be
\* (statxx.c, util.c, fcntl.c, utimensat.c, dprintf.c).
FilesRight ==
  MemoryChecked /\ StatConverted /\ DescriptorKept /\ PathForGoodBuffers /\ TimesAsAsked /\ DprintfRight

\* The commands print what is there: clock_info the differences and offsets that it
\* measured, which what the shell would run (tools/clock_info.c, tiger_only/src/which.c).
CommandsRight == HistogramExact /\ OffsetsBounded /\ WhichFirst

Return == fn # "idle" /\ fn' = "idle" /\ in' = <<>> /\ out' = <<>>

Next ==
  \/ MiddleWord \/ Scale \/ Timespec \/ SinceBoot \/ ReadClock
  \/ PackUnpack \/ PointerTest
  \/ Receive \/ ReceiveRosetta
  \/ FindString \/ CopyString \/ CompareCase \/ FindBit
  \/ Boottime \/ Memalign \/ SetTimes \/ SystemConf \/ PrintToFd
  \/ CheckMemory \/ StatFile \/ StatDescriptor \/ FilePath
  \/ FindCommand \/ DrawBelow \/ SampleClock \/ CompareClock
  \/ Return

Spec == Init /\ [][Next]_vars
=============================================================================
