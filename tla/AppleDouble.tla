---------------------------- MODULE AppleDouble ----------------------------
(***************************************************************************)
(* copyfile_pack and copyfile_unpack of src/copyfile.c: a file's extended  *)
(* attributes, ACL, Finder info and resource fork as one AppleDouble file, *)
(* and back.                                                               *)
(*                                                                         *)
(* A file is [xattr, acl, dir]: a function from attribute names to values  *)
(* (sequences of bytes, 0 being NUL), the text of the ACL or NoAcl, and    *)
(* whether it is a directory.  A packed file is [size, finfo, length0,     *)
(* entries, rsrc, mem]: the fields of its headers and the bytes at its     *)
(* offsets.  The sizes are those of the packed structures in the source.   *)
(* fails are the calls that fail while packing: fgetxattr of a name,       *)
(* flistxattr ("list"), and the pwrite of the resource fork ("fork") and   *)
(* of the header ("header").                                               *)
(***************************************************************************)
EXTENDS Integers, Sequences, FiniteSets, SequencesExt, Functions

CONSTANTS
  NameLen,       \* length of each attribute name, with its NUL
  MaxSize,       \* ATTR_MAX_SIZE
  MaxHdrSize,    \* ATTR_MAX_HDR_SIZE
  MaxAttrLen,    \* XATTR_MAXATTRLEN
  FinderInfoSize \* FINDERINFOSIZE, 32

FinderInfoName == "FinderInfo"
ResourceForkName == "ResourceFork"
SecurityName == "acl.text"
NoAcl == <<>>

FInfoOffset == 50                     \* offsetof(apple_double_header_t, finfo)
PadOffset == FInfoOffset + FinderInfoSize
AdHeaderSize == PadOffset + 2
AttrHeaderSize == AdHeaderSize + 36
EntrySize == 12                       \* sizeof(attr_entry_t)

\* ATTR_ENTRY_LENGTH: entries are aligned to four bytes.
EntryLength(n) == ((EntrySize - 1 + NameLen[n] + 3) \div 4) * 4

\* bcopy of a value to an offset.
Store(mem, off, val) ==
  [i \in DOMAIN mem \cup off .. off + Len(val) - 1 |->
     IF i \in off .. off + Len(val) - 1 THEN val[i - off + 1] ELSE mem[i]]
Load(mem, off, len) ==
  [i \in 1 .. len |-> IF off + i - 1 \in DOMAIN mem THEN mem[off + i - 1] ELSE 0]

-----------------------------------------------------------------------------
\* The ACL's name is the first in attrnamebuf.
AclNamed(f, flags) == {"XATTR", "ACL"} \subseteq flags /\ f.acl # NoAcl

\* The names in attrnamebuf: the ACL's, then what flistxattr returned, in some
\* order; without COPYFILE_XATTR the loops see none of them.
Names(f, flags, fails) ==
  (IF AclNamed(f, flags) THEN <<SecurityName>> ELSE <<>>)
  \o (IF "XATTR" \notin flags \/ "list" \in fails THEN <<>> ELSE SetToSeq(DOMAIN f.xattr))

HasEntry(n) == n \notin {FinderInfoName, ResourceForkName}

\* The length of the entries of a sequence of names.
EntriesLength(names) ==
  LET len[i \in 0 .. Len(names)] ==
        IF i = 0 THEN 0 ELSE len[i - 1] + EntryLength(names[i])
  IN len[Len(names)]

\* What is packed for a name: the ACL's text with its NUL, or the attribute.
Data(f, n) == IF n = SecurityName THEN Append(f.acl, 0) ELSE f.xattr[n]


\* entry->offset = filehdr->data_start + filehdr->data_length.
DataOffset(start, length) == start + length

\* The second pass over the names that have entries.  An attribute that is empty,
\* too long or cannot be read gets no data, offset or length, without an error;
\* one that goes past the buffer is left out with error 1.
Collect(f, names, start, fails) ==
  LET step(p, n) ==
        LET d == Data(f, n)
            off == DataOffset(start, p.length)
            e == [name |-> n, offset |-> off, length |-> Len(d)]
        IN CASE n # SecurityName /\ (d = <<>> \/ Len(d) > MaxAttrLen \/ n \in fails) ->
                  [p EXCEPT !.entries = Append(@, [e EXCEPT !.offset = 0, !.length = 0])]
             [] OTHER ->
                  [entries |-> Append(p.entries, e),
                   length |-> p.length + Len(d),
                   mem |-> IF off + Len(d) > MaxSize THEN p.mem ELSE Store(p.mem, off, d),
                   error |-> IF off + Len(d) > MaxSize THEN 1 ELSE p.error]
  IN FoldLeft(step, [entries |-> <<>>, length |-> 0, mem |-> <<>>, error |-> 0], names)

\* The Finder info is read into its place if it can be read and is not longer.
FinderInfo(f, names, fails) ==
  IF /\ FinderInfoName \in Range(names) \ fails
     /\ Len(f.xattr[FinderInfoName]) <= FinderInfoSize
  THEN f.xattr[FinderInfoName] \o [i \in 1 .. FinderInfoSize - Len(f.xattr[FinderInfoName]) |-> 0]
  ELSE [i \in 1 .. FinderInfoSize |-> 0]

\* copyfile_pack_rsrcfork: the fork goes after the attributes.  If it cannot be
\* written its length is kept all the same.
PackRsrcFork(f, fails) ==
  [error |-> IF ResourceForkName \in fails THEN -1 ELSE 0,
   written |-> IF "fork" \in fails THEN <<>> ELSE f.xattr[ResourceForkName],
   length |-> Len(f.xattr[ResourceForkName])]

\* copyfile_pack.  A resource fork that is packed takes the place of an error
\* left by the attributes.  When their data goes past the buffer (error 1), the
\* header is written from what follows the buffer in memory: those bytes are
\* left open, and the write may fail.
Pack(f, flags, fails) ==
  LET names == Names(f, flags, fails)
      own == SelectSeq(names, HasEntry)
      start == AttrHeaderSize + EntriesLength(own)
      c == Collect(f, own, start, fails)
      off1 == IF c.length > 0 THEN start + c.length ELSE PadOffset
      rsrc == IF ResourceForkName \in Range(names) THEN PackRsrcFork(f, fails)
              ELSE [error |-> c.error, written |-> <<>>, length |-> 0]
  IN [error |-> IF \/ start >= MaxSize \/ "header" \in fails
                   \/ "list" \in fails /\ AclNamed(f, flags)
                THEN -1 ELSE rsrc.error,
      size |-> off1 + Len(rsrc.written),
      finfo |-> FinderInfo(f, names, fails),
      length0 |-> IF c.length > 0 THEN off1 - FInfoOffset ELSE FinderInfoSize,
      entries |-> c.entries,
      rsrc |-> [offset |-> off1, length |-> rsrc.length],
      mem |-> Store(c.mem, off1, rsrc.written)]

-----------------------------------------------------------------------------
\* The test of entry->offset and entry->length, with pointers of so many values:
\* buffer is the address of the header's bytes.
InBuffer(offset, length, hdrsize, buffer, words) ==
  LET endptr == buffer + hdrsize
      dataptr == (buffer + offset) % words
      last == (dataptr + length) % words
  IN ~(dataptr > endptr \/ dataptr < buffer)
     /\ ~(last > endptr \/ last < buffer \/ length > hdrsize)

HdrSize(p) == IF p.size < MaxHdrSize THEN p.size ELSE MaxHdrSize

\* The entry at an offset, with its name, lies within what was read.
EntryInside(p, at, n) ==
  at + EntrySize <= HdrSize(p) /\ NameLen[n] >= 2 /\ at + EntrySize - 1 + NameLen[n] <= HdrSize(p)

\* The text of an ACL ends at its NUL, or is copied to a buffer with one more
\* byte.
AclText(val) ==
  IF 0 \in Range(val)
  THEN SubSeq(val, 1, (CHOOSE i \in 1 .. Len(val) : val[i] = 0 /\ \A j \in 1 .. i - 1 : val[j] # 0) - 1)
  ELSE val

\* The attributes the target had are removed.
Cleared(dst, flags) == IF "XATTR" \in flags THEN [dst EXCEPT !.xattr = <<>>] ELSE dst

SetXattr(file, n, val) ==
  [file EXCEPT !.xattr = [m \in DOMAIN @ \cup {n} |-> IF m = n THEN val ELSE @[m]]]

\* One entry is checked and applied: the ACL, or any other attribute.  refuses
\* are the names fsetxattr fails for.
Apply(p, r, e, at, flags, refuses) ==
  LET val == Load(p.mem, e.offset, e.length)
  IN CASE r.error # 0 -> r
       [] r.error = 0 /\ ~(EntryInside(p, at, e.name) /\ e.offset + e.length <= HdrSize(p)) ->
            [r EXCEPT !.error = -1]
       [] OTHER ->
            IF "ACL" \in flags /\ e.name = SecurityName THEN [r EXCEPT !.file.acl = AclText(val)]
            ELSE IF "XATTR" \notin flags THEN r
            ELSE IF e.name \in refuses THEN [r EXCEPT !.error = -1]
            ELSE [r EXCEPT !.file = SetXattr(@, e.name, val)]

\* The entries in turn, each after the one before it.
ApplyAll(p, r, flags, refuses) ==
  LET names == [i \in 1 .. Len(p.entries) |-> p.entries[i].name]
      done[i \in 0 .. Len(p.entries)] ==
        IF i = 0 THEN r
        ELSE Apply(p, done[i - 1], p.entries[i],
                   AttrHeaderSize + EntriesLength(SubSeq(names, 1, i - 1)), flags, refuses)
  IN done[Len(p.entries)]

\* The Finder info, unless it is empty.
ApplyFinderInfo(p, r, refuses) ==
  IF r.error # 0 \/ p.finfo = [i \in 1 .. FinderInfoSize |-> 0] THEN r
  ELSE IF FinderInfoName \in refuses THEN [r EXCEPT !.error = -1]
  ELSE [r EXCEPT !.file = SetXattr(@, FinderInfoName, p.finfo)]

\* The resource fork, which must be there as a whole; when a directory does not
\* take the fork that says it is empty, that is no error.
ApplyRsrcFork(p, r, emptyFork, refuses) ==
  LET val == Load(p.mem, p.rsrc.offset, p.rsrc.length)
  IN IF r.error # 0 \/ p.rsrc.length = 0 THEN r
     ELSE IF p.rsrc.offset + p.rsrc.length > p.size THEN [r EXCEPT !.error = -1]
     ELSE IF ResourceForkName \notin refuses
          THEN [r EXCEPT !.file = SetXattr(@, ResourceForkName, val)]
          ELSE [r EXCEPT !.error = IF r.file.dir /\ val = emptyFork THEN 0 ELSE -1]

\* copyfile_unpack onto a target; listed says that the target's attributes could be
\* listed, otherwise the function ends there without an error.  With COPYFILE_STAT,
\* copyfile_stat's result takes the place of a resource fork's error.
Unpack(p, dst, flags, emptyFork, refuses, listed) ==
  LET start == [file |-> Cleared(dst, flags), error |-> 0]
      attrs == IF p.length0 <= FinderInfoSize THEN start
               ELSE IF HdrSize(p) < AttrHeaderSize THEN [start EXCEPT !.error = -1]
               ELSE ApplyAll(p, start, flags, refuses)
      finfo == ApplyFinderInfo(p, attrs, refuses)
      fork == ApplyRsrcFork(p, finfo, emptyFork, refuses)
  IN IF p.size < AdHeaderSize - 2 THEN [file |-> dst, error |-> -1]
     ELSE IF "XATTR" \in flags /\ ~listed THEN [file |-> dst, error |-> 0]
     ELSE IF finfo.error = 0 /\ "STAT" \in flags THEN [fork EXCEPT !.error = 0] ELSE fork

-----------------------------------------------------------------------------
\* What copyfile_pack reads of a file.  An attribute that cannot be read or is too
\* long comes back as an empty one, and a Finder info or a list of attributes that
\* cannot be read as none.
Readable(f, fails) ==
  LET read == IF "list" \in fails THEN {} ELSE DOMAIN f.xattr \ (fails \cap {FinderInfoName})
  IN [f EXCEPT !.xattr =
        [n \in read |-> IF HasEntry(n) /\ (n \in fails \/ Len(@[n]) > MaxAttrLen) THEN <<>> ELSE @[n]]]

\* The format can hold what is read of the file: its Finder info and its fork are
\* what they should be, and one attribute at least is not empty (the headers of
\* attributes are written only with some data).
Packable(f, flags) ==
  /\ FinderInfoName \in DOMAIN f.xattr =>
       Len(f.xattr[FinderInfoName]) = FinderInfoSize /\ Range(f.xattr[FinderInfoName]) # {0}
  /\ ResourceForkName \in DOMAIN f.xattr => f.xattr[ResourceForkName] # <<>>
  /\ \/ "ACL" \in flags /\ f.acl # NoAcl
     \/ \A n \in DOMAIN f.xattr : ~HasEntry(n)
     \/ \E n \in DOMAIN f.xattr : HasEntry(n) /\ f.xattr[n] # <<>>

\* The attributes fit in what copyfile_unpack reads.
Fits(packed) == packed.rsrc.offset <= MaxHdrSize

\* If packing reports success, unpacking gives back the attributes and the ACL that
\* were read, whatever the target had, or tells that the file does not hold them
\* all; with COPYFILE_STAT it does not tell of a missing fork (copyfile_unpack).
RoundTrip(f, flags, fails, packed, unpacked) ==
  LET kept == Readable(f, fails)
      forkMissing == "fork" \in fails /\ ResourceForkName \in DOMAIN kept.xattr
  IN {"XATTR", "ACL"} \subseteq flags /\ Packable(kept, flags) /\ packed.error = 0 =>
       CASE ~Fits(packed) -> unpacked.error # 0
         [] Fits(packed) /\ forkMissing -> unpacked.error # 0 \/ "STAT" \in flags
         [] OTHER -> /\ unpacked.error = 0
                     /\ unpacked.file.xattr = kept.xattr
                     /\ f.acl # NoAcl => unpacked.file.acl = f.acl

\* Packing tells of attributes that went past its buffer, except with a resource
\* fork, whose result takes the place of the error (copyfile_pack).
PastBuffer(f, packed) ==
  packed.rsrc.offset > MaxSize /\ ResourceForkName \notin DOMAIN f.xattr => packed.error # 0

\* copyfile_unpack reports an attribute that the target refuses, except for the
\* resource fork (COPYFILE_STAT covers its error, and a directory may refuse the
\* empty one).
Refusal(f, flags, fails, refuses, unpacked) ==
  LET kept == Readable(f, fails)
  IN Packable(kept, flags) /\ "XATTR" \in flags
     /\ refuses \cap (DOMAIN kept.xattr \ {ResourceForkName}) # {} => unpacked.error # 0

\* The pointer test of copyfile_unpack lets through exactly the data that lies
\* within the header's bytes, although pointers wrap around.
BufferTest(offset, length, hdrsize, ok) == ok <=> offset + length <= hdrsize
=============================================================================
