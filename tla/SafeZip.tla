------------------------------ MODULE SafeZip ------------------------------
(***************************************************************************)
(* Reading an archive without trusting it, internal/safearchive: the        *)
(* archive is accepted only if its end, its central directory and the local *)
(* headers say one and the same thing about entries that do not overlap     *)
(* (ValidateZIPLocalHeaders), the entries are put in order (PrepareZIP),     *)
(* and each is read within limits it shares with the others (ReadZIPEntry). *)
(* An archive is what its records say and where they are; bytes are counted *)
(* in units.                                                                 *)
(***************************************************************************)
EXTENDS Naturals, Sequences, FiniteSets
LOCAL INSTANCE SequencesExt

CONSTANTS Archives,   \* the archives there may be
          Full,       \* a 32-bit field's largest value, which sends the reader to the ZIP64 extra
          Signature,  \* the word that may begin a data descriptor
          HeaderLen,  \* of a local header without its name and extra
          ReadLimits  \* [compressed, expanded, total, ratio, floor, chunk]

ASSUME ArchivesAssumption ==
  /\ HeaderLen \in Nat
  /\ \A a \in Archives :
       /\ a.directoryAt \in Nat /\ DOMAIN a.locals \subseteq Nat
       /\ \A s \in DOMAIN a.locals : a.locals[s].length \in Nat
       /\ \A i \in DOMAIN a.centrals : a.centrals[i].file.csize \in Nat

VARIABLES archiveFile, zipStage,  \* "validate", "read", "entry", "refused", "done"
          queue,       \* members still to read
          current,     \* [entry, out, in]: the member being read
          total,       \* expanded bytes so far, which all members share
          contents     \* members read: [entry, out, in]

zipVars == <<archiveFile, zipStage, queue, current, total, contents>>

NoEntry == [entry |-> 0, out |-> 0, in |-> 0]
ZipInit == /\ archiveFile \in Archives /\ zipStage = "validate" /\ queue = <<>> /\ current = NoEntry
           /\ total = 0 /\ contents = {}

-----------------------------------------------------------------------------
(* Names: segments, after backslashes have become slashes.                  *)

Cleaned(segments) ==
  FoldLeft(LAMBDA acc, s : CASE s = "." -> acc
                             [] s = ".." /\ acc # <<>> /\ acc[Len(acc)] # ".." -> Front(acc)
                             [] OTHER -> Append(acc, s), <<>>, segments)
UnsafeName(name) == \/ name.rooted \/ name.drive
                    \/ Cleaned(name.segments) = <<>> \/ Cleaned(name.segments)[1] = ".."
NormalizePath(name) == Cleaned(name.segments)

-----------------------------------------------------------------------------
(* The end of the archive and the central directory.                         *)

\* parseZIPCentralDirectory: one end record, of one disk, ZIP64's where a field is full.
End(a) == a.ends[1]
NeedsZip64(e) == Full \in {e.records, e.size, e.offset}
EndOK(a) == /\ Len(a.ends) = 1 /\ ~End(a).multiDisk /\ End(a).onDisk = End(a).records
            /\ NeedsZip64(End(a)) => /\ a.end64.exact /\ ~a.end64.multiDisk /\ a.end64.onDisk = a.end64.records
Directory(a) == IF NeedsZip64(End(a)) THEN a.end64 ELSE End(a)
DirectoryStart(a) == Directory(a).at - Directory(a).size
Base(a) == DirectoryStart(a) - Directory(a).offset
DirectoryOK(a) ==
  /\ EndOK(a) /\ Directory(a).records = Len(a.centrals)
  /\ Directory(a).size <= Directory(a).at /\ Directory(a).offset <= DirectoryStart(a)
  /\ DirectoryStart(a) = a.directoryAt
  /\ Directory(a).at = a.directoryAt + FoldLeft(LAMBDA n, c : n + c.length, 0, a.centrals)

\* parseCentralZIP64Extra: the values of the fields that are full, in their order.
NeededBy(c) == (IF c.usize = Full THEN <<"usize">> ELSE <<>>) \o (IF c.csize = Full THEN <<"csize">> ELSE <<>>)
               \o (IF c.offset = Full THEN <<"offset">> ELSE <<>>)
Has(c, field) == \E i \in DOMAIN NeededBy(c) : NeededBy(c)[i] = field
Value(c, field) == IF Has(c, field) THEN c.extra[CHOOSE i \in DOMAIN NeededBy(c) : NeededBy(c)[i] = field] ELSE c[field]
CentralOK(a, c) ==
  /\ ~c.multiDisk
  /\ NeededBy(c) # <<>> => c.extras = 1 /\ Len(c.extra) >= Len(NeededBy(c))
  /\ Value(c, "csize") = c.file.csize /\ Value(c, "usize") = c.file.usize
Start(a, c) == Value(c, "offset") + Base(a)

-----------------------------------------------------------------------------
(* Local headers.                                                            *)

Local(a, c) == a.locals[Start(a, c)]
Data(a, c) == Start(a, c) + Local(a, c).length
DataEnd(a, c) == Data(a, c) + c.file.csize

\* validateLocalZIP64Extra: what is full is in the extra, and nothing else is.
LocalSizesOK(l, c) ==
  LET needed == (IF l.usize = Full THEN <<c.file.usize>> ELSE <<>>) \o (IF l.csize = Full THEN <<c.file.csize>> ELSE <<>>)
  IN  IF needed = <<>> THEN l.extras = 0 ELSE l.extras = 1 /\ l.extra = needed

\* parseZIPLocalSpan.
LocalOK(a, c) ==
  /\ Start(a, c) \in DOMAIN a.locals /\ Start(a, c) + HeaderLen <= a.directoryAt
  /\ LET l == Local(a, c)
     IN  /\ Data(a, c) <= a.directoryAt /\ ~l.backslash /\ ~UnsafeName(l.name) /\ l.name = c.name
         /\ "encrypted" \notin l.flags \cup c.flags /\ l.flags = c.flags
         /\ l.method \in {"store", "deflate"} /\ l.method = c.method
         /\ LocalSizesOK(l, c)
         /\ IF "descriptor" \in l.flags
            THEN l.crc = 0 /\ <<l.csize, l.usize>> \in {<<0, 0>>, <<Full, Full>>}
            ELSE /\ l.crc = c.crc
                 /\ l.csize = Full \/ l.csize = c.file.csize
                 /\ l.usize = Full \/ l.usize = c.file.usize
         /\ c.file.data = Data(a, c)
         /\ DataEnd(a, c) <= a.directoryAt

\* A data descriptor is words: the checksum and the sizes, each of two words for ZIP64,
\* after the signature or without it. Words that begin with the signature can be read
\* either way.
Wide(c) == Has(c, "csize") \/ Has(c, "usize")
DescriptorLen(c, signed) == (IF Wide(c) THEN 5 ELSE 3) + (IF signed THEN 1 ELSE 0)
ReadAs(c, words, signed) ==
  LET k == IF signed THEN 1 ELSE 0
      long(n) == words[n] + (Full + 1) * words[n + 1]
  IN  IF Wide(c) THEN [crc |-> words[k + 1], csize |-> long(k + 2), usize |-> long(k + 4)]
                 ELSE [crc |-> words[k + 1], csize |-> words[k + 2], usize |-> words[k + 3]]
Readings(a, c, at) ==
  {signed \in BOOLEAN : /\ at \in DOMAIN a.words /\ DescriptorLen(c, signed) <= Len(a.words[at])
                        /\ signed => a.words[at][1] = Signature}
SaysAsCentral(a, c, at, signed) ==
  ReadAs(c, a.words[at], signed) = [crc |-> c.crc, csize |-> c.file.csize, usize |-> c.file.usize]

\* validateZIPDataDescriptor: a signature is read as one, unless the checksum looks like it.
Signed(a, c) == DataEnd(a, c) \in DOMAIN a.words /\ a.words[DataEnd(a, c)][1] = Signature
SpanEnd(a, c) == IF "descriptor" \in c.flags THEN DataEnd(a, c) + DescriptorLen(c, Signed(a, c)) ELSE DataEnd(a, c)
DescriptorOK(a, c, boundary) ==
  /\ ~(Signed(a, c) /\ c.crc = Signature)
  /\ SpanEnd(a, c) <= boundary
  /\ Signed(a, c) \in Readings(a, c, DataEnd(a, c)) /\ SaysAsCentral(a, c, DataEnd(a, c), Signed(a, c))

\* matchingZIPDataDescriptor: what follows the data would do as a descriptor.
LooksDescribed(a, c, boundary) ==
  \E signed \in Readings(a, c, DataEnd(a, c)) :
     DataEnd(a, c) + DescriptorLen(c, signed) <= boundary /\ SaysAsCentral(a, c, DataEnd(a, c), signed)

\* Mutant: an entry ends with its data.
FitsData(a, c, boundary) == DataEnd(a, c) <= boundary

\* The loop of ValidateZIPLocalHeaders over the spans by their start: an entry ends, its
\* descriptor too, before the next begins; without the flag there is no descriptor.
Fits(a, c, boundary) ==
  /\ DataEnd(a, c) <= boundary
  /\ IF "descriptor" \in c.flags THEN DescriptorOK(a, c, boundary) ELSE ~LooksDescribed(a, c, boundary)
StartsOf(a) == {Start(a, a.centrals[i]) : i \in DOMAIN a.centrals}
Boundary(a, c) ==
  LET later == {s \in StartsOf(a) : s > Start(a, c)}
  IN  IF later = {} THEN a.directoryAt ELSE CHOOSE s \in later : \A t \in later : s <= t

ValidateZIPLocalHeaders(a) ==
  /\ DirectoryOK(a)
  /\ \A i \in DOMAIN a.centrals : CentralOK(a, a.centrals[i])
  /\ \A i, j \in DOMAIN a.centrals : Start(a, a.centrals[i]) = Start(a, a.centrals[j]) => i = j
  /\ \A i \in DOMAIN a.centrals : LocalOK(a, a.centrals[i])
  /\ \A i \in DOMAIN a.centrals : Fits(a, a.centrals[i], Boundary(a, a.centrals[i]))

-----------------------------------------------------------------------------
(* The members in their order.                                              *)

\* PrepareZIP: names that are unsafe, or that more than one entry has, are refused with
\* an error; so are methods and encryption nobody reads.
Prepared(a) ==
  {i \in DOMAIN a.centrals :
     LET c == a.centrals[i]
     IN  /\ ~UnsafeName(c.name)
         /\ \A j \in DOMAIN a.centrals \ {i} :
              UnsafeName(a.centrals[j].name) \/ NormalizePath(a.centrals[j].name) # NormalizePath(c.name)
         /\ "encrypted" \notin c.flags /\ c.method \in {"store", "deflate"}}
PrepareZIP(a) == SetToSortSeq(Prepared(a), LAMBDA i, j :
                   \/ a.centrals[i].priority < a.centrals[j].priority
                   \/ a.centrals[i].priority = a.centrals[j].priority /\ a.centrals[i].rank < a.centrals[j].rank)

Validate ==
  /\ zipStage = "validate"
  /\ IF ValidateZIPLocalHeaders(archiveFile)
     THEN zipStage' = "read" /\ queue' = PrepareZIP(archiveFile)
     ELSE zipStage' = "refused" /\ queue' = queue
  /\ UNCHANGED <<archiveFile, current, total, contents>>

-----------------------------------------------------------------------------
(* Reading a member.                                                         *)

Entry == archiveFile.centrals[current.entry]

\* CompressionRatioExceeded: small members may be as compressed as they like.
RatioExceeded(out, in) == /\ in >= ReadLimits.floor /\ in > 0
                          /\ out \div in > ReadLimits.ratio \/ (out \div in = ReadLimits.ratio /\ out % in # 0)

\* The checks before a byte is read.
Open ==
  /\ zipStage = "read" /\ queue # <<>>
  /\ LET c == archiveFile.centrals[Head(queue)]
     IN  IF c.file.usize > ReadLimits.expanded \/ c.file.csize > ReadLimits.compressed
         THEN UNCHANGED <<zipStage, current>>
         ELSE zipStage' = "entry" /\ current' = [entry |-> Head(queue), out |-> 0, in |-> 0]
  /\ queue' = Tail(queue)
  /\ UNCHANGED <<archiveFile, total, contents>>

Dropped == zipStage' = "read" /\ current' = NoEntry

\* A turn of the loop that got n expanded bytes from k more compressed ones.
Chunk(n, k) ==
  LET out == current.out + n
      in == current.in + k
  IN  /\ zipStage = "entry" /\ out <= Entry.stream.out /\ in <= Entry.stream.in /\ in >= Entry.stream.least[out]
      /\ IF out > ReadLimits.expanded \/ total + n > ReadLimits.total
         THEN Dropped /\ UNCHANGED total
         ELSE /\ total' = total + n
              /\ IF RatioExceeded(out, in) THEN Dropped
                 ELSE zipStage' = zipStage /\ current' = [current EXCEPT !.out = out, !.in = in]
      /\ UNCHANGED <<archiveFile, queue, contents>>

\* The end of the stream: what is left of the compressed bytes is read too, and the size
\* and checksum have to be those the directory gave.
EndOfEntry ==
  /\ zipStage = "entry" /\ current.out = Entry.stream.out
  /\ LET in == Entry.file.csize
     IN  /\ contents' = IF /\ ~RatioExceeded(current.out, in)
                           /\ current.out = Entry.file.usize /\ Entry.stream.crc = Entry.crc /\ Entry.stream.ends
                        THEN contents \cup {[current EXCEPT !.in = in]} ELSE contents
  /\ Dropped /\ UNCHANGED <<archiveFile, queue, total>>

NoMore == /\ zipStage = "read" /\ queue = <<>> /\ zipStage' = "done"
          /\ UNCHANGED <<archiveFile, queue, current, total, contents>>

ZipNext == \/ Validate \/ Open \/ EndOfEntry \/ NoMore
           \/ \E n \in 1 .. ReadLimits.chunk, k \in 0 .. ReadLimits.chunk : Chunk(n, k)

ZipSpec == ZipInit /\ [][ZipNext]_zipVars

-----------------------------------------------------------------------------
\* Of an accepted archive the central directory and the local headers tell one story:
\* the entries and the directory share no byte, and a reader that goes by the local
\* headers finds each entry's name, method, sizes and data, from the header and its ZIP64
\* extra or from its descriptor, to be those the rest of the scan goes by; the descriptor
\* has one reading only. What is read of a member is all of it.
ViewsAgree ==
  zipStage \notin {"validate", "refused"} =>
    LET a == archiveFile
        inHeader(c, field) ==
          LET l == Local(a, c)
          IN  CASE l[field] # Full -> l[field]
                [] field = "usize" /\ l[field] = Full -> l.extra[1]
                [] OTHER -> l.extra[Len(l.extra)]
        inDescriptor(c) ==
          LET at == DataEnd(a, c)
              meant == {signed \in Readings(a, c, at) : ReadAs(c, a.words[at], signed).crc = c.crc}
          IN  /\ meant # {}
              /\ \A signed \in meant : /\ ReadAs(c, a.words[at], signed).csize = c.file.csize
                                       /\ ReadAs(c, a.words[at], signed).usize = c.file.usize
                                       /\ at + DescriptorLen(c, signed) = SpanEnd(a, c)
    IN  /\ \A i \in DOMAIN a.centrals :
          LET c == a.centrals[i]
          IN  /\ SpanEnd(a, c) <= a.directoryAt
              /\ \A j \in DOMAIN a.centrals \ {i} :
                   SpanEnd(a, c) <= Start(a, a.centrals[j]) \/ SpanEnd(a, a.centrals[j]) <= Start(a, c)
              /\ Local(a, c).name = c.name /\ Local(a, c).method = c.method /\ c.file.data = Data(a, c)
              /\ IF "descriptor" \in Local(a, c).flags THEN inDescriptor(c)
                 ELSE inHeader(c, "csize") = c.file.csize /\ inHeader(c, "usize") = c.file.usize
        /\ \A m \in contents : m.out = a.centrals[m.entry].file.usize /\ m.in = a.centrals[m.entry].file.csize
=============================================================================
