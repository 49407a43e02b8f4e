------------------------------- MODULE Bundle -------------------------------
(***************************************************************************)
(* The life of a bundle's bytes: estimated and planned (NewPlan of         *)
(* share/bundle), cut into parts as it is encrypted (upload of             *)
(* share/share.go), checked by the server (upload_handler.go), and read    *)
(* back in ranges (ReadManifest and DecryptFile of share/bundle).  Loops   *)
(* take a step per iteration.  Sizes and offsets are the bytes of the      *)
(* code; what the bytes are is left out, except for which record of which  *)
(* file they belong to.                                                    *)
(***************************************************************************)
EXTENDS Naturals, Sequences

CONSTANTS
  Sizes,             \* sizes a file may have
  MaxFiles,          \* bound: files of one bundle
  ManifestSizes,     \* sizes the manifest's JSON may have
  FilesShrink,       \* whether a file may become shorter while it is shared
  ChunkSize, RecordOverhead, MaxManifestBytes, FooterLength,
  CoalesceBytes, SmallBundleBytes,              \* share/bundle/bundle.go
  MinPartBytes, MaxEncryptedUploadBytes,        \* share/share.go
  multipartUploadPartSize, maxMultipartUploadPart, s3MinimumPartSize,
  maxMultipartPartNumber,                       \* upload_handler.go
  maxFileSize,                                  \* the server's configuration
  maxRangeBytes                                 \* secret_handler.go

ASSUME BundleAssumption ==
  /\ Sizes \subseteq Nat /\ ManifestSizes \subseteq Nat \ {0}
  /\ MaxFiles \in Nat \ {0}
  /\ FilesShrink \in BOOLEAN
  /\ {ChunkSize, RecordOverhead, FooterLength, MinPartBytes, s3MinimumPartSize,
      multipartUploadPartSize} \subseteq Nat \ {0}
  /\ {MaxManifestBytes, CoalesceBytes, SmallBundleBytes, MaxEncryptedUploadBytes,
      maxMultipartUploadPart, maxMultipartPartNumber, maxFileSize, maxRangeBytes} \subseteq Nat

\* What the constants must satisfy for the layout to work: a part that is
\* still too small takes any record, and the last one the trailer; what the
\* client may upload, the server takes, in as many parts as it numbers; and what
\* the reader asks for at once is within one range.
ASSUME LayoutAssumption ==
  /\ s3MinimumPartSize <= MinPartBytes
  /\ ChunkSize + RecordOverhead + MinPartBytes <= multipartUploadPartSize
  /\ multipartUploadPartSize + MaxManifestBytes + RecordOverhead + FooterLength
       <= maxMultipartUploadPart
  /\ MaxEncryptedUploadBytes <= maxFileSize
  /\ MaxEncryptedUploadBytes \div s3MinimumPartSize < maxMultipartPartNumber
  /\ RecordOverhead <= ChunkSize
  /\ \A bytes \in {2 * CoalesceBytes + RecordOverhead, ChunkSize + RecordOverhead,
                    MaxManifestBytes + RecordOverhead, FooterLength, SmallBundleBytes} :
       bytes <= maxRangeBytes

VARIABLES
  sizes,         \* the files: their sizes when they were opened
  actual,        \* their sizes now
  manifestSize,  \* the size of the manifest's JSON
  pc,
  \* EstimateEncryptedSize
  chunks, plaintext,
  \* NewPlan
  file, start, offset,
  records,       \* the plan: one record for each chunk of each file
  \* upload
  next,          \* the record to encrypt
  part,          \* bytes of the part being filled
  partOffset,
  parts,         \* the parts sent so far, as [offset, size]
  stale,         \* records encrypted from bytes that are not theirs
  \* Open
  at,            \* the record to check or to read
  fileIndex, fileSize,  \* validate: the file being checked
  spans,         \* the records whose places are still to be checked
  expected,      \* where the next of them has to begin
  ranges         \* the ranges read for records, as [first, last, start, end]

input == <<sizes, actual, manifestSize>>
estimate == <<chunks, plaintext>>
plan == <<file, start, offset, records>>
upload == <<next, part, partOffset, parts, stale>>
check == <<fileIndex, fileSize, spans, expected>>
reader == <<at, check, ranges>>
vars == <<input, pc, estimate, plan, upload, reader>>

Files == UNION {[1 .. n -> Sizes] : n \in 1 .. MaxFiles}
Record == [file : Nat, start : Nat, plaintext : Nat, offset : Nat, length : Nat]

TypeOK ==
  /\ sizes \in Files /\ actual \in [DOMAIN sizes -> Nat] /\ manifestSize \in ManifestSizes
  /\ pc \in {"estimate", "plan", "upload", "sent", "validate", "read", "done", "refused", "invalid"}
  /\ chunks \in Nat /\ plaintext \in Nat
  /\ file \in Nat /\ start \in Nat /\ offset \in Nat
  /\ records \in Seq(Record)
  /\ next \in Nat /\ part \in Nat /\ partOffset \in Nat
  /\ parts \in Seq([offset : Nat, size : Nat])
  /\ stale \subseteq 1 .. Len(records)
  /\ at \in Nat /\ fileIndex \in Nat /\ fileSize \in Nat /\ expected \in Nat
  /\ spans \subseteq 1 .. Len(records)
  /\ ranges \in Seq([first : Nat, last : Nat, start : Nat, end : Nat])

Init ==
  /\ sizes \in Files /\ actual = sizes /\ manifestSize \in ManifestSizes
  /\ pc = "estimate" /\ chunks = 0 /\ plaintext = 0
  /\ file = 1 /\ start = 0 /\ offset = 0 /\ records = <<>>
  /\ next = 1 /\ part = 0 /\ partOffset = 0 /\ parts = <<>> /\ stale = {}
  /\ at = 1 /\ fileIndex = 1 /\ fileSize = 0 /\ spans = {} /\ expected = 0 /\ ranges = <<>>

-----------------------------------------------------------------------------
(* The limit, before anything is planned.                                  *)

\* Mutant: the last, shorter record of a file is not counted.
WholeChunksOf(size) == size \div ChunkSize

ChunksOf(size) == (size + ChunkSize - 1) \div ChunkSize

EstimateFile ==
  /\ pc = "estimate" /\ file <= Len(sizes)
  /\ chunks' = chunks + ChunksOf(sizes[file])
  /\ plaintext' = plaintext + sizes[file]
  /\ file' = file + 1
  /\ UNCHANGED <<input, pc, start, offset, records, upload, reader>>

\* An upper bound on the size of the bundle.
EstimateEncryptedSize ==
  plaintext + chunks * RecordOverhead + MaxManifestBytes + RecordOverhead + FooterLength

CheckLimit ==
  /\ pc = "estimate" /\ file > Len(sizes)
  /\ pc' = IF EstimateEncryptedSize > MaxEncryptedUploadBytes THEN "refused" ELSE "plan"
  /\ file' = 1
  /\ UNCHANGED <<input, estimate, start, offset, records, upload, reader>>

-----------------------------------------------------------------------------
(* NewPlan.                                                                *)

Smaller(a, b) == IF a < b THEN a ELSE b

\* The plaintext of the record that begins at start.
ChunkAt == Smaller(start + ChunkSize, sizes[file]) - start

PlanChunk ==
  /\ pc = "plan" /\ file <= Len(sizes) /\ start < sizes[file]
  /\ records' = Append(records, [file |-> file, start |-> start, plaintext |-> ChunkAt,
                                 offset |-> offset, length |-> ChunkAt + RecordOverhead])
  /\ start' = start + ChunkSize
  /\ offset' = offset + ChunkAt + RecordOverhead
  /\ UNCHANGED <<input, pc, estimate, file, upload, reader>>

PlanNextFile ==
  /\ pc = "plan" /\ file <= Len(sizes) /\ start >= sizes[file]
  /\ file' = file + 1
  /\ start' = 0
  /\ UNCHANGED <<input, pc, estimate, offset, records, upload, reader>>

PlanManifest ==
  /\ pc = "plan" /\ file > Len(sizes)
  /\ pc' = IF manifestSize > MaxManifestBytes THEN "refused" ELSE "upload"
  /\ UNCHANGED <<input, estimate, plan, upload, reader>>

EncryptedManifestLength == manifestSize + RecordOverhead
DataSize == offset
TotalSize == DataSize + EncryptedManifestLength + FooterLength

-----------------------------------------------------------------------------
(* upload: the records in order, grouped into parts.                       *)

\* Mutant: a part is full when it is over the size, not when it would be.
PartIsFullLate(length) == part > multipartUploadPartSize

PartIsFull(length) ==
  /\ part > 0
  /\ part + length > multipartUploadPartSize
  /\ part >= MinPartBytes

NextOffset == partOffset + part

\* Somebody cuts a file short while it is being shared.
Truncate(f) ==
  /\ FilesShrink /\ pc \in {"plan", "upload"} /\ actual[f] > 0
  /\ actual' = [actual EXCEPT ![f] = 0]
  /\ UNCHANGED <<sizes, manifestSize, pc, estimate, plan, upload, reader>>

\* What ReadAt brings of a record, with io.EOF when that is not all of it.
ReadAt(r) == Smaller(r.plaintext, IF actual[r.file] > r.start THEN actual[r.file] - r.start ELSE 0)

\* The buffer ReadAt fills was cut to the size of the record before.
BufferLength(r) == r.plaintext

\* io.EOF is an error unless the buffer has the length of the record.
ReadFails(r) == ReadAt(r) < r.plaintext /\ BufferLength(r) # r.plaintext

\* A part that is full is sent, then the record is read and encrypted for the
\* part being filled.
EncryptRecord ==
  LET r == records[next] IN
  /\ pc = "upload" /\ next <= Len(records) /\ ~ReadFails(r)
  /\ IF PartIsFull(r.length)
     THEN /\ parts' = Append(parts, [offset |-> partOffset, size |-> part])
          /\ partOffset' = NextOffset
          /\ part' = r.length
     ELSE part' = part + r.length /\ UNCHANGED <<parts, partOffset>>
  /\ stale' = IF ReadAt(r) < r.plaintext THEN stale \cup {next} ELSE stale
  /\ next' = next + 1
  /\ UNCHANGED <<input, pc, estimate, plan, reader>>

\* The encrypted manifest and the footer end the last part.
SendTrailer ==
  /\ pc = "upload" /\ next > Len(records)
  /\ parts' = Append(parts, [offset |-> partOffset,
                             size |-> part + EncryptedManifestLength + FooterLength])
  /\ pc' = "sent"
  /\ UNCHANGED <<input, estimate, plan, next, part, partOffset, stale, reader>>

-----------------------------------------------------------------------------
(* The server's checks of a part and of the whole layout.                  *)

validatePartPlacement(number, p) ==
  /\ number * s3MinimumPartSize < TotalSize + s3MinimumPartSize
  /\ p.offset >= (number - 1) * s3MinimumPartSize
  /\ p.offset + p.size <= TotalSize
  /\ p.offset + p.size < TotalSize => p.size >= s3MinimumPartSize

\* The checks of UploadPart that are about the layout.
AcceptsPart(number, p) ==
  /\ number <= maxMultipartPartNumber
  /\ p.size > 0 /\ p.size <= maxMultipartUploadPart /\ p.size <= maxFileSize
  /\ validatePartPlacement(number, p)

EndOf(p) == p.offset + p.size

validateUploadParts ==
  /\ Len(parts) > 0
  /\ \A n \in 1 .. Len(parts) :
       /\ parts[n].offset = IF n = 1 THEN 0 ELSE EndOf(parts[n - 1])
       /\ n < Len(parts) => parts[n].size >= s3MinimumPartSize
  /\ EndOf(parts[Len(parts)]) = TotalSize

-----------------------------------------------------------------------------
(* Reading back.                                                           *)

ManifestOffset == TotalSize - FooterLength - EncryptedManifestLength

\* Footer and manifest, found from the size the server declares.
ReadManifest ==
  /\ pc = "sent"
  /\ pc' = IF /\ EncryptedManifestLength > RecordOverhead
              /\ EncryptedManifestLength <= MaxManifestBytes + RecordOverhead
              /\ FooterLength + EncryptedManifestLength <= TotalSize
              /\ Len(sizes) > 0
           THEN "validate" ELSE "invalid"
  /\ UNCHANGED <<input, estimate, plan, upload, reader>>

EndOfRecord(r) == r.offset + r.length

HasChunk == at <= Len(records) /\ records[at].file = fileIndex

\* validate, its loops over the files and over the chunks of each.
CheckChunk ==
  LET c == records[at] IN
  /\ pc = "validate" /\ fileIndex <= Len(sizes) /\ HasChunk
  /\ IF /\ c.plaintext > 0 /\ c.plaintext <= ChunkSize
        /\ c.length = c.plaintext + RecordOverhead
        /\ EndOfRecord(c) <= ManifestOffset
     THEN /\ spans' = spans \cup {at}
          /\ fileSize' = fileSize + c.plaintext
          /\ at' = at + 1
          /\ UNCHANGED pc
     ELSE pc' = "invalid" /\ UNCHANGED <<spans, fileSize, at>>
  /\ UNCHANGED <<input, estimate, plan, upload, fileIndex, expected, ranges>>

CheckFile ==
  /\ pc = "validate" /\ fileIndex <= Len(sizes) /\ ~HasChunk
  /\ IF fileSize = sizes[fileIndex]
     THEN fileIndex' = fileIndex + 1 /\ fileSize' = 0 /\ UNCHANGED pc
     ELSE pc' = "invalid" /\ UNCHANGED <<fileIndex, fileSize>>
  /\ UNCHANGED <<input, estimate, plan, upload, at, spans, expected, ranges>>

\* validate, its loop over the spans by where they start.
CheckSpan ==
  /\ pc = "validate" /\ fileIndex > Len(sizes)
  /\ \E i \in spans :
       /\ \A j \in spans : records[i].offset <= records[j].offset
       /\ IF records[i].offset = expected
          THEN /\ expected' = EndOfRecord(records[i])
               /\ spans' = spans \ {i}
               /\ UNCHANGED pc
          ELSE pc' = "invalid" /\ UNCHANGED <<expected, spans>>
  /\ UNCHANGED <<input, estimate, plan, upload, at, fileIndex, fileSize, ranges>>

CheckTiling ==
  /\ pc = "validate" /\ fileIndex > Len(sizes) /\ spans = {}
  /\ pc' = IF expected = ManifestOffset THEN "read" ELSE "invalid"
  /\ at' = 1
  /\ UNCHANGED <<input, estimate, plan, upload, check, ranges>>

\* Mutant: a group of records may reach into the next file.
FitsAcrossFiles(i, j) ==
  /\ j \in i .. Len(records)
  /\ records[j].start + records[j].plaintext - records[i].start <= CoalesceBytes

\* Records i to j are of one file and within CoalesceBytes of plaintext; the
\* first one is read whatever its size.
Fits(i, j) ==
  /\ j \in i .. Len(records)
  /\ records[j].file = records[i].file
  /\ j = i \/ records[j].start + records[j].plaintext - records[i].start <= CoalesceBytes

\* One request of DecryptFile, for as many neighbouring records as fit.
DecryptGroup ==
  /\ pc = "read" /\ at <= Len(records)
  /\ LET last == CHOOSE j \in 1 .. Len(records) : Fits(at, j) /\ ~Fits(at, j + 1)
         end == EndOfRecord(records[last]) - 1
     IN /\ ranges' = Append(ranges, [first |-> at, last |-> last,
                                     start |-> records[at].offset, end |-> end])
        /\ at' = last + 1
  /\ UNCHANGED <<input, pc, estimate, plan, upload, check>>

ReadDone ==
  /\ pc = "read" /\ at > Len(records)
  /\ pc' = "done"
  /\ UNCHANGED <<input, estimate, plan, upload, reader>>

\* The server serves a range (parseBoundedRange).
ServesRange(s, e) == s <= e /\ e < TotalSize /\ e - s + 1 <= maxRangeBytes

\* The ranges the server is asked for: a small bundle is fetched whole, and the
\* records' ranges then come from memory (CachingFetcher).
Fetched ==
  IF TotalSize <= SmallBundleBytes THEN {<<0, TotalSize - 1>>}
  ELSE {<<TotalSize - FooterLength, TotalSize - 1>>,
        <<DataSize, DataSize + EncryptedManifestLength - 1>>}
       \cup {<<ranges[i].start, ranges[i].end>> : i \in 1 .. Len(ranges)}

Next ==
  \/ EstimateFile \/ CheckLimit
  \/ PlanChunk \/ PlanNextFile \/ PlanManifest
  \/ (\E f \in DOMAIN sizes : Truncate(f)) \/ EncryptRecord \/ SendTrailer
  \/ ReadManifest \/ CheckChunk \/ CheckFile \/ CheckSpan \/ CheckTiling
  \/ DecryptGroup \/ ReadDone

Spec == Init /\ [][Next]_vars

-----------------------------------------------------------------------------
(* Properties.                                                             *)

\* The server takes every part as it comes, in particular the last one, which
\* grows past the part size by the manifest and the footer, and takes them all
\* together for the declared blob at the end.
PartsAreAccepted ==
  /\ \A n \in 1 .. Len(parts) : AcceptsPart(n, parts[n])
  /\ pc = "sent" => validateUploadParts

\* A bundle that passes the client's estimate is within the server's limit,
\* and the estimate is an upper bound on its size, as its comment says.
EstimateIsEnough ==
  pc \in {"upload", "sent"} => TotalSize <= EstimateEncryptedSize /\ TotalSize <= maxFileSize

\* What was shared can be read: the manifest describes the bundle, the bytes of
\* a range of DecryptFile are exactly its records one after the other, as its
\* cursor takes them, each record is in one range and in order, and the server
\* serves every range asked for.
ReadsBack ==
  /\ pc # "invalid"
  /\ \A i \in 1 .. Len(ranges) :
       LET r == ranges[i] IN
       /\ r.first = IF i = 1 THEN 1 ELSE ranges[i - 1].last + 1
       /\ r.end + 1 = EndOfRecord(records[r.last])
       /\ \A j \in r.first .. r.last :
            /\ records[j].file = records[r.first].file
            /\ records[j].offset = IF j = r.first THEN r.start ELSE EndOfRecord(records[j - 1])
  /\ pc = "done" => IF ranges = <<>> THEN records = <<>> ELSE ranges[Len(ranges)].last = Len(records)
  /\ pc = "done" => \A r \in Fetched : ServesRange(r[1], r[2])

\* Every record holds the bytes of its own place in its file: what could not be
\* read in full is an error, as the check after ReadAt means to say.
RecordsHoldTheirBytes == stale = {}
=============================================================================
