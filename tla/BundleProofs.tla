---------------------------- MODULE BundleProofs ----------------------------
(***************************************************************************)
(* Theorems about Bundle, for any files, any sizes of records, parts and   *)
(* ranges the layout works with, and any limits.                           *)
(***************************************************************************)
EXTENDS Bundle, SequenceTheorems, WellFoundedInduction, TLAPS

Planned == pc \in {"upload", "sent", "validate", "read", "done"}

\* Where record i begins, and after the last one where the data ends.
Place(i) == IF i <= Len(records) THEN records[i].offset ELSE offset

\* How far the plan has come in its file.
Here == Smaller(start, sizes[file])

\* A record is a chunk of its file: a full one, or what is left of it.
RecordOK(r) ==
  /\ r.file \in 1 .. Len(sizes)
  /\ r.plaintext \in 1 .. ChunkSize /\ r.length = r.plaintext + RecordOverhead
  /\ r.start + r.plaintext <= sizes[r.file]

\* Record b is d records after a: in the bundle byte by byte, in the file chunk
\* by chunk, and in a later file only at the end of an earlier one.
Follows(a, b, d) ==
  /\ a.offset < b.offset /\ a.file <= b.file
  /\ a.file = b.file =>
       /\ b.start = a.start + d * ChunkSize
       /\ EndOfRecord(b) - a.offset = b.start + b.plaintext - a.start + (d + 1) * RecordOverhead
  /\ d = 1 => /\ b.offset = EndOfRecord(a)
              /\ a.file # b.file => a.start + a.plaintext = sizes[a.file] /\ b.start = 0

RecordsInv ==
  /\ \A i \in 1 .. Len(records) : RecordOK(records[i])
  /\ \A i, j \in 1 .. Len(records) : i < j => Follows(records[i], records[j], j - i)
  /\ records # <<>> => records[1].offset = 0 /\ records[1].start = 0
  /\ offset = IF records = <<>> THEN 0 ELSE EndOfRecord(records[Len(records)])

\* The plan is d records after the beginning of r.
Reaches(r, d) ==
  /\ r.file <= file
  /\ r.file = file => /\ start = r.start + d * ChunkSize
                      /\ offset - r.offset = Here - r.start + d * RecordOverhead

HasRecord(f) == \E i \in 1 .. Len(records) : records[i].file = f

\* Where the plan stands: the files before this one have their records, and
\* this one those before start.
PlanInv ==
  pc = "plan" =>
    /\ \A i \in 1 .. Len(records) : Reaches(records[i], Len(records) + 1 - i)
    /\ start > 0 => file <= Len(sizes) /\ records # <<>> /\ records[Len(records)].file = file
    /\ records # <<>> =>
         LET r == records[Len(records)] IN
         r.start + r.plaintext = IF r.file = file THEN Here ELSE sizes[r.file]
    /\ \A f \in 1 .. file - 1 : sizes[f] = 0 \/ HasRecord(f)

\* All files have their records.
PlannedInv ==
  Planned =>
    /\ records # <<>> =>
         LET r == records[Len(records)] IN r.start + r.plaintext = sizes[r.file]
    /\ \A f \in 1 .. Len(sizes) : sizes[f] = 0 \/ HasRecord(f)
    /\ manifestSize <= MaxManifestBytes
    /\ TotalSize <= EstimateEncryptedSize /\ EstimateEncryptedSize <= MaxEncryptedUploadBytes

\* Parts follow each other, none but the last is small, and the one being filled
\* has room for the trailer.
PartsInv ==
  /\ pc \in {"estimate", "plan"} => parts = <<>> /\ part = 0 /\ partOffset = 0 /\ next = 1
  /\ \A n \in 1 .. Len(parts) :
       /\ AcceptsPart(n, parts[n])
       /\ parts[n].offset = IF n = 1 THEN 0 ELSE EndOf(parts[n - 1])
       /\ n < Len(parts) \/ pc = "upload" => parts[n].size >= s3MinimumPartSize
  /\ pc = "upload" =>
       /\ next \in 1 .. Len(records) + 1
       /\ partOffset + part = Place(next)
       /\ part <= multipartUploadPartSize
       /\ partOffset = IF parts = <<>> THEN 0 ELSE EndOf(parts[Len(parts)])
       /\ partOffset >= Len(parts) * s3MinimumPartSize
  /\ pc \in {"sent", "validate", "read", "done"} => parts # <<>> /\ EndOf(parts[Len(parts)]) = TotalSize

\* validate has taken the records before at, in the order of the files; then it
\* takes their places from the front.
CheckInv ==
  /\ pc # "invalid"
  /\ pc \in {"estimate", "plan", "upload", "sent"} =>
       at = 1 /\ fileIndex = 1 /\ fileSize = 0 /\ spans = {} /\ expected = 0
  /\ pc = "validate" =>
       /\ at \in 1 .. Len(records) + 1 /\ fileIndex >= 1
       /\ \A i \in 1 .. Len(records) : IF i < at THEN records[i].file <= fileIndex
                                                ELSE records[i].file >= fileIndex
       /\ fileSize = IF at > 1 /\ records[at - 1].file = fileIndex
                     THEN records[at - 1].start + records[at - 1].plaintext ELSE 0
       /\ fileIndex <= Len(sizes) => spans = 1 .. at - 1 /\ expected = 0
       /\ fileIndex > Len(sizes) =>
            \E m \in 1 .. Len(records) + 1 : spans = m .. Len(records) /\ expected = Place(m)

\* What is known of a range.
RangeOK(r) ==
  /\ r.first \in 1 .. Len(records) /\ r.last \in r.first .. Len(records)
  /\ r.start = records[r.first].offset /\ r.end + 1 = EndOfRecord(records[r.last])
  /\ records[r.last].file = records[r.first].file
  /\ ServesRange(r.start, r.end)

\* The ranges read so far.
RangesInv ==
  /\ pc \notin {"read", "done"} => ranges = <<>>
  /\ pc \in {"read", "done"} =>
       /\ at = IF ranges = <<>> THEN 1 ELSE ranges[Len(ranges)].last + 1
       /\ at \in 1 .. Len(records) + 1
  /\ pc = "done" => at = Len(records) + 1
  /\ \A i \in 1 .. Len(ranges) :
       RangeOK(ranges[i]) /\ ranges[i].first = IF i = 1 THEN 1 ELSE ranges[i - 1].last + 1

\* T and C are what the files before each one add up to, up to file k: the bytes
\* and the chunks.
Running(T, C, k) ==
  /\ T[1] = 0 /\ C[1] = 0
  /\ \A i \in 1 .. k - 1 : /\ T[i + 1] = T[i] + sizes[i]
                           /\ C[i + 1] = C[i] + ChunksOf(sizes[i])

\* The estimate adds up the files, and the plan, going over them again, stays
\* within what was added up: k records of this file are planned.
Within(T, C, k) ==
  /\ start = k * ChunkSize
  /\ k > 0 => (k - 1) * ChunkSize < sizes[file]
  /\ offset <= T[file] + (IF k > 0 THEN Here ELSE 0) + (C[file] + k) * RecordOverhead

\* The estimate has added up the files before file k.
Summed(k) == \E T, C \in [Nat -> Nat] : Running(T, C, k) /\ plaintext = T[k] /\ chunks = C[k]

\* It has, and the plan is within it.
SummedWithin(k) ==
  \E T, C \in [Nat -> Nat] :
    /\ Running(T, C, k) /\ plaintext = T[k] /\ chunks = C[k]
    /\ \E c \in Nat : Within(T, C, c)

EstimateInv ==
  /\ pc = "estimate" =>
       /\ offset = 0 /\ start = 0 /\ records = <<>> /\ file \in 1 .. Len(sizes) + 1
       /\ Summed(file)
  /\ pc = "plan" =>
       /\ EstimateEncryptedSize <= MaxEncryptedUploadBytes /\ file \in 1 .. Len(sizes) + 1
       /\ SummedWithin(Len(sizes) + 1)

BundleInv ==
  /\ TypeOK /\ EstimateInv /\ RecordsInv /\ PlanInv /\ PlannedInv
  /\ PartsInv /\ CheckInv /\ RangesInv

-----------------------------------------------------------------------------
(* The operators the steps are made of.                                     *)

\* The files are a sequence of sizes.
LEMMA SizesFacts ==
  ASSUME TypeOK
  PROVE  /\ Len(sizes) \in Nat \ {0} /\ DOMAIN sizes = 1 .. Len(sizes)
         /\ \A f \in 1 .. Len(sizes) : sizes[f] \in Nat
<1>1. PICK n \in 1 .. MaxFiles : sizes \in [1 .. n -> Sizes]
  BY DEF TypeOK, Files
<1>2. n \in Nat \ {0}
  BY BundleAssumption
<1>3. sizes \in Seq(Sizes) /\ Len(sizes) = n
  BY <1>1, <1>2, SeqDef, LenProperties
<1> QED
  BY <1>1, <1>2, <1>3, BundleAssumption

\* The constants are numbers.
LEMMA Numbers ==
  /\ ChunkSize \in Nat /\ ChunkSize > 0 /\ RecordOverhead \in Nat /\ RecordOverhead > 0
  /\ FooterLength \in Nat /\ FooterLength > 0 /\ MinPartBytes \in Nat /\ MinPartBytes > 0
  /\ s3MinimumPartSize \in Nat /\ s3MinimumPartSize > 0
  /\ multipartUploadPartSize \in Nat /\ multipartUploadPartSize > 0
  /\ MaxManifestBytes \in Nat /\ CoalesceBytes \in Nat /\ SmallBundleBytes \in Nat
  /\ MaxEncryptedUploadBytes \in Nat /\ maxMultipartUploadPart \in Nat
  /\ maxMultipartPartNumber \in Nat /\ maxFileSize \in Nat /\ maxRangeBytes \in Nat
BY BundleAssumption

\* A plan's records are records.
LEMMA RecordFacts ==
  ASSUME TypeOK
  PROVE  /\ Len(records) \in Nat
         /\ records # <<>> <=> Len(records) > 0
         /\ \A i \in 1 .. Len(records) :
              /\ records[i].file \in Nat /\ records[i].start \in Nat
              /\ records[i].plaintext \in Nat /\ records[i].offset \in Nat
              /\ records[i].length \in Nat
<1>1. records \in Seq(Record)
  BY DEF TypeOK
<1>2. \A i \in 1 .. Len(records) : records[i] \in Record
  BY <1>1
<1> QED
  BY <1>1, <1>2, EmptySeq DEF Record

\* A part of products.
LEMMA Products ==
  /\ \A a, b, c \in Nat : (a + b) * c = a * c + b * c
  /\ \A a, b, c \in Nat : a <= b => a * c <= b * c
  /\ \A a, b \in Nat : \A c \in Nat \ {0} : a * c < b * c => a < b
OBVIOUS

\* A file has at least as many chunks as were begun in it.
LEMMA EnoughChunks ==
  ASSUME NEW k \in Nat, NEW s \in Nat, NEW d \in Nat \ {0}, k > 0 => (k - 1) * d < s
  PROVE  (s + d - 1) \div d \in Nat /\ k <= (s + d - 1) \div d
<1>1. k * d <= s + d - 1
  <2>1. CASE k = 0
    BY <2>1
  <2>2. CASE k > 0
    <3>1. k * d = (k - 1) * d + d
      BY <2>2
    <3> QED
      BY <2>2, <3>1
  <2> QED
    BY <2>1, <2>2
<1>2. s + d - 1 \in Nat
  OBVIOUS
<1> QED
  BY <1>1, <1>2

\* The next chunk of a file is a record's worth of it, and ends where the next
\* one begins or at the end of the file.
LEMMA ChunkFacts ==
  ASSUME TypeOK, file \in 1 .. Len(sizes), start < sizes[file]
  PROVE  /\ ChunkAt \in 1 .. ChunkSize
         /\ start + ChunkAt = Smaller(start + ChunkSize, sizes[file])
         /\ start + ChunkAt <= sizes[file]
<1>1. sizes[file] \in Nat /\ start \in Nat
  BY SizesFacts DEF TypeOK
<1> QED
  BY <1>1, Numbers DEF ChunkAt, Smaller

\* A set of numbers has a smallest.
LEMMA Smallest ==
  ASSUME NEW S, S \subseteq Nat, S # {}
  PROVE  \E x \in S : \A y \in S : x <= y
<1> DEFINE R == OpToRel(<, Nat)
<1>1. IsWellFoundedOn(R, Nat)
  BY NatLessThanWellFounded
<1>2. \A y, x \in Nat : y < x => <<y, x>> \in R
  BY DEF OpToRel
<1> HIDE DEF R
<1>3. PICK x \in S : \A y \in S : ~(<<y, x>> \in R)
  BY <1>1, WFMin
<1>4. \A y \in S : ~(y < x) /\ y \in Nat /\ x \in Nat
  BY <1>2, <1>3
<1> QED
  BY <1>4

GroupEnd == CHOOSE j \in 1 .. Len(records) : Fits(at, j) /\ ~Fits(at, j + 1)

\* DecryptFile's group ends at a record that fits.
LEMMA GroupFacts ==
  ASSUME TypeOK, at \in 1 .. Len(records)
  PROVE  GroupEnd \in at .. Len(records) /\ Fits(at, GroupEnd)
<1> DEFINE S == {j \in Nat : j >= at /\ ~Fits(at, j + 1)}
<1>0. Len(records) \in Nat
  BY RecordFacts
<1>1. Len(records) \in S
  BY <1>0 DEF Fits
<1>2. PICK j \in S : \A i \in S : j <= i
  BY <1>1, Smallest
<1>3. j \in at .. Len(records)
  BY <1>0, <1>1, <1>2
<1>4. Fits(at, j)
  <2>1. CASE j = at
    BY <1>0, <2>1 DEF Fits
  <2>2. CASE j > at
    <3>1. j - 1 \in Nat /\ j - 1 >= at /\ (j - 1) + 1 = j /\ ~(j <= j - 1)
      BY <1>0, <1>3, <2>2
    <3> QED
      BY <1>2, <3>1
  <2> QED
    BY <1>0, <1>3, <2>1, <2>2
<1>5. j \in 1 .. Len(records) /\ ~Fits(at, j + 1)
  BY <1>0, <1>2, <1>3
<1>6. GroupEnd \in 1 .. Len(records) /\ Fits(at, GroupEnd)
  BY <1>4, <1>5 DEF GroupEnd
<1> QED
  BY <1>0, <1>6 DEF Fits

-----------------------------------------------------------------------------
(* The steps by what they are about.  A file that is cut short changes no  *)
(* plan.                                                                   *)

PlanStep == EstimateFile \/ CheckLimit \/ PlanChunk \/ PlanNextFile \/ PlanManifest
UploadStep == EncryptRecord \/ SendTrailer
CheckStep == ReadManifest \/ CheckChunk \/ CheckFile \/ CheckSpan \/ CheckTiling
ReadStep == DecryptGroup \/ ReadDone
Idle ==
  /\ actual' \in [DOMAIN sizes -> Nat]
  /\ UNCHANGED <<sizes, manifestSize, pc, estimate, plan, upload, reader>>

\* Every step is one of them.
LEMMA StepCases ==
  ASSUME TypeOK, [Next]_vars
  PROVE  PlanStep \/ UploadStep \/ CheckStep \/ ReadStep \/ Idle
<1>1. CASE UNCHANGED vars
  BY <1>1 DEF vars, input, TypeOK, Idle
<1>2. ASSUME NEW f \in DOMAIN sizes, Truncate(f) PROVE Idle
  BY <1>2 DEF Truncate, TypeOK, Idle
<1> QED
  BY <1>1, <1>2 DEF Next, PlanStep, UploadStep, CheckStep, ReadStep

\* What the later steps leave alone.
LEMMA AfterPlan ==
  ASSUME UploadStep \/ CheckStep \/ ReadStep
  PROVE  /\ pc \in {"upload", "sent", "validate", "read"}
         /\ pc' \in {"upload", "sent", "validate", "read", "done", "invalid"}
         /\ UNCHANGED <<input, estimate, plan>>
<1>1. CASE UploadStep
  BY <1>1 DEF UploadStep, EncryptRecord, SendTrailer
<1>2. CASE CheckStep
  BY <1>2 DEF CheckStep, ReadManifest, CheckChunk, CheckFile, CheckSpan, CheckTiling
<1>3. CASE ReadStep
  BY <1>3 DEF ReadStep, DecryptGroup, ReadDone
<1> QED
  BY <1>1, <1>2, <1>3

\* The types hold initially.
LEMMA TypeInit ==
  ASSUME Init
  PROVE  TypeOK
<1>1. PICK n \in 1 .. MaxFiles : sizes \in [1 .. n -> Sizes]
  BY DEF Init, Files
<1>2. actual \in [DOMAIN sizes -> Nat]
  BY <1>1, BundleAssumption DEF Init
<1> QED
  BY <1>2 DEF Init, TypeOK

\* The plan keeps the types.
LEMMA TypePlan ==
  ASSUME TypeOK, EstimateInv, PlanStep
  PROVE  TypeOK'
<1> USE Numbers
<1>1. CASE EstimateFile
  <2>1. sizes[file] \in Nat
    <3>1. file \in 1 .. Len(sizes) + 1 /\ file <= Len(sizes)
      BY <1>1 DEF EstimateInv, EstimateFile
    <3> QED
      BY <3>1, SizesFacts
  <2>2. ChunksOf(sizes[file]) \in Nat
    BY <2>1, EnoughChunks DEF ChunksOf
  <2> QED
    <3>1. chunks' \in Nat /\ plaintext' \in Nat /\ file' \in Nat
      BY <1>1, <2>1, <2>2 DEF EstimateFile, TypeOK
    <3> QED
      BY <1>1, <3>1 DEF EstimateFile, TypeOK, input, upload, check, reader
<1>2. CASE CheckLimit
  BY <1>2 DEF CheckLimit, TypeOK, input, estimate, upload, check, reader
<1>3. CASE PlanChunk
  <2>1. ChunkAt \in Nat
    BY <1>3, ChunkFacts, SizesFacts DEF EstimateInv, PlanChunk
  <2> DEFINE r == [file |-> file, start |-> start, plaintext |-> ChunkAt,
                   offset |-> offset, length |-> ChunkAt + RecordOverhead]
  <2>2. r \in Record
    BY <2>1 DEF TypeOK, Record
  <2>3. records \in Seq(Record) /\ records' = Append(records, r)
    BY <1>3 DEF TypeOK, PlanChunk
  <2> HIDE DEF r
  <2>4. records' \in Seq(Record) /\ Len(records') = Len(records) + 1
    BY <2>2, <2>3
  <2>5. stale' \subseteq 1 .. Len(records') /\ spans' \subseteq 1 .. Len(records')
    BY <1>3, <2>4, RecordFacts DEF TypeOK, PlanChunk, upload, reader, check
  <2>6. start' \in Nat /\ offset' \in Nat
    BY <1>3, <2>1 DEF TypeOK, PlanChunk
  <2> QED
    BY <1>3, <2>4, <2>5, <2>6 DEF PlanChunk, TypeOK, input, estimate, upload, check, reader
<1>4. CASE PlanNextFile
  BY <1>4 DEF PlanNextFile, TypeOK, input, estimate, upload, check, reader
<1>5. CASE PlanManifest
  BY <1>5 DEF PlanManifest, TypeOK, input, estimate, plan, upload, check, reader
<1> QED
  BY <1>1, <1>2, <1>3, <1>4, <1>5 DEF PlanStep

\* The upload keeps the types.
LEMMA TypeUpload ==
  ASSUME TypeOK, PartsInv, UploadStep
  PROVE  TypeOK'
<1> USE Numbers
<1>1. CASE EncryptRecord
  <2>1. next \in 1 .. Len(records) /\ records[next].length \in Nat
    BY <1>1, RecordFacts DEF EncryptRecord, PartsInv
  <2>2. parts' \in Seq([offset : Nat, size : Nat]) /\ part' \in Nat /\ partOffset' \in Nat
    <3>1. [offset |-> partOffset, size |-> part] \in [offset : Nat, size : Nat]
      BY DEF TypeOK
    <3> QED
      <4>1. CASE PartIsFull(records[next].length)
        <5>1. /\ parts' = Append(parts, [offset |-> partOffset, size |-> part])
              /\ partOffset' = partOffset + part /\ part' = records[next].length
          BY <1>1, <4>1 DEF EncryptRecord, NextOffset
        <5> QED
          BY <2>1, <3>1, <5>1 DEF TypeOK
      <4>2. CASE ~PartIsFull(records[next].length)
        BY <1>1, <2>1, <4>2 DEF EncryptRecord, TypeOK
      <4> QED
        BY <4>1, <4>2
  <2>3. stale' \subseteq 1 .. Len(records)
    BY <1>1, <2>1 DEF EncryptRecord, TypeOK
  <2> QED
    BY <1>1, <2>2, <2>3 DEF EncryptRecord, TypeOK, input, estimate, plan, check, reader
<1>2. CASE SendTrailer
  <2>1. manifestSize \in Nat
    BY BundleAssumption DEF TypeOK
  <2>2. parts' \in Seq([offset : Nat, size : Nat])
    BY <1>2, <2>1 DEF SendTrailer, TypeOK, EncryptedManifestLength
  <2> QED
    BY <1>2, <2>2 DEF SendTrailer, TypeOK, input, estimate, plan, check, reader
<1> QED
  BY <1>1, <1>2 DEF UploadStep

\* Checking the manifest keeps the types.
LEMMA TypeCheck ==
  ASSUME TypeOK, CheckInv, CheckStep
  PROVE  TypeOK'
<1>1. CASE ReadManifest
  BY <1>1 DEF ReadManifest, TypeOK, input, estimate, plan, upload, check, reader
<1>2. CASE CheckChunk
  <2>1. at \in 1 .. Len(records) /\ records[at].plaintext \in Nat
    BY <1>2, RecordFacts DEF CheckChunk, HasChunk, CheckInv
  <2> QED
    <3>1. spans' \subseteq 1 .. Len(records) /\ fileSize' \in Nat /\ at' \in Nat
      <4>1. spans \cup {at} \subseteq 1 .. Len(records) /\ fileSize + records[at].plaintext \in Nat
            /\ at + 1 \in Nat
        <5>1. spans \subseteq 1 .. Len(records) /\ fileSize \in Nat /\ at \in Nat
          BY DEF TypeOK
        <5>2. spans \cup {at} \subseteq 1 .. Len(records)
          BY <2>1, <5>1, Zenon
        <5> QED
          BY <2>1, <5>1, <5>2
      <4>2. \/ spans' = spans \cup {at} /\ fileSize' = fileSize + records[at].plaintext /\ at' = at + 1
            \/ UNCHANGED <<spans, fileSize, at>>
        BY <1>2 DEF CheckChunk
      <4> QED
        BY <4>1, <4>2 DEF TypeOK
    <3> QED
      BY <1>2, <3>1 DEF CheckChunk, TypeOK, input, estimate, plan, upload
<1>3. CASE CheckFile
  BY <1>3 DEF CheckFile, TypeOK, input, estimate, plan, upload
<1>4. CASE CheckSpan
  <2>1. \A i \in spans : EndOfRecord(records[i]) \in Nat
    <3>1. spans \subseteq 1 .. Len(records)
      BY DEF TypeOK
    <3> QED
      BY <3>1, RecordFacts DEF EndOfRecord
  <2> QED
    BY <1>4, <2>1 DEF CheckSpan, TypeOK, input, estimate, plan, upload
<1>5. CASE CheckTiling
  BY <1>5 DEF CheckTiling, TypeOK, input, estimate, plan, upload, check
<1> QED
  BY <1>1, <1>2, <1>3, <1>4, <1>5 DEF CheckStep

\* Reading keeps the types.
LEMMA TypeRead ==
  ASSUME TypeOK, RecordsInv, RangesInv, ReadStep
  PROVE  TypeOK'
<1>1. CASE DecryptGroup
  <2>1. at \in 1 .. Len(records)
    BY <1>1, RecordFacts DEF DecryptGroup, RangesInv
  <2>2. GroupEnd \in at .. Len(records)
    BY <2>1, GroupFacts
  <2>3. GroupEnd \in 1 .. Len(records) /\ GroupEnd \in Nat
    BY <2>1, <2>2, RecordFacts
  <2>4. EndOfRecord(records[GroupEnd]) - 1 \in Nat
    BY <2>3, RecordFacts, Numbers DEF RecordsInv, RecordOK, EndOfRecord
  <2> DEFINE r == [first |-> at, last |-> GroupEnd, start |-> records[at].offset,
                   end |-> EndOfRecord(records[GroupEnd]) - 1]
  <2>5. ranges' = Append(ranges, r) /\ at' = GroupEnd + 1
    BY <1>1 DEF DecryptGroup, GroupEnd
  <2>6. r \in [first : Nat, last : Nat, start : Nat, end : Nat]
    BY <2>1, <2>3, <2>4, RecordFacts
  <2> HIDE DEF r
  <2>7. ranges' \in Seq([first : Nat, last : Nat, start : Nat, end : Nat]) /\ at' \in Nat
    BY <2>3, <2>5, <2>6 DEF TypeOK
  <2> QED
    BY <1>1, <2>7 DEF DecryptGroup, TypeOK, input, estimate, plan, upload, check
<1>2. CASE ReadDone
  BY <1>2 DEF ReadDone, TypeOK, input, estimate, plan, upload, check, reader
<1> QED
  BY <1>1, <1>2 DEF ReadStep

\* Every step keeps the types.
LEMMA TypeNext ==
  ASSUME BundleInv, [Next]_vars
  PROVE  TypeOK'
<1>1. ASSUME Idle PROVE TypeOK'
  BY <1>1 DEF BundleInv, Idle, TypeOK, estimate, plan, upload, check, reader
<1> QED
  BY <1>1, StepCases, TypePlan, TypeUpload, TypeCheck, TypeRead DEF BundleInv

-----------------------------------------------------------------------------
(* The estimate and the plan.                                              *)

\* Nothing is added up at first.
LEMMA EstimateInit ==
  ASSUME Init
  PROVE  EstimateInv
<1> DEFINE Z == [i \in Nat |-> 0]
<1>1. Z \in [Nat -> Nat] /\ Z[1] = 0
  OBVIOUS
<1> HIDE DEF Z
<1>2. Running(Z, Z, file) /\ plaintext = Z[file] /\ chunks = Z[file]
  BY <1>1 DEF Running, Init
<1>3. Len(sizes) \in Nat
  BY TypeInit, SizesFacts
<1>4. offset = 0 /\ start = 0 /\ records = <<>> /\ file \in 1 .. Len(sizes) + 1 /\ pc = "estimate"
  BY <1>3 DEF Init
<1>5. Summed(file)
  BY <1>1, <1>2, Zenon DEF Summed
<1> QED
  BY <1>4, <1>5 DEF EstimateInv

\* Adding up one more file.
LEMMA EstimateFileKeeps ==
  ASSUME TypeOK, EstimateInv, EstimateFile
  PROVE  EstimateInv'
<1>1. /\ pc = "estimate" /\ pc' = "estimate" /\ sizes' = sizes /\ file' = file + 1
      /\ offset' = 0 /\ start' = 0 /\ records' = <<>>
  BY DEF EstimateFile, EstimateInv, input
<1>2. PICK k \in Nat : k = file
  BY DEF TypeOK
<1>3. k >= 1 /\ sizes[k] \in Nat /\ k + 1 \in Nat /\ k + 1 # 1 /\ k + 1 # k /\ (k + 1) - 1 = k
  <2>1. file \in 1 .. Len(sizes) + 1 /\ file <= Len(sizes)
    BY DEF EstimateInv, EstimateFile
  <2> QED
    BY <1>2, <2>1, SizesFacts
<1>4. ChunksOf(sizes[k]) \in Nat
  BY <1>3, Numbers, EnoughChunks DEF ChunksOf
<1>5. PICK T, C \in [Nat -> Nat] : Running(T, C, k) /\ plaintext = T[k] /\ chunks = C[k]
  BY <1>1, <1>2 DEF EstimateInv, Summed
<1>6. PICK T2, C2 \in [Nat -> Nat] :
        /\ T2[k + 1] = T[k] + sizes[k] /\ C2[k + 1] = C[k] + ChunksOf(sizes[k])
        /\ \A i \in Nat : i # k + 1 => T2[i] = T[i] /\ C2[i] = C[i]
  <2> DEFINE X == [T EXCEPT ![k + 1] = T[k] + sizes[k]]
             Y == [C EXCEPT ![k + 1] = C[k] + ChunksOf(sizes[k])]
  <2>1. X \in [Nat -> Nat] /\ Y \in [Nat -> Nat]
    BY <1>3, <1>4
  <2>2. /\ X[k + 1] = T[k] + sizes[k] /\ Y[k + 1] = C[k] + ChunksOf(sizes[k])
        /\ \A i \in Nat : i # k + 1 => X[i] = T[i] /\ Y[i] = C[i]
    BY <1>3
  <2> HIDE DEF X, Y
  <2> QED
    BY <2>1, <2>2
<1>7. T2[1] = 0 /\ C2[1] = 0 /\ T2[k] = T[k] /\ C2[k] = C[k]
  BY <1>3, <1>5, <1>6 DEF Running
<1>8. ASSUME NEW i \in 1 .. k
      PROVE  T2[i + 1] = T2[i] + sizes[i] /\ C2[i + 1] = C2[i] + ChunksOf(sizes[i])
  <2>1. CASE i = k
    BY <1>6, <1>7, <2>1
  <2>2. CASE i # k
    <3>1. i \in 1 .. k - 1 /\ i \in Nat /\ i + 1 \in Nat /\ i + 1 # k + 1 /\ i # k + 1
      BY <1>3, <2>2
    <3> QED
      BY <1>5, <1>6, <3>1 DEF Running
  <2> QED
    BY <2>1, <2>2
<1>9. Running(T2, C2, k + 1)
  BY <1>3, <1>7, <1>8, Zenon DEF Running
<1>10. Running(T2, C2, k + 1)'
  BY <1>1, <1>9 DEF Running, ChunksOf
<1>11. plaintext' = T2[k + 1] /\ chunks' = C2[k + 1]
  BY <1>2, <1>5, <1>6 DEF EstimateFile
<1>12. Summed(k + 1)'
  BY <1>10, <1>11, Zenon DEF Summed
<1>13. file' \in 1 .. Len(sizes') + 1
  <2>1. file \in 1 .. Len(sizes) + 1 /\ file <= Len(sizes)
    BY DEF EstimateInv, EstimateFile
  <2> QED
    BY <1>1, <2>1, SizesFacts
<1>14. Summed(file)'
  BY <1>1, <1>2, <1>12 DEF Summed
<1> QED
  BY <1>1, <1>13, <1>14 DEF EstimateInv

\* Everything is added up when the plan begins.
LEMMA CheckLimitKeeps ==
  ASSUME TypeOK, EstimateInv, CheckLimit
  PROVE  EstimateInv'
<1>1. /\ pc = "estimate" /\ sizes' = sizes /\ file' = 1 /\ offset' = 0 /\ start' = 0
      /\ plaintext' = plaintext /\ chunks' = chunks
  BY DEF CheckLimit, EstimateInv, input, estimate
<1>2. Len(sizes) \in Nat
  BY SizesFacts
<1>3. file = Len(sizes) + 1
  <2>1. file \in 1 .. Len(sizes) + 1 /\ file > Len(sizes)
    BY <1>1 DEF CheckLimit, EstimateInv
  <2> QED
    BY <1>2, <2>1
<1>4. PICK k \in Nat : k = file
  BY DEF TypeOK
<1>5. PICK T, C \in [Nat -> Nat] : Running(T, C, k) /\ plaintext = T[k] /\ chunks = C[k]
  BY <1>1, <1>4 DEF EstimateInv, Summed
<1>6. CASE pc' = "plan"
  <2>1. EstimateEncryptedSize' <= MaxEncryptedUploadBytes
    <3>1. ~(EstimateEncryptedSize > MaxEncryptedUploadBytes)
      BY <1>6 DEF CheckLimit
    <3> QED
      BY <1>1, <3>1, Numbers DEF EstimateEncryptedSize, TypeOK
  <2>2. Running(T, C, k)' /\ plaintext' = T[k] /\ chunks' = C[k]
    BY <1>1, <1>5 DEF Running, ChunksOf
  <2>3. Within(T, C, 0)'
    BY <1>1, <1>5, Numbers DEF Within, Running
  <2>4. file' \in 1 .. Len(sizes') + 1
    BY <1>1, <1>2
  <2>5. SummedWithin(k)'
    BY <2>2, <2>3, Zenon DEF SummedWithin
  <2>6. SummedWithin(Len(sizes) + 1)'
    BY <1>1, <1>3, <1>4, <2>5 DEF SummedWithin
  <2> QED
    BY <1>6, <2>1, <2>4, <2>6 DEF EstimateInv
<1>7. CASE pc' = "refused"
  BY <1>7 DEF EstimateInv
<1> QED
  BY <1>6, <1>7 DEF CheckLimit

\* One more chunk of a file, in numbers.
LEMMA OneMoreChunk ==
  ASSUME NEW o \in Nat, NEW t \in Nat, NEW s \in Nat, NEW n \in Nat, NEW x \in Nat, NEW v \in Nat,
         o <= t + s + n * v
  PROVE  o + x + v <= t + (s + x) + (n + 1) * v
<1>1. (n + 1) * v = n * v + v /\ n * v \in Nat
  OBVIOUS
<1> QED
  BY <1>1

\* One more chunk is within the estimate.
LEMMA PlanChunkWithin ==
  ASSUME TypeOK, PlanChunk, sizes[file] \in Nat, ChunkAt \in Nat,
         start + ChunkAt = Smaller(start + ChunkSize, sizes[file]),
         NEW T \in [Nat -> Nat], NEW C \in [Nat -> Nat], NEW c \in Nat, Within(T, C, c)
  PROVE  Within(T, C, c + 1)'
<1>1. /\ file' = file /\ start' = start + ChunkSize /\ offset' = offset + ChunkAt + RecordOverhead
      /\ sizes' = sizes /\ start < sizes[file]
  BY DEF PlanChunk, input
<1>2. start \in Nat /\ offset \in Nat /\ file \in Nat /\ start = c * ChunkSize
  BY DEF TypeOK, Within
<1>3. PICK t \in Nat, n \in Nat : t = T[file] /\ n = C[file]
  BY <1>2
<1>4. start' = (c + 1) * ChunkSize /\ (c + 1 - 1) * ChunkSize < sizes[file]
  BY <1>1, <1>2, Numbers
<1>5. offset <= t + start + (n + c) * RecordOverhead
  <2>1. CASE c = 0
    BY <1>2, <1>3, <2>1, Numbers DEF Within
  <2>2. CASE c > 0
    BY <1>1, <1>2, <1>3, <2>2, Numbers DEF Within, Here, Smaller
  <2> QED
    BY <2>1, <2>2
<1>6. offset + ChunkAt + RecordOverhead <= t + (start + ChunkAt) + ((n + c) + 1) * RecordOverhead
  BY <1>2, <1>5, OneMoreChunk, Numbers
<1>7. (n + c) + 1 = n + (c + 1) /\ c + 1 > 0
  OBVIOUS
<1>8. Here' = start + ChunkAt
  BY <1>1 DEF Here
<1> QED
  BY <1>1, <1>3, <1>4, <1>6, <1>7, <1>8 DEF Within

\* A file that is planned, in numbers.
LEMMA OneMoreFile ==
  ASSUME NEW o \in Nat, NEW t \in Nat, NEW h \in Nat, NEW s \in Nat, NEW n \in Nat,
         NEW c \in Nat, NEW m \in Nat, NEW v \in Nat,
         o <= t + h + (n + c) * v, h <= s, c <= m
  PROVE  o <= (t + s) + (n + m) * v
<1>1. (n + c) * v <= (n + m) * v /\ (n + c) * v \in Nat /\ (n + m) * v \in Nat
  <2>1. n + c \in Nat /\ n + m \in Nat /\ n + c <= n + m
    OBVIOUS
  <2> QED
    BY <2>1, Products
<1> QED
  BY <1>1

\* What was planned for a file is within what was estimated for it.
LEMMA PlanNextFileWithin ==
  ASSUME TypeOK, PlanNextFile, sizes[file] \in Nat,
         NEW T \in [Nat -> Nat], NEW C \in [Nat -> Nat], NEW c \in Nat, Within(T, C, c),
         T[file + 1] = T[file] + sizes[file], C[file + 1] = C[file] + ChunksOf(sizes[file])
  PROVE  Within(T, C, 0)'
<1>1. file' = file + 1 /\ start' = 0 /\ offset' = offset /\ sizes' = sizes
  BY DEF PlanNextFile, input
<1>2. start \in Nat /\ offset \in Nat /\ file \in Nat
  BY DEF TypeOK
<1>3. PICK t \in Nat, n \in Nat : t = T[file] /\ n = C[file]
  BY <1>2
<1>4. PICK m \in Nat : m = ChunksOf(sizes[file]) /\ c <= m
  BY Numbers, EnoughChunks DEF ChunksOf, Within
<1>5. PICK h \in Nat : h <= sizes[file] /\ offset <= t + h + (n + c) * RecordOverhead
  <2>1. Here \in Nat /\ Here <= sizes[file]
    BY <1>2 DEF Here, Smaller
  <2>2. CASE c > 0
    BY <1>3, <2>1, <2>2 DEF Within
  <2>3. CASE c = 0
    BY <1>3, <2>3 DEF Within
  <2> QED
    BY <2>2, <2>3
<1>6. offset <= (t + sizes[file]) + (n + m) * RecordOverhead
  BY <1>2, <1>4, <1>5, OneMoreFile, Numbers
<1>7. offset <= T[file + 1] + C[file + 1] * RecordOverhead
  BY <1>3, <1>4, <1>6
<1>8. 0 * ChunkSize = 0
  BY Numbers
<1>9. T[file + 1] + 0 = T[file + 1] /\ C[file + 1] + 0 = C[file + 1]
  BY <1>2
<1> QED
  BY <1>1, <1>7, <1>8, <1>9 DEF Within

\* The plan stays within the estimate.
LEMMA PlanKeepsWithin ==
  ASSUME TypeOK, EstimateInv, PlanChunk \/ PlanNextFile
  PROVE  EstimateInv'
<1>1. /\ pc = "plan" /\ pc' = "plan" /\ sizes' = sizes
      /\ EstimateEncryptedSize' = EstimateEncryptedSize /\ plaintext' = plaintext /\ chunks' = chunks
  BY DEF PlanChunk, PlanNextFile, input, estimate, EstimateEncryptedSize
<1>2. PICK k \in Nat : k = Len(sizes) + 1
  BY SizesFacts
<1>3. file \in 1 .. Len(sizes) /\ sizes[file] \in Nat
  <2>1. file \in 1 .. Len(sizes) + 1 /\ file <= Len(sizes)
    BY <1>1 DEF EstimateInv, PlanChunk, PlanNextFile
  <2> QED
    BY <2>1, SizesFacts
<1>4. file \in 1 .. k - 1 /\ file \in Nat
  BY <1>2, <1>3, SizesFacts
<1>5. PICK T, C \in [Nat -> Nat] :
        /\ Running(T, C, k) /\ plaintext = T[k] /\ chunks = C[k]
        /\ \E c \in Nat : Within(T, C, c)
  BY <1>1, <1>2 DEF EstimateInv, SummedWithin
<1>6. PICK c \in Nat : Within(T, C, c)
  BY <1>5
<1>7. \E d \in Nat : Within(T, C, d)'
  <2>1. CASE PlanChunk
    <3>1. ChunkAt \in Nat /\ start + ChunkAt = Smaller(start + ChunkSize, sizes[file])
      BY <1>3, <2>1, ChunkFacts, Numbers DEF PlanChunk
    <3>2. Within(T, C, c + 1)'
      BY <1>3, <1>6, <2>1, <3>1, PlanChunkWithin
    <3>3. c + 1 \in Nat
      OBVIOUS
    <3> QED
      BY <3>2, <3>3
  <2>2. CASE PlanNextFile
    <3>1. T[file + 1] = T[file] + sizes[file] /\ C[file + 1] = C[file] + ChunksOf(sizes[file])
      BY <1>4, <1>5 DEF Running
    <3>2. Within(T, C, 0)'
      BY <1>3, <1>6, <2>2, <3>1, PlanNextFileWithin
    <3> QED
      BY <3>2
  <2> QED
    BY <2>1, <2>2
<1>8. Running(T, C, k)' /\ plaintext' = T[k] /\ chunks' = C[k]
  BY <1>1, <1>5 DEF Running, ChunksOf
<1>9. SummedWithin(k)'
  BY <1>7, <1>8, Zenon DEF SummedWithin
<1>10. SummedWithin(Len(sizes) + 1)'
  BY <1>1, <1>2, <1>9 DEF SummedWithin
<1>11. file' \in 1 .. Len(sizes') + 1
  <2>1. file' = file \/ file' = file + 1
    BY DEF PlanChunk, PlanNextFile
  <2>2. file \in 1 .. Len(sizes) + 1 /\ file + 1 \in 1 .. Len(sizes) + 1
    BY <1>3, SizesFacts
  <2> QED
    BY <1>1, <2>1, <2>2
<1>12. EstimateEncryptedSize' <= MaxEncryptedUploadBytes
  BY <1>1 DEF EstimateInv
<1> QED
  BY <1>1, <1>10, <1>11, <1>12 DEF EstimateInv

\* Every step keeps the estimate.
LEMMA EstimateNext ==
  ASSUME BundleInv, [Next]_vars
  PROVE  EstimateInv'
<1> TypeOK /\ EstimateInv
  BY DEF BundleInv
<1>1. CASE Idle
  <2>1. UNCHANGED <<sizes, pc, chunks, plaintext, file, start, offset, records>>
    BY <1>1 DEF Idle, estimate, plan
  <2> QED
    BY <2>1 DEF EstimateInv, EstimateEncryptedSize, Summed, SummedWithin, Running, ChunksOf, Within, Here
<1>2. CASE PlanManifest
  BY <1>2 DEF PlanManifest, EstimateInv
<1>3. CASE UploadStep \/ CheckStep \/ ReadStep
  BY <1>3, AfterPlan DEF EstimateInv
<1> QED
  BY <1>1, <1>2, <1>3, StepCases, EstimateFileKeeps, CheckLimitKeeps, PlanKeepsWithin DEF PlanStep

-----------------------------------------------------------------------------
(* The records of the plan.                                                *)

\* A record more.
LEMMA PlanChunkFacts ==
  ASSUME TypeOK, EstimateInv, PlanChunk
  PROVE  /\ Len(records') = Len(records) + 1 /\ Len(records) \in Nat /\ records' # <<>>
         /\ \A i \in 1 .. Len(records) : records'[i] = records[i]
         /\ LET r == records'[Len(records) + 1]
            IN /\ r.file = file /\ r.start = start /\ r.offset = offset
               /\ r.plaintext = ChunkAt /\ r.length = ChunkAt + RecordOverhead
         /\ file \in 1 .. Len(sizes) /\ file \in Nat /\ sizes[file] \in Nat
         /\ ChunkAt \in 1 .. ChunkSize /\ ChunkAt \in Nat
         /\ start \in Nat /\ offset \in Nat /\ start < sizes[file]
         /\ Here = start /\ Here' = start + ChunkAt /\ start + ChunkAt <= sizes[file]
         /\ start' = start + ChunkSize /\ offset' = offset + ChunkAt + RecordOverhead
         /\ file' = file /\ sizes' = sizes /\ pc = "plan" /\ pc' = "plan"
<1> DEFINE r == [file |-> file, start |-> start, plaintext |-> ChunkAt,
                 offset |-> offset, length |-> ChunkAt + RecordOverhead]
<1>1. records \in Seq(Record) /\ records' = Append(records, r)
  BY DEF TypeOK, PlanChunk
<1>2. /\ r.file = file /\ r.start = start /\ r.offset = offset
      /\ r.plaintext = ChunkAt /\ r.length = ChunkAt + RecordOverhead
  OBVIOUS
<1> HIDE DEF r
<1>3. /\ Len(records') = Len(records) + 1 /\ Len(records) \in Nat /\ records' # <<>>
      /\ \A i \in 1 .. Len(records) : records'[i] = records[i]
      /\ records'[Len(records) + 1] = r
  BY <1>1, AppendProperties, LenProperties
<1>4. /\ start < sizes[file] /\ start' = start + ChunkSize /\ offset' = offset + ChunkAt + RecordOverhead
      /\ file' = file /\ sizes' = sizes /\ pc = "plan" /\ pc' = "plan" /\ file <= Len(sizes)
  BY DEF PlanChunk, input
<1>5. file \in 1 .. Len(sizes) /\ file \in Nat /\ sizes[file] \in Nat
  <2>1. file \in 1 .. Len(sizes) + 1
    BY <1>4 DEF EstimateInv
  <2> QED
    BY <1>4, <2>1, SizesFacts
<1>6. start \in Nat /\ offset \in Nat
  BY DEF TypeOK
<1>7. /\ ChunkAt \in 1 .. ChunkSize /\ start + ChunkAt = Smaller(start + ChunkSize, sizes[file])
      /\ start + ChunkAt <= sizes[file]
  BY <1>4, <1>5, ChunkFacts
<1>8. ChunkAt \in Nat
  BY <1>7, Numbers
<1>9. Here = start /\ Here' = start + ChunkAt
  BY <1>4, <1>5, <1>6, <1>7 DEF Here, Smaller
<1> QED
  BY <1>2, <1>3, <1>4, <1>5, <1>6, <1>7, <1>8, <1>9

\* One more record, in numbers.
LEMMA OneMoreRecord ==
  ASSUME NEW o \in Nat, NEW p \in Nat, NEW s \in Nat, NEW t \in Nat, NEW x \in Nat,
         NEW v \in Nat, NEW d \in Nat, o - p = s - t + d * v
  PROVE  (o + (x + v)) - p = s + x - t + (d + 1) * v
<1>1. (d + 1) * v = d * v + v /\ d * v \in Nat
  OBVIOUS
<1> QED
  BY <1>1

\* The record that is planned follows those before it.
LEMMA NewRecordFollows ==
  ASSUME TypeOK, EstimateInv, RecordsInv, PlanInv, PlanChunk, NEW i \in 1 .. Len(records)
  PROVE  Follows(records[i], records'[Len(records) + 1], Len(records) + 1 - i)
<1> DEFINE a == records[i]
           b == records'[Len(records) + 1]
           n == Len(records)
           d == n + 1 - i
<1>1. /\ n \in Nat /\ i \in 1 .. n /\ d \in Nat /\ d >= 1 /\ n \in 1 .. n
      /\ a.file \in Nat /\ a.start \in Nat /\ a.offset \in Nat /\ a.plaintext \in Nat /\ a.length \in Nat
  BY RecordFacts
<1>2. /\ b.file = file /\ b.start = start /\ b.offset = offset
      /\ b.plaintext = ChunkAt /\ b.length = ChunkAt + RecordOverhead
      /\ ChunkAt \in Nat /\ start \in Nat /\ offset \in Nat /\ Here = start /\ pc = "plan" /\ file \in Nat
  BY PlanChunkFacts
<1>3. Reaches(a, d)
  BY <1>2 DEF PlanInv
<1>4. offset = EndOfRecord(records[n]) /\ records # <<>>
  BY <1>1, EmptySeq DEF RecordsInv
<1>5. records[n].offset \in Nat /\ records[n].length \in Nat /\ records[n].length > 0
  <2>1. RecordOK(records[n])
    BY <1>1 DEF RecordsInv
  <2>2. records[n].offset \in Nat /\ records[n].length \in Nat
    BY <1>1, RecordFacts
  <2> QED
    BY <2>1, <2>2, Numbers DEF RecordOK
<1>6. a.offset < offset
  <2>1. CASE i = n
    BY <1>4, <1>5, <2>1 DEF EndOfRecord
  <2>2. CASE i # n
    <3>1. Follows(records[i], records[n], n - i)
      BY <1>1, <2>2 DEF RecordsInv
    <3> QED
      BY <1>1, <1>4, <1>5, <3>1 DEF Follows, EndOfRecord
  <2> QED
    BY <2>1, <2>2
<1>7. ASSUME d = 1
      PROVE  /\ b.offset = EndOfRecord(a)
             /\ a.file # b.file => a.start + a.plaintext = sizes[a.file] /\ b.start = 0
  <2>2. i = n
    BY <1>1, <1>7
  <2>3. a.file # file => a.start + a.plaintext = sizes[a.file] /\ ~(start > 0)
    BY <1>2, <1>4, <2>2 DEF PlanInv
  <2> QED
    BY <1>2, <1>4, <2>2, <2>3
<1>8. ASSUME a.file = b.file
      PROVE  /\ b.start = a.start + d * ChunkSize
             /\ EndOfRecord(b) - a.offset = b.start + b.plaintext - a.start + (d + 1) * RecordOverhead
  <2>1. start = a.start + d * ChunkSize /\ offset - a.offset = start - a.start + d * RecordOverhead
    BY <1>2, <1>3, <1>8 DEF Reaches
  <2>2. (d + 1) * RecordOverhead = d * RecordOverhead + RecordOverhead /\ d * RecordOverhead \in Nat
    BY <1>1, Numbers
  <2>3. EndOfRecord(b) = offset + (ChunkAt + RecordOverhead)
    BY <1>2 DEF EndOfRecord
  <2>4. (offset + (ChunkAt + RecordOverhead)) - a.offset = start + ChunkAt - a.start + (d + 1) * RecordOverhead
    <3>1. /\ offset \in Nat /\ a.offset \in Nat /\ start \in Nat /\ a.start \in Nat /\ ChunkAt \in Nat
          /\ d \in Nat /\ RecordOverhead \in Nat
      BY <1>1, <1>2, Numbers
    <3> HIDE DEF a, d
    <3>2. PICK o \in Nat, p \in Nat, s \in Nat, t \in Nat, x \in Nat, k \in Nat, v \in Nat :
            /\ o = offset /\ p = a.offset /\ s = start /\ t = a.start /\ x = ChunkAt /\ k = d
            /\ v = RecordOverhead
      BY <3>1
    <3>3. o - p = s - t + k * v
      BY <2>1, <3>2
    <3>4. (o + (x + v)) - p = s + x - t + (k + 1) * v
      BY <3>3, OneMoreRecord
    <3> QED
      BY <3>2, <3>4
  <2> QED
    BY <1>2, <2>1, <2>3, <2>4
<1>9. a.file <= b.file
  BY <1>2, <1>3 DEF Reaches
<1> HIDE DEF a, b, d
<1>10. Follows(a, b, d)
  BY <1>2, <1>6, <1>7, <1>8, <1>9 DEF Follows
<1> QED
  BY <1>10 DEF a, b, d

\* A record more keeps the records one after the other.
LEMMA RecordsPlanChunk ==
  ASSUME TypeOK, EstimateInv, RecordsInv, PlanInv, PlanChunk
  PROVE  RecordsInv'
<1> DEFINE n == Len(records)
<1>1. /\ n \in Nat /\ Len(records') = n + 1 /\ records' # <<>> /\ sizes' = sizes
      /\ \A i \in 1 .. n : records'[i] = records[i]
  BY PlanChunkFacts
<1>2. LET r == records'[n + 1]
      IN /\ r.file = file /\ r.start = start /\ r.offset = offset
         /\ r.plaintext = ChunkAt /\ r.length = ChunkAt + RecordOverhead
  BY PlanChunkFacts
<1>3. ASSUME NEW i \in 1 .. n + 1 PROVE RecordOK(records'[i])
  <2>1. CASE i \in 1 .. n
    BY <1>1, <2>1 DEF RecordsInv
  <2>2. CASE i = n + 1
    BY <1>2, <2>2, PlanChunkFacts DEF RecordOK
  <2> QED
    BY <1>1, <2>1, <2>2
<1>4. ASSUME NEW i \in 1 .. n + 1, NEW j \in 1 .. n + 1, i < j
      PROVE  Follows(records'[i], records'[j], j - i)
  <2>1. i \in 1 .. n
    BY <1>1, <1>4
  <2>2. CASE j \in 1 .. n
    BY <1>1, <1>4, <2>1, <2>2 DEF RecordsInv
  <2>3. CASE j = n + 1
    BY <1>1, <2>1, <2>3, NewRecordFollows
  <2> QED
    BY <1>1, <2>2, <2>3
<1>5. records'[1].offset = 0 /\ records'[1].start = 0
  <2>1. CASE n = 0
    <3>1. records = <<>>
      BY <2>1, RecordFacts
    <3>2. offset = 0 /\ ~(start > 0)
      BY <3>1, PlanChunkFacts DEF RecordsInv, PlanInv
    <3>3. start \in Nat /\ n + 1 = 1
      BY <2>1 DEF TypeOK
    <3> QED
      BY <1>2, <3>2, <3>3
  <2>2. CASE n # 0
    <3>1. 1 \in 1 .. n /\ records # <<>>
      BY <1>1, <2>2, RecordFacts
    <3> QED
      BY <1>1, <3>1 DEF RecordsInv
  <2> QED
    BY <2>1, <2>2
<1>6. offset' = EndOfRecord(records'[n + 1])
  <2>1. offset' = offset + ChunkAt + RecordOverhead /\ offset \in Nat /\ ChunkAt \in Nat
    BY PlanChunkFacts
  <2>2. offset + ChunkAt + RecordOverhead = offset + (ChunkAt + RecordOverhead)
    BY <2>1, Numbers
  <2> QED
    BY <1>2, <2>1, <2>2 DEF EndOfRecord
<1> QED
  BY <1>1, <1>3, <1>4, <1>5, <1>6 DEF RecordsInv, RecordOK, Follows, EndOfRecord

\* Every step keeps the records.
LEMMA RecordsNext ==
  ASSUME BundleInv, [Next]_vars
  PROVE  RecordsInv'
<1> TypeOK /\ EstimateInv /\ RecordsInv /\ PlanInv
  BY DEF BundleInv
<1>1. CASE PlanChunk
  BY <1>1, RecordsPlanChunk
<1>2. ASSUME UNCHANGED <<sizes, records, offset>> PROVE RecordsInv'
  BY <1>2 DEF RecordsInv, RecordOK, Follows, EndOfRecord
<1>3. CASE EstimateFile \/ CheckLimit \/ PlanNextFile \/ PlanManifest
  <2>1. UNCHANGED <<sizes, records, offset>>
    BY <1>3 DEF EstimateFile, CheckLimit, PlanNextFile, PlanManifest, input, plan
  <2> QED
    BY <1>2, <2>1
<1>4. CASE UploadStep \/ CheckStep \/ ReadStep
  <2>1. UNCHANGED <<sizes, records, offset>>
    BY <1>4, AfterPlan DEF input, plan
  <2> QED
    BY <1>2, <2>1
<1>5. CASE Idle
  <2>1. UNCHANGED <<sizes, records, offset>>
    BY <1>5 DEF Idle, plan
  <2> QED
    BY <1>2, <2>1
<1> QED
  BY <1>1, <1>3, <1>4, <1>5, StepCases DEF PlanStep

\* The plan after one more record.
LEMMA PlanPlanChunk ==
  ASSUME TypeOK, EstimateInv, RecordsInv, PlanInv, PlanChunk
  PROVE  PlanInv'
<1>0. PICK n \in Nat : n = Len(records)
  BY RecordFacts
<1>1. /\ n \in Nat /\ Len(records') = n + 1 /\ records' # <<>> /\ sizes' = sizes /\ file' = file
      /\ \A i \in 1 .. n : records'[i] = records[i]
      /\ pc = "plan" /\ file \in 1 .. Len(sizes) /\ file <= Len(sizes)
  BY <1>0, PlanChunkFacts, SizesFacts
<1>2. LET r == records'[n + 1]
      IN /\ r.file = file /\ r.start = start /\ r.offset = offset
         /\ r.plaintext = ChunkAt /\ r.length = ChunkAt + RecordOverhead
  BY <1>0, PlanChunkFacts
<1>3. /\ start \in Nat /\ offset \in Nat /\ ChunkAt \in Nat /\ file \in Nat
      /\ Here = start /\ Here' = start + ChunkAt
      /\ start' = start + ChunkSize /\ offset' = offset + ChunkAt + RecordOverhead
  BY PlanChunkFacts
<1>4. ASSUME NEW i \in 1 .. n + 1 PROVE Reaches(records[i], n + 2 - i)'
  <2>1. CASE i = n + 1
    <3>1. /\ records'[i].file = file /\ records'[i].start = start /\ records'[i].offset = offset
          /\ n + 2 - i = 1
      BY <1>1, <1>2, <2>1
    <3>2. start' = start + 1 * ChunkSize /\ offset' - offset = Here' - start + 1 * RecordOverhead
          /\ file <= file
      BY <1>3, Numbers
    <3> QED
      BY <1>1, <3>1, <3>2 DEF Reaches
  <2>2. CASE i \in 1 .. n
    <3> DEFINE a == records[i]
    <3>1. Reaches(a, n + 1 - i) /\ records'[i] = a
      BY <1>0, <1>1, <2>2 DEF PlanInv
    <3>2. a.start \in Nat /\ a.offset \in Nat
      BY <1>0, <2>2, RecordFacts
    <3>3. PICK d \in Nat : d = n + 1 - i /\ d + 1 = n + 2 - i
      BY <1>1, <2>2
    <3> HIDE DEF a
    <3>4. ASSUME a.file = file
          PROVE  /\ start' = a.start + (d + 1) * ChunkSize
                 /\ offset' - a.offset = Here' - a.start + (d + 1) * RecordOverhead
      <4>1. start = a.start + d * ChunkSize /\ offset - a.offset = start - a.start + d * RecordOverhead
        BY <1>3, <3>1, <3>3, <3>4 DEF Reaches
      <4>2. PICK o \in Nat, p \in Nat, s \in Nat, t \in Nat, x \in Nat, v \in Nat, w \in Nat :
              /\ o = offset /\ p = a.offset /\ s = start /\ t = a.start /\ x = ChunkAt
              /\ v = RecordOverhead /\ w = ChunkSize
        BY <1>3, <3>2, Numbers
      <4>3. s = t + d * w /\ o - p = s - t + d * v
        BY <4>1, <4>2
      <4>4. s + w = t + (d + 1) * w
        <5>1. (d + 1) * w = d * w + w /\ d * w \in Nat
          OBVIOUS
        <5> QED
          BY <4>3, <5>1
      <4>5. (o + (x + v)) - p = s + x - t + (d + 1) * v
        BY <4>3, OneMoreRecord
      <4>6. o + x + v = o + (x + v)
        OBVIOUS
      <4> QED
        BY <1>3, <4>2, <4>4, <4>5, <4>6
    <3>5. a.file <= file
      BY <3>1 DEF Reaches
    <3> QED
      BY <1>1, <3>1, <3>3, <3>4, <3>5 DEF Reaches
  <2> QED
    BY <1>1, <2>1, <2>2
<1>5. n + 1 + 1 = n + 2 /\ n + 1 \in 1 .. n + 1
  BY <1>1
<1>6. \A f : HasRecord(f) => HasRecord(f)'
  <2>1. \A i \in 1 .. n : i \in 1 .. n + 1
    BY <1>1
  <2> QED
    BY <1>0, <1>1, <2>1, Zenon DEF HasRecord
<1>7. \A f \in 1 .. file - 1 : sizes[f] = 0 \/ HasRecord(f)'
  BY <1>1, <1>6 DEF PlanInv
<1>8. /\ file' <= Len(sizes') /\ records'[n + 1].file = file'
      /\ records'[n + 1].start + records'[n + 1].plaintext = Here'
  BY <1>1, <1>2, <1>3
<1>9. (\A i \in 1 .. Len(records) : Reaches(records[i], Len(records) + 1 - i))'
  <2>1. \A i \in 1 .. n + 1 : Reaches(records[i], (n + 1 + 1) - i)'
    BY <1>4, <1>5
  <2> QED
    BY <1>1, <2>1
<1> QED
  BY <1>1, <1>7, <1>8, <1>9 DEF PlanInv

\* The plan after a file.
LEMMA PlanPlanNextFile ==
  ASSUME TypeOK, EstimateInv, RecordsInv, PlanInv, PlanNextFile
  PROVE  PlanInv'
<1>1. /\ pc = "plan" /\ file <= Len(sizes) /\ start >= sizes[file] /\ file' = file + 1 /\ start' = 0
      /\ sizes' = sizes /\ records' = records /\ offset' = offset
  BY DEF PlanNextFile, input
<1>2. file \in 1 .. Len(sizes) /\ file \in Nat /\ sizes[file] \in Nat /\ start \in Nat
  <2>1. file \in 1 .. Len(sizes) + 1
    BY <1>1 DEF EstimateInv
  <2> QED
    BY <1>1, <2>1, SizesFacts DEF TypeOK
<1>3. Here = sizes[file]
  BY <1>1, <1>2 DEF Here, Smaller
<1>4. \A i \in 1 .. Len(records) : records[i].file \in Nat /\ records[i].file <= file
  BY <1>1, RecordFacts DEF PlanInv, Reaches
<1>5. \A i \in 1 .. Len(records) : records[i].file # file' /\ records[i].file <= file'
  BY <1>1, <1>2, <1>4
<1>6. \A i \in 1 .. Len(records) : \A d : Reaches(records[i], d)'
  BY <1>1, <1>5 DEF Reaches
<1>7. ASSUME records # <<>>
      PROVE  LET r == records[Len(records)] IN r.start + r.plaintext = sizes[r.file] /\ r.file # file'
  <2>1. Len(records) \in 1 .. Len(records)
    BY <1>7, RecordFacts
  <2>2. records[Len(records)].file # file'
    BY <1>5, <2>1
  <2> QED
    BY <1>1, <1>3, <1>7, <2>2 DEF PlanInv
<1>8. ASSUME NEW f \in 1 .. file PROVE sizes[f] = 0 \/ HasRecord(f)
  <2>1. CASE f = file
    <3>1. CASE sizes[file] = 0
      BY <2>1, <3>1
    <3>2. CASE sizes[file] # 0
      <4>1. start > 0
        BY <1>1, <1>2, <3>2
      <4>2. records # <<>> /\ records[Len(records)].file = file
        BY <1>1, <4>1 DEF PlanInv
      <4>3. Len(records) \in 1 .. Len(records)
        BY <4>2, RecordFacts
      <4> QED
        BY <2>1, <4>2, <4>3 DEF HasRecord
    <3> QED
      BY <3>1, <3>2
  <2>2. CASE f # file
    <3>1. f \in 1 .. file - 1
      BY <1>2, <2>2
    <3> QED
      BY <1>1, <3>1 DEF PlanInv
  <2> QED
    BY <2>1, <2>2
<1>9. \A f \in 1 .. file' - 1 : sizes'[f] = 0 \/ HasRecord(f)'
  <2>1. file' - 1 = file
    BY <1>1, <1>2
  <2> QED
    BY <1>1, <1>8, <2>1 DEF HasRecord
<1>10. ~(start' > 0)
  BY <1>1
<1> QED
  BY <1>1, <1>6, <1>7, <1>9, <1>10 DEF PlanInv

\* Every step keeps where the plan stands.
LEMMA PlanNext ==
  ASSUME BundleInv, [Next]_vars
  PROVE  PlanInv'
<1> TypeOK /\ EstimateInv /\ RecordsInv /\ PlanInv
  BY DEF BundleInv
<1>1. CASE EstimateFile
  BY <1>1 DEF EstimateFile, PlanInv
<1>2. CASE CheckLimit
  <2>1. start' = 0 /\ records' = <<>> /\ file' = 1
    BY <1>2 DEF CheckLimit, EstimateInv
  <2>2. Len(records') = 0 /\ ~(start' > 0)
    BY <2>1
  <2> QED
    BY <2>1, <2>2 DEF PlanInv
<1>3. CASE PlanManifest
  BY <1>3 DEF PlanManifest, PlanInv
<1>4. CASE UploadStep \/ CheckStep \/ ReadStep
  BY <1>4, AfterPlan DEF PlanInv
<1>5. CASE Idle
  <2>1. UNCHANGED <<pc, sizes, file, start, offset, records>>
    BY <1>5 DEF Idle, plan
  <2> QED
    BY <2>1 DEF PlanInv, Reaches, HasRecord, Here
<1> QED
  BY <1>1, <1>2, <1>3, <1>4, <1>5, PlanPlanChunk, PlanPlanNextFile, StepCases DEF PlanStep

\* When everything is planned, it is within what was estimated.
LEMMA PlannedManifest ==
  ASSUME TypeOK, EstimateInv, RecordsInv, PlanInv, PlanManifest
  PROVE  PlannedInv'
<1>1. /\ pc = "plan" /\ file > Len(sizes)
      /\ UNCHANGED <<sizes, manifestSize, chunks, plaintext, file, start, offset, records>>
  BY DEF PlanManifest, input, estimate, plan
<1>2. SUFFICES ASSUME pc' = "upload" PROVE PlannedInv'
  BY DEF PlanManifest, PlannedInv, Planned
<1>3. Len(sizes) \in Nat /\ file = Len(sizes) + 1 /\ file - 1 = Len(sizes)
  <2>1. file \in 1 .. Len(sizes) + 1
    BY <1>1 DEF EstimateInv
  <2> QED
    BY <1>1, <2>1, SizesFacts
<1>4. manifestSize \in Nat /\ manifestSize <= MaxManifestBytes
  BY <1>2, BundleAssumption, Numbers DEF PlanManifest, TypeOK
<1>5. start = 0
  BY <1>1, <1>3 DEF PlanInv, TypeOK
<1>6. ASSUME records # <<>>
      PROVE  LET r == records[Len(records)] IN r.start + r.plaintext = sizes[r.file]
  <2>1. Len(records) \in 1 .. Len(records)
    BY <1>6, RecordFacts
  <2>2. records[Len(records)].file \in 1 .. Len(sizes)
    BY <2>1 DEF RecordsInv, RecordOK
  <2>3. records[Len(records)].file # file
    BY <1>3, <2>2
  <2> QED
    BY <1>1, <1>6, <2>3 DEF PlanInv
<1>7. offset <= plaintext + chunks * RecordOverhead
  <2>1. PICK T, C \in [Nat -> Nat] :
          plaintext = T[file] /\ chunks = C[file] /\ \E c \in Nat : Within(T, C, c)
    BY <1>1, <1>3 DEF EstimateInv, SummedWithin
  <2>2. PICK c \in Nat : Within(T, C, c)
    BY <2>1
  <2>3. c = 0
    <3>1. c * ChunkSize = 0
      BY <1>5, <2>2 DEF Within
    <3> QED
      BY <3>1, Numbers
  <2>4. offset <= T[file] + 0 + (C[file] + 0) * RecordOverhead
    BY <2>2, <2>3 DEF Within
  <2>5. plaintext \in Nat /\ chunks \in Nat
    BY DEF TypeOK
  <2>6. plaintext + 0 = plaintext /\ chunks + 0 = chunks
    BY <2>5
  <2> QED
    BY <2>1, <2>4, <2>6
<1>8. TotalSize <= EstimateEncryptedSize
  <2>1. offset \in Nat /\ plaintext \in Nat /\ chunks * RecordOverhead \in Nat
    BY Numbers DEF TypeOK
  <2> QED
    BY <1>4, <1>7, <2>1, Numbers DEF TotalSize, DataSize, EncryptedManifestLength, EstimateEncryptedSize
<1>9. EstimateEncryptedSize <= MaxEncryptedUploadBytes
  BY <1>1 DEF EstimateInv
<1>10. TotalSize' = TotalSize /\ EstimateEncryptedSize' = EstimateEncryptedSize
  BY <1>1 DEF TotalSize, DataSize, EncryptedManifestLength, EstimateEncryptedSize
<1>11. \A f \in 1 .. Len(sizes) : sizes[f] = 0 \/ HasRecord(f)
  BY <1>1, <1>3 DEF PlanInv
<1>12. \A f \in 1 .. Len(sizes') : sizes'[f] = 0 \/ HasRecord(f)'
  BY <1>1, <1>11 DEF HasRecord
<1> QED
  BY <1>1, <1>4, <1>6, <1>8, <1>9, <1>10, <1>12 DEF PlannedInv

\* Every step keeps what is planned.
LEMMA PlannedNext ==
  ASSUME BundleInv, [Next]_vars
  PROVE  PlannedInv'
<1> TypeOK /\ EstimateInv /\ RecordsInv /\ PlanInv /\ PlannedInv
  BY DEF BundleInv
<1>1. ASSUME Planned, UNCHANGED <<sizes, manifestSize, chunks, plaintext, offset, records>>
      PROVE  PlannedInv'
  <2>1. TotalSize' = TotalSize /\ EstimateEncryptedSize' = EstimateEncryptedSize
    BY <1>1 DEF TotalSize, DataSize, EncryptedManifestLength, EstimateEncryptedSize
  <2> QED
    BY <1>1, <2>1 DEF PlannedInv, HasRecord
<1>2. CASE EstimateFile \/ CheckLimit \/ PlanChunk \/ PlanNextFile
  <2>1. ~Planned'
    BY <1>2 DEF EstimateFile, CheckLimit, PlanChunk, PlanNextFile, Planned
  <2> QED
    BY <2>1 DEF PlannedInv
<1>3. CASE UploadStep \/ CheckStep \/ ReadStep
  BY <1>1, <1>3, AfterPlan DEF Planned, input, estimate, plan
<1>4. CASE Idle
  <2>1. UNCHANGED <<pc, sizes, manifestSize, chunks, plaintext, offset, records>>
    BY <1>4 DEF Idle, plan, estimate
  <2>2. CASE Planned
    BY <1>1, <2>1, <2>2
  <2>3. CASE ~Planned
    BY <2>1, <2>3 DEF PlannedInv, Planned
  <2> QED
    BY <2>2, <2>3
<1> QED
  BY <1>2, <1>3, <1>4, PlannedManifest, StepCases DEF PlanStep

-----------------------------------------------------------------------------
(* The parts.                                                              *)

\* A record ends where the next one begins, and the last one with the data.
LEMMA Places ==
  ASSUME TypeOK, RecordsInv, NEW i \in 1 .. Len(records)
  PROVE  /\ Place(i) = records[i].offset /\ Place(i + 1) = EndOfRecord(records[i])
         /\ EndOfRecord(records[i]) \in Nat /\ records[i].offset \in Nat
         /\ records[i].offset < EndOfRecord(records[i]) /\ EndOfRecord(records[i]) <= offset
         /\ records[i].length \in Nat /\ records[i].length <= ChunkSize + RecordOverhead
<1> DEFINE n == Len(records)
<1>1. n \in Nat /\ n \in 1 .. n /\ i \in Nat /\ i <= n
  BY RecordFacts
<1>2. ASSUME NEW j \in 1 .. n
      PROVE  /\ records[j].offset \in Nat /\ records[j].length \in Nat /\ records[j].length > 0
             /\ records[j].length <= ChunkSize + RecordOverhead
             /\ EndOfRecord(records[j]) \in Nat /\ records[j].offset < EndOfRecord(records[j])
  <2>1. RecordOK(records[j])
    BY DEF RecordsInv
  <2>2. records[j].offset \in Nat /\ records[j].length \in Nat
    BY RecordFacts
  <2>3. records[j].length > 0 /\ records[j].length <= ChunkSize + RecordOverhead
    BY <2>1, <2>2, Numbers DEF RecordOK
  <2> QED
    BY <2>2, <2>3 DEF EndOfRecord
<1>3. offset = EndOfRecord(records[n])
  BY <1>1, RecordFacts DEF RecordsInv
<1>4. Place(i) = records[i].offset
  BY <1>1 DEF Place
<1>5. CASE i = n
  <2>1. ~(i + 1 <= n)
    BY <1>1, <1>5
  <2>2. Place(i + 1) = EndOfRecord(records[i])
    BY <1>3, <1>5, <2>1 DEF Place
  <2> QED
    BY <1>2, <1>3, <1>4, <1>5, <2>2
<1>6. CASE i # n
  <2>1. i + 1 \in 1 .. n /\ i + 1 <= n /\ i < i + 1 /\ (i + 1) - i = 1
    BY <1>1, <1>6
  <2>2. records[i + 1].offset = EndOfRecord(records[i])
    BY <1>1, <2>1 DEF RecordsInv, Follows
  <2>3. records[i + 1].offset <= records[n].offset
    <3>1. CASE i + 1 = n
      BY <1>2, <2>1, <3>1
    <3>2. CASE i + 1 # n
      <4>1. i + 1 < n
        BY <1>1, <2>1, <3>2
      <4>2. records[i + 1].offset < records[n].offset
        BY <1>1, <2>1, <4>1 DEF RecordsInv, Follows
      <4> QED
        BY <1>1, <1>2, <2>1, <4>2
    <3> QED
      BY <3>1, <3>2
  <2>4. EndOfRecord(records[i]) <= offset
    <3>1. /\ records[i + 1].offset \in Nat /\ records[n].offset \in Nat /\ EndOfRecord(records[n]) \in Nat
          /\ records[n].offset < EndOfRecord(records[n])
      BY <1>1, <1>2, <2>1
    <3> QED
      BY <1>3, <2>2, <2>3, <3>1
  <2>5. Place(i + 1) = EndOfRecord(records[i])
    BY <2>1, <2>2 DEF Place
  <2> QED
    BY <1>2, <1>4, <2>4, <2>5
<1> QED
  BY <1>5, <1>6

\* The data begins at the front.
LEMMA PlaceOne ==
  ASSUME TypeOK, RecordsInv
  PROVE  Place(1) = 0
<1>1. CASE records = <<>>
  <2>1. ~(1 <= Len(records))
    BY <1>1
  <2> QED
    BY <1>1, <2>1 DEF Place, RecordsInv
<1>2. CASE records # <<>>
  <2>1. 1 <= Len(records)
    BY <1>2, RecordFacts
  <2> QED
    BY <1>2, <2>1 DEF Place, RecordsInv
<1> QED
  BY <1>1, <1>2

\* The number of a part stays within the server's.
LEMMA PartNumbers ==
  ASSUME NEW k \in Nat, NEW o \in Nat, NEW m \in Nat, NEW d \in Nat \ {0}, NEW x \in Nat,
         k * d <= o, o <= m, m \div d < x
  PROVE  k + 1 <= x
<1>1. m \div d \in Nat /\ k <= m \div d
  OBVIOUS
<1> QED
  BY <1>1

\* The sizes of a bundle are numbers.
LEMMA LayoutFacts ==
  ASSUME TypeOK
  PROVE  /\ manifestSize \in Nat /\ offset \in Nat /\ EncryptedManifestLength \in Nat /\ TotalSize \in Nat
         /\ EncryptedManifestLength = manifestSize + RecordOverhead
         /\ TotalSize = offset + EncryptedManifestLength + FooterLength /\ offset < TotalSize
<1>1. manifestSize \in Nat /\ offset \in Nat
  BY BundleAssumption DEF TypeOK
<1> QED
  BY <1>1, Numbers DEF TotalSize, DataSize, EncryptedManifestLength

\* The server takes part k + 1 of z bytes at o.
LEMMA PartAccepted ==
  ASSUME TypeOK, PlannedInv, Planned, NEW k \in Nat, NEW o \in Nat, NEW z \in Nat,
         o >= k * s3MinimumPartSize, o + z <= TotalSize, z > 0, z <= maxMultipartUploadPart,
         o + z < TotalSize => z >= s3MinimumPartSize
  PROVE  AcceptsPart(k + 1, [offset |-> o, size |-> z])
<1> DEFINE p == [offset |-> o, size |-> z]
<1>1. p.offset = o /\ p.size = z
  OBVIOUS
<1> HIDE DEF p
<1>2. TotalSize \in Nat /\ TotalSize <= MaxEncryptedUploadBytes
  <2>1. TotalSize \in Nat
    BY LayoutFacts
  <2>2. EstimateEncryptedSize \in Nat
    BY Numbers DEF EstimateEncryptedSize, TypeOK
  <2> QED
    BY <2>1, <2>2, Numbers DEF PlannedInv
<1>3. k + 1 <= maxMultipartPartNumber
  <2>1. k * s3MinimumPartSize \in Nat /\ s3MinimumPartSize \in Nat \ {0}
    BY Numbers
  <2>2. o <= MaxEncryptedUploadBytes
    BY <1>2, Numbers
  <2> QED
    BY <2>1, <2>2, PartNumbers, LayoutAssumption, Numbers
<1>4. z <= maxFileSize
  BY <1>2, LayoutAssumption, Numbers
<1>5. k * s3MinimumPartSize \in Nat /\ (k + 1) * s3MinimumPartSize = k * s3MinimumPartSize + s3MinimumPartSize
      /\ (k + 1) - 1 = k
  BY Numbers
<1>6. (k + 1) * s3MinimumPartSize < TotalSize + s3MinimumPartSize
  BY <1>2, <1>5, Numbers
<1>7. validatePartPlacement(k + 1, p)
  BY <1>1, <1>5, <1>6 DEF validatePartPlacement
<1>8. AcceptsPart(k + 1, p)
  BY <1>1, <1>3, <1>4, <1>7 DEF AcceptsPart
<1> QED
  BY <1>8 DEF p

\* A part more.
LEMMA AppendPart ==
  ASSUME TypeOK, PartsInv, pc = "upload", NEW p, p \in [offset : Nat, size : Nat],
         parts' = Append(parts, p), TotalSize' = TotalSize,
         AcceptsPart(Len(parts) + 1, p), p.offset = partOffset,
         pc' = "upload" => p.size >= s3MinimumPartSize
  PROVE  /\ (\A n \in 1 .. Len(parts) :
               /\ AcceptsPart(n, parts[n])
               /\ parts[n].offset = IF n = 1 THEN 0 ELSE EndOf(parts[n - 1])
               /\ n < Len(parts) \/ pc = "upload" => parts[n].size >= s3MinimumPartSize)'
         /\ parts' # <<>> /\ Len(parts') = Len(parts) + 1 /\ parts'[Len(parts')] = p
<1>1. PICK n \in Nat : n = Len(parts)
  BY DEF TypeOK
<1>2. Len(parts') = n + 1 /\ parts'[n + 1] = p /\ \A i \in 1 .. n : parts'[i] = parts[i]
  BY <1>1, AppendProperties DEF TypeOK
<1>3. parts' # <<>>
  BY <1>1, <1>2
<1>4. ASSUME NEW i \in 1 .. n + 1
      PROVE  /\ AcceptsPart(i, parts'[i])
             /\ parts'[i].offset = IF i = 1 THEN 0 ELSE EndOf(parts'[i - 1])
             /\ i < n + 1 \/ pc' = "upload" => parts'[i].size >= s3MinimumPartSize
  <2>1. CASE i \in 1 .. n
    <3>1. parts'[i] = parts[i] /\ AcceptsPart(i, parts[i]) /\ parts[i].size >= s3MinimumPartSize
      BY <1>1, <1>2, <2>1 DEF PartsInv
    <3>2. i # 1 => i - 1 \in 1 .. n
      BY <2>1
    <3>3. parts'[i].offset = IF i = 1 THEN 0 ELSE EndOf(parts'[i - 1])
      BY <1>1, <1>2, <2>1, <3>2 DEF PartsInv
    <3> QED
      BY <3>1, <3>3
  <2>2. CASE i = n + 1
    <3>1. AcceptsPart(i, parts'[i]) /\ parts'[i].offset = partOffset
      BY <1>1, <1>2, <2>2
    <3>2. partOffset = IF n = 0 THEN 0 ELSE EndOf(parts[n])
      BY <1>1, EmptySeq DEF PartsInv, TypeOK
    <3>3. i # 1 => i - 1 = n /\ n \in 1 .. n /\ n # 0
      BY <2>2
    <3>4. i = 1 => n = 0
      BY <2>2
    <3>5. parts'[i].offset = IF i = 1 THEN 0 ELSE EndOf(parts'[i - 1])
      BY <1>2, <3>1, <3>2, <3>3, <3>4
    <3>6. i < n + 1 \/ pc' = "upload" => parts'[i].size >= s3MinimumPartSize
      BY <1>2, <2>2
    <3> QED
      BY <3>1, <3>5, <3>6
  <2> QED
    BY <1>1, <2>1, <2>2
<1>5. \A i \in 1 .. n + 1 : AcceptsPart(i, parts[i])'
  BY <1>4 DEF AcceptsPart, validatePartPlacement
<1> QED
  BY <1>1, <1>2, <1>3, <1>4, <1>5 DEF EndOf

\* Filling a part, and sending it when it is full.
LEMMA PartsEncryptRecord ==
  ASSUME TypeOK, RecordsInv, PlannedInv, PartsInv, EncryptRecord
  PROVE  PartsInv'
<1> DEFINE r == records[next]
<1>1. /\ pc = "upload" /\ pc' = "upload" /\ next' = next + 1
      /\ UNCHANGED <<sizes, manifestSize, records, offset>>
  BY DEF EncryptRecord, input, plan
<1>2. next \in 1 .. Len(records) /\ next \in Nat /\ Len(records) \in Nat
  BY <1>1, RecordFacts DEF EncryptRecord, PartsInv
<1>3. /\ r.length \in Nat /\ r.length <= ChunkSize + RecordOverhead /\ r.offset \in Nat
      /\ EndOfRecord(r) \in Nat /\ EndOfRecord(r) <= offset /\ r.offset < EndOfRecord(r)
      /\ Place(next) = r.offset /\ Place(next + 1) = EndOfRecord(r)
      /\ EndOfRecord(r) = r.offset + r.length
  BY <1>2, Places DEF EndOfRecord
<1>4. /\ partOffset + part = r.offset /\ part <= multipartUploadPartSize
      /\ partOffset >= Len(parts) * s3MinimumPartSize
      /\ part \in Nat /\ partOffset \in Nat /\ Len(parts) \in Nat
  BY <1>1, <1>3 DEF PartsInv, TypeOK
<1>5. TotalSize' = TotalSize /\ TotalSize \in Nat /\ offset < TotalSize /\ offset \in Nat
  BY <1>1, LayoutFacts DEF TotalSize, DataSize, EncryptedManifestLength
<1>6. next' \in 1 .. Len(records') + 1 /\ Place(next)' = EndOfRecord(r)
  <2>1. next + 1 \in 1 .. Len(records) + 1
    BY <1>2
  <2>2. Place(next)' = Place(next + 1)
    BY <1>1 DEF Place
  <2> QED
    BY <1>1, <1>3, <2>1, <2>2
<1> HIDE DEF r
<1>7. CASE PartIsFull(r.length)
  <2>1. PICK p \in [offset : Nat, size : Nat] : p = [offset |-> partOffset, size |-> part]
    BY <1>4
  <2>2. p.offset = partOffset /\ p.size = part
    BY <2>1
  <2>3. parts' = Append(parts, p) /\ partOffset' = partOffset + part /\ part' = r.length
    BY <1>7, <2>1 DEF EncryptRecord, NextOffset, r
  <2>4. part > 0 /\ part >= s3MinimumPartSize /\ part >= MinPartBytes
    BY <1>4, <1>7, LayoutAssumption, Numbers DEF PartIsFull
  <2>5. AcceptsPart(Len(parts) + 1, p)
    <3>1. partOffset + part <= TotalSize
      BY <1>3, <1>4, <1>5
    <3>2. part <= maxMultipartUploadPart
      BY <1>4, LayoutAssumption, Numbers
    <3>3. Planned
      BY <1>1 DEF Planned
    <3> QED
      BY <1>4, <2>1, <2>4, <3>1, <3>2, <3>3, PartAccepted
  <2>6. /\ (\A n \in 1 .. Len(parts) :
               /\ AcceptsPart(n, parts[n])
               /\ parts[n].offset = IF n = 1 THEN 0 ELSE EndOf(parts[n - 1])
               /\ n < Len(parts) \/ pc = "upload" => parts[n].size >= s3MinimumPartSize)'
        /\ parts' # <<>> /\ Len(parts') = Len(parts) + 1 /\ parts'[Len(parts')] = p
    BY <1>1, <1>5, <2>2, <2>3, <2>4, <2>5, AppendPart
  <2>7. partOffset' + part' = EndOfRecord(r) /\ part' <= multipartUploadPartSize
    BY <1>3, <1>4, <2>3, LayoutAssumption, Numbers
  <2>8. partOffset' = EndOf(parts'[Len(parts')])
    BY <2>2, <2>3, <2>6 DEF EndOf
  <2>9. partOffset' >= Len(parts') * s3MinimumPartSize
    <3>1. (Len(parts) + 1) * s3MinimumPartSize = Len(parts) * s3MinimumPartSize + s3MinimumPartSize
          /\ Len(parts) * s3MinimumPartSize \in Nat
      BY <1>4, Numbers
    <3> QED
      BY <1>4, <2>3, <2>4, <2>6, <3>1, Numbers
  <2> QED
    BY <1>1, <1>6, <2>6, <2>7, <2>8, <2>9 DEF PartsInv
<1>8. CASE ~PartIsFull(r.length)
  <2>1. part' = part + r.length /\ UNCHANGED <<parts, partOffset>>
    BY <1>8 DEF EncryptRecord, r
  <2>2. partOffset' + part' = EndOfRecord(r)
    BY <1>3, <1>4, <2>1
  <2>3. part' <= multipartUploadPartSize
    BY <1>3, <1>4, <1>8, <2>1, LayoutAssumption, Numbers DEF PartIsFull
  <2>4. (\A n \in 1 .. Len(parts) :
               /\ AcceptsPart(n, parts[n])
               /\ parts[n].offset = IF n = 1 THEN 0 ELSE EndOf(parts[n - 1])
               /\ n < Len(parts) \/ pc = "upload" => parts[n].size >= s3MinimumPartSize)'
    BY <1>1, <1>5, <2>1 DEF PartsInv, AcceptsPart, validatePartPlacement, EndOf
  <2>5. /\ partOffset' = IF parts' = <<>> THEN 0 ELSE EndOf(parts'[Len(parts')])
        /\ partOffset' >= Len(parts') * s3MinimumPartSize
    BY <1>1, <2>1 DEF PartsInv
  <2> QED
    BY <1>1, <1>6, <2>2, <2>3, <2>4, <2>5 DEF PartsInv, EndOf
<1> QED
  BY <1>7, <1>8

\* The last part.
LEMMA PartsSendTrailer ==
  ASSUME TypeOK, RecordsInv, PlannedInv, PartsInv, SendTrailer
  PROVE  PartsInv'
<1>1. /\ pc = "upload" /\ pc' = "sent" /\ next > Len(records)
      /\ UNCHANGED <<sizes, manifestSize, records, offset>>
  BY DEF SendTrailer, input, plan
<1>2. Len(records) \in Nat /\ next \in Nat
  BY RecordFacts DEF TypeOK
<1>3. /\ partOffset + part = offset /\ part <= multipartUploadPartSize
      /\ partOffset >= Len(parts) * s3MinimumPartSize
      /\ part \in Nat /\ partOffset \in Nat /\ Len(parts) \in Nat
  <2>1. Place(next) = offset
    BY <1>1, <1>2 DEF Place
  <2> QED
    BY <1>1, <2>1 DEF PartsInv, TypeOK
<1>4. /\ TotalSize' = TotalSize /\ manifestSize \in Nat /\ EncryptedManifestLength \in Nat
      /\ EncryptedManifestLength = manifestSize + RecordOverhead
      /\ TotalSize = offset + EncryptedManifestLength + FooterLength /\ offset \in Nat
  BY <1>1, LayoutFacts DEF TotalSize, DataSize, EncryptedManifestLength
<1>5. manifestSize <= MaxManifestBytes
  BY <1>1 DEF PlannedInv, Planned
<1>6. PICK z \in Nat : z = part + EncryptedManifestLength + FooterLength
  BY <1>3, <1>4, Numbers
<1>7. PICK p \in [offset : Nat, size : Nat] : p = [offset |-> partOffset, size |-> z]
  BY <1>3
<1>8. p.offset = partOffset /\ p.size = z
  BY <1>7
<1>9. parts' = Append(parts, p)
  BY <1>6, <1>7 DEF SendTrailer
<1>10. partOffset + z = TotalSize /\ z > 0 /\ z <= maxMultipartUploadPart /\ TotalSize \in Nat
  BY <1>3, <1>4, <1>5, <1>6, LayoutAssumption, Numbers
<1>11. AcceptsPart(Len(parts) + 1, p)
  <2>1. Planned
    BY <1>1 DEF Planned
  <2>2. partOffset + z <= TotalSize /\ ~(partOffset + z < TotalSize)
    BY <1>10
  <2> QED
    BY <1>3, <1>7, <1>10, <2>1, <2>2, PartAccepted
<1>12. pc' # "upload"
  BY <1>1
<1>13. /\ (\A n \in 1 .. Len(parts) :
               /\ AcceptsPart(n, parts[n])
               /\ parts[n].offset = IF n = 1 THEN 0 ELSE EndOf(parts[n - 1])
               /\ n < Len(parts) \/ pc = "upload" => parts[n].size >= s3MinimumPartSize)'
       /\ parts' # <<>> /\ parts'[Len(parts')] = p
  BY <1>1, <1>4, <1>8, <1>9, <1>11, <1>12, AppendPart
<1>14. EndOf(parts'[Len(parts')]) = TotalSize'
  BY <1>4, <1>8, <1>10, <1>13 DEF EndOf
<1> QED
  BY <1>1, <1>13, <1>14 DEF PartsInv, EndOf

\* Every step keeps the parts.
LEMMA PartsNext ==
  ASSUME BundleInv, [Next]_vars
  PROVE  PartsInv'
<1> TypeOK /\ EstimateInv /\ RecordsInv /\ PlanInv /\ PlannedInv /\ PartsInv
  BY DEF BundleInv
<1>1. CASE EstimateFile \/ CheckLimit \/ PlanChunk \/ PlanNextFile
  <2>1. /\ pc \in {"estimate", "plan"} /\ pc' \in {"estimate", "plan", "refused"}
        /\ UNCHANGED <<next, part, partOffset, parts>>
    BY <1>1 DEF EstimateFile, CheckLimit, PlanChunk, PlanNextFile, upload
  <2>2. parts' = <<>> /\ Len(parts') = 0 /\ part' = 0 /\ partOffset' = 0 /\ next' = 1
    BY <2>1 DEF PartsInv
  <2> QED
    BY <2>1, <2>2 DEF PartsInv
<1>2. CASE PlanManifest
  <2>1. /\ pc = "plan" /\ pc' \in {"upload", "refused"}
        /\ UNCHANGED <<next, part, partOffset, parts, records, offset>>
    BY <1>2 DEF PlanManifest, upload, plan
  <2>2. parts' = <<>> /\ Len(parts') = 0 /\ part' = 0 /\ partOffset' = 0 /\ next' = 1
    BY <2>1 DEF PartsInv
  <2>3. Place(1) = 0
    BY PlaceOne
  <2>4. Place(next)' = 0
    BY <2>1, <2>2, <2>3 DEF Place
  <2>5. 0 <= multipartUploadPartSize /\ 0 * s3MinimumPartSize = 0 /\ 1 \in 1 .. Len(records') + 1
    BY <2>1, Numbers, RecordFacts
  <2> QED
    BY <2>1, <2>2, <2>4, <2>5 DEF PartsInv
<1>3. CASE CheckStep \/ ReadStep
  <2>1. UNCHANGED <<parts, offset, manifestSize>>
    BY <1>3 DEF CheckStep, ReadManifest, CheckChunk, CheckFile, CheckSpan, CheckTiling,
                ReadStep, DecryptGroup, ReadDone, input, plan, upload
  <2>2. pc \in {"sent", "validate", "read"} /\ pc' \notin {"estimate", "plan", "upload"}
    BY <1>3 DEF CheckStep, ReadManifest, CheckChunk, CheckFile, CheckSpan, CheckTiling,
                ReadStep, DecryptGroup, ReadDone
  <2>3. TotalSize' = TotalSize
    BY <2>1 DEF TotalSize, DataSize, EncryptedManifestLength
  <2> QED
    BY <2>1, <2>2, <2>3 DEF PartsInv, AcceptsPart, validatePartPlacement, EndOf
<1>4. CASE Idle
  <2>1. UNCHANGED <<pc, parts, offset, manifestSize, next, part, partOffset, records>>
    BY <1>4 DEF Idle, plan, upload
  <2>2. TotalSize' = TotalSize
    BY <2>1 DEF TotalSize, DataSize, EncryptedManifestLength
  <2> QED
    BY <2>1, <2>2 DEF PartsInv, AcceptsPart, validatePartPlacement, EndOf, Place
<1> QED
  BY <1>1, <1>2, <1>3, <1>4, PartsEncryptRecord, PartsSendTrailer, StepCases DEF PlanStep, UploadStep

-----------------------------------------------------------------------------
(* The reader's checks.                                                    *)

\* The manifest is where the data ends.
LEMMA ManifestPlace ==
  ASSUME TypeOK
  PROVE  ManifestOffset = offset
<1>1. /\ offset \in Nat /\ EncryptedManifestLength \in Nat
      /\ TotalSize = offset + EncryptedManifestLength + FooterLength
  BY LayoutFacts
<1> QED
  BY <1>1, Numbers DEF ManifestOffset

\* A bundle that was planned passes the checks of the footer.
LEMMA CheckReadManifest ==
  ASSUME TypeOK, RecordsInv, PlannedInv, CheckInv, ReadManifest
  PROVE  CheckInv'
<1>1. pc = "sent" /\ UNCHANGED <<sizes, records, offset, at, fileIndex, fileSize, spans, expected>>
  BY DEF ReadManifest, input, plan, check, reader
<1>2. at = 1 /\ fileIndex = 1 /\ fileSize = 0 /\ spans = {} /\ expected = 0
  BY <1>1 DEF CheckInv
<1>3. pc' = "validate"
  <2>1. manifestSize \in Nat /\ manifestSize > 0 /\ manifestSize <= MaxManifestBytes
    BY <1>1, BundleAssumption DEF TypeOK, PlannedInv, Planned
  <2>2. EncryptedManifestLength > RecordOverhead /\ EncryptedManifestLength <= MaxManifestBytes + RecordOverhead
    BY <2>1, LayoutFacts, Numbers
  <2>3. FooterLength + EncryptedManifestLength <= TotalSize
    BY LayoutFacts, Numbers
  <2>4. Len(sizes) > 0
    BY SizesFacts
  <2> QED
    BY <2>2, <2>3, <2>4 DEF ReadManifest
<1>4. 1 .. 1 - 1 = {} /\ Len(records) \in Nat /\ 1 \in 1 .. Len(records) + 1 /\ ~(1 > Len(sizes))
  BY RecordFacts, SizesFacts
<1>5. \A i \in 1 .. Len(records) : ~(i < 1) /\ records[i].file >= 1
  <2>1. \A i \in 1 .. Len(records) : records[i].file \in 1 .. Len(sizes)
    BY DEF RecordsInv, RecordOK
  <2> QED
    BY <2>1, RecordFacts, SizesFacts
<1> QED
  BY <1>1, <1>2, <1>3, <1>4, <1>5 DEF CheckInv

\* Neighbouring records of a file continue each other.
LEMMA Continues ==
  ASSUME TypeOK, RecordsInv, NEW i \in 1 .. Len(records), i > 1, records[i - 1].file = records[i].file
  PROVE  records[i].start = records[i - 1].start + records[i - 1].plaintext
<1> DEFINE a == records[i - 1]
           b == records[i]
<1>1. i - 1 \in 1 .. Len(records) /\ i - 1 < i /\ i - (i - 1) = 1 /\ i \in Nat
  BY RecordFacts
<1>2. Follows(a, b, 1)
  BY <1>1 DEF RecordsInv
<1>3. RecordOK(a) /\ RecordOK(b)
  BY <1>1 DEF RecordsInv
<1>4. /\ a.start \in Nat /\ a.offset \in Nat /\ a.plaintext \in Nat /\ a.length \in Nat
      /\ b.start \in Nat /\ b.offset \in Nat /\ b.plaintext \in Nat /\ b.length \in Nat
  BY <1>1, RecordFacts
<1> HIDE DEF a, b
<1>5. /\ b.offset = a.offset + a.length /\ a.length = a.plaintext + RecordOverhead
      /\ b.length = b.plaintext + RecordOverhead
      /\ (b.offset + b.length) - a.offset = b.start + b.plaintext - a.start + 2 * RecordOverhead
  <2>1. a.file = b.file
    BY DEF a, b
  <2> QED
    BY <1>2, <1>3, <2>1 DEF Follows, RecordOK, EndOfRecord
<1>6. PICK p \in Nat, q \in Nat, s \in Nat, t \in Nat, x \in Nat, y \in Nat, v \in Nat :
        /\ p = a.offset /\ q = b.offset /\ s = a.start /\ t = b.start /\ x = a.plaintext
        /\ y = b.plaintext /\ v = RecordOverhead
  BY <1>4, Numbers
<1>7. q = p + (x + v) /\ (q + (y + v)) - p = t + y - s + 2 * v
  BY <1>5, <1>6
<1>8. t = s + x
  BY <1>7
<1> QED
  BY <1>6, <1>8 DEF a, b

\* A chunk passes its checks.
LEMMA CheckCheckChunk ==
  ASSUME TypeOK, RecordsInv, PlannedInv, CheckInv, CheckChunk
  PROVE  CheckInv'
<1> DEFINE c == records[at]
<1>1. /\ pc = "validate" /\ fileIndex <= Len(sizes) /\ at <= Len(records) /\ c.file = fileIndex
      /\ UNCHANGED <<sizes, records, offset, fileIndex, expected>>
  BY DEF CheckChunk, HasChunk, input, plan
<1>2. /\ at \in 1 .. Len(records) + 1 /\ fileIndex >= 1 /\ spans = 1 .. at - 1 /\ expected = 0
      /\ \A i \in 1 .. Len(records) : IF i < at THEN records[i].file <= fileIndex
                                               ELSE records[i].file >= fileIndex
      /\ fileSize = IF at > 1 /\ records[at - 1].file = fileIndex
                    THEN records[at - 1].start + records[at - 1].plaintext ELSE 0
  BY <1>1 DEF CheckInv
<1>3. at \in 1 .. Len(records) /\ at \in Nat /\ Len(records) \in Nat /\ fileIndex \in Nat
  BY <1>1, <1>2, RecordFacts DEF TypeOK
<1>4. RecordOK(c) /\ c.start \in Nat /\ c.plaintext \in Nat /\ EndOfRecord(c) <= ManifestOffset
  BY <1>3, RecordFacts, Places, ManifestPlace DEF RecordsInv
<1>5. /\ spans' = spans \cup {at} /\ fileSize' = fileSize + c.plaintext /\ at' = at + 1 /\ pc' = pc
  <2>1. c.plaintext > 0 /\ c.plaintext <= ChunkSize /\ c.length = c.plaintext + RecordOverhead
    BY <1>4, Numbers DEF RecordOK
  <2> QED
    BY <1>4, <2>1 DEF CheckChunk
<1>6. fileSize = c.start
  <2>1. CASE at > 1 /\ records[at - 1].file = fileIndex
    BY <1>1, <1>2, <1>3, <2>1, Continues
  <2>2. CASE at = 1
    <3>1. c.start = 0
      BY <1>3, <2>2, RecordFacts DEF RecordsInv
    <3> QED
      BY <1>2, <2>2, <3>1
  <2>3. CASE at > 1 /\ records[at - 1].file # fileIndex
    <3>1. at - 1 \in 1 .. Len(records) /\ at - 1 < at /\ at - (at - 1) = 1
      BY <1>3, <2>3
    <3>2. Follows(records[at - 1], c, 1)
      BY <1>3, <3>1 DEF RecordsInv
    <3>3. c.start = 0
      BY <1>1, <2>3, <3>2 DEF Follows
    <3> QED
      BY <1>2, <2>3, <3>3
  <2> QED
    BY <1>3, <2>1, <2>2, <2>3
<1>7. at' \in 1 .. Len(records') + 1 /\ at' > 1 /\ at' - 1 = at
  BY <1>1, <1>3, <1>5
<1>8. spans' = 1 .. at' - 1
  <2>1. 1 .. at = (1 .. at - 1) \cup {at}
    BY <1>3
  <2> QED
    BY <1>2, <1>5, <1>7, <2>1
<1>9. ASSUME NEW i \in 1 .. Len(records)
      PROVE  IF i < at' THEN records[i].file <= fileIndex ELSE records[i].file >= fileIndex
  <2>1. CASE i = at
    BY <1>1, <1>3, <1>5, <2>1
  <2>2. CASE i # at
    <3>1. i < at' <=> i < at
      BY <1>3, <1>5, <2>2
    <3> QED
      BY <1>2, <3>1
  <2> QED
    BY <2>1, <2>2
<1>10. fileSize' = records'[at' - 1].start + records'[at' - 1].plaintext /\ records'[at' - 1].file = fileIndex'
  BY <1>1, <1>5, <1>6, <1>7
<1>11. ~(fileIndex' > Len(sizes'))
  BY <1>1, <1>3, SizesFacts
<1>12. expected' = 0 /\ pc' = "validate" /\ fileIndex' >= 1
  BY <1>1, <1>2, <1>5
<1>13. \A i \in 1 .. Len(records') : IF i < at' THEN records'[i].file <= fileIndex'
                                                ELSE records'[i].file >= fileIndex'
  BY <1>1, <1>9
<1> QED
  BY <1>7, <1>8, <1>10, <1>11, <1>12, <1>13 DEF CheckInv

\* The chunks of a file add up to its size.
LEMMA FileAddsUp ==
  ASSUME TypeOK, RecordsInv, PlannedInv, CheckInv, pc = "validate", fileIndex <= Len(sizes), ~HasChunk
  PROVE  fileSize = sizes[fileIndex] /\ \A i \in 1 .. Len(records) : i >= at => records[i].file > fileIndex
<1>1. /\ at \in 1 .. Len(records) + 1
      /\ \A i \in 1 .. Len(records) : IF i < at THEN records[i].file <= fileIndex
                                               ELSE records[i].file >= fileIndex
      /\ fileSize = IF at > 1 /\ records[at - 1].file = fileIndex
                    THEN records[at - 1].start + records[at - 1].plaintext ELSE 0
  BY DEF CheckInv
<1>2. at \in Nat /\ Len(records) \in Nat /\ fileIndex \in Nat
  BY <1>1, RecordFacts DEF TypeOK
<1>3. \A i \in 1 .. Len(records) : records[i].file \in Nat
  BY RecordFacts
<1>4. \A i, j \in 1 .. Len(records) : i <= j => records[i].file <= records[j].file
  <2>1. TAKE i, j \in 1 .. Len(records)
  <2>2. CASE i = j
    BY <1>3, <2>2
  <2>3. CASE i < j
    BY <2>3 DEF RecordsInv, Follows
  <2> QED
    BY <1>2, <2>2, <2>3
<1>5. ASSUME NEW i \in 1 .. Len(records), i >= at PROVE records[i].file > fileIndex
  <2>1. at \in 1 .. Len(records) /\ at <= Len(records) /\ ~(at < at) /\ at <= i
    BY <1>1, <1>2, <1>5
  <2>2. records[at].file >= fileIndex /\ records[at].file # fileIndex
    BY <1>1, <2>1 DEF HasChunk
  <2>3. records[at].file <= records[i].file
    BY <1>4, <2>1
  <2>4. records[at].file \in Nat /\ records[i].file \in Nat
    BY <1>3, <2>1
  <2> QED
    BY <1>2, <2>2, <2>3, <2>4
<1>6. CASE at > 1 /\ records[at - 1].file = fileIndex
  <2>1. at - 1 \in 1 .. Len(records) /\ at - 1 < at /\ at - (at - 1) = 1
    BY <1>1, <1>2, <1>6
  <2>2. CASE at <= Len(records)
    <3>1. at \in 1 .. Len(records)
      BY <1>1, <1>2, <2>2
    <3>2. Follows(records[at - 1], records[at], 1)
      BY <2>1, <3>1 DEF RecordsInv
    <3>3. records[at].file # records[at - 1].file
      BY <1>6, <2>2 DEF HasChunk
    <3> QED
      BY <1>1, <1>5, <1>6, <3>2, <3>3 DEF Follows
  <2>3. CASE at > Len(records)
    <3>1. at - 1 = Len(records) /\ records # <<>>
      BY <1>1, <1>2, <2>1, <2>3, RecordFacts
    <3>2. records[at - 1].start + records[at - 1].plaintext = sizes[records[at - 1].file]
      BY <3>1 DEF PlannedInv, Planned
    <3> QED
      BY <1>1, <1>5, <1>6, <3>2
  <2> QED
    BY <1>2, <2>2, <2>3
<1>7. CASE ~(at > 1 /\ records[at - 1].file = fileIndex)
  <2>1. ASSUME HasRecord(fileIndex) PROVE FALSE
    <3>1. PICK i \in 1 .. Len(records) : records[i].file = fileIndex
      BY <2>1 DEF HasRecord
    <3>2. i < at
      BY <1>2, <1>3, <1>5, <3>1
    <3>3. at - 1 \in 1 .. Len(records) /\ i <= at - 1 /\ at > 1 /\ at - 1 < at
      BY <1>1, <1>2, <3>2
    <3>4. records[i].file <= records[at - 1].file /\ records[at - 1].file <= fileIndex
          /\ records[at - 1].file \in Nat
      BY <1>1, <1>3, <1>4, <3>3
    <3> QED
      BY <1>2, <1>7, <3>1, <3>3, <3>4
  <2>2. fileIndex \in 1 .. Len(sizes)
    <3>1. fileIndex >= 1
      BY DEF CheckInv
    <3> QED
      BY <1>2, <3>1, SizesFacts
  <2>3. sizes[fileIndex] = 0
    BY <2>1, <2>2 DEF PlannedInv, Planned
  <2> QED
    BY <1>1, <1>5, <1>7, <2>3
<1> QED
  BY <1>6, <1>7

\* A file passes its check, and after the last one its chunks are all taken.
LEMMA CheckCheckFile ==
  ASSUME TypeOK, RecordsInv, PlannedInv, CheckInv, CheckFile
  PROVE  CheckInv'
<1>1. /\ pc = "validate" /\ fileIndex <= Len(sizes) /\ ~HasChunk
      /\ UNCHANGED <<sizes, records, offset, at, spans, expected>>
  BY DEF CheckFile, input, plan
<1>2. fileSize = sizes[fileIndex] /\ \A i \in 1 .. Len(records) : i >= at => records[i].file > fileIndex
  BY <1>1, FileAddsUp
<1>3. fileIndex' = fileIndex + 1 /\ fileSize' = 0 /\ pc' = "validate"
  BY <1>1, <1>2 DEF CheckFile
<1>4. /\ at \in 1 .. Len(records) + 1 /\ spans = 1 .. at - 1 /\ expected = 0 /\ fileIndex >= 1
      /\ \A i \in 1 .. Len(records) : i < at => records[i].file <= fileIndex
  BY <1>1 DEF CheckInv
<1>5. at \in Nat /\ Len(records) \in Nat /\ fileIndex \in Nat /\ Len(sizes) \in Nat
  BY <1>4, RecordFacts, SizesFacts DEF TypeOK
<1>6. \A i \in 1 .. Len(records) : records[i].file \in Nat
  BY RecordFacts
<1>7. \A i \in 1 .. Len(records) : IF i < at THEN records[i].file <= fileIndex + 1
                                             ELSE records[i].file >= fileIndex + 1
  BY <1>2, <1>4, <1>5, <1>6
<1>8. at > 1 => records[at - 1].file # fileIndex + 1
  <2>1. SUFFICES ASSUME at > 1 PROVE records[at - 1].file # fileIndex + 1
    OBVIOUS
  <2>2. at - 1 \in 1 .. Len(records) /\ at - 1 < at
    BY <1>4, <1>5, <2>1
  <2> QED
    BY <1>4, <1>5, <1>6, <2>2
<1>9. ASSUME fileIndex + 1 > Len(sizes) PROVE at = Len(records) + 1
  <2>1. ASSUME at <= Len(records) PROVE FALSE
    <3>1. at \in 1 .. Len(records) /\ at >= at
      BY <1>4, <1>5, <2>1
    <3>2. records[at].file > fileIndex /\ records[at].file \in 1 .. Len(sizes)
      BY <1>2, <3>1 DEF RecordsInv, RecordOK
    <3> QED
      BY <1>5, <1>9, <3>2
  <2> QED
    BY <1>4, <1>5, <2>1
<1>10. ASSUME fileIndex + 1 > Len(sizes)
       PROVE  1 \in 1 .. Len(records) + 1 /\ spans = 1 .. Len(records) /\ expected = Place(1)
  <2>1. at = Len(records) + 1 /\ at - 1 = Len(records) /\ 1 \in 1 .. Len(records) + 1
    BY <1>5, <1>9, <1>10
  <2>2. Place(1) = 0
    BY PlaceOne
  <2> QED
    BY <1>4, <2>1, <2>2
<1>11. Place(1)' = Place(1)
  BY <1>1 DEF Place
<1>12. (fileIndex > Len(sizes) =>
           \E m \in 1 .. Len(records) + 1 : spans = m .. Len(records) /\ expected = Place(m))'
  BY <1>1, <1>3, <1>10, <1>11
<1>13. fileIndex + 1 >= 1
  BY <1>5
<1> QED
  BY <1>1, <1>3, <1>4, <1>7, <1>8, <1>12, <1>13 DEF CheckInv

\* The records are where the next one has to begin.
LEMMA CheckCheckSpan ==
  ASSUME TypeOK, RecordsInv, CheckInv, CheckSpan
  PROVE  CheckInv'
<1>1. /\ pc = "validate" /\ fileIndex > Len(sizes)
      /\ UNCHANGED <<sizes, records, offset, at, fileIndex, fileSize>>
  BY DEF CheckSpan, input, plan
<1>2. PICK i \in spans :
        /\ \A j \in spans : records[i].offset <= records[j].offset
        /\ IF records[i].offset = expected
           THEN expected' = EndOfRecord(records[i]) /\ spans' = spans \ {i} /\ UNCHANGED pc
           ELSE pc' = "invalid" /\ UNCHANGED <<expected, spans>>
  BY DEF CheckSpan
<1>3. PICK m \in 1 .. Len(records) + 1 : spans = m .. Len(records) /\ expected = Place(m)
  BY <1>1 DEF CheckInv
<1>4. Len(records) \in Nat /\ m \in Nat
  BY <1>3, RecordFacts
<1>5. i \in m .. Len(records) /\ i \in 1 .. Len(records) /\ m \in 1 .. Len(records) /\ m \in spans
  BY <1>2, <1>3, <1>4
<1>6. i = m
  <2>1. ASSUME m < i PROVE FALSE
    <3>1. records[m].offset < records[i].offset
      BY <1>5, <2>1 DEF RecordsInv, Follows
    <3>2. records[i].offset <= records[m].offset
      BY <1>2, <1>5
    <3>3. records[m].offset \in Nat /\ records[i].offset \in Nat
      BY <1>5, RecordFacts
    <3> QED
      BY <3>1, <3>2, <3>3
  <2> QED
    BY <1>4, <1>5, <2>1
<1>7. records[m].offset = expected /\ EndOfRecord(records[m]) = Place(m + 1)
  BY <1>3, <1>5, Places
<1>8. expected' = Place(m + 1) /\ spans' = spans \ {m} /\ pc' = "validate"
  BY <1>1, <1>2, <1>6, <1>7
<1>9. spans' = (m + 1) .. Len(records) /\ m + 1 \in 1 .. Len(records) + 1
  BY <1>3, <1>4, <1>5, <1>8
<1>10. Place(m + 1)' = Place(m + 1)
  BY <1>1 DEF Place
<1>11. (\E k \in 1 .. Len(records) + 1 : spans = k .. Len(records) /\ expected = Place(k))'
  BY <1>1, <1>8, <1>9, <1>10
<1>12. ~(fileIndex' <= Len(sizes'))
  <2>1. fileIndex \in Nat /\ Len(sizes) \in Nat
    BY SizesFacts DEF TypeOK
  <2> QED
    BY <1>1, <2>1
<1> QED
  BY <1>1, <1>8, <1>11, <1>12 DEF CheckInv

\* The records end where the manifest begins.
LEMMA CheckCheckTiling ==
  ASSUME TypeOK, RecordsInv, CheckInv, CheckTiling
  PROVE  pc' = "read" /\ CheckInv'
<1>1. pc = "validate" /\ fileIndex > Len(sizes) /\ spans = {}
  BY DEF CheckTiling
<1>2. PICK m \in 1 .. Len(records) + 1 : spans = m .. Len(records) /\ expected = Place(m)
  BY <1>1 DEF CheckInv
<1>3. Len(records) \in Nat
  BY RecordFacts
<1>4. m > Len(records)
  <2>1. ASSUME m <= Len(records) PROVE FALSE
    <3>1. m \in m .. Len(records)
      BY <1>2, <1>3, <2>1
    <3> QED
      BY <1>1, <1>2, <3>1
  <2> QED
    BY <1>2, <1>3, <2>1
<1>5. expected = offset
  BY <1>2, <1>3, <1>4 DEF Place
<1>6. pc' = "read"
  BY <1>5, ManifestPlace DEF CheckTiling
<1> QED
  BY <1>6 DEF CheckInv

\* Every step keeps the checks, and none of them fails.
LEMMA CheckNext ==
  ASSUME BundleInv, [Next]_vars
  PROVE  CheckInv'
<1> TypeOK /\ EstimateInv /\ RecordsInv /\ PlanInv /\ PlannedInv /\ CheckInv
  BY DEF BundleInv
<1>1. CASE PlanStep \/ UploadStep
  <2>1. /\ pc \in {"estimate", "plan", "upload"} /\ pc' \in {"estimate", "plan", "upload", "sent", "refused"}
        /\ UNCHANGED <<at, fileIndex, fileSize, spans, expected>>
    BY <1>1 DEF PlanStep, EstimateFile, CheckLimit, PlanChunk, PlanNextFile, PlanManifest,
                UploadStep, EncryptRecord, SendTrailer, reader, check
  <2> QED
    BY <2>1 DEF CheckInv
<1>2. CASE ReadStep
  <2>1. pc' \in {"read", "done"}
    BY <1>2 DEF ReadStep, DecryptGroup, ReadDone
  <2> QED
    BY <2>1 DEF CheckInv
<1>3. CASE Idle
  <2>1. UNCHANGED <<pc, sizes, records, offset, at, fileIndex, fileSize, spans, expected>>
    BY <1>3 DEF Idle, plan, reader, check
  <2> QED
    BY <2>1 DEF CheckInv, Place
<1> QED
  BY <1>1, <1>2, <1>3, CheckReadManifest, CheckCheckChunk, CheckCheckFile, CheckCheckSpan,
     CheckCheckTiling, StepCases DEF CheckStep

-----------------------------------------------------------------------------
(* The ranges.                                                             *)

\* A group of records, in numbers: its plaintext is within the limit c for
\* groups, and what is added for each record is less than the record.
LEMMA GroupSize ==
  ASSUME NEW d \in Nat, NEW s \in Nat, NEW t \in Nat, NEW x \in Nat, NEW v \in Nat, NEW w \in Nat,
         NEW c \in Nat, v <= w, t = s + d * w, t + x - s <= c
  PROVE  t + x - s + (d + 1) * v <= 2 * c + v
<1>1. d * v <= d * w /\ d * v \in Nat /\ d * w \in Nat
  OBVIOUS
<1>2. (d + 1) * v = d * v + v
  OBVIOUS
<1> QED
  BY <1>1, <1>2

\* The server serves the range of a group.
LEMMA GroupIsServed ==
  ASSUME TypeOK, RecordsInv, NEW i \in 1 .. Len(records), NEW j \in i .. Len(records), Fits(i, j)
  PROVE  /\ EndOfRecord(records[j]) - 1 \in Nat
         /\ ServesRange(records[i].offset, EndOfRecord(records[j]) - 1)
<1> DEFINE a == records[i]
           b == records[j]
<1>1. Len(records) \in Nat /\ i \in Nat /\ j \in Nat /\ j \in 1 .. Len(records) /\ i <= j
  BY RecordFacts
<1>2. /\ a.offset \in Nat /\ b.offset \in Nat /\ EndOfRecord(b) \in Nat /\ b.offset < EndOfRecord(b)
      /\ EndOfRecord(b) <= offset /\ a.length \in Nat /\ a.length <= ChunkSize + RecordOverhead
  BY <1>1, Places
<1>3. TotalSize \in Nat /\ offset \in Nat /\ offset < TotalSize
  BY LayoutFacts
<1>4. a.offset <= b.offset
  <2>1. CASE i = j
    BY <1>2, <2>1
  <2>2. CASE i < j
    <3>1. a.offset < b.offset
      BY <1>1, <2>2 DEF RecordsInv, Follows
    <3> QED
      BY <1>2, <3>1
  <2> QED
    BY <1>1, <2>1, <2>2
<1>5. EndOfRecord(b) - a.offset <= maxRangeBytes
  <2>1. CASE i = j
    <3>1. EndOfRecord(b) - a.offset = a.length
      BY <1>2, <2>1 DEF EndOfRecord
    <3> QED
      BY <1>2, <3>1, LayoutAssumption, Numbers
  <2>2. CASE i < j
    <3>1. PICK d \in Nat : d = j - i
      BY <1>1, <2>2
    <3>2. Follows(a, b, d)
      BY <1>1, <2>2, <3>1 DEF RecordsInv
    <3>3. b.file = a.file /\ b.start + b.plaintext - a.start <= CoalesceBytes
      BY <1>1, <2>2 DEF Fits
    <3>4. /\ b.start = a.start + d * ChunkSize
          /\ EndOfRecord(b) - a.offset = b.start + b.plaintext - a.start + (d + 1) * RecordOverhead
      BY <3>2, <3>3 DEF Follows
    <3>5. a.start \in Nat /\ b.start \in Nat /\ b.plaintext \in Nat
      BY <1>1, RecordFacts
    <3> HIDE DEF a, b
    <3>6. PICK s \in Nat, t \in Nat, x \in Nat, v \in Nat, w \in Nat, c \in Nat :
            /\ s = a.start /\ t = b.start /\ x = b.plaintext /\ v = RecordOverhead
            /\ w = ChunkSize /\ c = CoalesceBytes
      BY <3>5, Numbers
    <3>7. v <= w /\ t = s + d * w /\ t + x - s <= c
      BY <3>3, <3>4, <3>6, LayoutAssumption
    <3>8. t + x - s + (d + 1) * v <= 2 * c + v
      BY <3>7, GroupSize
    <3>9. 2 * c + v <= maxRangeBytes
      BY <3>6, LayoutAssumption
    <3>10. (d + 1) * v \in Nat
      OBVIOUS
    <3>11. t + x - s + (d + 1) * v <= maxRangeBytes
      BY <3>8, <3>9, <3>10, Numbers
    <3> QED
      BY <3>4, <3>6, <3>11
  <2> QED
    BY <1>1, <2>1, <2>2
<1> HIDE DEF a, b
<1>6. EndOfRecord(b) - 1 \in Nat /\ ServesRange(a.offset, EndOfRecord(b) - 1)
  BY <1>2, <1>3, <1>4, <1>5, Numbers DEF ServesRange
<1> QED
  BY <1>6 DEF a, b

\* One more range.
LEMMA RangesDecryptGroup ==
  ASSUME TypeOK, RecordsInv, RangesInv, DecryptGroup
  PROVE  RangesInv'
<1>1. /\ pc = "read" /\ pc' = "read" /\ at <= Len(records)
      /\ UNCHANGED <<sizes, manifestSize, records, offset>>
  BY DEF DecryptGroup, input, plan
<1>2. at \in 1 .. Len(records) /\ Len(records) \in Nat
  BY <1>1, RecordFacts DEF RangesInv
<1>3. PICK g \in at .. Len(records) : g = GroupEnd /\ Fits(at, g)
  BY <1>2, GroupFacts
<1>4. g \in 1 .. Len(records) /\ g \in Nat /\ at \in Nat
  BY <1>2, <1>3
<1>5. EndOfRecord(records[g]) - 1 \in Nat /\ ServesRange(records[at].offset, EndOfRecord(records[g]) - 1)
  BY <1>2, <1>3, GroupIsServed
<1>6. EndOfRecord(records[g]) \in Nat /\ records[at].offset \in Nat
  BY <1>2, <1>4, Places
<1>7. PICK r \in [first : Nat, last : Nat, start : Nat, end : Nat] :
        /\ r.first = at /\ r.last = g /\ r.start = records[at].offset
        /\ r.end = EndOfRecord(records[g]) - 1
        /\ ranges' = Append(ranges, r) /\ at' = g + 1
  <2> DEFINE q == [first |-> at, last |-> g, start |-> records[at].offset,
                   end |-> EndOfRecord(records[g]) - 1]
  <2>1. q \in [first : Nat, last : Nat, start : Nat, end : Nat]
    BY <1>4, <1>5, <1>6
  <2>2. /\ q.first = at /\ q.last = g /\ q.start = records[at].offset
        /\ q.end = EndOfRecord(records[g]) - 1
    OBVIOUS
  <2>3. ranges' = Append(ranges, q) /\ at' = g + 1
    BY <1>3 DEF DecryptGroup, GroupEnd
  <2> HIDE DEF q
  <2> QED
    BY <2>1, <2>2, <2>3
<1>8. RangeOK(r)
  <2>1. r.end + 1 = EndOfRecord(records[g])
    BY <1>6, <1>7
  <2>2. records[g].file = records[at].file
    BY <1>3 DEF Fits
  <2> QED
    BY <1>2, <1>3, <1>5, <1>7, <2>1, <2>2 DEF RangeOK
<1>9. PICK n \in Nat : n = Len(ranges)
  BY DEF TypeOK
<1>10. Len(ranges') = n + 1 /\ ranges'[n + 1] = r /\ \A i \in 1 .. n : ranges'[i] = ranges[i]
  BY <1>7, <1>9, AppendProperties DEF TypeOK
<1>11. ranges' # <<>>
  BY <1>9, <1>10
<1>12. at = IF n = 0 THEN 1 ELSE ranges[n].last + 1
  BY <1>1, <1>9, EmptySeq DEF RangesInv, TypeOK
<1>13. ASSUME NEW i \in 1 .. n + 1
       PROVE  RangeOK(ranges'[i]) /\ ranges'[i].first = IF i = 1 THEN 1 ELSE ranges'[i - 1].last + 1
  <2>1. CASE i \in 1 .. n
    <3>1. RangeOK(ranges[i]) /\ ranges[i].first = IF i = 1 THEN 1 ELSE ranges[i - 1].last + 1
      BY <1>9, <2>1 DEF RangesInv
    <3>2. i # 1 => i - 1 \in 1 .. n
      BY <2>1
    <3> QED
      BY <1>10, <2>1, <3>1, <3>2
  <2>2. CASE i = n + 1
    <3>1. i # 1 => i - 1 = n /\ n \in 1 .. n /\ n # 0
      BY <1>9, <2>2
    <3>2. i = 1 => n = 0
      BY <1>9, <2>2
    <3> QED
      BY <1>7, <1>8, <1>10, <1>12, <2>2, <3>1, <3>2
  <2> QED
    BY <1>9, <2>1, <2>2
<1>14. TotalSize' = TotalSize
  BY <1>1 DEF TotalSize, DataSize, EncryptedManifestLength
<1>15. (\A i \in 1 .. Len(ranges) :
          RangeOK(ranges[i]) /\ ranges[i].first = IF i = 1 THEN 1 ELSE ranges[i - 1].last + 1)'
  BY <1>1, <1>10, <1>13, <1>14 DEF RangeOK, ServesRange, EndOfRecord
<1>16. at' = ranges'[Len(ranges')].last + 1 /\ at' \in 1 .. Len(records') + 1
  BY <1>1, <1>2, <1>4, <1>7, <1>10
<1> QED
  BY <1>1, <1>11, <1>15, <1>16 DEF RangesInv

\* Every step keeps the ranges.
LEMMA RangesNext ==
  ASSUME BundleInv, [Next]_vars
  PROVE  RangesInv'
<1> TypeOK /\ RecordsInv /\ CheckInv /\ RangesInv
  BY DEF BundleInv
<1>1. CASE PlanStep \/ UploadStep \/ ReadManifest \/ CheckChunk \/ CheckFile \/ CheckSpan
  <2>1. pc \notin {"read", "done"} /\ pc' \notin {"read", "done"} /\ UNCHANGED ranges
    BY <1>1 DEF PlanStep, EstimateFile, CheckLimit, PlanChunk, PlanNextFile, PlanManifest,
                UploadStep, EncryptRecord, SendTrailer, ReadManifest, CheckChunk, CheckFile, CheckSpan, reader
  <2>2. ranges' = <<>> /\ Len(ranges') = 0
    BY <2>1 DEF RangesInv
  <2> QED
    BY <2>1, <2>2 DEF RangesInv
<1>2. CASE CheckTiling
  <2>1. pc = "validate" /\ at' = 1 /\ ranges' = ranges /\ records' = records
    BY <1>2 DEF CheckTiling, plan
  <2>2. pc' = "read"
    BY <1>2, CheckCheckTiling
  <2>3. ranges' = <<>> /\ Len(ranges') = 0
    BY <2>1 DEF RangesInv
  <2>4. 1 \in 1 .. Len(records') + 1
    BY <2>1, RecordFacts
  <2> QED
    BY <2>1, <2>2, <2>3, <2>4 DEF RangesInv
<1>3. ASSUME UNCHANGED <<manifestSize, offset, records, at, ranges>>,
             pc' = pc \/ (pc = "read" /\ pc' = "done" /\ at = Len(records) + 1)
      PROVE  RangesInv'
  <2>1. TotalSize' = TotalSize
    BY <1>3 DEF TotalSize, DataSize, EncryptedManifestLength
  <2> QED
    BY <1>3, <2>1 DEF RangesInv, RangeOK, ServesRange, EndOfRecord
<1>4. CASE ReadDone
  <2>1. /\ pc = "read" /\ pc' = "done" /\ at > Len(records)
        /\ UNCHANGED <<manifestSize, offset, records, at, ranges>>
    BY <1>4 DEF ReadDone, input, plan, reader
  <2>2. at = Len(records) + 1
    <3>1. at \in 1 .. Len(records) + 1 /\ Len(records) \in Nat
      BY <2>1, RecordFacts DEF RangesInv
    <3> QED
      BY <2>1, <3>1
  <2> QED
    BY <1>3, <2>1, <2>2
<1>5. CASE Idle
  <2>1. UNCHANGED <<pc, manifestSize, offset, records, at, ranges>>
    BY <1>5 DEF Idle, plan, reader
  <2>2. pc' = pc /\ UNCHANGED <<manifestSize, offset, records, at, ranges>>
    BY <2>1
  <2> QED
    BY <1>3, <2>2
<1> QED
  BY <1>1, <1>2, <1>4, <1>5, RangesDecryptGroup, StepCases DEF CheckStep, ReadStep

-----------------------------------------------------------------------------
(* The invariant and what follows from it.                                 *)

\* The invariant holds initially.
LEMMA BundleInit ==
  ASSUME Init
  PROVE  BundleInv
<1>1. TypeOK /\ EstimateInv
  BY TypeInit, EstimateInit
<1>2. Len(records) = 0 /\ Len(parts) = 0 /\ Len(ranges) = 0
  BY DEF Init
<1>3. RecordsInv
  BY <1>2 DEF Init, RecordsInv
<1>4. PlanInv /\ PlannedInv
  BY DEF Init, PlanInv, PlannedInv, Planned
<1>5. PartsInv
  BY <1>2 DEF Init, PartsInv
<1>6. CheckInv
  BY DEF Init, CheckInv
<1>7. RangesInv
  BY <1>2 DEF Init, RangesInv
<1> QED
  BY <1>1, <1>3, <1>4, <1>5, <1>6, <1>7 DEF BundleInv

\* It holds throughout.
LEMMA BundleInvariant == Spec => []BundleInv
<1>1. Init => BundleInv
  BY BundleInit
<1>2. BundleInv /\ [Next]_vars => BundleInv'
  BY TypeNext, EstimateNext, RecordsNext, PlanNext, PlannedNext, PartsNext, CheckNext, RangesNext
     DEF BundleInv
<1> QED
  BY <1>1, <1>2, PTL DEF Spec

\* The parts are accepted.
LEMMA PartsFollow ==
  ASSUME BundleInv
  PROVE  PartsAreAccepted
<1> TypeOK /\ PartsInv
  BY DEF BundleInv
<1>1. \A n \in 1 .. Len(parts) : AcceptsPart(n, parts[n])
  BY DEF PartsInv
<1>2. ASSUME pc = "sent" PROVE validateUploadParts
  <2>1. parts # <<>> /\ EndOf(parts[Len(parts)]) = TotalSize
    BY <1>2 DEF PartsInv
  <2>2. Len(parts) > 0
    BY <2>1, EmptySeq DEF TypeOK
  <2> QED
    BY <2>1, <2>2 DEF PartsInv, validateUploadParts
<1> QED
  BY <1>1, <1>2 DEF PartsAreAccepted

\* The estimate is enough.
LEMMA EstimateFollows ==
  ASSUME BundleInv
  PROVE  EstimateIsEnough
<1> TypeOK /\ PlannedInv
  BY DEF BundleInv
<1>1. TotalSize \in Nat
  BY LayoutFacts
<1>2. EstimateEncryptedSize \in Nat
  <2>1. plaintext \in Nat /\ chunks \in Nat
    BY DEF TypeOK
  <2>2. chunks * RecordOverhead \in Nat
    BY <2>1, Numbers
  <2> QED
    BY <2>1, <2>2, Numbers DEF EstimateEncryptedSize
<1>3. ASSUME pc \in {"upload", "sent"}
      PROVE  TotalSize <= EstimateEncryptedSize /\ TotalSize <= maxFileSize
  <2>1. TotalSize <= EstimateEncryptedSize /\ EstimateEncryptedSize <= MaxEncryptedUploadBytes
    BY <1>3 DEF PlannedInv, Planned
  <2> QED
    BY <1>1, <1>2, <2>1, LayoutAssumption, Numbers
<1> QED
  BY <1>3 DEF EstimateIsEnough

\* What is asked for is served.
LEMMA FetchedIsServed ==
  ASSUME TypeOK, PlannedInv, RangesInv, pc = "done", NEW r \in Fetched
  PROVE  ServesRange(r[1], r[2])
<1>1. /\ TotalSize \in Nat /\ offset \in Nat /\ EncryptedManifestLength \in Nat
      /\ TotalSize = offset + EncryptedManifestLength + FooterLength
      /\ manifestSize \in Nat /\ EncryptedManifestLength = manifestSize + RecordOverhead
  BY LayoutFacts
<1>2. manifestSize <= MaxManifestBytes
  BY DEF PlannedInv, Planned
<1>3. ASSUME TotalSize <= SmallBundleBytes PROVE ServesRange(0, TotalSize - 1)
  BY <1>1, <1>3, LayoutAssumption, Numbers DEF ServesRange
<1>4. ServesRange(TotalSize - FooterLength, TotalSize - 1)
  BY <1>1, LayoutAssumption, Numbers DEF ServesRange
<1>5. ServesRange(DataSize, DataSize + EncryptedManifestLength - 1)
  BY <1>1, <1>2, LayoutAssumption, Numbers DEF ServesRange, DataSize
<1>6. \A i \in 1 .. Len(ranges) : ServesRange(ranges[i].start, ranges[i].end)
  BY DEF RangesInv, RangeOK
<1> QED
  BY <1>3, <1>4, <1>5, <1>6 DEF Fetched

\* A range holds its records one after the other.
LEMMA RangesAreTiled ==
  ASSUME TypeOK, RecordsInv, NEW f \in 1 .. Len(records), NEW l \in f .. Len(records),
         records[l].file = records[f].file, NEW j \in f .. l
  PROVE  /\ records[j].file = records[f].file
         /\ j # f => records[j].offset = EndOfRecord(records[j - 1])
<1>1. Len(records) \in Nat /\ f \in Nat /\ l \in Nat /\ j \in Nat
  BY RecordFacts
<1>2. j \in 1 .. Len(records) /\ l \in 1 .. Len(records) /\ f <= j /\ j <= l
  BY <1>1
<1>3. \A i, k \in 1 .. Len(records) : i <= k => records[i].file <= records[k].file
  <2>1. TAKE i, k \in 1 .. Len(records)
  <2>2. CASE i = k
    BY <2>2, RecordFacts
  <2>3. CASE i < k
    BY <2>3 DEF RecordsInv, Follows
  <2> QED
    BY <1>1, <2>2, <2>3
<1>4. records[f].file \in Nat /\ records[j].file \in Nat
  BY <1>2, RecordFacts
<1>5. records[j].file = records[f].file
  <2>1. records[f].file <= records[j].file /\ records[j].file <= records[l].file
    BY <1>2, <1>3
  <2> QED
    BY <1>4, <2>1
<1>6. ASSUME j # f PROVE records[j].offset = EndOfRecord(records[j - 1])
  <2>1. j - 1 \in 1 .. Len(records) /\ j - 1 < j /\ j - (j - 1) = 1
    BY <1>1, <1>2, <1>6
  <2>2. Follows(records[j - 1], records[j], 1)
    BY <1>2, <2>1 DEF RecordsInv
  <2> QED
    BY <2>2 DEF Follows
<1> QED
  BY <1>5, <1>6

\* The bundle reads back.
LEMMA ReadsFollow ==
  ASSUME BundleInv
  PROVE  ReadsBack
<1> TypeOK /\ RecordsInv /\ PlannedInv /\ CheckInv /\ RangesInv
  BY DEF BundleInv
<1>1. pc # "invalid"
  BY DEF CheckInv
<1>2. ASSUME NEW i \in 1 .. Len(ranges)
      PROVE  LET r == ranges[i] IN
             /\ r.first = IF i = 1 THEN 1 ELSE ranges[i - 1].last + 1
             /\ r.end + 1 = EndOfRecord(records[r.last])
             /\ \A j \in r.first .. r.last :
                  /\ records[j].file = records[r.first].file
                  /\ records[j].offset = IF j = r.first THEN r.start ELSE EndOfRecord(records[j - 1])
  <2> DEFINE f == ranges[i].first
             l == ranges[i].last
  <2>1. /\ f \in 1 .. Len(records) /\ l \in f .. Len(records) /\ records[l].file = records[f].file
        /\ ranges[i].start = records[f].offset /\ ranges[i].end + 1 = EndOfRecord(records[l])
        /\ f = IF i = 1 THEN 1 ELSE ranges[i - 1].last + 1
    BY DEF RangesInv, RangeOK
  <2>2. ASSUME NEW j \in f .. l
        PROVE  /\ records[j].file = records[f].file
               /\ records[j].offset = IF j = f THEN ranges[i].start ELSE EndOfRecord(records[j - 1])
    BY <2>1, RangesAreTiled
  <2> QED
    BY <2>1, <2>2
<1>3. ASSUME pc = "done"
      PROVE  IF ranges = <<>> THEN records = <<>> ELSE ranges[Len(ranges)].last = Len(records)
  <2>1. at = Len(records) + 1 /\ at = IF ranges = <<>> THEN 1 ELSE ranges[Len(ranges)].last + 1
    BY <1>3 DEF RangesInv
  <2>2. Len(records) \in Nat
    BY RecordFacts
  <2>3. CASE ranges = <<>>
    BY <2>1, <2>2, <2>3, RecordFacts
  <2>4. CASE ranges # <<>>
    <3>1. Len(ranges) \in 1 .. Len(ranges)
      BY <2>4, EmptySeq DEF TypeOK
    <3>2. ranges[Len(ranges)].last \in Nat
      <4>1. ranges[Len(ranges)] \in [first : Nat, last : Nat, start : Nat, end : Nat]
        <5>1. ranges \in Seq([first : Nat, last : Nat, start : Nat, end : Nat])
          BY DEF TypeOK
        <5> QED
          BY <3>1, <5>1, ElementOfSeq
      <4> QED
        BY <4>1
    <3> QED
      BY <2>1, <2>2, <2>4, <3>2
  <2> QED
    BY <2>3, <2>4
<1>4. ASSUME pc = "done" PROVE \A r \in Fetched : ServesRange(r[1], r[2])
  BY <1>4, FetchedIsServed
<1> QED
  BY <1>1, <1>2, <1>3, <1>4 DEF ReadsBack

\* Whatever the files, the server takes every part of the upload as it comes,
\* the last one with the manifest and the footer, and all of them as the layout of the
\* declared blob (upload of share.go, UploadPart and validateUploadParts).
THEOREM PartsFit == Spec => []PartsAreAccepted
<1>1. BundleInv => PartsAreAccepted
  BY PartsFollow
<1> QED
  BY <1>1, BundleInvariant, PTL

\* EstimateEncryptedSize is an upper bound on what NewPlan lays out, and a bundle
\* that passes the client's limit is within the server's.
THEOREM EstimateHolds == Spec => []EstimateIsEnough
<1>1. BundleInv => EstimateIsEnough
  BY EstimateFollows
<1> QED
  BY <1>1, BundleInvariant, PTL

\* The reader accepts every bundle the client uploads: no check of ReadManifest or
\* validate fails, DecryptFile reads every record once and in order, each group of
\* records from its own bytes, and no range is larger than the server serves.
THEOREM BundlesReadBack == Spec => []ReadsBack
<1>1. BundleInv => ReadsBack
  BY ReadsFollow
<1> QED
  BY <1>1, BundleInvariant, PTL
=============================================================================
