--------------------------- MODULE SyncRunProofs ----------------------------
(***************************************************************************)
(* Proofs that the manifest never claims more than was downloaded, and     *)
(* that a file the next sync would skip is not an older version: for any   *)
(* number of files, versions, runs, failures, kills and deletions.         *)
(***************************************************************************)
EXTENDS BulkVerify, FiniteSetTheorems, TLAPS

(* A record of k dated no later than OPAL's file, and no later than the    *)
(* bytes at its path unless they are doubtful or not there, or the path is *)
(* another key's as well.                                                  *)
RecordSound(record, k) ==
  LET content == file[PathOf[k]] IN
  (record # NoRecord /\ record.modified # Nil) =>
    /\ record.modified <= remote[k]
    /\ k \in Unshared =>
         \/ record.unverified
         \/ content \in {Nothing, Torn}
         \/ content \in Download /\ content.key = k /\ content.version >= record.modified

(* The row the crawl read is not ahead of OPAL.                            *)
RowSound(k) ==
  (seen[k] # Absent /\ seen[k].modified # Nil) => seen[k].modified <= remote[k]

Unfinished == {"fetch", "verify", "fetching", "verifying", "writing", "unpacked", "copying"}

(* What the manifest on disk says of k is no newer than version v.         *)
SavedNotNewer(k, v) ==
  (saved # Unreadable /\ saved[k] # NoRecord /\ saved[k].modified # Nil)
    => saved[k].modified <= v

(* A job was made from a row and, to verify, from a record; the bytes it   *)
(* is writing are at least as new as the row and the record.               *)
JobSound(k) ==
  /\ job[k] \in Unfinished => phase # "idle" /\ seen[k] # Absent
  /\ job[k] \in {"verify", "verifying", "unpacked"} => mem[k] # NoRecord
  /\ job[k] \in {"writing", "unpacked", "copying"} =>
       /\ fetched[k] <= remote[k]
       /\ seen[k].modified # Nil => seen[k].modified <= fetched[k]
       /\ SavedNotNewer(k, fetched[k])

CopySound(k) ==
  LET content == file[PathOf[k]] IN
  (k \in Unshared /\ content \in Download /\ content.key = k) => content.version <= remote[k]

KeyInv(k) ==
  /\ saved # Unreadable => RecordSound(saved[k], k)
  /\ RecordSound(mem[k], k)
  /\ RowSound(k)
  /\ JobSound(k)
  /\ CopySound(k)

IInv == TypeOK /\ \A k \in Keys : KeyInv(k)

-----------------------------------------------------------------------------
(* Facts about the data.                                                   *)

LEMMA VersionsAreNumbers == Versions \subseteq Nat /\ 1 \in Versions /\ Nil \notin Versions
BY KeysAssumption, MarksAssumption DEF Versions

LEMMA UnsharedAreKeys == Unshared \subseteq Keys
BY DEF Unshared

(* A row of OPAL's table is a pair of columns, dated with its version if   *)
(* it is dated at all.                                                     *)
LEMMA SignalsOfType ==
  ASSUME NEW v \in Versions, NEW cols
  PROVE  /\ SignalsOf(v, cols) \in Signals
         /\ SignalsOf(v, cols).modified \in {v, Nil}
BY SizeOfAssumption DEF SignalsOf, Signals

LEMMA FailureRecordType ==
  ASSUME NEW r \in Record \cup {NoRecord}
  PROVE  /\ FailureRecord(r) \in Record
         /\ FailureRecord(r).modified = IF r = NoRecord THEN Nil ELSE r.modified
         /\ r # NoRecord => FailureRecord(r).unverified = r.unverified
<1>1. CASE r = NoRecord
  BY <1>1 DEF FailureRecord, Record
<1>2. CASE r # NoRecord
  <2>1. r \in Record
    BY <1>2
  <2> QED
    BY <1>2, <2>1 DEF FailureRecord, Record
<1> QED
  BY <1>1, <1>2

LEMMA SuccessRecordType ==
  ASSUME NEW s \in Signals
  PROVE  SuccessRecord(s) \in Record /\ SuccessRecord(s).modified = s.modified
BY VersionsAreNumbers DEF SuccessRecord, Signals, Record

LEMMA VerifiedRecordType ==
  ASSUME NEW r \in Record
  PROVE  VerifiedRecord(r) \in Record /\ VerifiedRecord(r).modified = r.modified
BY DEF VerifiedRecord, Record

LEMMA CopyType ==
  ASSUME NEW k \in Keys, NEW v \in Versions
  PROVE  /\ Copy(k, v) \in Download /\ Copy(k, v) \in Contents
         /\ Copy(k, v).key = k /\ Copy(k, v).version = v
BY DEF Copy, Download, Contents

LEMMA CountType ==
  ASSUME NEW s \in [downloaded : Nat, skipped : Nat, errors : Nat],
         NEW f \in {"downloaded", "skipped", "errors"}
  PROVE  Count(s, f) \in [downloaded : Nat, skipped : Nat, errors : Nat]
BY DEF Count

LEMMA SubsetCount ==
  ASSUME NEW S \in SUBSET Keys
  PROVE  Cardinality(S) \in Nat
BY KeysAssumption, FS_Subset, FS_CardinalityType

-----------------------------------------------------------------------------
(* The inductive invariant.                                                *)

LEMMA InitEstablishes == Init => IInv
<1> SUFFICES ASSUME Init PROVE IInv
  OBVIOUS
<1>1. MigratedRecord \in Record /\ MigratedRecord.modified = 1 /\ MigratedRecord.unverified
  BY VersionsAreNumbers, SizeOfAssumption DEF MigratedRecord, Record
<1>2. TypeOK
  <2>. HIDE DEF MigratedRecord
  <2>1. saved \in Manifests /\ mem \in Manifests
    BY <1>1 DEF Init, Manifests, NoManifest
  <2>2. file \in [Paths -> Contents]
    BY DEF Init, Contents
  <2>3. remote \in [Keys -> Versions] /\ fetched \in [Keys -> Versions]
    BY VersionsAreNumbers DEF Init
  <2>4. faults \in 0 .. MaxFaults
    BY BoundsAssumption DEF Init
  <2>5. stats \in [downloaded : Nat, skipped : Nat, errors : Nat]
    BY DEF Init, NoStats
  <2>6. /\ phase \in {"idle", "downloading", "saving"} /\ force \in BOOLEAN
        /\ seen \in [Keys -> Signals \cup {Absent}]
        /\ job \in [Keys -> {"none", "fetch", "verify", "fetching", "verifying",
                             "writing", "done", "unpacked", "copying"}]
        /\ cancelled \in {"no", "requested", "heeded"}
    BY DEF Init
  <2> QED
    BY <2>1, <2>2, <2>3, <2>4, <2>5, <2>6 DEF TypeOK
<1>3. ASSUME NEW k \in Keys PROVE KeyInv(k)
  <2>1. saved[k] = NoRecord \/ saved[k] = MigratedRecord
    BY DEF Init
  <2>2. mem[k] = NoRecord /\ seen[k] = Absent /\ job[k] = "none" /\ remote[k] = 1
    BY DEF Init, NoManifest
  <2>3. file[PathOf[k]] \notin Download
    BY PathOfAssumption, MarksAssumption DEF Init
  <2> QED
    BY <1>1, <2>1, <2>2, <2>3
       DEF KeyInv, RecordSound, RowSound, JobSound, CopySound, Unfinished
<1> QED
  BY <1>2, <1>3 DEF IInv

(* The end of a run forgets the run; it only matters what is saved.        *)
LEMMA RunEndsKeeps ==
  ASSUME IInv, RunEnds, UNCHANGED <<remote, file>>, faults' \in 0 .. MaxFaults,
         saved' = saved \/ saved' = mem
  PROVE  IInv'
<1>1. TypeOK'
  BY VersionsAreNumbers DEF IInv, TypeOK, RunEnds, Manifests, NoManifest, NoStats
<1>2. ASSUME NEW k \in Keys PROVE KeyInv(k)'
  <2>1. mem'[k] = NoRecord /\ seen'[k] = Absent /\ job'[k] = "none"
    BY DEF RunEnds, NoManifest
  <2>2. mem # Unreadable
    BY MarksAssumption DEF IInv, TypeOK
  <2> QED
    BY <2>1, <2>2
       DEF IInv, KeyInv, RecordSound, RowSound, JobSound, CopySound, Unfinished
<1> QED
  BY <1>1, <1>2 DEF IInv

(* A run starts with the manifest it loaded and the rows it crawled.       *)
LEMMA CompareKeeps ==
  ASSUME IInv, NEW forced \in BOOLEAN, NEW cols \in [Keys -> Columns],
         NEW reported \in [Keys -> Signals \cup {Absent}],
         \A k \in Keys : reported[k] \in {Absent, SignalsOf(remote[k], cols[k])},
         NEW unmakeable \in SUBSET Keys,
         Compare(forced, reported, unmakeable), faults' \in 0 .. MaxFaults
  PROVE  IInv'
<1>. DEFINE verdict == [k \in Keys |->
               IF reported[k] = Absent THEN "none"
               ELSE Verdict(forced, reported[k], saved[k], file[PathOf[k]])]
            wanted == {k \in Keys : verdict[k] \in {"fetch", "verify"}}
            resting == {k \in Keys : verdict[k] \in {"backoff", "skip"}}
<1>1. /\ saved # Unreadable /\ phase' = "downloading" /\ force' = forced
      /\ seen' = reported /\ mem' = saved
      /\ job' = [k \in Keys |-> IF k \in wanted \ unmakeable THEN verdict[k] ELSE "none"]
      /\ stats' = [downloaded |-> 0, skipped |-> Cardinality(resting),
                   errors |-> Cardinality(wanted \cap unmakeable)]
      /\ UNCHANGED <<remote, file, saved, fetched, cancelled>>
  BY Zenon DEF Compare
<1>2. Cardinality(resting) \in Nat /\ Cardinality(wanted \cap unmakeable) \in Nat
  BY SubsetCount
<1>3. \A k \in Keys : job'[k] \in {"none", "fetch", "verify"}
  BY <1>1
<1>4. ASSUME NEW k \in Keys, job'[k] \in {"fetch", "verify"}
      PROVE  reported[k] # Absent /\ job'[k] = Verdict(forced, reported[k], saved[k], file[PathOf[k]])
  BY <1>1, <1>4
<1>5. ASSUME NEW k \in Keys, job'[k] = "verify" PROVE saved[k] # NoRecord
  BY <1>4, <1>5 DEF Verdict, FileChanged
<1>6. TypeOK'
  <2>. HIDE DEF verdict, wanted, resting
  <2>1. job' \in [Keys -> {"none", "fetch", "verify", "fetching", "verifying", "writing", "done",
                     "unpacked", "copying"}]
    BY <1>1, <1>3
  <2>2. stats' \in [downloaded : Nat, skipped : Nat, errors : Nat]
    BY <1>1, <1>2
  <2> QED
    BY <1>1, <2>1, <2>2 DEF IInv, TypeOK
<1>7. ASSUME NEW k \in Keys PROVE KeyInv(k)'
  <2>. HIDE DEF verdict, wanted, resting
  <2>1. RowSound(k)'
    <3>1. remote[k] \in Versions
      BY DEF IInv, TypeOK
    <3>2. reported[k] = Absent \/ reported[k].modified \in {remote[k], Nil}
      BY <3>1, SignalsOfType
    <3>3. remote[k] \in Nat
      BY <3>1, VersionsAreNumbers
    <3>4. remote[k] <= remote[k]
      BY <3>3
    <3> QED
      BY <1>1, <3>2, <3>4 DEF RowSound
  <2>2. JobSound(k)'
    BY <1>1, <1>3, <1>4, <1>5 DEF JobSound, Unfinished
  <2>3. CopySound(k)' /\ RecordSound(saved[k], k)'
    BY <1>1 DEF IInv, KeyInv, CopySound, RecordSound
  <2>4. RecordSound(mem[k], k)'
    BY <1>1, <2>3 DEF RecordSound
  <2> QED
    BY <2>1, <2>2, <2>3, <2>4 DEF KeyInv, RecordSound
<1> QED
  BY <1>6, <1>7 DEF IInv

(* Of the keys with paths of their own, only k can see its file change.    *)
FileChangesAt(k) ==
  /\ file' \in [Paths -> Contents]
  /\ \A l \in Unshared \ {k} : file'[PathOf[l]] = file[PathOf[l]]

LEMMA WrittenAtOnePath ==
  ASSUME TypeOK, NEW k \in Keys, NEW c \in Contents,
         file' = [file EXCEPT ![PathOf[k]] = c]
  PROVE  FileChangesAt(k) /\ file'[PathOf[k]] = c
BY PathOfAssumption DEF Unshared, TypeOK, FileChangesAt

LEMMA UnwrittenAnywhere ==
  ASSUME TypeOK, NEW k \in Keys, UNCHANGED file
  PROVE  FileChangesAt(k) /\ file'[PathOf[k]] = file[PathOf[k]]
BY DEF TypeOK, FileChangesAt

(* What a step that concerns k leaves of the invariant of the other keys.  *)
LEMMA OthersKeep ==
  ASSUME NEW k \in Keys, NEW l \in Keys \ {k}, KeyInv(l), FileChangesAt(k),
         \/ saved' \in {saved, Unreadable}
         \/ saved # Unreadable /\ saved'[l] = saved[l],
         mem'[l] = mem[l], seen'[l] = seen[l], job'[l] = job[l],
         fetched'[l] = fetched[l], remote'[l] = remote[l], phase' = phase
  PROVE  KeyInv(l)'
BY DEF KeyInv, RecordSound, RowSound, JobSound, SavedNotNewer, CopySound, FileChangesAt

(* The draining goroutine records the result of k.                         *)
LEMMA ResultKeeps ==
  ASSUME IInv, NEW k \in Keys, NEW record \in Record,
         NEW field \in {"downloaded", "skipped", "errors"},
         Result(k, record, field), FileChangesAt(k), faults' \in 0 .. MaxFaults,
         CopySound(k)', RecordSound(record, k)',
         saved # Unreadable => RecordSound(saved[k], k)'
  PROVE  IInv'
<1>1. /\ job' = [job EXCEPT ![k] = "done"] /\ mem' = [mem EXCEPT ![k] = record]
      /\ stats' = Count(stats, field)
      /\ UNCHANGED <<remote, saved, phase, force, seen, fetched, cancelled>>
  BY DEF Result
<1>2. TypeOK'
  <2>1. mem' \in Manifests
    BY <1>1 DEF IInv, TypeOK, Manifests
  <2>2. stats' \in [downloaded : Nat, skipped : Nat, errors : Nat]
    BY <1>1, CountType DEF IInv, TypeOK
  <2> QED
    BY <1>1, <2>1, <2>2 DEF IInv, TypeOK, FileChangesAt
<1>3. ASSUME NEW l \in Keys PROVE KeyInv(l)'
  <2>1. job'[k] = "done" /\ mem'[k] = record
    BY <1>1 DEF IInv, TypeOK, Manifests
  <2>2. CASE l = k
    <3>1. RowSound(k)'
      BY <1>1 DEF IInv, KeyInv, RowSound
    <3>2. JobSound(k)'
      BY <2>1 DEF JobSound, Unfinished
    <3> QED
      BY <1>1, <2>1, <2>2, <3>1, <3>2 DEF KeyInv, RecordSound
  <2>3. CASE l # k
    <3>1. mem'[l] = mem[l] /\ job'[l] = job[l]
      BY <1>1, <2>3 DEF IInv, TypeOK, Manifests
    <3> QED
      BY <1>1, <2>3, <3>1, OthersKeep DEF IInv
  <2> QED
    BY <2>2, <2>3
<1> QED
  BY <1>2, <1>3 DEF IInv

(* A failure leaves the record's date and its doubts as they were.         *)
LEMMA FailedKeeps ==
  ASSUME IInv, NEW k \in Keys, Failed(k), UNCHANGED file, faults' \in 0 .. MaxFaults
  PROVE  IInv'
<1>. PICK record : record = FailureRecord(mem[k])
  OBVIOUS
<1>1. mem[k] \in Record \cup {NoRecord}
  BY DEF IInv, TypeOK, Manifests
<1>2. /\ record \in Record
      /\ record.modified = IF mem[k] = NoRecord THEN Nil ELSE mem[k].modified
      /\ mem[k] # NoRecord => record.unverified = mem[k].unverified
  BY <1>1, FailureRecordType
<1>3. Result(k, record, "errors")
  BY DEF Failed
<1>4. UNCHANGED <<remote, saved>>
  BY <1>3 DEF Result
<1>5. RecordSound(record, k)'
  BY <1>2, <1>4 DEF IInv, KeyInv, RecordSound
<1>6. CopySound(k)' /\ (saved # Unreadable => RecordSound(saved[k], k)')
  BY <1>4 DEF IInv, KeyInv, CopySound, RecordSound
<1>7. FileChangesAt(k)
  BY UnwrittenAnywhere DEF IInv
<1> QED
  BY <1>2, <1>3, <1>5, <1>6, <1>7, ResultKeeps

(* Version v of k comes to lie at its path, and what is recorded is dated  *)
(* no later.                                                               *)
LEMMA ReplacedKeeps ==
  ASSUME IInv, NEW k \in Keys, NEW record \in Record, NEW v \in Versions,
         Result(k, record, "downloaded"),
         record.modified # Nil => record.modified <= v, v <= remote[k],
         SavedNotNewer(k, v),
         file' = [file EXCEPT ![PathOf[k]] = Copy(k, v)], faults' \in 0 .. MaxFaults
  PROVE  IInv'
<1>1. UNCHANGED <<remote, saved>>
  BY DEF Result
<1>2. FileChangesAt(k) /\ file'[PathOf[k]] = Copy(k, v)
  BY CopyType, WrittenAtOnePath DEF IInv
<1>3. CopySound(k)'
  BY <1>1, <1>2, CopyType DEF CopySound
<1>4. RecordSound(record, k)'
  <2>1. record.modified # Nil => record.modified <= remote[k] /\ v >= record.modified
    <3>1. v \in Nat /\ remote[k] \in Nat /\ (record.modified # Nil => record.modified \in Nat)
      BY VersionsAreNumbers DEF IInv, TypeOK, Record
    <3> QED
      BY <3>1
  <2> QED
    BY <1>1, <1>2, <2>1, CopyType DEF RecordSound
<1>5. saved # Unreadable => RecordSound(saved[k], k)'
  BY <1>1, <1>2, CopyType DEF IInv, KeyInv, RecordSound, SavedNotNewer
<1> QED
  BY <1>2, <1>3, <1>4, <1>5, ResultKeeps

(* A completed download: the bytes are at least as new as the row whose    *)
(* date is recorded, and as any record before.                             *)
LEMMA FetchedKeeps ==
  ASSUME IInv, NEW k \in Keys, Fetched(k), NEW v \in Versions,
         v <= remote[k], seen[k] \in Signals,
         seen[k].modified # Nil => seen[k].modified <= v,
         SavedNotNewer(k, v),
         file' = [file EXCEPT ![PathOf[k]] = Copy(k, v)], faults' \in 0 .. MaxFaults
  PROVE  IInv'
<1>. PICK record : record = SuccessRecord(seen[k])
  OBVIOUS
<1>1. record \in Record /\ record.modified = seen[k].modified
  BY SuccessRecordType
<1>2. Result(k, record, "downloaded")
  BY DEF Fetched
<1> QED
  BY <1>1, <1>2, ReplacedKeeps

(* DownloadFile truncates the target of k to write what OPAL has now.      *)
LEMMA OverwriteKeeps ==
  ASSUME IInv, NEW k \in Keys, job[k] \in {"fetching", "verifying"},
         job' = [job EXCEPT ![k] = "writing"],
         file' = [file EXCEPT ![PathOf[k]] = Torn],
         fetched' = [fetched EXCEPT ![k] = remote[k]],
         UNCHANGED <<remote, saved, phase, force, seen, mem, stats, cancelled>>,
         faults' \in 0 .. MaxFaults
  PROVE  IInv'
<1>1. FileChangesAt(k) /\ file'[PathOf[k]] = Torn
  BY WrittenAtOnePath DEF IInv, Contents
<1>2. TypeOK'
  BY <1>1 DEF IInv, TypeOK, FileChangesAt
<1>3. ASSUME NEW l \in Keys PROVE KeyInv(l)'
  <2>1. CASE l = k
    <3>1. job'[k] = "writing" /\ fetched'[k] = remote[k] /\ remote[k] \in Nat
      BY VersionsAreNumbers DEF IInv, TypeOK
    <3>2. JobSound(k)'
      BY <3>1 DEF IInv, KeyInv, JobSound, Unfinished, RowSound, RecordSound, SavedNotNewer
    <3>3. RowSound(k)'
      BY DEF IInv, KeyInv, RowSound
    <3>4. CopySound(k)'
      BY <1>1, MarksAssumption DEF CopySound
    <3>5. (saved # Unreadable => RecordSound(saved[k], k))' /\ RecordSound(mem[k], k)'
      BY <1>1 DEF IInv, KeyInv, RecordSound
    <3> QED
      BY <2>1, <3>2, <3>3, <3>4, <3>5 DEF KeyInv
  <2>2. CASE l # k
    <3>1. job'[l] = job[l] /\ fetched'[l] = fetched[l]
      BY <2>2 DEF IInv, TypeOK
    <3> QED
      BY <1>1, <2>2, <3>1, OthersKeep DEF IInv
  <2> QED
    BY <2>1, <2>2
<1> QED
  BY <1>2, <1>3 DEF IInv

LEMMA FaultType == IInv /\ (Fault \/ UNCHANGED faults) => faults' \in 0 .. MaxFaults
BY BoundsAssumption DEF IInv, TypeOK, Fault

(* The steps of a job.                                                     *)
LEMMA JobStepKeeps ==
  ASSUME IInv, NEW k \in Keys, JobStep(k)
  PROVE  IInv'
<1>1. CASE Start(k)
  <2>1. TypeOK'
    BY <1>1 DEF Start, IInv, TypeOK
  <2>2. ASSUME NEW l \in Keys PROVE KeyInv(l)'
    BY <1>1 DEF Start, IInv, TypeOK, KeyInv, RecordSound, RowSound, JobSound,
                SavedNotNewer, CopySound, Unfinished
  <2> QED
    BY <2>1, <2>2 DEF IInv
<1>2. CASE FetchFails(k)
  BY <1>2, FailedKeeps, FaultType DEF FetchFails
<1>3. CASE WriteBegin(k)
  BY <1>3, OverwriteKeeps, FaultType DEF WriteBegin
<1>4. CASE WriteEnd(k)
  <2>1. job[k] = "writing" /\ fetched[k] \in Versions /\ faults' \in 0 .. MaxFaults
    BY <1>4, FaultType DEF WriteEnd, IInv, TypeOK
  <2>2. seen[k] \in Signals /\ fetched[k] <= remote[k] /\ SavedNotNewer(k, fetched[k])
        /\ (seen[k].modified # Nil => seen[k].modified <= fetched[k])
    BY <2>1 DEF IInv, KeyInv, JobSound, Unfinished, TypeOK
  <2> QED
    BY <1>4, <2>1, <2>2, FetchedKeeps DEF WriteEnd
<1>5. CASE WriteFails(k)
  BY <1>5, FailedKeeps, FaultType DEF WriteFails
<1>6. CASE VerifyUnchanged(k)
  <2>1. PICK record : record = VerifiedRecord(mem[k])
    OBVIOUS
  <2>2. Result(k, record, "skipped") /\ UNCHANGED <<file, faults>>
        /\ file[PathOf[k]] = Copy(k, remote[k]) /\ job[k] = "verifying"
    BY <1>6, <2>1 DEF VerifyUnchanged, IdenticalOnDisk
  <2>3. mem[k] \in Record /\ remote[k] \in Versions
    BY <2>2 DEF IInv, KeyInv, JobSound, TypeOK, Manifests
  <2>4. record \in Record /\ record.modified = mem[k].modified
    BY <2>1, <2>3, VerifiedRecordType
  <2>5. UNCHANGED <<remote, saved>>
    BY <2>2 DEF Result
  <2>6. mem[k] # NoRecord
    BY <2>3, MarksAssumption
  <2>7. record.modified # Nil => record.modified <= remote[k]
    BY <2>4, <2>6 DEF IInv, KeyInv, RecordSound
  <2>8. record.modified # Nil => remote[k] >= record.modified
    BY <2>3, <2>4, <2>7, VersionsAreNumbers DEF Record
  <2>9. RecordSound(record, k)'
    BY <2>2, <2>3, <2>5, <2>7, <2>8, CopyType DEF RecordSound
  <2>10. CopySound(k)' /\ (saved # Unreadable => RecordSound(saved[k], k)')
    BY <2>2, <2>5 DEF IInv, KeyInv, CopySound, RecordSound
  <2>11. FileChangesAt(k) /\ faults' \in 0 .. MaxFaults
    BY <2>2, UnwrittenAnywhere, FaultType DEF IInv
  <2> QED
    BY <2>2, <2>4, <2>9, <2>10, <2>11, ResultKeeps
<1>7. CASE VerifyReplaces(k)
  <2>1. job[k] = "verifying" /\ remote[k] \in Versions /\ faults' \in 0 .. MaxFaults
    BY <1>7, FaultType DEF VerifyReplaces, IInv, TypeOK
  <2>2. remote[k] <= remote[k]
    <3>1. remote[k] \in Nat
      BY <2>1, VersionsAreNumbers
    <3> QED
      BY <3>1
  <2>3. seen[k] \in Signals /\ (seen[k].modified # Nil => seen[k].modified <= remote[k])
    BY <2>1 DEF IInv, KeyInv, JobSound, RowSound, Unfinished, TypeOK
  <2>4. SavedNotNewer(k, remote[k])
    BY DEF IInv, KeyInv, RecordSound, SavedNotNewer
  <2> QED
    BY <1>7, <2>1, <2>2, <2>3, <2>4, FetchedKeeps DEF VerifyReplaces
<1>8. CASE VerifyOverwrites(k)
  BY <1>8, OverwriteKeeps, FaultType DEF VerifyOverwrites
<1> QED
  BY <1>1, <1>2, <1>3, <1>4, <1>5, <1>6, <1>7, <1>8 DEF JobStep

(* A run starts, whole, missing a file or unable to make its directory.    *)
LEMMA RunStartsKeeps ==
  ASSUME IInv, RunStarts
  PROVE  IInv'
<1>1. CASE RunRefused
  BY <1>1 DEF RunRefused, vars, run, IInv, TypeOK, KeyInv, RecordSound, RowSound,
              JobSound, SavedNotNewer, CopySound
<1>2. ASSUME NEW forced \in BOOLEAN, NEW cols \in [Keys -> Columns],
             \/ Run(forced, cols)
             \/ \E k \in Keys : RunMissing(forced, cols, k) \/ RunBlocked(forced, cols, k)
      PROVE  IInv'
  <2>. DEFINE rows == Reported(cols)
  <2>1. rows \in [Keys -> Signals] /\ \A k \in Keys : rows[k] = SignalsOf(remote[k], cols[k])
    BY SignalsOfType DEF Reported, IInv, TypeOK
  <2>2. faults' \in 0 .. MaxFaults
    BY <1>2, FaultType DEF Run, RunMissing, RunBlocked
  <2>3. CASE Run(forced, cols)
    <3>1. Compare(forced, rows, {})
      BY <2>3 DEF Run
    <3>. HIDE DEF rows
    <3> QED
      BY <2>1, <2>2, <3>1, CompareKeeps
  <2>4. ASSUME NEW k \in Keys, RunMissing(forced, cols, k) PROVE IInv'
    <3>. DEFINE partial == [rows EXCEPT ![k] = Absent]
    <3>1. Compare(forced, partial, {})
      BY <2>4 DEF RunMissing
    <3>. HIDE DEF rows
    <3>2. /\ partial \in [Keys -> Signals \cup {Absent}]
          /\ \A l \in Keys : partial[l] \in {Absent, SignalsOf(remote[l], cols[l])}
      BY <2>1
    <3>. HIDE DEF partial
    <3> QED
      BY <2>2, <3>1, <3>2, CompareKeeps
  <2>5. ASSUME NEW k \in Keys, RunBlocked(forced, cols, k) PROVE IInv'
    <3>1. Compare(forced, rows, {k})
      BY <2>5 DEF RunBlocked
    <3>. HIDE DEF rows
    <3> QED
      BY <2>1, <2>2, <3>1, CompareKeeps
  <2> QED
    BY <1>2, <2>3, <2>4, <2>5
<1> QED
  BY <1>1, <1>2 DEF RunStarts

(* OPAL publishes a new version of k.                                      *)
LEMMA RemoteChangeKeeps ==
  ASSUME IInv, NEW k \in Keys, RemoteChange(k)
  PROVE  IInv'
<1>1. /\ remote[k] < MaxVersion /\ remote' = [remote EXCEPT ![k] = remote[k] + 1]
      /\ UNCHANGED <<file, saved, phase, force, seen, mem, job, fetched, stats,
                     cancelled, faults>>
  BY DEF RemoteChange, run
<1>2. remote[k] \in Nat /\ remote[k] + 1 \in Versions
  BY <1>1, KeysAssumption DEF IInv, TypeOK, Versions
<1>3. TypeOK'
  BY <1>1, <1>2 DEF IInv, TypeOK
<1>4. ASSUME NEW l \in Keys PROVE KeyInv(l)'
  <2>1. remote[l] \in Nat /\ remote'[l] \in Nat /\ remote[l] <= remote'[l]
    <3>1. remote[l] \in Nat
      BY VersionsAreNumbers DEF IInv, TypeOK
    <3>2. remote'[l] = IF l = k THEN remote[l] + 1 ELSE remote[l]
      BY <1>1 DEF IInv, TypeOK
    <3> QED
      BY <3>1, <3>2
  <2>2. ASSUME NEW v \in Nat, v <= remote[l] PROVE v <= remote'[l]
    BY <2>1, <2>2
  <2>3. ASSUME NEW r, r \in Record \cup {NoRecord}, RecordSound(r, l) PROVE RecordSound(r, l)'
    <3>1. CASE r = NoRecord
      BY <3>1 DEF RecordSound
    <3>2. CASE r # NoRecord
      <4>1. r.modified = Nil \/ r.modified \in Nat
        BY <2>3, <3>2, VersionsAreNumbers DEF Record
      <4> QED
        BY <1>1, <2>2, <2>3, <4>1 DEF RecordSound
    <3> QED
      BY <3>1, <3>2
  <2>4. (saved # Unreadable => RecordSound(saved[l], l))' /\ RecordSound(mem[l], l)'
    <3>1. saved' = saved /\ mem' = mem /\ mem[l] \in Record \cup {NoRecord}
          /\ (saved # Unreadable => saved[l] \in Record \cup {NoRecord})
      BY <1>1 DEF IInv, TypeOK, Manifests
    <3> QED
      BY <2>3, <3>1 DEF IInv, KeyInv, RecordSound
  <2>5. RowSound(l)'
    <3>1. seen[l] = Absent \/ seen[l].modified = Nil \/ seen[l].modified \in Nat
      BY VersionsAreNumbers DEF IInv, TypeOK, Signals
    <3> QED
      BY <1>1, <2>2, <3>1 DEF IInv, KeyInv, RowSound
  <2>6. JobSound(l)'
    <3>1. fetched[l] \in Nat
      BY VersionsAreNumbers DEF IInv, TypeOK
    <3> QED
      BY <1>1, <2>2, <3>1 DEF IInv, KeyInv, JobSound, SavedNotNewer
  <2>7. CopySound(l)'
    <3>1. file[PathOf[l]] \in Download => file[PathOf[l]].version \in Nat
      BY VersionsAreNumbers DEF Download
    <3> QED
      BY <1>1, <2>2, <3>1 DEF IInv, KeyInv, CopySound
  <2> QED
    BY <2>4, <2>5, <2>6, <2>7 DEF KeyInv
<1> QED
  BY <1>3, <1>4 DEF IInv

(* The user deletes the file of k.                                         *)
LEMMA UserDeleteKeeps ==
  ASSUME IInv, NEW k \in Keys, UserDelete(k)
  PROVE  IInv'
<1>1. /\ file' = [file EXCEPT ![PathOf[k]] = Nothing] /\ faults' \in 0 .. MaxFaults
      /\ UNCHANGED <<remote, saved, phase, force, seen, mem, job, fetched, stats, cancelled>>
  BY FaultType DEF UserDelete, run
<1>2. FileChangesAt(k) /\ file'[PathOf[k]] = Nothing
  BY <1>1, WrittenAtOnePath DEF IInv, Contents
<1>3. TypeOK'
  BY <1>1, <1>2 DEF IInv, TypeOK, FileChangesAt
<1>4. ASSUME NEW l \in Keys PROVE KeyInv(l)'
  <2>1. CASE l = k
    <3>1. CopySound(k)'
      BY <1>2, MarksAssumption DEF CopySound
    <3> QED
      BY <1>1, <1>2, <2>1, <3>1
         DEF IInv, KeyInv, RecordSound, RowSound, JobSound, SavedNotNewer
  <2>2. CASE l # k
    BY <1>1, <1>2, <2>2, OthersKeep DEF IInv
  <2> QED
    BY <2>1, <2>2
<1> QED
  BY <1>3, <1>4 DEF IInv

(* A backoff ends: the record is otherwise as it was.                      *)
LEMMA ElapseKeeps ==
  ASSUME IInv, NEW k \in Keys, Elapse(k)
  PROVE  IInv'
<1>1. /\ saved # Unreadable /\ phase = "idle" /\ saved[k] # NoRecord
      /\ saved' = [saved EXCEPT ![k] = [saved[k] EXCEPT !.resting = FALSE]]
      /\ UNCHANGED <<remote, file, phase, force, seen, mem, job, fetched, stats,
                     cancelled, faults>>
  BY DEF Elapse, BacksOff, run
<1>2. saved \in Manifests /\ saved[k] \in Record
  BY <1>1 DEF IInv, TypeOK, Manifests
<1>3. /\ saved'[k] \in Record /\ saved'[k].modified = saved[k].modified
      /\ saved'[k].unverified = saved[k].unverified
      /\ \A l \in Keys \ {k} : saved'[l] = saved[l]
  BY <1>1, <1>2 DEF Manifests, Record
<1>4. saved' \in Manifests
  BY <1>1, <1>2, <1>3 DEF Manifests
<1>5. TypeOK'
  BY <1>1, <1>4 DEF IInv, TypeOK
<1>6. ASSUME NEW l \in Keys PROVE KeyInv(l)'
  <2>1. RecordSound(saved[l], l)'
    BY <1>1, <1>2, <1>3 DEF IInv, KeyInv, RecordSound
  <2>2. JobSound(l)'
    BY <1>1 DEF IInv, KeyInv, JobSound, Unfinished
  <2> QED
    BY <1>1, <2>1, <2>2 DEF IInv, KeyInv, RecordSound, RowSound, CopySound
<1> QED
  BY <1>5, <1>6 DEF IInv

LEMMA StepPreserves ==
  ASSUME IInv, [Next]_vars
  PROVE  IInv'
<1>1. CASE RunStarts
  BY <1>1, RunStartsKeeps
<1>2. ASSUME NEW k \in Keys, JobStep(k) PROVE IInv'
  BY <1>2, JobStepKeeps
<1>3. ASSUME NEW k \in Keys, RemoteChange(k) PROVE IInv'
  BY <1>3, RemoteChangeKeeps
<1>4. ASSUME NEW k \in Keys, UserDelete(k) PROVE IInv'
  BY <1>4, UserDeleteKeeps
<1>5. ASSUME NEW k \in Keys, Elapse(k) PROVE IInv'
  BY <1>5, ElapseKeeps
<1>6. CASE SaveBegin
  <2>1. \A k \in Keys : job[k] # "writing"
    BY <1>6 DEF SaveBegin, Drained, InFlight
  <2>2. TypeOK'
    BY <1>6 DEF SaveBegin, IInv, TypeOK
  <2> QED
    BY <1>6, <2>1, <2>2 DEF SaveBegin, IInv, KeyInv, RecordSound, RowSound,
                            JobSound, SavedNotNewer, CopySound
<1>7. CASE SaveEnd
  BY <1>7, RunEndsKeeps, FaultType DEF SaveEnd
<1>8. CASE SaveRefused
  BY <1>8, RunEndsKeeps, FaultType DEF SaveRefused
<1>9. CASE Cancel
  BY <1>9, FaultType DEF Cancel, IInv, TypeOK, KeyInv, RecordSound, RowSound, JobSound,
                         SavedNotNewer, CopySound
<1>10. CASE Kill
  BY <1>10, RunEndsKeeps, FaultType DEF Kill
<1>11. CASE UNCHANGED vars
  BY <1>11 DEF vars, run, IInv, TypeOK, KeyInv, RecordSound, RowSound, JobSound,
               SavedNotNewer, CopySound
<1> QED
  BY <1>1, <1>2, <1>3, <1>4, <1>5, <1>6, <1>7, <1>8, <1>9, <1>10, <1>11 DEF Next

LEMMA InductiveInvariant == Spec => []IInv
<1>1. IInv /\ [Next]_vars => IInv'
  BY StepPreserves
<1> QED
  BY InitEstablishes, <1>1, PTL DEF Spec

-----------------------------------------------------------------------------
(* What follows from it.                                                   *)

LEMMA RecordsFollow == IInv => RecordNotAheadOfFile
BY UnsharedAreKeys DEF IInv, KeyInv, RecordSound, RecordNotAheadOfFile

(* A skip means that the date matches, and a matching date that nothing is *)
(* in doubt means that the bytes are OPAL's.                               *)
LEMMA SkipsFollow == IInv => NeverSilentlyOlder
<1> SUFFICES ASSUME IInv, NEW k \in Keys, k \in Unshared, TakenForCurrent(k)
             PROVE  file[PathOf[k]] \in {Copy(k, remote[k]), Torn}
  BY DEF NeverSilentlyOlder, Unshared
<1>. DEFINE row == SignalsOf(remote[k], {"size", "modified"})
            content == file[PathOf[k]]
<1>1. row.modified = remote[k] /\ remote[k] \in Nat /\ remote[k] # Nil
  BY VersionsAreNumbers, MarksAssumption DEF SignalsOf, IInv, TypeOK
<1>2. /\ saved # Unreadable /\ ~FileChanged(row, saved[k])
      /\ content # Nothing /\ ~NeedsContentVerification(row, saved[k])
  BY DEF TakenForCurrent, Verdict
<1>3. saved[k] # NoRecord /\ saved[k].modified = remote[k] /\ ~saved[k].unverified
  BY <1>1, <1>2 DEF FileChanged, ColumnDiffers, NeedsContentVerification
<1>4. \/ content = Torn
      \/ content \in Download /\ content.key = k /\ content.version >= remote[k]
  BY <1>1, <1>2, <1>3 DEF IInv, KeyInv, RecordSound
<1>5. CASE content \in Download /\ content.key = k /\ content.version >= remote[k]
  <2>1. content.version <= remote[k] /\ content.version \in Nat
    BY <1>5, VersionsAreNumbers DEF IInv, KeyInv, CopySound, Download
  <2>2. content.version = remote[k]
    BY <1>1, <1>5, <2>1
  <2>3. content = Copy(k, remote[k])
    BY <1>5, <2>2 DEF Download, Copy
  <2> QED
    BY <2>3
<1> QED
  BY <1>4, <1>5

(* The values of the variables are the intended ones.                      *)
THEOREM TypeCorrect == Spec => []TypeOK
BY InductiveInvariant, PTL DEF IInv

(* The manifest never claims more than was downloaded.                     *)
THEOREM RecordsHonest == Spec => []RecordNotAheadOfFile
BY InductiveInvariant, RecordsFollow, PTL

(* A file the next sync would skip is not an older version.                *)
THEOREM SkippedMeansCurrent == Spec => []NeverSilentlyOlder
BY InductiveInvariant, SkipsFollow, PTL

-----------------------------------------------------------------------------
(* A run with the ZIPs.                                                    *)

(* The jobs the run is done with, or has none for, of the files it saw.    *)
Settled == {k \in Keys : seen[k] # Absent /\ job[k] \notin Unfinished}

InProgress == {"fetching", "verifying", "writing", "unpacked", "copying"}

(* What a run does, it does before it saves; then nothing is left to do.   *)
InOrder ==
  /\ phase # "downloading" => asking = {} /\ \A k \in Keys : job[k] \notin InProgress
  /\ (phase = "saving" /\ cancelled = "no") => \A k \in Keys : job[k] \notin Unfinished

(* Each file that is settled was counted once.                             *)
Counted ==
  phase # "idle" =>
    stats.downloaded + stats.skipped + stats.errors = Cardinality(Settled)

(* Why the file of k is going to be replaced.                              *)
RewriteInv(k) ==
  LET content == file[PathOf[k]] IN
  /\ (phase = "downloading" /\ job[k] \in {"fetch", "fetching"}) =>
       force \/ FileChanged(seen[k], saved[k]) \/ content = Nothing
  /\ job[k] \in {"writing", "copying"} => content \in {Nothing, Torn}
  /\ (job[k] = "unpacked" /\ content \in Download /\ content.key = k) =>
       content.version <= fetched[k]

BulkInv == IInv /\ InOrder /\ Counted /\ \A k \in Unshared : RewriteInv(k)

LEMMA ZipRecordType ==
  ASSUME NEW r \in Record
  PROVE  [r EXCEPT !.modified = ZipDate] \in Record /\ [r EXCEPT !.modified = ZipDate].modified = 0
BY DEF Record, ZipDate

(* A ZIP brings bytes that OPAL had when it was asked for.                 *)
LEMMA FetchZipKeeps ==
  ASSUME IInv, NEW s \in Sections, FetchZip(s)
  PROVE  IInv'
<1>1. PICK zip \in SUBSET Group(s) :
        /\ job' = [k \in Keys |-> IF k \in zip THEN "unpacked" ELSE job[k]]
        /\ fetched' = [k \in Keys |-> IF k \in zip THEN remote[k] ELSE fetched[k]]
  BY DEF FetchZip, ZipsOf
<1>2. UNCHANGED <<remote, file, saved, phase, force, seen, mem, stats, cancelled, faults>>
  BY DEF FetchZip
<1>3. TypeOK'
  BY <1>1, <1>2 DEF IInv, TypeOK
<1>4. ASSUME NEW k \in Keys PROVE KeyInv(k)'
  <2>1. RowSound(k)' /\ CopySound(k)' /\ RecordSound(mem[k], k)'
        /\ (saved # Unreadable => RecordSound(saved[k], k))'
    BY <1>2 DEF IInv, KeyInv, RowSound, CopySound, RecordSound
  <2>2. CASE k \in zip
    <3>1. job[k] = "verify" /\ job'[k] = "unpacked" /\ fetched'[k] = remote[k] /\ remote[k] \in Nat
      BY <1>1, <2>2, VersionsAreNumbers DEF Group, IInv, TypeOK
    <3>2. SavedNotNewer(k, remote[k])
      BY DEF IInv, KeyInv, RecordSound, SavedNotNewer
    <3>3. seen[k] # Absent /\ (seen[k].modified # Nil => seen[k].modified <= remote[k])
          /\ phase # "idle" /\ mem[k] # NoRecord
      BY <3>1 DEF IInv, KeyInv, JobSound, RowSound, Unfinished
    <3>4. JobSound(k)'
      BY <1>2, <3>1, <3>2, <3>3 DEF JobSound, SavedNotNewer
    <3> QED
      BY <2>1, <3>4 DEF KeyInv
  <2>3. CASE k \notin zip
    <3>1. job'[k] = job[k] /\ fetched'[k] = fetched[k]
      BY <1>1, <2>3
    <3>2. JobSound(k)'
      BY <1>2, <3>1 DEF IInv, KeyInv, JobSound, SavedNotNewer
    <3> QED
      BY <2>1, <3>2 DEF KeyInv
  <2> QED
    BY <2>2, <2>3
<1> QED
  BY <1>3, <1>4 DEF IInv

(* The bytes of a ZIP are treated as those of a download.                  *)
LEMMA SettleKeeps ==
  ASSUME IInv, NEW k \in Keys, Settle(k)
  PROVE  IInv'
<1>1. /\ job[k] \in {"unpacked", "copying"} /\ fetched[k] \in Versions /\ fetched[k] \in Nat
      /\ fetched[k] <= remote[k] /\ SavedNotNewer(k, fetched[k]) /\ seen[k] \in Signals
      /\ mem[k] \in Record \cup {NoRecord} /\ (job[k] = "unpacked" => mem[k] \in Record)
  BY VersionsAreNumbers
     DEF Settle, ZipUnchanged, ZipReplaces, ZipOverwrites, ZipCopied, ZipFails,
         IInv, KeyInv, JobSound, Unfinished, TypeOK, Manifests
<1>2. faults' \in 0 .. MaxFaults
  BY FaultType DEF Settle, ZipUnchanged, ZipReplaces, ZipOverwrites, ZipCopied, ZipFails
<1>3. CASE ZipUnchanged(k)
  <2>1. PICK record : record = [VerifiedRecord(mem[k]) EXCEPT !.modified = ZipDate]
    OBVIOUS
  <2>2. Result(k, record, "skipped") /\ UNCHANGED file /\ file[PathOf[k]] = Copy(k, fetched[k])
        /\ job[k] = "unpacked"
    BY <1>3, <2>1 DEF ZipUnchanged, Same
  <2>3. record \in Record /\ record.modified = 0
    BY <1>1, <2>1, <2>2, VerifiedRecordType, ZipRecordType
  <2>4. UNCHANGED <<remote, saved>>
    BY <2>2 DEF Result
  <2>5. remote[k] \in Nat
    BY VersionsAreNumbers DEF IInv, TypeOK
  <2>6. RecordSound(record, k)'
    BY <1>1, <2>2, <2>3, <2>4, <2>5, CopyType DEF RecordSound
  <2>7. CopySound(k)' /\ (saved # Unreadable => RecordSound(saved[k], k)')
    BY <2>2, <2>4 DEF IInv, KeyInv, CopySound, RecordSound
  <2>8. FileChangesAt(k)
    BY <2>2, UnwrittenAnywhere DEF IInv
  <2> QED
    BY <1>2, <2>2, <2>3, <2>6, <2>7, <2>8, ResultKeeps
<1>4. CASE ZipReplaces(k) \/ ZipCopied(k)
  <2>1. PICK record : record = ZipRecord(k)
    OBVIOUS
  <2>2. Result(k, record, "downloaded") /\ file' = [file EXCEPT ![PathOf[k]] = Copy(k, fetched[k])]
    BY <1>4, <2>1 DEF ZipReplaces, ZipCopied
  <2>3. record \in Record /\ record.modified = 0
    BY <1>1, <2>1, SuccessRecordType, ZipRecordType DEF ZipRecord
  <2>4. record.modified # Nil => record.modified <= fetched[k]
    BY <1>1, <2>3
  <2> QED
    BY <1>1, <1>2, <2>2, <2>3, <2>4, ReplacedKeeps
<1>5. CASE ZipOverwrites(k)
  <2>1. /\ job[k] = "unpacked" /\ job' = [job EXCEPT ![k] = "copying"]
        /\ file' = [file EXCEPT ![PathOf[k]] = Torn]
        /\ UNCHANGED <<remote, saved, phase, force, seen, mem, fetched, stats, cancelled>>
    BY <1>5 DEF ZipOverwrites
  <2>2. FileChangesAt(k) /\ file'[PathOf[k]] = Torn
    BY <2>1, WrittenAtOnePath DEF IInv, Contents
  <2>3. TypeOK'
    BY <1>2, <2>1, <2>2 DEF IInv, TypeOK, FileChangesAt
  <2>4. ASSUME NEW l \in Keys PROVE KeyInv(l)'
    <3>1. CASE l = k
      <4>1. job'[k] = "copying"
        BY <2>1 DEF IInv, TypeOK
      <4>2. JobSound(k)' /\ RowSound(k)'
        BY <2>1, <4>1 DEF IInv, KeyInv, JobSound, Unfinished, RowSound, SavedNotNewer
      <4>3. CopySound(k)'
        BY <2>2, MarksAssumption DEF CopySound
      <4>4. (saved # Unreadable => RecordSound(saved[k], k))' /\ RecordSound(mem[k], k)'
        BY <2>1, <2>2 DEF IInv, KeyInv, RecordSound
      <4> QED
        BY <3>1, <4>2, <4>3, <4>4 DEF KeyInv
    <3>2. CASE l # k
      <4>1. job'[l] = job[l]
        BY <2>1, <3>2 DEF IInv, TypeOK
      <4> QED
        BY <2>1, <2>2, <3>2, <4>1, OthersKeep DEF IInv
    <3> QED
      BY <3>1, <3>2
  <2> QED
    BY <2>3, <2>4 DEF IInv
<1>6. CASE ZipFails(k)
  BY <1>2, <1>6, FailedKeeps DEF ZipFails
<1> QED
  BY <1>3, <1>4, <1>5, <1>6 DEF Settle

(* Everything but the ZIPs is a step of SyncRun.                           *)
LEMMA BulkStepPreserves ==
  ASSUME IInv, [BulkNext]_bulkVars
  PROVE  IInv'
<1>1. CASE BulkStep
  BY <1>1, FetchZipKeeps, SettleKeeps DEF BulkStep
<1>2. CASE [Next]_vars
  BY <1>2, StepPreserves
<1>3. BulkStep \/ [Next]_vars
  BY DEF BulkNext, PoolStep, SaveStep, World, Next, bulkVars
<1> QED
  BY <1>1, <1>2, <1>3

-----------------------------------------------------------------------------
(* The counters, and what is replaced.                                     *)

(* A job step touches its own job, while the run downloads.                *)
LEMMA JobStepShape ==
  ASSUME BulkInv, NEW k \in Keys, JobStep(k) \/ Settle(k)
  PROVE  /\ phase = "downloading" /\ job[k] \in Unfinished
         /\ UNCHANGED <<remote, saved, phase, force, seen>>
         /\ \A l \in Keys \ {k} : job'[l] = job[l] /\ fetched'[l] = fetched[l]
<1>1. job \in [Keys -> {"none", "fetch", "verify", "fetching", "verifying", "writing", "done",
                        "unpacked", "copying"}]
      /\ fetched \in [Keys -> Versions]
  BY DEF BulkInv, IInv, TypeOK
<1>2. job[k] \in InProgress => phase = "downloading"
  BY DEF BulkInv, InOrder
<1>3. CASE Start(k)
  BY <1>1, <1>3 DEF Start, Unfinished
<1>4. CASE WriteBegin(k) \/ VerifyOverwrites(k) \/ ZipOverwrites(k)
  BY <1>1, <1>2, <1>4 DEF WriteBegin, VerifyOverwrites, ZipOverwrites, Unfinished, InProgress
<1>5. CASE \/ FetchFails(k) \/ WriteEnd(k) \/ WriteFails(k) \/ VerifyUnchanged(k) \/ VerifyReplaces(k)
           \/ ZipUnchanged(k) \/ ZipReplaces(k) \/ ZipCopied(k) \/ ZipFails(k)
  <2>1. job[k] \in InProgress
    BY <1>5 DEF FetchFails, WriteEnd, WriteFails, VerifyUnchanged, VerifyReplaces,
                ZipUnchanged, ZipReplaces, ZipCopied, ZipFails, InProgress
  <2>2. /\ UNCHANGED <<remote, saved, phase, force, seen, fetched>>
        /\ job' = [job EXCEPT ![k] = "done"]
    BY <1>5 DEF FetchFails, WriteEnd, WriteFails, VerifyUnchanged, VerifyReplaces,
                ZipUnchanged, ZipReplaces, ZipCopied, ZipFails, Failed, Fetched, Result
  <2> QED
    BY <1>1, <1>2, <2>1, <2>2 DEF Unfinished, InProgress
<1> QED
  BY <1>3, <1>4, <1>5 DEF JobStep, Settle

(* A run that waits to be started has no section to ask for.               *)
LEMMA NoGroups ==
  ASSUME IInv, phase = "idle"
  PROVE  Groups = {}
<1>1. \A k \in Keys : job[k] # "verify"
  BY DEF IInv, KeyInv, JobSound, Unfinished
<1>2. \A s \in Sections : Group(s) = {}
  BY <1>1 DEF Group
<1>3. Cardinality({}) = 0
  BY FS_EmptySet
<1> QED
  BY <1>2, <1>3, MinGroupAssumption DEF Groups

LEMMA StepInOrder ==
  ASSUME BulkInv, [BulkNext]_bulkVars
  PROVE  InOrder'
<1>. USE DEF InOrder
<1>1. CASE RunStarts /\ Flagged
  <2>1. CASE RunRefused
    <3>1. UNCHANGED vars /\ phase = "idle"
      BY <2>1 DEF RunRefused
    <3>2. Groups = {}
      BY <3>1, NoGroups DEF BulkInv
    <3>3. Groups' = Groups
      BY <3>1 DEF Groups, Group, vars, run
    <3> QED
      BY <1>1, <3>1, <3>2, <3>3 DEF Flagged, BulkInv, vars, run
  <2>2. ASSUME NEW forced, NEW reported, NEW unmakeable, Compare(forced, reported, unmakeable)
        PROVE  InOrder'
    <3>1. phase' = "downloading"
      BY <2>2, Zenon DEF Compare
    <3> QED
      BY <3>1
  <2> QED
    BY <1>1, <2>1, <2>2, Zenon DEF RunStarts, Run, RunMissing, RunBlocked
<1>2. ASSUME NEW s \in Sections, FetchZip(s) PROVE InOrder'
  <2>1. phase = "downloading" /\ phase' = phase
    BY <1>2 DEF FetchZip, BulkInv
  <2> QED
    BY <2>1
<1>3. ASSUME NEW k \in Keys, JobStep(k) \/ Settle(k) PROVE InOrder'
  BY <1>3, JobStepShape
<1>4. CASE SaveStep
  <2>1. CASE SaveBegin
    <3>1. asking = {} /\ \A k \in Keys : job[k] \notin {"unpacked", "copying"}
      BY <1>4 DEF SaveStep, Bulk, Unpacked
    <3>2. /\ \A k \in Keys : job[k] \notin {"fetching", "verifying", "writing"}
          /\ cancelled = "no" => \A k \in Keys : job[k] \notin {"fetch", "verify"}
          /\ UNCHANGED <<job, cancelled>> /\ asking' = asking
      BY <1>4, <2>1 DEF SaveStep, SaveBegin, Drained, InFlight
    <3> QED
      BY <3>1, <3>2 DEF Unfinished, InProgress
  <2>2. CASE SaveEnd
    BY <1>4, <2>2 DEF SaveStep, Bulk, SaveEnd, RunEnds, InProgress
  <2> QED
    BY <1>4, <2>1, <2>2 DEF SaveStep
<1>5. CASE World /\ UNCHANGED asking
  <2>1. CASE \E k \in Keys : RemoteChange(k) \/ UserDelete(k) \/ Elapse(k)
    BY <1>5, <2>1 DEF RemoteChange, UserDelete, Elapse, run, BulkInv
  <2>2. CASE Cancel
    BY <1>5, <2>2 DEF Cancel, BulkInv
  <2>3. CASE ~Bulk /\ SaveRefused
    BY <1>5, <2>3 DEF SaveRefused, Bulk, RunEnds, InProgress
  <2> QED
    BY <1>5, <2>1, <2>2, <2>3 DEF World
<1>6. CASE Kill /\ asking' = {}
  BY <1>6 DEF Kill, RunEnds, InProgress
<1>7. CASE UNCHANGED bulkVars
  BY <1>7 DEF bulkVars, vars, run, BulkInv
<1> QED
  BY <1>1, <1>2, <1>3, <1>4, <1>5, <1>6, <1>7 DEF BulkNext, BulkStep, PoolStep

(* Jobs that stay unfinished, or finished, count as before.                *)
LEMMA CountedStill ==
  ASSUME BulkInv, UNCHANGED <<stats, seen>>, phase' # "idle" => phase # "idle",
         \A k \in Keys : job'[k] \in Unfinished <=> job[k] \in Unfinished
  PROVE  Counted'
<1>1. Settled' = Settled
  BY DEF Settled
<1> QED
  BY <1>1 DEF BulkInv, Counted

(* A result is counted once and settles one file.                          *)
LEMMA ResultCounted ==
  ASSUME BulkInv, NEW k \in Keys, job[k] \in Unfinished, NEW record,
         NEW field \in {"downloaded", "skipped", "errors"}, Result(k, record, field)
  PROVE  Counted'
<1>1. job' = [job EXCEPT ![k] = "done"] /\ stats' = Count(stats, field) /\ seen' = seen /\ phase' = phase
  BY DEF Result
<1>2. \A l \in Keys : job'[l] = IF l = k THEN "done" ELSE job[l]
  BY <1>1 DEF BulkInv, IInv, TypeOK
<1>3. phase # "idle" /\ seen[k] # Absent
  BY DEF BulkInv, IInv, KeyInv, JobSound
<1>4. k \notin Settled /\ Settled' = Settled \cup {k}
  BY <1>1, <1>2, <1>3 DEF Settled, Unfinished
<1>5. IsFiniteSet(Settled) /\ Cardinality(Settled) \in Nat
  BY KeysAssumption, FS_Subset, FS_CardinalityType DEF Settled
<1>6. Cardinality(Settled') = Cardinality(Settled) + 1
  BY <1>4, <1>5, FS_AddElement
<1>7. stats \in [downloaded : Nat, skipped : Nat, errors : Nat]
  BY DEF BulkInv, IInv, TypeOK
<1>8. stats'.downloaded + stats'.skipped + stats'.errors
        = stats.downloaded + stats.skipped + stats.errors + 1
  BY <1>1, <1>7 DEF Count
<1> QED
  BY <1>1, <1>3, <1>5, <1>6, <1>8 DEF BulkInv, Counted

(* The decision pass counts what it leaves alone and what it cannot place. *)
LEMMA CompareCounted ==
  ASSUME NEW forced \in BOOLEAN, NEW reported \in [Keys -> Signals \cup {Absent}],
         NEW unmakeable \in SUBSET Keys, Compare(forced, reported, unmakeable)
  PROVE  Counted'
<1>. DEFINE verdict == [k \in Keys |->
               IF reported[k] = Absent THEN "none"
               ELSE Verdict(forced, reported[k], saved[k], file[PathOf[k]])]
            wanted == {k \in Keys : verdict[k] \in {"fetch", "verify"}}
            resting == {k \in Keys : verdict[k] \in {"backoff", "skip"}}
            blocked == wanted \cap unmakeable
<1>1. /\ seen' = reported
      /\ job' = [k \in Keys |-> IF k \in wanted \ unmakeable THEN verdict[k] ELSE "none"]
      /\ stats' = [downloaded |-> 0, skipped |-> Cardinality(resting),
                   errors |-> Cardinality(blocked)]
  BY Zenon DEF Compare
<1>2. \A k \in Keys : IF reported[k] = Absent THEN verdict[k] = "none"
                      ELSE verdict[k] \in {"fetch", "verify", "backoff", "skip"}
  BY DEF Verdict
<1>3. IsFiniteSet(resting) /\ IsFiniteSet(blocked)
  BY KeysAssumption, FS_Subset
<1>. HIDE DEF verdict
<1>4. resting \cap blocked = {}
  OBVIOUS
<1>5. \A k \in Keys : job'[k] \in Unfinished <=> k \in wanted \ unmakeable
  BY <1>1 DEF Unfinished
<1>6. Settled' = resting \cup blocked
  BY <1>1, <1>2, <1>5 DEF Settled
<1>. HIDE DEF wanted, resting, blocked
<1>7. Cardinality(resting \cup blocked) = Cardinality(resting) + Cardinality(blocked)
      /\ Cardinality(resting) \in Nat /\ Cardinality(blocked) \in Nat
  <2>1. Cardinality(resting \cup blocked)
          = Cardinality(resting) + Cardinality(blocked) - Cardinality(resting \cap blocked)
    BY <1>3, FS_Union
  <2>2. Cardinality(resting \cap blocked) = 0
    BY <1>4, FS_EmptySet
  <2>3. Cardinality(resting) \in Nat /\ Cardinality(blocked) \in Nat
    BY <1>3, FS_CardinalityType
  <2> QED
    BY <2>1, <2>2, <2>3
<1>8. stats'.downloaded = 0 /\ stats'.skipped = Cardinality(resting)
      /\ stats'.errors = Cardinality(blocked)
  BY <1>1
<1>9. stats'.downloaded + stats'.skipped + stats'.errors = Cardinality(resting \cup blocked)
  BY <1>7, <1>8
<1> QED
  BY <1>6, <1>9 DEF Counted

LEMMA StepCounted ==
  ASSUME BulkInv, [BulkNext]_bulkVars
  PROVE  Counted'
<1>1. CASE RunStarts
  <2>1. CASE RunRefused
    BY <2>1 DEF RunRefused, Counted, vars, run
  <2>2. ASSUME NEW forced \in BOOLEAN, NEW cols \in [Keys -> Columns], NEW k \in Keys,
               \/ Run(forced, cols) \/ RunMissing(forced, cols, k) \/ RunBlocked(forced, cols, k)
        PROVE  Counted'
    <3>. DEFINE rows == Reported(cols)
                partial == [rows EXCEPT ![k] = Absent]
    <3>1. rows \in [Keys -> Signals \cup {Absent}] /\ partial \in [Keys -> Signals \cup {Absent}]
      BY SignalsOfType DEF Reported, BulkInv, IInv, TypeOK
    <3>2. Compare(forced, rows, {}) \/ Compare(forced, partial, {}) \/ Compare(forced, rows, {k})
      BY <2>2 DEF Run, RunMissing, RunBlocked
    <3>. HIDE DEF rows, partial
    <3>3. {} \in SUBSET Keys /\ {k} \in SUBSET Keys
      OBVIOUS
    <3> QED
      BY <3>1, <3>2, <3>3, CompareCounted
  <2>3. ASSUME NEW forced \in BOOLEAN, NEW cols \in [Keys -> Columns], Run(forced, cols)
        PROVE  Counted'
    <3>. DEFINE rows == Reported(cols)
    <3>1. rows \in [Keys -> Signals \cup {Absent}]
      BY SignalsOfType DEF Reported, BulkInv, IInv, TypeOK
    <3>2. Compare(forced, rows, {})
      BY <2>3 DEF Run
    <3>. HIDE DEF rows
    <3>3. {} \in SUBSET Keys
      OBVIOUS
    <3> QED
      BY <3>1, <3>2, <3>3, CompareCounted
  <2> QED
    BY <1>1, <2>1, <2>2, <2>3 DEF RunStarts
<1>2. ASSUME NEW s \in Sections, FetchZip(s) PROVE Counted'
  <2>1. PICK zip \in SUBSET Group(s) :
          job' = [k \in Keys |-> IF k \in zip THEN "unpacked" ELSE job[k]]
    BY <1>2 DEF FetchZip, ZipsOf
  <2>2. \A k \in Keys : job'[k] \in Unfinished <=> job[k] \in Unfinished
    BY <2>1 DEF Group, Unfinished
  <2> QED
    BY <1>2, <2>2, CountedStill DEF FetchZip
<1>3. ASSUME NEW k \in Keys, JobStep(k) \/ Settle(k) PROVE Counted'
  <2>0. job[k] \in Unfinished /\ UNCHANGED <<phase, seen>> /\ \A l \in Keys \ {k} : job'[l] = job[l]
    BY <1>3, JobStepShape
  <2>1. CASE Start(k) \/ WriteBegin(k) \/ VerifyOverwrites(k) \/ ZipOverwrites(k)
    <3>1. job'[k] \in Unfinished /\ stats' = stats
      BY <2>1 DEF Start, WriteBegin, VerifyOverwrites, ZipOverwrites, Unfinished, BulkInv, IInv, TypeOK
    <3> QED
      BY <2>0, <3>1, CountedStill
  <2>2. CASE \/ FetchFails(k) \/ WriteEnd(k) \/ WriteFails(k) \/ VerifyUnchanged(k) \/ VerifyReplaces(k)
             \/ ZipUnchanged(k) \/ ZipReplaces(k) \/ ZipCopied(k) \/ ZipFails(k)
    <3>1. \E record : \E field \in {"downloaded", "skipped", "errors"} : Result(k, record, field)
      BY <2>2 DEF FetchFails, WriteEnd, WriteFails, VerifyUnchanged, VerifyReplaces,
                  ZipUnchanged, ZipReplaces, ZipCopied, ZipFails, Failed, Fetched
    <3> QED
      BY <2>0, <3>1, ResultCounted
  <2> QED
    BY <1>3, <2>1, <2>2 DEF JobStep, Settle
<1>4. CASE SaveStep
  <2>1. CASE SaveBegin
    BY <2>1, CountedStill DEF SaveBegin, Drained
  <2>2. CASE SaveEnd
    BY <2>2 DEF SaveEnd, RunEnds, Counted
  <2> QED
    BY <1>4, <2>1, <2>2 DEF SaveStep
<1>5. CASE World
  <2>1. CASE \E k \in Keys : RemoteChange(k) \/ UserDelete(k) \/ Elapse(k)
    BY <2>1, CountedStill DEF RemoteChange, UserDelete, Elapse, run
  <2>2. CASE Cancel
    BY <2>2, CountedStill DEF Cancel
  <2>3. CASE SaveRefused
    BY <2>3 DEF SaveRefused, RunEnds, Counted
  <2> QED
    BY <1>5, <2>1, <2>2, <2>3 DEF World
<1>6. CASE Kill
  BY <1>6 DEF Kill, RunEnds, Counted
<1>7. CASE UNCHANGED bulkVars
  BY <1>7, CountedStill DEF bulkVars, vars, run
<1> QED
  BY <1>1, <1>2, <1>3, <1>4, <1>5, <1>6, <1>7 DEF BulkNext, BulkStep, PoolStep

(* What a step that concerns k leaves to the other keys.                   *)
LEMMA OthersRewrite ==
  ASSUME NEW k \in Keys, NEW l \in Unshared \ {k}, RewriteInv(l), FileChangesAt(k),
         job'[l] = job[l], fetched'[l] = fetched[l], UNCHANGED <<phase, force, seen, saved>>
  PROVE  RewriteInv(l)'
BY DEF RewriteInv, FileChangesAt

(* Only the file of k changes when its job steps.                          *)
LEMMA JobStepFile ==
  ASSUME BulkInv, NEW k \in Keys, JobStep(k) \/ Settle(k)
  PROVE  FileChangesAt(k)
<1>1. TypeOK /\ Torn \in Contents
  BY DEF BulkInv, IInv, Contents
<1>2. Copy(k, remote[k]) \in Contents /\ Copy(k, fetched[k]) \in Contents
  BY CopyType DEF BulkInv, IInv, TypeOK
<1>3. CASE UNCHANGED file
  BY <1>1, <1>3, UnwrittenAnywhere
<1>4. ASSUME NEW c \in Contents, file' = [file EXCEPT ![PathOf[k]] = c] PROVE FileChangesAt(k)
  BY <1>1, <1>4, WrittenAtOnePath
<1> QED
  BY <1>1, <1>2, <1>3, <1>4
     DEF JobStep, Settle, Start, FetchFails, WriteBegin, WriteEnd, WriteFails, VerifyUnchanged,
         VerifyReplaces, VerifyOverwrites, ZipUnchanged, ZipReplaces, ZipOverwrites, ZipCopied, ZipFails

LEMMA CompareRewrite ==
  ASSUME NEW forced, NEW reported, NEW unmakeable, Compare(forced, reported, unmakeable), NEW k \in Keys
  PROVE  RewriteInv(k)'
<1>. DEFINE verdict == [l \in Keys |->
               IF reported[l] = Absent THEN "none"
               ELSE Verdict(forced, reported[l], saved[l], file[PathOf[l]])]
            wanted == {l \in Keys : verdict[l] \in {"fetch", "verify"}}
<1>1. /\ seen' = reported /\ force' = forced /\ UNCHANGED <<saved, file>>
      /\ job' = [l \in Keys |-> IF l \in wanted \ unmakeable THEN verdict[l] ELSE "none"]
  BY Zenon DEF Compare
<1>2. job'[k] \in {"none", "fetch", "verify"} /\ (job'[k] = "fetch" => verdict[k] = "fetch")
  BY <1>1
<1>3. verdict[k] = "fetch" =>
        forced \/ FileChanged(reported[k], saved[k]) \/ file[PathOf[k]] = Nothing
  BY DEF Verdict
<1>. HIDE DEF verdict
<1> QED
  BY <1>1, <1>2, <1>3 DEF RewriteInv

LEMMA StepRewrite ==
  ASSUME BulkInv, [BulkNext]_bulkVars, NEW l \in Keys, l \in Unshared
  PROVE  RewriteInv(l)'
<1>0. RewriteInv(l) /\ IInv
  BY DEF BulkInv
<1>1. CASE RunStarts
  <2>1. CASE RunRefused
    BY <1>0, <2>1 DEF RunRefused, RewriteInv, vars, run
  <2> QED
    BY <1>1, <2>1, CompareRewrite DEF RunStarts, Run, RunMissing, RunBlocked
<1>2. ASSUME NEW s \in Sections, FetchZip(s) PROVE RewriteInv(l)'
  <2>1. PICK zip \in SUBSET Group(s) :
          /\ job' = [k \in Keys |-> IF k \in zip THEN "unpacked" ELSE job[k]]
          /\ fetched' = [k \in Keys |-> IF k \in zip THEN remote[k] ELSE fetched[k]]
    BY <1>2 DEF FetchZip, ZipsOf
  <2>2. UNCHANGED <<file, saved, phase, force, seen>>
    BY <1>2 DEF FetchZip
  <2>3. CASE l \in zip
    BY <1>0, <2>1, <2>2, <2>3 DEF RewriteInv, IInv, KeyInv, CopySound
  <2>4. CASE l \notin zip
    BY <1>0, <2>1, <2>2, <2>4 DEF RewriteInv
  <2> QED
    BY <2>3, <2>4
<1>3. ASSUME NEW k \in Keys, JobStep(k) \/ Settle(k) PROVE RewriteInv(l)'
  <2>1. /\ UNCHANGED <<remote, saved, phase, force, seen>>
        /\ \A i \in Keys \ {k} : job'[i] = job[i] /\ fetched'[i] = fetched[i]
    BY <1>3, JobStepShape
  <2>2. CASE l # k
    BY <1>0, <1>3, <2>1, <2>2, JobStepFile, OthersRewrite
  <2>3. CASE l = k
    <3>1. CASE Start(k)
      BY <1>0, <2>3, <3>1 DEF Start, RewriteInv, IInv, TypeOK
    <3>2. CASE WriteBegin(k) \/ VerifyOverwrites(k) \/ ZipOverwrites(k)
      <4>1. job'[k] \in {"writing", "copying"} /\ file'[PathOf[k]] = Torn
        BY <1>0, <3>2, PathOfAssumption DEF WriteBegin, VerifyOverwrites, ZipOverwrites, IInv, TypeOK
      <4> QED
        BY <2>3, <4>1 DEF RewriteInv
    <3>3. CASE \/ FetchFails(k) \/ WriteEnd(k) \/ WriteFails(k) \/ VerifyUnchanged(k) \/ VerifyReplaces(k)
               \/ ZipUnchanged(k) \/ ZipReplaces(k) \/ ZipCopied(k) \/ ZipFails(k)
      <4>1. job'[k] = "done"
        BY <1>0, <3>3
           DEF FetchFails, WriteEnd, WriteFails, VerifyUnchanged, VerifyReplaces, ZipUnchanged,
               ZipReplaces, ZipCopied, ZipFails, Failed, Fetched, Result, IInv, TypeOK
      <4> QED
        BY <2>3, <4>1 DEF RewriteInv
    <3> QED
      BY <1>3, <3>1, <3>2, <3>3 DEF JobStep, Settle
  <2> QED
    BY <2>2, <2>3
<1>4. CASE SaveStep
  <2>1. CASE SaveBegin
    BY <1>0, <2>1 DEF SaveBegin, RewriteInv
  <2>2. CASE SaveEnd
    BY <2>2 DEF SaveEnd, RunEnds, RewriteInv
  <2> QED
    BY <1>4, <2>1, <2>2 DEF SaveStep
<1>5. CASE World
  <2>1. ASSUME NEW k \in Keys, RemoteChange(k) PROVE RewriteInv(l)'
    BY <1>0, <2>1 DEF RemoteChange, RewriteInv, run
  <2>2. ASSUME NEW k \in Keys, UserDelete(k) PROVE RewriteInv(l)'
    <3>1. FileChangesAt(k) /\ file'[PathOf[k]] = Nothing /\ UNCHANGED <<saved, run>>
      BY <1>0, <2>2, WrittenAtOnePath DEF UserDelete, IInv, Contents
    <3>2. CASE l # k
      BY <1>0, <3>1, <3>2, OthersRewrite DEF run
    <3>3. CASE l = k
      BY <1>0, <3>1, <3>3, MarksAssumption DEF RewriteInv, run
    <3> QED
      BY <3>2, <3>3
  <2>3. ASSUME NEW k \in Keys, Elapse(k) PROVE RewriteInv(l)'
    BY <1>0, <2>3 DEF Elapse, RewriteInv, run
  <2>4. CASE Cancel
    BY <1>0, <2>4 DEF Cancel, RewriteInv
  <2>5. CASE SaveRefused
    BY <2>5 DEF SaveRefused, RunEnds, RewriteInv
  <2> QED
    BY <1>5, <2>1, <2>2, <2>3, <2>4, <2>5 DEF World
<1>6. CASE Kill
  BY <1>6 DEF Kill, RunEnds, RewriteInv
<1>7. CASE UNCHANGED bulkVars
  BY <1>0, <1>7 DEF bulkVars, vars, run, RewriteInv
<1> QED
  BY <1>1, <1>2, <1>3, <1>4, <1>5, <1>6, <1>7 DEF BulkNext, BulkStep, PoolStep

LEMMA InitBulk == BulkInit => BulkInv
<1> SUFFICES ASSUME BulkInit PROVE BulkInv
  OBVIOUS
<1>1. IInv /\ asking = {} /\ phase = "idle" /\ \A k \in Keys : job[k] = "none"
  BY InitEstablishes DEF BulkInit, Init
<1> QED
  BY <1>1, UnsharedAreKeys DEF BulkInv, InOrder, Counted, RewriteInv, InProgress

LEMMA BulkInvariant == BulkSpec => []BulkInv
<1>1. BulkInv /\ [BulkNext]_bulkVars => BulkInv'
  <2> SUFFICES ASSUME BulkInv, [BulkNext]_bulkVars PROVE BulkInv'
    OBVIOUS
  <2>1. IInv' /\ InOrder' /\ Counted'
    BY BulkStepPreserves, StepInOrder, StepCounted DEF BulkInv
  <2>2. \A l \in Unshared : RewriteInv(l)'
    BY StepRewrite, UnsharedAreKeys
  <2> QED
    BY <2>1, <2>2 DEF BulkInv, Unshared
<1> QED
  BY InitBulk, <1>1, PTL DEF BulkSpec

(* With the ZIPs as well: the values of the variables are the intended     *)
(* ones.                                                                   *)
THEOREM BulkTypeCorrect == BulkSpec => []TypeOK
<1>1. BulkInv => TypeOK
  BY DEF BulkInv, IInv
<1> QED
  BY <1>1, BulkInvariant, PTL

(* The bytes of a ZIP are recorded no better than they are: neither does   *)
(* the manifest claim more than was downloaded, nor does the next sync     *)
(* skip an older version.                                                  *)
THEOREM BulkRecordsHonest == BulkSpec => []RecordNotAheadOfFile
<1>1. BulkInv => RecordNotAheadOfFile
  BY RecordsFollow DEF BulkInv
<1> QED
  BY <1>1, BulkInvariant, PTL

THEOREM BulkSkippedMeansCurrent == BulkSpec => []NeverSilentlyOlder
<1>1. BulkInv => NeverSilentlyOlder
  BY SkipsFollow DEF BulkInv
<1> QED
  BY <1>1, BulkInvariant, PTL

(* Whichever way each file went (skipped, fetched, verified, answered by a *)
(* ZIP, failed), the summary of a run counts it once.                      *)
THEOREM EveryFileCounted == BulkSpec => []StatsAccounted
<1>1. BulkInv => StatsAccounted
  <2> SUFFICES ASSUME BulkInv, phase = "saving", cancelled = "no"
               PROVE  stats.downloaded + stats.skipped + stats.errors
                        = Cardinality({k \in Keys : seen[k] # Absent})
    BY DEF StatsAccounted
  <2>1. Settled = {k \in Keys : seen[k] # Absent}
    BY DEF BulkInv, InOrder, Settled
  <2> QED
    BY <2>1 DEF BulkInv, Counted
<1> QED
  BY <1>1, BulkInvariant, PTL

(* A current copy is written anew only when the user or OPAL asked for it. *)
THEOREM CurrentCopiesStay == BulkSpec => NoNeedlessRewrite
<1>1. ASSUME BulkInv, [BulkNext]_bulkVars, NEW l \in Keys, l \in Unshared,
             file[PathOf[l]] = Copy(l, remote[l]),
             file'[PathOf[l]] \notin {file[PathOf[l]], Nothing}
      PROVE  force \/ FileChanged(seen[l], saved[l])
  <2>0. RewriteInv(l) /\ IInv /\ file[PathOf[l]] # Nothing /\ file[PathOf[l]] # Torn
        /\ file[PathOf[l]] \in Download /\ file[PathOf[l]].key = l /\ file[PathOf[l]].version = remote[l]
    BY <1>1, CopyType, MarksAssumption DEF BulkInv, IInv, TypeOK
  <2>1. ~UNCHANGED file
    BY <1>1
  <2>2. PICK k \in Keys : JobStep(k) \/ Settle(k) \/ UserDelete(k)
    <3>1. CASE RunStarts
      <4>1. ASSUME NEW forced, NEW reported, NEW unmakeable, Compare(forced, reported, unmakeable)
            PROVE  UNCHANGED file
        BY <4>1, Zenon DEF Compare
      <4> QED
        BY <2>1, <3>1, <4>1, Zenon DEF RunStarts, RunRefused, Run, RunMissing, RunBlocked, vars
    <3>2. CASE SaveStep
      BY <2>1, <3>2 DEF SaveStep, SaveBegin, SaveEnd
    <3>3. CASE World
      BY <2>1, <3>3 DEF World, SaveRefused, RemoteChange, Elapse, Cancel
    <3>4. CASE BulkStep
      BY <2>1, <3>4 DEF BulkStep, FetchZip
    <3>5. CASE \E k \in Keys : PoolStep(k)
      BY <3>5 DEF PoolStep
    <3> QED
      BY <1>1, <2>1, <3>1, <3>2, <3>3, <3>4, <3>5 DEF BulkNext, Kill, bulkVars, vars
  <2>3. FileChangesAt(k)
    BY <2>0, <2>2, <1>1, JobStepFile, WrittenAtOnePath DEF UserDelete, IInv, Contents
  <2>4. k = l
    BY <1>1, <2>3 DEF FileChangesAt
  <2>5. ~UserDelete(l)
    BY <1>1, <2>0, WrittenAtOnePath DEF UserDelete, IInv, Contents
  <2>6. job[l] \notin {"writing", "copying"}
    BY <2>0 DEF RewriteInv
  <2>7. ~IdenticalOnDisk(l) => FALSE
    BY <1>1 DEF IdenticalOnDisk
  <2>8. job[l] = "unpacked" => Same(l)
    <3>1. SUFFICES ASSUME job[l] = "unpacked" PROVE remote[l] = fetched[l]
      BY <1>1 DEF Same
    <3>2. remote[l] <= fetched[l] /\ fetched[l] <= remote[l]
      BY <2>0, <3>1 DEF RewriteInv, IInv, KeyInv, JobSound
    <3>3. remote[l] \in Nat /\ fetched[l] \in Nat
      BY <2>0, VersionsAreNumbers DEF IInv, TypeOK
    <3> QED
      BY <3>2, <3>3
  <2>9. WriteBegin(l)
    BY <2>1, <2>2, <2>4, <2>5, <2>6, <2>7, <2>8
       DEF JobStep, Settle, Start, FetchFails, WriteEnd, WriteFails, VerifyUnchanged, VerifyReplaces,
           VerifyOverwrites, ZipUnchanged, ZipReplaces, ZipOverwrites, ZipCopied, ZipFails
  <2>10. job[l] = "fetching" /\ phase = "downloading"
    BY <2>9, <1>1 DEF WriteBegin, BulkInv, InOrder, InProgress
  <2> QED
    BY <2>0, <2>10 DEF RewriteInv
<1>2. BulkInv /\ [BulkNext]_bulkVars =>
        \A k \in Unshared :
          (/\ file[PathOf[k]] = Copy(k, remote[k])
           /\ file'[PathOf[k]] \notin {file[PathOf[k]], Nothing})
          => \/ force
             \/ FileChanged(seen[k], saved[k])
  BY <1>1, UnsharedAreKeys
<1> QED
  BY <1>2, BulkInvariant, PTL DEF BulkSpec, NoNeedlessRewrite

=============================================================================
