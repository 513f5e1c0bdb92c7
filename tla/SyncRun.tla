------------------------------ MODULE SyncRun -------------------------------
(***************************************************************************)
(* The manifest, the download folder and the runs that keep them in step   *)
(* with OPAL (internal/syncer/syncer.go).                                  *)
(*                                                                         *)
(* A run loads the manifest, discovers what OPAL has, compares the two and *)
(* queues a job per file that has to be fetched or verified; the jobs run  *)
(* on the pool of module WorkerPool, of which only what Pool promises is   *)
(* used here; the manifest is written back once, at the end.  Between and  *)
(* during runs OPAL publishes new versions and the user deletes files; a   *)
(* run can be cancelled, and killed at any point.                          *)
(***************************************************************************)
EXTENDS Manifest, FiniteSets

CONSTANTS
  Keys,           \* manifest keys (resolveRemoteTargetPath's ManifestKey)
  Paths,          \* local paths (its LocalPath)
  PathOf,         \* the path each key resolves to
  SizeOf,         \* the size of each version: distinct ones may share it
  Columns,        \* the sets of columns a row of OPAL's table may show
  Concurrency,    \* download_concurrency
  MaxFaults,      \* bound on failures, kills, cancellations and deletions
  TornWrites,     \* whether a write can stop partway (kill, full disk)
  Torn, Foreign,  \* contents: a cut-off file, one of the user's own
  Absent,         \* a key the crawl did not report
  Unreadable      \* a manifest that does not parse

ASSUME KeysAssumption == IsFiniteSet(Keys) /\ MaxVersion \in Nat \ {0}
ASSUME PathOfAssumption == PathOf \in [Keys -> Paths]
ASSUME SizeOfAssumption == SizeOf \in [Versions -> Nat]
ASSUME ColumnsAssumption == Columns \subseteq SUBSET {"size", "modified"}
ASSUME BoundsAssumption == Concurrency \in Nat \ {0} /\ MaxFaults \in Nat
                           /\ TornWrites \in BOOLEAN

VARIABLES
  remote,     \* the version of each file OPAL has now
  file,       \* the content at each local path
  saved,      \* the manifest on disk
  phase,      \* "idle", "downloading" or "saving"
  force,      \* the run was started with --force
  seen,       \* the columns the run's crawl read for each key
  mem,        \* the run's manifest in memory
  job,        \* what the run does about each key
  fetched,    \* the version a half-written file will have
  stats,      \* the run's counters
  cancelled,  \* "no", "requested", or "heeded": no further job will start
  faults      \* faults so far

run == <<phase, force, seen, mem, job, fetched, stats, cancelled>>
vars == <<remote, file, saved, run, faults>>

-----------------------------------------------------------------------------
(* The data a run compares.                                                *)

Manifests == [Keys -> Record \cup {NoRecord}]

Download == [key : Keys, version : Versions]
Contents == Download \cup {Nothing, Torn, Foreign}
Copy(k, v) == [key |-> k, version |-> v]

(* The marks for what is not there are not among what may be there.        *)
ASSUME MarksAssumption ==
  /\ Nil \notin Nat
  /\ NoRecord \notin Record
  /\ Absent \notin Signals
  /\ Unreadable \notin Manifests
  /\ {Nothing, Torn, Foreign} \cap Download = {}
  /\ Nothing # Torn /\ Nothing # Foreign /\ Torn # Foreign

(* What OPAL's row says of version v when it shows the columns in cols.    *)
SignalsOf(v, cols) ==
  [size     |-> IF "size" \in cols THEN SizeOf[v] ELSE Nil,
   modified |-> IF "modified" \in cols THEN v ELSE Nil]

-----------------------------------------------------------------------------
(* The initial state: an empty folder, or files the user filed by hand;    *)
(* no manifest, or one whose keys a migration pointed at such files.       *)

NoStats == [downloaded |-> 0, skipped |-> 0, errors |-> 0]
NoManifest == [k \in Keys |-> NoRecord]
Count(s, field) == [s EXCEPT ![field] = @ + 1]

MigratedRecord == [size |-> SizeOf[1], modified |-> 1,
                   resting |-> FALSE, unverified |-> TRUE]

Init ==
  /\ remote = [k \in Keys |-> 1]
  /\ file \in [Paths -> {Nothing, Foreign}]
  /\ saved \in [Keys -> {NoRecord, MigratedRecord}]
  /\ \A k \in Keys : saved[k] # NoRecord => file[PathOf[k]] = Foreign
  /\ phase = "idle"
  /\ force = FALSE
  /\ seen = [k \in Keys |-> Absent]
  /\ mem = NoManifest
  /\ job = [k \in Keys |-> "none"]
  /\ fetched = [k \in Keys |-> 1]
  /\ stats = NoStats
  /\ cancelled = "no"
  /\ faults = 0

(* The run is over, in whatever way: its memory is gone.                   *)
RunEnds ==
  /\ phase' = "idle"
  /\ force' = FALSE
  /\ seen' = [k \in Keys |-> Absent]
  /\ mem' = NoManifest
  /\ job' = [k \in Keys |-> "none"]
  /\ fetched' = [k \in Keys |-> 1]
  /\ stats' = NoStats
  /\ cancelled' = "no"

Fault == faults < MaxFaults /\ faults' = faults + 1

-----------------------------------------------------------------------------
(* A run up to the point where its jobs are queued: LoadManifest (which    *)
(* refuses an unreadable one), the crawl, and the decision pass.  Nothing  *)
(* outside the run can observe or disturb these in between, so they are    *)
(* one step.  The crawl may miss keys - a course or section that failed -  *)
(* and the target's directory may be impossible to create.                 *)
Compare(forced, reported, unmakeable) ==
  LET verdict == [k \in Keys |->
        IF reported[k] = Absent THEN "none"
        ELSE Verdict(forced, reported[k], saved[k], file[PathOf[k]])]
      wanted == {k \in Keys : verdict[k] \in {"fetch", "verify"}}
  IN
  /\ phase = "idle"
  /\ saved # Unreadable
  /\ phase' = "downloading"
  /\ force' = forced
  /\ seen' = reported
  /\ mem' = saved
  /\ job' = [k \in Keys |-> IF k \in wanted \ unmakeable THEN verdict[k] ELSE "none"]
  /\ stats' = [downloaded |-> 0,
               skipped |-> Cardinality({k \in Keys : verdict[k] \in {"backoff", "skip"}}),
               errors |-> Cardinality(wanted \cap unmakeable)]
  /\ UNCHANGED <<remote, file, saved, fetched, cancelled>>

(* What a crawl that misses nothing reports.                               *)
Reported(cols) == [k \in Keys |-> SignalsOf(remote[k], cols[k])]

Run(forced, cols) == Compare(forced, Reported(cols), {}) /\ UNCHANGED faults

(* A crawl that misses k, or a run that cannot make the directory of k.    *)
RunMissing(forced, cols, k) ==
  Compare(forced, [Reported(cols) EXCEPT ![k] = Absent], {}) /\ Fault

RunBlocked(forced, cols, k) == Compare(forced, Reported(cols), {k}) /\ Fault

(* LoadManifest fails: so does the run, having changed nothing.            *)
RunRefused ==
  /\ phase = "idle"
  /\ saved = Unreadable
  /\ UNCHANGED vars

-----------------------------------------------------------------------------
(* The download pool: at most Concurrency jobs at once, at most one more   *)
(* started after a cancellation (LateJobsBounded, PoolProofs).  The        *)
(* result of a job reaches the manifest in memory on the draining          *)
(* goroutine; that memory is first read after the last job, so the two     *)
(* are one step here.                                                      *)

InFlight == {k \in Keys : job[k] \in {"fetching", "verifying", "writing"}}

Start(k) ==
  /\ phase = "downloading"
  /\ job[k] \in {"fetch", "verify"}
  /\ Cardinality(InFlight) < Concurrency
  /\ cancelled # "heeded"
  /\ job' = [job EXCEPT ![k] = IF @ = "fetch" THEN "fetching" ELSE "verifying"]
  /\ cancelled' = IF cancelled = "requested" THEN "heeded" ELSE cancelled
  /\ UNCHANGED <<remote, file, saved, phase, force, seen, mem, fetched, stats, faults>>

(* The draining goroutine's treatment of one result.                       *)
Result(k, record, field) ==
  /\ job' = [job EXCEPT ![k] = "done"]
  /\ mem' = [mem EXCEPT ![k] = record]
  /\ stats' = Count(stats, field)
  /\ UNCHANGED <<remote, saved, phase, force, seen, fetched, cancelled>>

(* A failure is recorded beside what the record says of the last success;  *)
(* the mutant also records the columns of the version that failed.         *)
FailedAsIfFetched(k) == Result(k, [SuccessRecord(seen[k]) EXCEPT !.resting = TRUE], "errors")
Failed(k) == Result(k, FailureRecord(mem[k]), "errors")
Fetched(k) == Result(k, SuccessRecord(seen[k]), "downloaded")

(* The request fails.  A cancellation closes the browser the requests go   *)
(* through, so it makes every request in flight fail.                      *)
FetchFails(k) ==
  /\ job[k] \in {"fetching", "verifying"}
  /\ Failed(k)
  /\ UNCHANGED file
  /\ IF cancelled = "no" THEN Fault ELSE UNCHANGED faults

(* DownloadFile has the bytes and truncates the target to write them.      *)
WriteBegin(k) ==
  /\ job[k] = "fetching"
  /\ job' = [job EXCEPT ![k] = "writing"]
  /\ file' = [file EXCEPT ![PathOf[k]] = Torn]
  /\ fetched' = [fetched EXCEPT ![k] = remote[k]]
  /\ UNCHANGED <<remote, saved, phase, force, seen, mem, stats, cancelled, faults>>

WriteEnd(k) ==
  /\ job[k] = "writing"
  /\ file' = [file EXCEPT ![PathOf[k]] = Copy(k, fetched[k])]
  /\ Fetched(k)
  /\ UNCHANGED faults

(* The disk is full, or the stream the browser saves from breaks off.      *)
WriteFails(k) ==
  /\ job[k] = "writing"
  /\ TornWrites
  /\ Failed(k)
  /\ Fault
  /\ UNCHANGED file

(* runVerifyJob: the bytes arrive in a scratch file and are compared with  *)
(* the target's.  The mutant replaces the target without comparing.        *)
NeverIdentical(k) == FALSE
IdenticalOnDisk(k) == file[PathOf[k]] = Copy(k, remote[k])

VerifyUnchanged(k) ==
  /\ job[k] = "verifying"
  /\ IdenticalOnDisk(k)
  /\ Result(k, VerifiedRecord(mem[k]), "skipped")
  /\ UNCHANGED <<file, faults>>

(* The scratch file is renamed over the target ...                         *)
VerifyReplaces(k) ==
  /\ job[k] = "verifying"
  /\ ~IdenticalOnDisk(k)
  /\ file' = [file EXCEPT ![PathOf[k]] = Copy(k, remote[k])]
  /\ Fetched(k)
  /\ UNCHANGED faults

(* ... or, the target being open elsewhere, copied over it.                *)
VerifyOverwrites(k) ==
  /\ job[k] = "verifying"
  /\ ~IdenticalOnDisk(k)
  /\ job' = [job EXCEPT ![k] = "writing"]
  /\ file' = [file EXCEPT ![PathOf[k]] = Torn]
  /\ fetched' = [fetched EXCEPT ![k] = remote[k]]
  /\ Fault
  /\ UNCHANGED <<remote, saved, phase, force, seen, mem, stats, cancelled>>

-----------------------------------------------------------------------------
(* The end of a run.                                                       *)

(* The pool has been drained: the jobs are done, or left in the queue by a *)
(* cancellation.  The mutant only looks at the jobs in flight.             *)
DrainedWhenIdle == phase = "downloading" /\ InFlight = {}
Drained ==
  /\ phase = "downloading"
  /\ InFlight = {}
  /\ cancelled = "no" => \A k \in Keys : job[k] \notin {"fetch", "verify"}

(* Manifest.Save truncates the manifest and writes it anew.                *)
SaveBegin ==
  /\ Drained
  /\ phase' = "saving"
  /\ saved' = Unreadable
  /\ UNCHANGED <<remote, file, force, seen, mem, job, fetched, stats, cancelled, faults>>

SaveEnd ==
  /\ phase = "saving"
  /\ saved' = mem
  /\ RunEnds
  /\ UNCHANGED <<remote, file, faults>>

(* The manifest cannot even be opened for writing.                         *)
SaveRefused ==
  /\ Drained
  /\ Fault
  /\ RunEnds
  /\ UNCHANGED <<remote, file, saved>>

Cancel ==
  /\ phase # "idle"
  /\ cancelled = "no"
  /\ cancelled' = "requested"
  /\ Fault
  /\ UNCHANGED <<remote, file, saved, phase, force, seen, mem, job, fetched, stats>>

(* The process dies.  Without TornWrites it does so between writes only.   *)
Kill ==
  /\ phase # "idle"
  /\ TornWrites \/ (phase # "saving" /\ \A k \in Keys : job[k] # "writing")
  /\ Fault
  /\ RunEnds
  /\ UNCHANGED <<remote, file, saved>>

-----------------------------------------------------------------------------
(* The world around the runs.                                              *)

RemoteChange(k) ==
  /\ remote[k] < MaxVersion
  /\ remote' = [remote EXCEPT ![k] = @ + 1]
  /\ UNCHANGED <<file, saved, run, faults>>

UserDelete(k) ==
  /\ job[k] # "writing"
  /\ file[PathOf[k]] # Nothing
  /\ file' = [file EXCEPT ![PathOf[k]] = Nothing]
  /\ Fault
  /\ UNCHANGED <<remote, saved, run>>

(* The hours or days of the backoff of k have passed.                      *)
Elapse(k) ==
  /\ phase = "idle"
  /\ saved # Unreadable
  /\ BacksOff(saved[k])
  /\ saved' = [saved EXCEPT ![k].resting = FALSE]
  /\ UNCHANGED <<remote, file, run, faults>>

RunStarts ==
  \/ RunRefused
  \/ \E forced \in BOOLEAN, cols \in [Keys -> Columns] :
       \/ Run(forced, cols)
       \/ \E k \in Keys : RunMissing(forced, cols, k) \/ RunBlocked(forced, cols, k)

JobStep(k) ==
  \/ Start(k) \/ FetchFails(k) \/ WriteBegin(k) \/ WriteEnd(k) \/ WriteFails(k)
  \/ VerifyUnchanged(k) \/ VerifyReplaces(k) \/ VerifyOverwrites(k)

Next ==
  \/ RunStarts
  \/ \E k \in Keys : JobStep(k) \/ RemoteChange(k) \/ UserDelete(k) \/ Elapse(k)
  \/ SaveBegin \/ SaveEnd \/ SaveRefused \/ Cancel \/ Kill

Spec == Init /\ [][Next]_vars

(* Runs keep being started (the daily task, the user), a run's own steps   *)
(* are always taken eventually, and the hours of a backoff pass however    *)
(* many runs are started meanwhile, which is what makes Elapse strong.     *)
FairSpec ==
  /\ Spec
  /\ WF_vars(\E cols \in [Keys -> Columns] : Run(FALSE, cols))
  /\ \A k \in Keys : WF_vars(JobStep(k)) /\ SF_vars(Elapse(k))
  /\ WF_vars(SaveBegin) /\ WF_vars(SaveEnd)

-----------------------------------------------------------------------------
(* Properties.                                                             *)

TypeOK ==
  /\ remote \in [Keys -> Versions]
  /\ file \in [Paths -> Contents]
  /\ saved \in Manifests \cup {Unreadable}
  /\ phase \in {"idle", "downloading", "saving"}
  /\ force \in BOOLEAN
  /\ seen \in [Keys -> Signals \cup {Absent}]
  /\ mem \in Manifests
  /\ job \in [Keys -> {"none", "fetch", "verify", "fetching", "verifying",
                       "writing", "done",
                       "unpacked", "copying"}]   \* the last two in BulkVerify
  /\ fetched \in [Keys -> Versions]
  /\ stats \in [downloaded : Nat, skipped : Nat, errors : Nat]
  /\ cancelled \in {"no", "requested", "heeded"}
  /\ faults \in 0 .. MaxFaults

(* Two keys may resolve to one path: the code keeps one job per key, not   *)
(* one per path, and promises nothing of the file they share.              *)
Unshared == {k \in Keys : \A l \in Keys : PathOf[l] = PathOf[k] => l = k}

(* Nothing is left to do about k: a run started now whose crawl reads all  *)
(* of OPAL's columns would skip it as up to date.                          *)
TakenForCurrent(k) ==
  /\ phase = "idle"
  /\ saved # Unreadable
  /\ Verdict(FALSE, SignalsOf(remote[k], {"size", "modified"}),
             saved[k], file[PathOf[k]]) = "skip"

(* A file the next sync would skip is not an older version than OPAL's and *)
(* not somebody else's file: fileChanged and needsContentVerification      *)
(* together never take a stale copy for current.                           *)
NeverSilentlyOlder ==
  \A k \in Unshared :
    TakenForCurrent(k) => file[PathOf[k]] \in {Copy(k, remote[k]), Torn}

(* A saved record's date is at most that of the bytes at its path, unless  *)
(* the record is flagged or the file is gone or cut off: the manifest      *)
(* never claims more than was downloaded, although the crawl that supplied *)
(* the date and the download are minutes apart.                            *)
RecordNotAheadOfFile ==
  saved # Unreadable =>
    \A k \in Unshared :
      LET record == saved[k]
          content == file[PathOf[k]] IN
      (record # NoRecord /\ ~record.unverified /\ record.modified # Nil) =>
        \/ content \in {Nothing, Torn}
        \/ content \in Download /\ content.key = k /\ content.version >= record.modified

(* The summary a finished run prints accounts for every file it saw, once. *)
StatsAccounted ==
  (phase = "saving" /\ cancelled = "no") =>
    stats.downloaded + stats.skipped + stats.errors
      = Cardinality({k \in Keys : seen[k] # Absent})

(* A copy that is already current is not rewritten (the folder is synced   *)
(* by OneDrive, which would upload it again) unless the run was forced or  *)
(* OPAL's columns differed from the record.                                *)
NoNeedlessRewrite ==
  [][\A k \in Unshared :
       (/\ file[PathOf[k]] = Copy(k, remote[k])
        /\ file'[PathOf[k]] \notin {file[PathOf[k]], Nothing})
       => \/ force
          \/ FileChanged(seen[k], saved[k])]_vars

(* Every file is current again and again however runs fail, unless a write *)
(* of it or of the manifest was cut off: no record, flag or backoff shuts  *)
(* a file out for good.                                                    *)
EventuallyCurrent ==
  \A k \in Unshared :
    \/ <>[](saved = Unreadable)
    \/ []<>(file[PathOf[k]] \in {Copy(k, remote[k]), Torn})

=============================================================================
