----------------------------- MODULE BulkVerify -----------------------------
(***************************************************************************)
(* A run of SyncRun with OPAL_BULK_VERIFY_DOWNLOAD set: before the pool    *)
(* starts, the verify jobs of a section that has several of them are       *)
(* answered by one ZIP of the section (runBulkVerifyGroups in syncer.go,   *)
(* DownloadFilesBulk in bulkdownload.go).  What the ZIP does not bring is  *)
(* left to the pool.  The files a ZIP is asked for have names apart.       *)
(***************************************************************************)
EXTENDS SyncRun

CONSTANTS
  Sections,
  SectionOf,      \* the section a file was found in
  MinGroup        \* bulkVerifyMinGroupSize

ASSUME SectionsAssumption == SectionOf \in [Keys -> Sections]
ASSUME MinGroupAssumption == MinGroup \in Nat \ {0}

VARIABLE asking   \* the sections whose ZIP is still to be asked for

bulkVars == <<vars, asking>>

Group(s) == {k \in Keys : job[k] = "verify" /\ SectionOf[k] = s}
Groups == {s \in Sections : Cardinality(Group(s)) >= MinGroup}

(* The jobs whose bytes lie in their scratch files, or are being copied.   *)
Unpacked == {k \in Keys : job[k] \in {"unpacked", "copying"}}
Bulk == asking # {} \/ Unpacked # {}

BulkInit == Init /\ asking = {}

(* The environment variable is set or not, for each run.                   *)
Flagged == asking' \in {{}, Groups'}

-----------------------------------------------------------------------------
(* The ZIP of a section: any of the files asked for, if it comes at all;   *)
(* an entry may be missing, or its extraction fail.                        *)
ZipsOf(s) == SUBSET Group(s)

FetchZip(s) ==
  /\ s \in asking /\ Unpacked = {}
  /\ asking' = asking \ {s}
  /\ \E zip \in ZipsOf(s) :
       /\ job' = [k \in Keys |-> IF k \in zip THEN "unpacked" ELSE job[k]]
       /\ fetched' = [k \in Keys |-> IF k \in zip THEN remote[k] ELSE fetched[k]]
  /\ UNCHANGED <<remote, file, saved, phase, force, seen, mem, stats, cancelled, faults>>

(* The entry's date, written in another form than the table's: it equals   *)
(* no column, whatever version it is of.                                   *)
ZipDate == 0

(* finishVerifyFromTemp found the same bytes: nothing is written, and the  *)
(* record gets the date.                                                   *)
Same(k) == file[PathOf[k]] = Copy(k, fetched[k])

ZipUnchanged(k) ==
  /\ job[k] = "unpacked" /\ Same(k)
  /\ Result(k, [VerifiedRecord(mem[k]) EXCEPT !.modified = ZipDate], "skipped")
  /\ UNCHANGED <<file, faults>>

ZipRecord(k) == [SuccessRecord(seen[k]) EXCEPT !.modified = ZipDate]

(* The scratch file is renamed over the target ...                         *)
ZipReplaces(k) ==
  /\ job[k] = "unpacked" /\ ~Same(k)
  /\ file' = [file EXCEPT ![PathOf[k]] = Copy(k, fetched[k])]
  /\ Result(k, ZipRecord(k), "downloaded")
  /\ UNCHANGED faults

(* ... or copied over it, if that is open elsewhere ...                    *)
ZipOverwrites(k) ==
  /\ job[k] = "unpacked" /\ ~Same(k)
  /\ job' = [job EXCEPT ![k] = "copying"]
  /\ file' = [file EXCEPT ![PathOf[k]] = Torn]
  /\ Fault
  /\ UNCHANGED <<remote, saved, phase, force, seen, mem, fetched, stats, cancelled>>

ZipCopied(k) ==
  /\ job[k] = "copying"
  /\ file' = [file EXCEPT ![PathOf[k]] = Copy(k, fetched[k])]
  /\ Result(k, ZipRecord(k), "downloaded")
  /\ UNCHANGED faults

(* ... or neither is possible, or the copying breaks off.                  *)
ZipFails(k) ==
  /\ \/ job[k] = "unpacked" /\ ~Same(k)
     \/ job[k] = "copying" /\ TornWrites
  /\ Failed(k)
  /\ Fault
  /\ UNCHANGED file

-----------------------------------------------------------------------------
(* The loop over the sections is sequential and precedes the pool; OPAL,   *)
(* the user, a cancellation and a kill do not wait for it.                 *)
Settle(k) ==
  \/ ZipUnchanged(k) \/ ZipReplaces(k) \/ ZipOverwrites(k) \/ ZipCopied(k) \/ ZipFails(k)

OneAtATime(k) == \A other \in Keys \ {k} : job[other] # "copying"

BulkStep ==
  \/ \E s \in Sections : FetchZip(s)
  \/ \E k \in Keys : OneAtATime(k) /\ Settle(k) /\ UNCHANGED asking

PoolStep(k) == ~Bulk /\ JobStep(k) /\ UNCHANGED asking

SaveStep == ~Bulk /\ (SaveBegin \/ SaveEnd) /\ UNCHANGED asking

World ==
  \/ \E k \in Keys :
       RemoteChange(k) \/ (job[k] # "copying" /\ UserDelete(k)) \/ Elapse(k)
  \/ Cancel
  \/ ~Bulk /\ SaveRefused

BulkNext ==
  \/ RunStarts /\ Flagged
  \/ BulkStep
  \/ (\E k \in Keys : PoolStep(k)) \/ SaveStep
  \/ World /\ UNCHANGED asking
  \/ /\ Kill /\ (TornWrites \/ \A k \in Keys : job[k] # "copying")
     /\ asking' = {}

BulkSpec == BulkInit /\ [][BulkNext]_bulkVars

(* As in SyncRun's FairSpec; the loop over the sections is the run's own.  *)
FairBulkSpec ==
  /\ BulkSpec
  /\ WF_bulkVars(\E cols \in [Keys -> Columns] : Run(FALSE, cols) /\ Flagged)
  /\ WF_bulkVars(BulkStep)
  /\ \A k \in Keys : WF_bulkVars(PoolStep(k)) /\ SF_bulkVars(Elapse(k) /\ UNCHANGED asking)
  /\ WF_bulkVars(SaveStep)

=============================================================================
