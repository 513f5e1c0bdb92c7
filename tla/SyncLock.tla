------------------------------ MODULE SyncLock ------------------------------
(***************************************************************************)
(* The lock file that keeps two sync runs apart                            *)
(* (internal/synclock/synclock.go): created exclusively, written, closed;  *)
(* inspected and reclaimed by whoever finds it in the way; removed by the  *)
(* holder at the end of its run, or left behind by a crash.  Every call    *)
(* into the file system is a step of its own.                              *)
(*                                                                         *)
(* A process is known by its PID.  A PID whose process died can come back  *)
(* as another process, of opal-downloader or not.                          *)
(***************************************************************************)
EXTENDS Naturals

CONSTANTS
  Procs,         \* PIDs
  MaxCrashes,    \* bound on crashes, and so on recycled PIDs
  NoFile         \* what a path without a file holds

ASSUME MaxCrashesAssumption == MaxCrashes \in Nat

VARIABLES
  windows,   \* the platform: open files cannot be removed there, and the
             \* start time of a process can be asked for
  lock,      \* the lock file: its writer and whether it is written yet
  pc,        \* where each process is
  attempt,   \* its attempt within Acquire
  got,       \* the file it read
  life,      \* how many processes have had this PID
  crashes,
  \* history, for the properties only:
  contended  \* two processes have been inside Acquire at the same time

lockVars == <<windows, lock, pc, attempt, got, life, crashes, contended>>

LockFile == [by : Procs, life : Nat, written : BOOLEAN]

ASSUME NoFileAssumption == NoFile \notin LockFile

(* Inside Acquire, before its outcome.                                     *)
Acquiring == {"create", "write", "close", "read", "reading", "reclaim"}

Alive(p) == pc[p] # "dead"

LockTypeOK ==
  /\ windows \in BOOLEAN
  /\ lock \in LockFile \cup {NoFile}
  /\ pc \in [Procs -> Acquiring \cup {"dead", "idle", "held"}]
  /\ attempt \in [Procs -> 1 .. 2]
  /\ got \in [Procs -> LockFile \cup {NoFile}]
  /\ life \in [Procs -> Nat]
  /\ crashes \in Nat
  /\ contended \in BOOLEAN

LockInit ==
  /\ windows \in BOOLEAN
  /\ lock = NoFile
  /\ pc = [p \in Procs |-> "idle"]
  /\ attempt = [p \in Procs |-> 1]
  /\ got = [p \in Procs |-> NoFile]
  /\ life = [p \in Procs |-> 0]
  /\ crashes = 0
  /\ contended = FALSE

-----------------------------------------------------------------------------
(* os.Remove of the lock file, whoever wrote it.  Windows refuses it while *)
(* anybody has the file open; every caller ignores the refusal.            *)
OpenElsewhere == \E p \in Procs : pc[p] \in {"write", "close", "reading"}
RemoveLock == lock' = IF windows /\ OpenElsewhere THEN lock ELSE NoFile

(* The file on disk is the one p created, and not a later one.             *)
Mine(p) == lock # NoFile /\ lock.by = p /\ lock.life = life[p]

(* The start of a sync run, at any moment of anybody else's.               *)
Acquire(p) ==
  /\ pc[p] = "idle"
  /\ pc' = [pc EXCEPT ![p] = "create"]
  /\ attempt' = [attempt EXCEPT ![p] = 1]
  /\ contended' = (contended \/ \E q \in Procs : pc[q] \in Acquiring)
  /\ UNCHANGED <<windows, lock, got, life, crashes>>

(* OpenFile with O_CREATE and O_EXCL.  The mutant forgets O_EXCL.          *)
CreatesAnyway == TRUE
CanCreate == lock = NoFile

CreateLock(p) ==
  /\ pc[p] = "create"
  /\ IF CanCreate
     THEN /\ lock' = [by |-> p, life |-> life[p], written |-> FALSE]
          /\ pc' = [pc EXCEPT ![p] = "write"]
     ELSE /\ pc' = [pc EXCEPT ![p] = "read"]
          /\ UNCHANGED lock
  /\ UNCHANGED <<windows, attempt, got, life, crashes, contended>>

(* The JSON body.  On POSIX the file may have been removed meanwhile: the  *)
(* write then goes to a file without a name.                               *)
WriteLock(p) ==
  /\ pc[p] = "write"
  /\ pc' = [pc EXCEPT ![p] = "close"]
  /\ lock' = IF Mine(p) THEN [lock EXCEPT !.written = TRUE] ELSE lock
  /\ UNCHANGED <<windows, attempt, got, life, crashes, contended>>

Close(p) ==
  /\ pc[p] = "close"
  /\ pc' = [pc EXCEPT ![p] = "held"]
  /\ UNCHANGED <<windows, lock, attempt, got, life, crashes, contended>>

(* Encode or Close fails; the file, closed by then, is removed again.      *)
WriteFails(p) ==
  /\ pc[p] = "write"
  /\ crashes < MaxCrashes
  /\ crashes' = crashes + 1
  /\ pc' = [pc EXCEPT ![p] = "idle"]
  /\ lock' = IF windows /\ \E q \in Procs \ {p} : pc[q] \in {"write", "close", "reading"}
             THEN lock ELSE NoFile
  /\ UNCHANGED <<windows, attempt, got, life, contended>>

(* readLock up to the read; the file stays open until Inspect.  A file     *)
(* that is gone by now is an error like any other.                         *)
Read(p) ==
  /\ pc[p] = "read"
  /\ got' = [got EXCEPT ![p] = lock]
  /\ pc' = [pc EXCEPT ![p] = IF lock = NoFile THEN "reclaim" ELSE "reading"]
  /\ UNCHANGED <<windows, lock, attempt, life, crashes, contended>>

(* lockHolderStillRunning.  "recycled" says whether the start time of the  *)
(* process that now has the PID gives it away: only where the platform     *)
(* tells, and only when it started more than two minutes after the lock.   *)
(* The mutants: nobody is taken for dead; a platform that cannot tell the  *)
(* start time counts as proof that the holder is gone.                     *)
TrustsAnyFile(file, recycled) == TRUE
FailsUnsafe(file, recycled) ==
  windows /\ Alive(file.by) /\ (file.life # life[file.by] => ~recycled)
StillRunning(file, recycled) ==
  Alive(file.by) /\ (file.life # life[file.by] => ~recycled)

(* An empty or cut-off file is reclaimed like a dead process's.            *)
Inspect(p) ==
  \E recycled \in BOOLEAN :
    /\ pc[p] = "reading"
    /\ recycled => windows
    /\ pc' = [pc EXCEPT ![p] =
                IF got[p].written /\ StillRunning(got[p], recycled) THEN "idle"
                ELSE "reclaim"]
    /\ got' = [got EXCEPT ![p] = NoFile]
    /\ UNCHANGED <<windows, lock, attempt, life, crashes, contended>>

(* Remove, and the second attempt or, after that, the final error.  The    *)
(* loop of the mutant has no bound.                                        *)
ReclaimForever(p) ==
  /\ pc[p] = "reclaim"
  /\ RemoveLock
  /\ pc' = [pc EXCEPT ![p] = "create"]
  /\ UNCHANGED <<windows, attempt, got, life, crashes, contended>>

Reclaim(p) ==
  /\ pc[p] = "reclaim"
  /\ RemoveLock
  /\ pc' = [pc EXCEPT ![p] = IF attempt[p] = 1 THEN "create" ELSE "idle"]
  /\ attempt' = [attempt EXCEPT ![p] = 2]
  /\ UNCHANGED <<windows, got, life, crashes, contended>>

(* The deferred release at the end of the run.                             *)
Release(p) ==
  /\ pc[p] = "held"
  /\ RemoveLock
  /\ pc' = [pc EXCEPT ![p] = "idle"]
  /\ UNCHANGED <<windows, attempt, got, life, crashes, contended>>

-----------------------------------------------------------------------------

(* A crash or a kill anywhere: the file stays as it is.                    *)
Crash(p) ==
  /\ Alive(p)
  /\ crashes < MaxCrashes
  /\ crashes' = crashes + 1
  /\ pc' = [pc EXCEPT ![p] = "dead"]
  /\ got' = [got EXCEPT ![p] = NoFile]
  /\ UNCHANGED <<windows, lock, attempt, life, contended>>

(* The PID is given to another process.                                    *)
Recycle(p) ==
  /\ pc[p] = "dead"
  /\ pc' = [pc EXCEPT ![p] = "idle"]
  /\ life' = [life EXCEPT ![p] = @ + 1]
  /\ UNCHANGED <<windows, lock, attempt, got, crashes, contended>>

InAcquire(p) ==
  \/ CreateLock(p) \/ WriteLock(p) \/ Close(p) \/ Read(p) \/ Inspect(p) \/ Reclaim(p)

LockNext ==
  \E p \in Procs :
    \/ Acquire(p) \/ InAcquire(p) \/ WriteFails(p) \/ Release(p)
    \/ Crash(p) \/ Recycle(p)

LockSpec == LockInit /\ [][LockNext]_lockVars

(* A call to Acquire runs to its end, runs end, and every process that     *)
(* lives on tries again and again.  Nobody has to crash, and no PID has to *)
(* be recycled.                                                            *)
FairLockSpec ==
  /\ LockSpec
  /\ \A p \in Procs : /\ WF_lockVars(InAcquire(p)) /\ WF_lockVars(Release(p))
                      /\ WF_lockVars(Acquire(p))

-----------------------------------------------------------------------------
(* Properties.                                                             *)

(* At most one process is in its sync run.  The comment at syncer.go's     *)
(* acquireSyncLock says so without a condition ...                         *)
MutualExclusion ==
  \A p, q \in Procs : (pc[p] = "held" /\ pc[q] = "held") => p = q

(* ... but it takes that no two calls of Acquire have ever overlapped.     *)
ExclusiveUncontended == ~contended => MutualExclusion

(* On the same condition the file names the run that is on: whoever looks  *)
(* will be refused.                                                        *)
HolderNamed ==
  ~contended => \A p \in Procs : pc[p] = "held" => Mine(p) /\ lock.written

(* What a dead process left behind does not lock the others out for good:  *)
(* it is reclaimed, unless its PID comes back to life first or, on Windows *)
(* only, two processes that both want to keep each other from removing it. *)
LeftByTheDead == lock # NoFile /\ ~Alive(lock.by)
StaleLockReclaimed == LeftByTheDead ~> (~LeftByTheDead \/ (windows /\ contended))

(* Acquire comes back with an answer whatever the others do, however often *)
(* a lock it judged stale reappears.                                       *)
AcquireReturns ==
  \A p \in Procs : pc[p] \in Acquiring ~> pc[p] \notin Acquiring

=============================================================================
