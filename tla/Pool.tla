-------------------------------- MODULE Pool --------------------------------
(***************************************************************************)
(* What the two worker pools of the program promise their callers: the     *)
(* download pool of a sync run (internal/syncer/syncer.go,                 *)
(* processRemoteFiles) and the course pool of a crawl                      *)
(* (internal/scraper/orchestrator.go, collectCourseFilesConcurrently).     *)
(*                                                                         *)
(* A batch of jobs is handed to the pool.  Every job that is started is    *)
(* settled exactly once, and the call returns only when nothing is running *)
(* any more.  Without a cancellation every job is settled; after one, at   *)
(* most a single further job is started.  Goroutines and channels are      *)
(* absent on purpose: WorkerPool implements this specification with them.  *)
(***************************************************************************)
EXTENDS Naturals

CONSTANT NumJobs

Jobs == 1 .. NumJobs

VARIABLES
  state,       \* what has become of each job
  cancelled,   \* the caller's context is cancelled
  straggler,   \* a job was started after the cancellation
  returned     \* the pool has returned to its caller

vars == <<state, cancelled, straggler, returned>>

JobState == {"queued", "started", "settled"}

TypeOK ==
  /\ state \in [Jobs -> JobState]
  /\ cancelled \in BOOLEAN
  /\ straggler \in BOOLEAN
  /\ returned \in BOOLEAN

Init ==
  /\ state = [j \in Jobs |-> "queued"]
  /\ cancelled \in BOOLEAN
  /\ straggler = FALSE
  /\ returned = (NumJobs = 0)

(* A job is started, in the order of the batch.  The cancellation closes   *)
(* the gate, but one job may already be passing through it.                *)
Start(j) ==
  /\ ~returned
  /\ state[j] = "queued"
  /\ \A i \in Jobs : i < j => state[i] # "queued"
  /\ ~straggler
  /\ straggler' = cancelled
  /\ state' = [state EXCEPT ![j] = "started"]
  /\ UNCHANGED <<cancelled, returned>>

Settle(j) ==
  /\ ~returned
  /\ state[j] = "started"
  /\ state' = [state EXCEPT ![j] = "settled"]
  /\ UNCHANGED <<cancelled, straggler, returned>>

Cancel ==
  /\ ~cancelled
  /\ cancelled' = TRUE
  /\ UNCHANGED <<state, straggler, returned>>

Return ==
  /\ ~returned
  /\ \A j \in Jobs : \/ state[j] = "settled"
                     \/ cancelled /\ state[j] = "queued"
  /\ returned' = TRUE
  /\ UNCHANGED <<state, cancelled, straggler>>

Next ==
  \/ \E j \in Jobs : Start(j) \/ Settle(j)
  \/ Cancel
  \/ Return

Spec == Init /\ [][Next]_vars

=============================================================================
