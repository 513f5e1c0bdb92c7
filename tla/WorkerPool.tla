----------------------------- MODULE WorkerPool -----------------------------
(***************************************************************************)
(* The goroutine and channel structure shared by the download pool         *)
(* (processRemoteFiles) and the course pool                                *)
(* (collectCourseFilesConcurrently): a feeder that offers the jobs one by  *)
(* one on the unbuffered channel jobCh, a fixed number of workers that     *)
(* range over it, a closer that closes resultCh when the last worker is    *)
(* gone, and the calling goroutine, which drains resultCh and is the only  *)
(* one to touch the results.  A send on an unbuffered channel is a         *)
(* rendezvous, so it is one step of the sender and the receiver together.  *)
(***************************************************************************)
EXTENDS Integers

CONSTANTS
  NumJobs,      \* length of the batch
  Configured,   \* the configured concurrency; <= 0 means "use the default"
  Default       \* what stands in for a missing configuration

ASSUME NumJobsAssumption == NumJobs \in Nat
ASSUME ConfiguredAssumption == Configured \in Int
ASSUME DefaultAssumption == Default \in Nat \ {0}

Jobs == 1 .. NumJobs

(* The number of workers: the configured one, at most one per job.         *)
Concurrency ==
  LET wanted == IF Configured <= 0 THEN Default ELSE Configured
  IN  IF wanted > NumJobs THEN NumJobs ELSE wanted

Workers == 1 .. Concurrency

NoJob == 0

VARIABLES
  ctxDone,     \* ctx is cancelled
  feeder,      \* "check": before ctx is polled; "offer": in the select with
               \* the send; "closed": returned, jobCh closed
  next,        \* the job the feeder deals with
  wpc,         \* where each worker is: "recv", "busy", "send" or "exited"
  wjob,        \* the job each worker holds
  resultsOpen, \* resultCh is not closed yet
  main,        \* the calling goroutine: "draining" or "done"
  delivered,   \* how many results each job has had drained
  late         \* jobs handed over after the cancellation

vars == <<ctxDone, feeder, next, wpc, wjob, resultsOpen, main, delivered, late>>

TypeOK ==
  /\ ctxDone \in BOOLEAN
  /\ feeder \in {"check", "offer", "closed"}
  /\ next \in 1 .. NumJobs + 1
  /\ wpc \in [Workers -> {"recv", "busy", "send", "exited"}]
  /\ wjob \in [Workers -> Jobs \cup {NoJob}]
  /\ resultsOpen \in BOOLEAN
  /\ main \in {"draining", "done"}
  /\ delivered \in [Jobs -> Nat]
  /\ late \in Nat

-----------------------------------------------------------------------------

(* When the feeder's loop is over: the batch is exhausted or ctx is done.  *)
(* The mutant leaves the last job out.                                     *)
FeederLoopEndsEarly == next >= NumJobs \/ ctxDone
FeederLoopEnds == next > NumJobs \/ ctxDone

(* jobCh is closed by the feeder's deferred close, on every way out.  The  *)
(* mutant closes it only at the end of the loop.                           *)
JobsClosedUnlessCancelled == feeder = "closed" /\ ~ctxDone
JobsClosed == feeder = "closed"

(* What workers.Wait() waits for.  The mutant waits for one worker.        *)
SomeWorkerGone == \E w \in Workers : wpc[w] = "exited"
WorkersGone == \A w \in Workers : wpc[w] = "exited"

(* With no jobs there is no channel and no goroutine: the call returns.    *)
Init ==
  /\ ctxDone \in BOOLEAN
  /\ feeder = "check"
  /\ next = 1
  /\ wpc = [w \in Workers |-> "recv"]
  /\ wjob = [w \in Workers |-> NoJob]
  /\ resultsOpen = TRUE
  /\ main = IF Concurrency > 0 THEN "draining" ELSE "done"
  /\ delivered = [j \in Jobs |-> 0]
  /\ late = 0

(* The caller's context is cancelled, at any moment.                       *)
Cancel ==
  /\ ~ctxDone
  /\ ctxDone' = TRUE
  /\ UNCHANGED <<feeder, next, wpc, wjob, resultsOpen, main, delivered, late>>

(* One turn of the feeder's loop up to its second select: leave when the   *)
(* batch is exhausted or ctx is done, else go on to offer the job.         *)
FeederPoll ==
  /\ Concurrency > 0
  /\ feeder = "check"
  /\ feeder' = IF FeederLoopEnds THEN "closed" ELSE "offer"
  /\ UNCHANGED <<ctxDone, next, wpc, wjob, resultsOpen, main, delivered, late>>

(* The send case of the select.  Go picks at random between ready cases,   *)
(* so it may be taken although ctx is done.                                *)
Hand(w) ==
  /\ feeder = "offer"
  /\ wpc[w] = "recv"
  /\ feeder' = "check"
  /\ next' = next + 1
  /\ wpc' = [wpc EXCEPT ![w] = "busy"]
  /\ wjob' = [wjob EXCEPT ![w] = next]
  /\ late' = IF ctxDone THEN late + 1 ELSE late
  /\ UNCHANGED <<ctxDone, resultsOpen, main, delivered>>

(* The ctx.Done() case of the select.                                      *)
FeederAbort ==
  /\ feeder = "offer"
  /\ ctxDone
  /\ feeder' = "closed"
  /\ UNCHANGED <<ctxDone, next, wpc, wjob, resultsOpen, main, delivered, late>>

(* The job itself (a download, a verification, a course crawl) returns,    *)
(* with or without an error: the pool treats both alike.                   *)
Finish(w) ==
  /\ wpc[w] = "busy"
  /\ wpc' = [wpc EXCEPT ![w] = "send"]
  /\ UNCHANGED <<ctxDone, feeder, next, wjob, resultsOpen, main, delivered, late>>

(* The worker's send on resultCh meets the caller's receive.               *)
Deliver(w) ==
  /\ wpc[w] = "send"
  /\ main = "draining"
  /\ delivered' = [delivered EXCEPT ![wjob[w]] = @ + 1]
  /\ wpc' = [wpc EXCEPT ![w] = "recv"]
  /\ wjob' = [wjob EXCEPT ![w] = NoJob]
  /\ UNCHANGED <<ctxDone, feeder, next, resultsOpen, main, late>>

(* The worker's range loop ends on the closed, empty jobCh.                *)
Exit(w) ==
  /\ wpc[w] = "recv"
  /\ JobsClosed
  /\ wpc' = [wpc EXCEPT ![w] = "exited"]
  /\ UNCHANGED <<ctxDone, feeder, next, wjob, resultsOpen, main, delivered, late>>

(* workers.Wait() returns and resultCh is closed.                          *)
CloseResults ==
  /\ Concurrency > 0
  /\ resultsOpen
  /\ WorkersGone
  /\ resultsOpen' = FALSE
  /\ UNCHANGED <<ctxDone, feeder, next, wpc, wjob, main, delivered, late>>

(* The caller's range loop ends on the closed resultCh.                    *)
DrainEnd ==
  /\ main = "draining"
  /\ ~resultsOpen
  /\ main' = "done"
  /\ UNCHANGED <<ctxDone, feeder, next, wpc, wjob, resultsOpen, delivered, late>>

Next ==
  \/ Cancel
  \/ FeederPoll
  \/ FeederAbort
  \/ \E w \in Workers : Hand(w) \/ Finish(w) \/ Deliver(w) \/ Exit(w)
  \/ CloseResults
  \/ DrainEnd

Spec == Init /\ [][Next]_vars

-----------------------------------------------------------------------------

(* Every job that was handed to a worker has its result drained exactly    *)
(* once by the time the caller goes on, and without a cancellation that is *)
(* the whole batch: no file and no course is lost between the channels, or *)
(* counted twice in the statistics the caller keeps.                       *)
ExactlyOnce ==
  /\ \A j \in Jobs : delivered[j] <= 1
  /\ main = "done" =>
       \A j \in Jobs : delivered[j] = IF j < next THEN 1 ELSE 0
  /\ main = "done" /\ ~ctxDone => next = NumJobs + 1

(* No worker is left that could still send when resultCh is closed: a Go   *)
(* program that sends on a closed channel panics.                          *)
NoSendOnClosedChannel ==
  ~resultsOpen => \A w \in Workers : wpc[w] \notin {"busy", "send"}

(* The feeder polls ctx before it offers a job, so a cancellation lets at  *)
(* most one further download or course through.                            *)
AtMostOneLateJob == late <= 1

(* The caller always returns, cancelled or not, and leaves no goroutine    *)
(* behind.                                                                 *)
Termination ==
  <>[](main = "done" /\ \A w \in Workers : wpc[w] = "exited")

(* Why the results are exact: a handed-out job is with exactly one worker  *)
(* until its result is drained, and each channel is closed only when no    *)
(* goroutine can use it any more.  This is the inductive strengthening the *)
(* proofs in PoolProofs rest on.                                           *)
Holding(w) == wpc[w] \in {"busy", "send"}

Accounted ==
  /\ \A w \in Workers : Holding(w) <=> wjob[w] # NoJob
  /\ \A w \in Workers : Holding(w) => wjob[w] < next /\ delivered[wjob[w]] = 0
  /\ \A v, w \in Workers : v # w /\ Holding(v) => wjob[v] # wjob[w]
  /\ \A j \in Jobs : delivered[j] <= 1
  /\ \A j \in Jobs : j >= next => delivered[j] = 0
  /\ \A j \in Jobs : j < next /\ delivered[j] = 0 => \E w \in Workers : wjob[w] = j

ClosedInOrder ==
  /\ feeder = "offer" => next <= NumJobs
  /\ feeder = "closed" => ctxDone \/ next = NumJobs + 1
  /\ \A w \in Workers : wpc[w] = "exited" => feeder = "closed"
  /\ ~resultsOpen => \A w \in Workers : wpc[w] = "exited"
  /\ main = "done" => ~resultsOpen \/ NumJobs = 0
  /\ NumJobs = 0 => main = "done"

CancelCloses ==
  /\ late <= 1
  /\ ~ctxDone => late = 0
  /\ late = 1 => feeder # "offer"

IInv == TypeOK /\ Accounted /\ ClosedInOrder /\ CancelCloses

(* The channels implement the pool's promise.                              *)
Promise == INSTANCE Pool WITH
  state <- [j \in Jobs |-> IF delivered[j] > 0 THEN "settled"
                           ELSE IF j < next THEN "started" ELSE "queued"],
  cancelled <- ctxDone,
  straggler <- late > 0,
  returned <- main = "done"

ImplementsPool == Promise!Spec

=============================================================================
