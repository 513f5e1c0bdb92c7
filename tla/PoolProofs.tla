----------------------------- MODULE PoolProofs -----------------------------
(***************************************************************************)
(* For every batch length, every configured concurrency and every          *)
(* default: the pool's type invariant, its exactly-once accounting, the    *)
(* safety of its channels, the bound on late jobs, and that it implements  *)
(* the abstract Pool; all of them follow from IInv of WorkerPool.  And for *)
(* any pages, any files on them and any faults, what the download ladder   *)
(* does inside the pool: it is a run of the pool, its types, the page a    *)
(* worker searches, and that neighbours do not outrun each other.          *)
(***************************************************************************)
EXTENDS DownloadLadder, FiniteSetTheorems, TLAPS

-----------------------------------------------------------------------------
(* The pool *)

(* Clamping leaves a natural number of workers, none only for an empty     *)
(* batch (processRemoteFiles and collectCourseFilesConcurrently).          *)
LEMMA ConcurrencyBounds ==
  /\ Concurrency \in Nat
  /\ Concurrency <= NumJobs
  /\ Concurrency = 0 <=> NumJobs = 0
BY NumJobsAssumption, ConfiguredAssumption, DefaultAssumption DEF Concurrency

(* No job number is the placeholder for "no job".                          *)
LEMMA NoJobIsNoJob == NoJob \notin Jobs /\ NoJob \in Nat
BY NumJobsAssumption DEF NoJob, Jobs

(* The pool starts with everything unassigned and every channel open.      *)
LEMMA InitEstablishes == Init => IInv
<1>. SUFFICES ASSUME Init PROVE IInv
  OBVIOUS
<1>. USE NumJobsAssumption, ConcurrencyBounds, NoJobIsNoJob DEF Init
<1>1. TypeOK
  BY DEF TypeOK, Jobs, Workers
<1>2. Accounted
  BY DEF Accounted, Holding, Jobs, Workers, NoJob
<1>3. ClosedInOrder
  BY DEF ClosedInOrder, Workers
<1>4. CancelCloses
  BY DEF CancelCloses
<1>. QED
  BY <1>1, <1>2, <1>3, <1>4 DEF IInv

(* Every step of a goroutine keeps the accounting.                         *)
LEMMA StepPreserves == IInv /\ [Next]_vars => IInv'
<1>. SUFFICES ASSUME IInv, [Next]_vars PROVE IInv'
  OBVIOUS
<1>. USE NumJobsAssumption, ConcurrencyBounds, NoJobIsNoJob
     DEF IInv, TypeOK, Accounted, ClosedInOrder, CancelCloses, Holding
<1>1. CASE Cancel
  BY <1>1 DEF Cancel
<1>2. CASE FeederPoll
  BY <1>2 DEF FeederPoll, FeederLoopEnds
<1>3. CASE FeederAbort
  BY <1>3 DEF FeederAbort
<1>4. ASSUME NEW w \in Workers, Hand(w) PROVE IInv'
  <2>. USE <1>4 DEF Hand
  <2>1. next \in Jobs /\ next' = next + 1 /\ next' \in 1 .. NumJobs + 1
    BY DEF Jobs
  <2>2. \A v \in Workers : wjob[v] # next
    BY <2>1
  <2>3. TypeOK'
    BY <2>1
  <2>4. Accounted'
    <3>1. \A v \in Workers : v # w => wjob'[v] = wjob[v] /\ wpc'[v] = wpc[v]
      OBVIOUS
    <3>2. wjob'[w] = next /\ wpc'[w] = "busy"
      OBVIOUS
    <3>3. delivered[next] = 0
      BY <2>1
    <3>4. \A v \in Workers : Holding(v)' => wjob'[v] < next' /\ delivered'[wjob'[v]] = 0
      BY <3>1, <3>2, <3>3, <2>1 DEF Jobs
    <3>5. \A u, v \in Workers : u # v /\ Holding(u)' => wjob'[u] # wjob'[v]
      BY <3>1, <3>2, <2>2
    <3>6. \A v \in Workers : Holding(v)' <=> wjob'[v] # NoJob
      BY <3>1, <3>2, <2>1
    <3>7. \A j \in Jobs : j < next' /\ delivered'[j] = 0 => \E v \in Workers : wjob'[v] = j
      <4>. SUFFICES ASSUME NEW j \in Jobs, j < next + 1, delivered[j] = 0
                    PROVE  \E v \in Workers : wjob'[v] = j
        OBVIOUS
      <4>1. CASE j = next
        BY <4>1, <3>2
      <4>2. CASE j # next
        <5>1. j < next
          BY <4>2, <2>1 DEF Jobs
        <5>2. PICK v \in Workers : wjob[v] = j
          BY <5>1
        <5>3. v # w
          BY <5>2
        <5>. QED
          BY <5>2, <5>3, <3>1
      <4>. QED
        BY <4>1, <4>2
    <3>8. \A j \in Jobs : j >= next' => delivered'[j] = 0
      BY <2>1 DEF Jobs
    <3>. QED
      BY <3>4, <3>5, <3>6, <3>7, <3>8
  <2>5. ClosedInOrder'
    OBVIOUS
  <2>6. CancelCloses'
    OBVIOUS
  <2>. QED
    BY <2>3, <2>4, <2>5, <2>6
<1>5. ASSUME NEW w \in Workers, Finish(w) PROVE IInv'
  BY <1>5 DEF Finish
<1>6. ASSUME NEW w \in Workers, Deliver(w) PROVE IInv'
  <2>. USE <1>6 DEF Deliver
  <2>1. wjob[w] \in Jobs /\ delivered[wjob[w]] = 0 /\ wjob[w] < next
    OBVIOUS
  <2>2. /\ delivered' \in [Jobs -> Nat]
        /\ \A j \in Jobs : delivered'[j] = IF j = wjob[w] THEN 1 ELSE delivered[j]
    BY <2>1
  <2>3. TypeOK'
    BY <2>2
  <2>4. Accounted'
    <3>1. \A v \in Workers : v # w => wjob'[v] = wjob[v] /\ wpc'[v] = wpc[v]
      OBVIOUS
    <3>2. wjob'[w] = NoJob /\ wpc'[w] = "recv"
      OBVIOUS
    <3>3. \A v \in Workers : Holding(v)' <=> wjob'[v] # NoJob
      BY <3>1, <3>2
    <3>4. \A v \in Workers : v # w /\ Holding(v) => wjob[v] # wjob[w] /\ wjob[v] \in Jobs
      OBVIOUS
    <3>5. \A v \in Workers : Holding(v)' => wjob'[v] < next' /\ delivered'[wjob'[v]] = 0
      BY <3>1, <3>2, <3>4, <2>2
    <3>6. \A u, v \in Workers : u # v /\ Holding(u)' => wjob'[u] # wjob'[v]
      BY <3>1, <3>2, <3>4
    <3>7. \A j \in Jobs : delivered'[j] <= 1
      BY <2>2
    <3>8. \A j \in Jobs : j >= next' => delivered'[j] = 0
      BY <2>1, <2>2 DEF Jobs
    <3>9. \A j \in Jobs : j < next' /\ delivered'[j] = 0 => \E v \in Workers : wjob'[v] = j
      <4>. SUFFICES ASSUME NEW j \in Jobs, j < next, delivered'[j] = 0
                    PROVE  \E v \in Workers : wjob'[v] = j
        OBVIOUS
      <4>1. j # wjob[w] /\ delivered[j] = 0
        BY <2>2
      <4>2. PICK v \in Workers : wjob[v] = j
        BY <4>1
      <4>. QED
        BY <4>1, <4>2, <3>1
    <3>. QED
      BY <3>3, <3>5, <3>6, <3>7, <3>8, <3>9
  <2>5. ClosedInOrder' /\ CancelCloses'
    OBVIOUS
  <2>. QED
    BY <2>3, <2>4, <2>5
<1>7. ASSUME NEW w \in Workers, Exit(w) PROVE IInv'
  BY <1>7 DEF Exit, JobsClosed
<1>8. CASE CloseResults
  BY <1>8 DEF CloseResults, WorkersGone
<1>9. CASE DrainEnd
  BY <1>9 DEF DrainEnd
<1>10. CASE UNCHANGED vars
  BY <1>10 DEF vars
<1>. QED
  BY <1>1, <1>2, <1>3, <1>4, <1>5, <1>6, <1>7, <1>8, <1>9, <1>10 DEF Next

(* The inductive invariant holds in every reachable state.                 *)
LEMMA InductiveInvariant == Spec => []IInv
BY InitEstablishes, StepPreserves, PTL DEF Spec

(* Every variable of the pool keeps its type: in particular the feeder     *)
(* never reads past the end of the batch.                                  *)
THEOREM TypeCorrect == Spec => []TypeOK
<1>1. IInv => TypeOK
  BY DEF IInv
<1>. QED
  BY <1>1, InductiveInvariant, PTL

(* Whatever the batch, the concurrency and the moment of a cancellation,   *)
(* every job handed to a worker has exactly one result drained when the    *)
(* caller goes on.                                                         *)
THEOREM ResultsExactlyOnce == Spec => []ExactlyOnce
<1>1. IInv => ExactlyOnce
  <2>. SUFFICES ASSUME IInv PROVE ExactlyOnce
    OBVIOUS
  <2>. USE NumJobsAssumption, ConcurrencyBounds
       DEF IInv, TypeOK, Accounted, ClosedInOrder, Holding
  <2>1. \A j \in Jobs : delivered[j] <= 1
    OBVIOUS
  <2>2. ASSUME main = "done", NEW j \in Jobs
        PROVE  delivered[j] = IF j < next THEN 1 ELSE 0
    <3>1. ~resultsOpen
      BY <2>2 DEF Jobs
    <3>2. \A w \in Workers : wjob[w] = NoJob
      BY <3>1
    <3>3. j < next => delivered[j] # 0
      BY <3>2, NoJobIsNoJob
    <3>4. delivered[j] \in Nat /\ j \in Nat /\ next \in Nat
      BY DEF Jobs
    <3>. QED
      BY <3>3, <3>4, <2>1
  <2>3. ASSUME main = "done", ~ctxDone PROVE next = NumJobs + 1
    <3>1. CASE NumJobs = 0
      BY <3>1
    <3>2. CASE NumJobs # 0
      <4>1. 1 \in Workers /\ wpc[1] = "exited"
        BY <3>2, <2>3 DEF Workers
      <4>. QED
        BY <4>1, <2>3
    <3>. QED
      BY <3>1, <3>2
  <2>. QED
    BY <2>1, <2>2, <2>3 DEF ExactlyOnce
<1>. QED
  BY <1>1, InductiveInvariant, PTL

(* When resultCh is closed no worker can still send on it.                 *)
THEOREM ChannelsClosedSafely == Spec => []NoSendOnClosedChannel
<1>1. IInv => NoSendOnClosedChannel
  BY DEF IInv, ClosedInOrder, NoSendOnClosedChannel
<1>. QED
  BY <1>1, InductiveInvariant, PTL

(* A cancellation lets at most one further job through, however many       *)
(* workers are waiting for one.                                            *)
THEOREM LateJobsBounded == Spec => []AtMostOneLateJob
<1>1. IInv => AtMostOneLateJob
  BY DEF IInv, CancelCloses, AtMostOneLateJob
<1>. QED
  BY <1>1, InductiveInvariant, PTL

-----------------------------------------------------------------------------

(* What has become of a job, as the abstract pool sees it.                 *)
JobFate ==
  [j \in Jobs |-> IF delivered[j] > 0 THEN "settled"
                  ELSE IF j < next THEN "started" ELSE "queued"]

(* The initial channels are an untouched abstract pool.                    *)
LEMMA InitRefines == Init => Promise!Init
<1>. SUFFICES ASSUME Init PROVE Promise!Init
  OBVIOUS
<1>1. JobFate = [j \in Jobs |-> "queued"]
  BY NumJobsAssumption DEF JobFate, Init, Jobs
<1>2. (main = "done") = (NumJobs = 0)
  BY NumJobsAssumption, ConcurrencyBounds DEF Init
<1>3. (late > 0) = FALSE
  BY DEF Init
<1>. QED
  BY <1>1, <1>2, <1>3 DEF Init, Promise!Init, Promise!Jobs, JobFate, Jobs

(* Handing over is Start, draining is Settle, the caller's range loop      *)
(* ending is Return, and every other step of a goroutine is invisible.     *)
LEMMA StepRefines ==
  IInv /\ IInv' /\ [Next]_vars => [Promise!Next]_(Promise!vars)
<1>. SUFFICES ASSUME IInv, IInv', [Next]_vars
              PROVE  Promise!Next \/ UNCHANGED Promise!vars
  BY DEF Promise!vars
<1>. USE NumJobsAssumption, ConcurrencyBounds, NoJobIsNoJob
     DEF IInv, TypeOK, Accounted, ClosedInOrder, CancelCloses, Holding
<1>a. Promise!Jobs = Jobs
  BY DEF Promise!Jobs, Jobs
<1>b. ASSUME UNCHANGED <<next, delivered, ctxDone, late, main>>
      PROVE  UNCHANGED Promise!vars
  BY <1>b DEF Promise!vars
<1>1. CASE Cancel
  <2>1. Promise!Cancel
    BY <1>1 DEF Cancel, Promise!Cancel
  <2>. QED
    BY <2>1 DEF Promise!Next
<1>2. CASE FeederPoll
  BY <1>2, <1>b DEF FeederPoll
<1>3. CASE FeederAbort
  BY <1>3, <1>b DEF FeederAbort
<1>4. ASSUME NEW w \in Workers, Hand(w) PROVE Promise!Next
  <2>. USE <1>4 DEF Hand
  <2>1. next \in Jobs /\ delivered[next] = 0 /\ main # "done"
    <3>1. next \in Jobs /\ delivered[next] = 0
      BY DEF Jobs
    <3>2. resultsOpen /\ NumJobs # 0
      OBVIOUS
    <3>. QED
      BY <3>1, <3>2
  <2>2. JobFate[next] = "queued"
    BY <2>1 DEF JobFate, Jobs
  <2>3. \A i \in Jobs : i < next => JobFate[i] # "queued"
    BY DEF JobFate
  <2>4. JobFate' = [JobFate EXCEPT ![next] = "started"]
    <3>1. \A j \in Jobs : (j < next + 1) <=> (j < next \/ j = next)
      BY DEF Jobs
    <3>2. \A j \in Jobs : JobFate'[j] = IF j = next THEN "started" ELSE JobFate[j]
      BY <2>1, <3>1, ~(0 > 0) DEF JobFate
    <3>3. JobFate = [j \in Jobs |-> JobFate[j]] /\ JobFate' = [j \in Jobs |-> JobFate'[j]]
      BY ONLY TRUE DEF JobFate
    <3>. QED
      BY ONLY <3>2, <3>3
  <2>5. ~(late > 0) /\ (late' > 0) = ctxDone
    OBVIOUS
  <2>6. Promise!Start(next)
    BY <2>1, <2>2, <2>3, <2>4, <2>5, <1>a DEF Promise!Start, JobFate
  <2>. QED
    <3>1. next \in Promise!Jobs
      BY <2>1, <1>a
    <3>2. \E j \in Promise!Jobs : Promise!Start(j)
      BY ONLY <3>1, <2>6 DEF Promise!Start
    <3>. QED
      BY <3>2 DEF Promise!Next
<1>5. ASSUME NEW w \in Workers, Finish(w) PROVE UNCHANGED Promise!vars
  BY <1>5, <1>b DEF Finish
<1>6. ASSUME NEW w \in Workers, Deliver(w) PROVE Promise!Next
  <2>. USE <1>6 DEF Deliver
  <2>1. wjob[w] \in Jobs /\ delivered[wjob[w]] = 0 /\ wjob[w] < next
    OBVIOUS
  <2>2. JobFate[wjob[w]] = "started"
    BY <2>1 DEF JobFate
  <2>3. JobFate' = [JobFate EXCEPT ![wjob[w]] = "settled"]
    <3>1. \A j \in Jobs : delivered'[j] = IF j = wjob[w] THEN 1 ELSE delivered[j]
      BY <2>1
    <3>2. \A j \in Jobs : JobFate'[j] = IF j = wjob[w] THEN "settled" ELSE JobFate[j]
      BY <2>1, <3>1 DEF JobFate
    <3>. QED
      BY <3>2 DEF JobFate
  <2>4. Promise!Settle(wjob[w])
    BY <2>1, <2>2, <2>3, <1>a DEF Promise!Settle, JobFate
  <2>. QED
    <3>1. wjob[w] \in Promise!Jobs
      BY <2>1, <1>a
    <3>2. \E j \in Promise!Jobs : Promise!Settle(j)
      BY ONLY <3>1, <2>4 DEF Promise!Settle
    <3>. QED
      BY <3>2 DEF Promise!Next
<1>7. ASSUME NEW w \in Workers, Exit(w) PROVE UNCHANGED Promise!vars
  BY <1>7, <1>b DEF Exit
<1>8. CASE CloseResults
  BY <1>8, <1>b DEF CloseResults
<1>9. CASE DrainEnd
  <2>. USE <1>9 DEF DrainEnd
  <2>1. \A w \in Workers : wjob[w] = NoJob
    OBVIOUS
  <2>2. \A j \in Jobs : j < next => delivered[j] > 0
    BY <2>1 DEF Jobs
  <2>3. ctxDone \/ next = NumJobs + 1
    <3>1. 1 \in Workers /\ wpc[1] = "exited"
      BY DEF Workers
    <3>. QED
      BY <3>1
  <2>4. \A j \in Jobs : \/ JobFate[j] = "settled"
                        \/ ctxDone /\ JobFate[j] = "queued"
    BY <2>2, <2>3 DEF JobFate, Jobs
  <2>5. Promise!Return
    BY <2>4, <1>a DEF Promise!Return, JobFate
  <2>. QED
    BY <2>5 DEF Promise!Next
<1>10. CASE UNCHANGED vars
  BY <1>10, <1>b DEF vars
<1>. QED
  BY <1>1, <1>2, <1>3, <1>4, <1>5, <1>6, <1>7, <1>8, <1>9, <1>10 DEF Next

(* The goroutines and channels implement the abstract pool: a caller of    *)
(* processRemoteFiles or collectCourseFilesConcurrently can reason with    *)
(* Start, Settle, Cancel and Return alone.                                 *)
THEOREM PoolImplemented == Spec => ImplementsPool
<1>. USE DEF ImplementsPool
<1>. QED
  BY InitRefines, StepRefines, InductiveInvariant, PTL DEF Spec, Promise!Spec

-----------------------------------------------------------------------------
(* The ladder: the inductive invariants *)

\* What the memo says of the page on screen: it shows what the memo names, unless a
\* show-all click was made on a page that is elsewhere, and it never shows a section
\* page that the memo does not name.
MemoOfPage ==
  /\ fallback.here => shown.page = fallback.page \/ (shown.page = "elsewhere" /\ fallback.expanded)
  /\ shown.page # "elsewhere" => fallback.page = shown.page

\* Where a search for the page p stands: the memo names p, whoever navigated has p
\* on screen before any other step, and whoever searches again has clicked show-all.
Searching == {"search", "expand", "again"}
SearchOf(r, p) ==
  /\ fallback.page = p
  /\ r = "search" => fallback.here /\ (reused \/ shown.page = p)
  /\ r = "again" => fallback.here /\ fallback.expanded

\* One worker at the shared page, and the memo in line with its search.
BrowserInv ==
  /\ \A v, w \in Workers : rung[v] \in AtBrowser /\ rung[w] \in AtBrowser => v = w
  /\ MemoOfPage
  /\ \A w \in Workers : rung[w] \in Searching => SearchOf(rung[w], Here(w))

\* While nothing goes wrong, every page is fetched once, each fetch has a place
\* on the server, and so every instance a worker holds is still there.
Calm == faults = 0 /\ ~ctxDone /\ beyond = {} /\ Cardinality(Pages) <= Capacity
Ready == {p \in Pages : memo[p].present /\ memo[p].by = NoWorker}

MemoInv ==
  Calm =>
    /\ \A w \in Workers : rung[w] = "fetch" => \E p \in Pages : memo[p].by = w
    /\ alive \subseteq {memo[p].inst : p \in Ready}
    /\ \A p \in Ready : memo[p].inst \in Instances
    /\ \A w \in Workers : rung[w] = "click" => html[w] \in Instances
    /\ \A w \in Workers : rung[w] = "lock" => ~HasCandidate(w)

-----------------------------------------------------------------------------
(* The ladder runs in the pool *)

LEMMA LadderStepIsPoolStep == [LadderNext]_allVars => [Next]_vars
<1> SUFFICES ASSUME [LadderNext]_allVars PROVE [Next]_vars
  OBVIOUS
<1>1. CASE PoolStep \/ Cancel
  BY <1>1 DEF PoolStep, Next
<1>2. ASSUME NEW w \in Workers, Takes(w) PROVE [Next]_vars
  BY <1>2 DEF Takes, Next
<1>3. ASSUME NEW w \in Workers, Reports(w) PROVE [Next]_vars
  BY <1>3 DEF Reports, Next
<1>4. ASSUME NEW w \in Workers, Rung(w) PROVE UNCHANGED vars
  BY <1>4 DEF Rung, Lookup, Fetch, Click, Lock, Direct, Open, Search, Expand, Again
<1>5. CASE UNCHANGED allVars
  BY <1>5 DEF allVars
<1> QED BY <1>1, <1>2, <1>3, <1>4, <1>5 DEF LadderNext, Step

\* A batch of downloads is a run of the pool: what is proved of the pool holds
\* whatever its workers do on the ladder.
THEOREM LadderRunsInPool == LadderSpec => Spec
<1>1. LadderInit => Init
  BY DEF LadderInit
<1> QED BY <1>1, LadderStepIsPoolStep, PTL DEF LadderSpec, Spec

-----------------------------------------------------------------------------
(* The ladder: types *)

\* The job a worker is on has a list of pages.
LEMMA PagesAreListed ==
  ASSUME IInv, LadderOK, NEW w \in Workers, rung[w] # "idle"
  PROVE  wjob[w] \in Jobs /\ PagesOf[wjob[w]] \in Seq(Pages)
BY LadderAssumption, NoJobIsNoJob DEF IInv, TypeOK, Accounted, Holding, LadderOK, PlacesOK

LEMMA HereIsAPage ==
  ASSUME IInv, LadderOK, NEW w \in Workers, rung[w] \in Looking
  PROVE  Here(w) \in Pages
<1>1. PagesOf[wjob[w]] \in Seq(Pages)
  BY PagesAreListed DEF Looking
<1> QED BY <1>1 DEF LadderOK, PlacesOK, Here

LEMMA SentinelsApart ==
  /\ Failed \notin Instances /\ Dead \notin Instances /\ Failed # Dead
  /\ Capacity \in Nat \ {0} /\ MaxFaults \in Nat
  /\ NoWorker \notin Workers /\ Workers \subseteq Nat
  /\ IsFiniteSet(Pages)
BY LadderAssumption DEF Failed, Dead, Instances, NoWorker, Workers

LEMMA FaultsBounded ==
  ASSUME LadderOK, Answered \/ GoesWrong \/ UNCHANGED faults
  PROVE  faults' \in 0..MaxFaults
BY SentinelsApart DEF LadderOK, LadderTypes, Answered, GoesWrong

LEMMA InitLadderOK == LadderInit => LadderOK
<1> SUFFICES ASSUME LadderInit PROVE LadderOK
  OBVIOUS
<1>1. FirstTry \in [at : Nat \ {0}, pass : 1..2]
  BY DEF FirstTry
<1>2. Absent \in [by : Workers \cup {NoWorker}, inst : Instances \cup {Failed, Dead}, present : BOOLEAN]
  BY DEF Absent
<1>3. Nowhere \in [page : Pages \cup {"elsewhere"}, expanded : BOOLEAN]
  BY DEF Nowhere
<1>4. Forgotten \in [page : Pages \cup {"none"}, here : BOOLEAN, expanded : BOOLEAN]
  BY DEF Forgotten
<1>5. LadderTypes
  <2>1. /\ beyond \in Beyond /\ alive \subseteq Instances /\ faults \in 0..MaxFaults
        /\ rung \in [Workers -> Looking \cup {"idle", "lock", "direct", "over"}]
        /\ waits \in [Workers -> Workers \cup {NoWorker}]
        /\ html \in [Workers -> Instances \cup {Failed, Dead}]
    BY SentinelsApart DEF LadderInit
  <2>2. /\ try \in [Workers -> [at : Nat \ {0}, pass : 1..2]]
        /\ memo \in [Pages -> [by : Workers \cup {NoWorker}, inst : Instances \cup {Failed, Dead},
                               present : BOOLEAN]]
        /\ shown \in [page : Pages \cup {"elsewhere"}, expanded : BOOLEAN]
        /\ fallback \in [page : Pages \cup {"none"}, here : BOOLEAN, expanded : BOOLEAN]
    BY <1>1, <1>2, <1>3, <1>4 DEF LadderInit
  <2>3. /\ kept \in BOOLEAN /\ reused \in BOOLEAN
        /\ usedMemo \in [Workers -> BOOLEAN] /\ plainHTML \in [Workers -> BOOLEAN]
    BY Zenon DEF LadderInit
  <2> QED BY <2>1, <2>2, <2>3, Zenon DEF LadderTypes
<1>6. PlacesOK
  BY DEF LadderInit, Init, PlacesOK, Looking, FirstTry
<1>7. FetchesOK
  BY DEF LadderInit, FetchesOK, Absent
<1>8. InstancesOK
  BY DEF LadderInit, InstancesOK, Absent
<1> QED BY <1>5, <1>6, <1>7, <1>8 DEF LadderOK

\* What the pool does while its workers climb.
LEMMA PoolLadderOK ==
  ASSUME IInv, LadderOK, PoolStep \/ Cancel \/ UNCHANGED vars, UNCHANGED ladderVars
  PROVE  LadderOK'
<1>1. \A w \in Workers : rung[w] # "idle" => wpc'[w] = wpc[w] /\ wjob'[w] = wjob[w]
  BY DEF LadderOK, PlacesOK, PoolStep, FeederPoll, FeederAbort, Deliver, Exit, CloseResults, DrainEnd,
         Cancel, vars, IInv, TypeOK
<1>2. \A w \in Workers : rung[w] = "idle" => wpc'[w] # "busy"
  BY DEF LadderOK, PlacesOK, PoolStep, FeederPoll, FeederAbort, Deliver, Exit, CloseResults, DrainEnd,
         Cancel, vars, IInv, TypeOK
<1>3. LadderTypes' /\ FetchesOK' /\ InstancesOK'
  BY DEF LadderOK, LadderTypes, FetchesOK, InstancesOK, ladderVars
<1>4. PlacesOK'
  BY <1>1, <1>2 DEF LadderOK, PlacesOK, ladderVars, Looking
<1> QED BY <1>3, <1>4 DEF LadderOK

Entry == [by : Workers \cup {NoWorker}, inst : Instances \cup {Failed, Dead}, present : BOOLEAN]

\* get on a section that is in the memo, and on one that is not.
LEMMA LookupOK ==
  ASSUME IInv, LadderOK, NEW w \in Workers, Lookup(w)
  PROVE  LadderOK'
<1> DEFINE p == Here(w)
<1> USE DEF LadderOK
<1>1. p \in Pages /\ rung[w] = "lookup"
  BY HereIsAPage DEF Lookup, Looking
<1>2. memo \in [Pages -> Entry] /\ memo[p] \in Entry
  BY <1>1 DEF LadderTypes, Entry
<1>3. UNCHANGED <<vars, server, try, plainHTML, alive, browser, faults>>
  BY DEF Lookup
<1>4. CASE Memoized(p)
  <2>1. /\ memo' = memo /\ usedMemo' = [usedMemo EXCEPT ![w] = TRUE]
        /\ IF memo[p].by # NoWorker
           THEN rung' = [rung EXCEPT ![w] = "wait"] /\ waits' = [waits EXCEPT ![w] = memo[p].by] /\ html' = html
           ELSE rung' = [rung EXCEPT ![w] = "click"] /\ html' = [html EXCEPT ![w] = memo[p].inst] /\ waits' = waits
    BY <1>4 DEF Lookup, Climb
  <2> HIDE DEF p
  <2>2. LadderTypes'
    <3>1. /\ rung' \in [Workers -> Looking \cup {"idle", "lock", "direct", "over"}]
          /\ waits' \in [Workers -> Workers \cup {NoWorker}]
          /\ html' \in [Workers -> Instances \cup {Failed, Dead}]
      BY <1>2, <2>1 DEF LadderTypes, Looking, Entry
    <3>2. usedMemo' \in [Workers -> BOOLEAN]
      BY <2>1, Zenon DEF LadderTypes
    <3> QED BY <1>3, <2>1, <3>1, <3>2 DEF LadderTypes, server, browser
  <2>3. PlacesOK'
    BY <1>1, <1>3, <2>1 DEF LadderTypes, PlacesOK, Looking, vars
  <2>4. FetchesOK'
    BY <1>1, <2>1 DEF LadderTypes, FetchesOK
  <2>5. InstancesOK'
    BY <1>1, <1>3, <2>1 DEF LadderTypes, InstancesOK
  <2> QED BY <2>2, <2>3, <2>4, <2>5
<1>5. CASE ~Memoized(p)
  <2> DEFINE e == [Absent EXCEPT !.by = w, !.present = TRUE]
  <2>1. Absent \in Entry /\ Absent.inst = Failed
    BY DEF Entry, Absent
  <2>2. e \in Entry /\ e.by = w /\ e.inst = Failed /\ e.present
    BY <2>1 DEF Entry
  <2>3. /\ memo' = [memo EXCEPT ![p] = e] /\ UNCHANGED <<usedMemo, html, waits>>
        /\ rung' = [rung EXCEPT ![w] = "fetch"]
    BY <1>5 DEF Lookup, Climb
  <2> HIDE DEF p, e
  <2>5. LadderTypes'
    <3>1. memo' \in [Pages -> Entry]
      BY <1>2, <2>2, <2>3
    <3>2. rung' \in [Workers -> Looking \cup {"idle", "lock", "direct", "over"}]
      BY <2>3 DEF LadderTypes, Looking
    <3> QED BY <1>3, <2>3, <3>1, <3>2 DEF LadderTypes, Entry, server, browser
  <2>6. PlacesOK'
    BY <1>1, <1>3, <2>3 DEF LadderTypes, PlacesOK, Looking, vars
  <2>7. FetchesOK'
    BY <1>1, <1>2, <2>2, <2>3 DEF LadderTypes, FetchesOK
  <2>8. InstancesOK'
    BY <1>2, <1>3, <2>2, <2>3 DEF LadderTypes, InstancesOK
  <2> QED BY <2>5, <2>6, <2>7, <2>8
<1> QED BY <1>4, <1>5

\* The answer to a fetch, which may push another instance out.
LEMMA FetchedOK ==
  ASSUME IInv, LadderOK, NEW w \in Workers, rung[w] = "fetch", NEW ok \in BOOLEAN,
         NEW n \in Instances \cup {Failed}, ok => n \in Instances, NEW lost \in Instances \cup {Dead},
         lost \in Instances => ok /\ n = lost,
         Fetched(w, ok, n, lost), faults' \in 0..MaxFaults,
         UNCHANGED <<vars, server, try, usedMemo, plainHTML, browser>>
  PROVE  LadderOK'
<1> DEFINE inst == IF ok THEN n ELSE Failed
           now(i) == IF i = lost THEN Dead ELSE i
           served(v) == waits[v] = w
<1> USE DEF LadderOK
<1>1. inst \in Instances \cup {Failed} /\ inst \in alive' \cup {Failed}
  BY DEF Fetched
<1>2. \A i \in alive \cup {Failed, Dead} : now(i) \in alive' \cup {Failed, Dead}
  BY SentinelsApart DEF Fetched
<1>3. \A i \in Instances \cup {Failed, Dead} : now(i) \in Instances \cup {Failed, Dead}
  OBVIOUS
<1>4. /\ memo' = [p \in Pages |->
           IF memo[p].by = w THEN [memo[p] EXCEPT !.by = NoWorker, !.inst = inst]
           ELSE [memo[p] EXCEPT !.inst = now(@)]]
      /\ html' = [v \in Workers |-> IF v = w \/ served(v) THEN inst ELSE now(html[v])]
      /\ rung' = [v \in Workers |-> IF v = w \/ served(v) THEN "click" ELSE rung[v]]
      /\ waits' = [v \in Workers |-> IF served(v) THEN NoWorker ELSE waits[v]]
  BY DEF Fetched
<1>5. alive' \subseteq Instances
  BY DEF Fetched, LadderTypes
<1> HIDE DEF inst, now
<1>6. ASSUME NEW p \in Pages
      PROVE  /\ memo'[p] \in Entry /\ memo'[p].present = memo[p].present
             /\ memo'[p].by = IF memo[p].by = w THEN NoWorker ELSE memo[p].by
             /\ memo'[p].inst = IF memo[p].by = w THEN inst ELSE now(memo[p].inst)
  <2>1. memo[p] \in Entry
    BY DEF LadderTypes, Entry
  <2>2. CASE memo[p].by = w
    <3>1. memo'[p] = [memo[p] EXCEPT !.by = NoWorker, !.inst = inst]
      BY <1>4, <2>2
    <3> QED BY <1>1, <2>1, <2>2, <3>1 DEF Entry
  <2>3. CASE memo[p].by # w
    <3>1. memo'[p] = [memo[p] EXCEPT !.inst = now(memo[p].inst)]
      BY <1>4, <2>3
    <3>2. now(memo[p].inst) \in Instances \cup {Failed, Dead}
      BY <1>3, <2>1 DEF Entry
    <3> QED BY <2>1, <2>3, <3>1, <3>2 DEF Entry
  <2> QED BY <2>2, <2>3
<1>7. LadderTypes'
  <2>1. memo' \in [Pages -> Entry]
    BY <1>4, <1>6
  <2>2. html' \in [Workers -> Instances \cup {Failed, Dead}]
    BY <1>1, <1>3, <1>4 DEF LadderTypes
  <2>3. /\ rung' \in [Workers -> Looking \cup {"idle", "lock", "direct", "over"}]
        /\ waits' \in [Workers -> Workers \cup {NoWorker}]
    BY <1>4 DEF LadderTypes, Looking
  <2> QED BY <1>5, <2>1, <2>2, <2>3 DEF LadderTypes, Entry, server, browser
<1>8. PlacesOK'
  <2>1. ASSUME NEW v \in Workers, rung'[v] # rung[v] PROVE rung[v] \in {"fetch", "wait"} /\ rung'[v] = "click"
    <3>1. v = w \/ waits[v] = w
      BY <1>4, <2>1
    <3>2. waits[v] = w => rung[v] = "wait"
      BY SentinelsApart DEF FetchesOK
    <3> QED BY <1>4, <3>1, <3>2
  <2>2. UNCHANGED <<wpc, wjob, try>>
    BY DEF vars
  <2> QED BY <2>1, <2>2 DEF PlacesOK, Looking
<1>9. FetchesOK'
  <2>1. ASSUME NEW p \in Pages, memo'[p].by # NoWorker
        PROVE  memo'[p].present /\ rung'[memo'[p].by] = "fetch"
    <3>1. memo[p].by # w /\ memo[p].by # NoWorker /\ memo'[p].by = memo[p].by /\ memo'[p].present = memo[p].present
      BY <1>6, <2>1
    <3>2. memo[p].present /\ rung[memo[p].by] = "fetch" /\ memo[p].by \in Workers
      BY <3>1 DEF FetchesOK, LadderTypes
    <3>3. waits[memo[p].by] # w
      BY <3>2, SentinelsApart DEF FetchesOK
    <3> QED BY <1>4, <3>1, <3>2, <3>3
  <2>2. ASSUME NEW v \in Workers, waits'[v] # NoWorker
        PROVE  rung'[v] = "wait" /\ rung'[waits'[v]] = "fetch"
    <3>1. waits[v] # w /\ waits[v] # NoWorker /\ waits'[v] = waits[v]
      BY <1>4, <2>2
    <3>2. rung[v] = "wait" /\ rung[waits[v]] = "fetch" /\ waits[v] \in Workers
      BY <3>1 DEF FetchesOK, LadderTypes
    <3>3. waits[waits[v]] # w
      BY <3>2, SentinelsApart DEF FetchesOK
    <3> QED BY <1>4, <3>1, <3>2, <3>3
  <2> QED BY <2>1, <2>2 DEF FetchesOK
<1>10. InstancesOK'
  BY <1>1, <1>2, <1>4, <1>6 DEF InstancesOK
<1> QED BY <1>7, <1>8, <1>9, <1>10

LEMMA FetchOK ==
  ASSUME IInv, LadderOK, NEW w \in Workers, Fetch(w)
  PROVE  LadderOK'
<1>1. rung[w] = "fetch" /\ UNCHANGED <<vars, server, try, usedMemo, plainHTML, browser>>
  BY DEF Fetch
<1>2. faults' \in 0..MaxFaults
  BY FaultsBounded DEF Fetch
<1>3. CASE Cardinality(alive) < Capacity /\ Fetched(w, TRUE, CHOOSE n \in Instances : n \notin alive, Dead)
  <2>1. \E n \in Instances : n \notin alive
    <3> SUFFICES ASSUME Instances \subseteq alive PROVE FALSE
      BY Zenon
    <3>1. alive = Instances
      BY DEF LadderOK, LadderTypes
    <3>2. Cardinality(1..Capacity) = Capacity
      BY SentinelsApart, FS_Interval
    <3> QED BY <1>3, <3>1, <3>2, SentinelsApart DEF Instances
  <2>2. (CHOOSE n \in Instances : n \notin alive) \in Instances
    BY <2>1, Zenon
  <2> QED BY <1>1, <1>2, <1>3, <2>2, FetchedOK, SentinelsApart
<1>4. ASSUME NEW n \in alive, Fetched(w, TRUE, n, n) PROVE LadderOK'
  <2>1. n \in Instances
    BY DEF LadderOK, LadderTypes
  <2> QED BY <1>1, <1>2, <1>4, <2>1, FetchedOK
<1>5. CASE Fetched(w, FALSE, Failed, Dead)
  BY <1>1, <1>2, <1>5, FetchedOK, SentinelsApart
<1> QED BY <1>3, <1>4, <1>5 DEF Fetch

Tries == [Workers -> [at : Nat \ {0}, pass : 1..2]]

\* Another step of w's call, where nobody fetches and nobody waits for w.
LEMMA OwnRungOK ==
  ASSUME IInv, LadderOK, NEW w \in Workers, rung[w] \notin {"idle", "fetch", "wait"},
         NEW r \in {"lookup", "click", "open", "search", "expand", "again", "lock", "direct", "over"},
         Climb(w, r), UNCHANGED <<vars, server, waits, alive>>,
         html' = html \/ html' = [html EXCEPT ![w] = Failed],
         memo' \in [Pages -> Entry], \A p \in Pages : memo'[p] \in {memo[p], Absent},
         try' \in Tries, \A v \in Workers \ {w} : try'[v] = try[v],
         r \in Looking => try'[w].at \in DOMAIN PagesOf[wjob[w]], r = "direct" => try'[w].at = 1,
         usedMemo' \in [Workers -> BOOLEAN], plainHTML' \in [Workers -> BOOLEAN],
         shown' \in [page : Pages \cup {"elsewhere"}, expanded : BOOLEAN],
         fallback' \in [page : Pages \cup {"none"}, here : BOOLEAN, expanded : BOOLEAN],
         reused' \in BOOLEAN, faults' \in 0..MaxFaults
  PROVE  LadderOK'
<1> USE DEF LadderOK
<1>1. /\ \A v \in Workers : rung'[v] = IF v = w THEN r ELSE rung[v]
      /\ rung' \in [Workers -> Looking \cup {"idle", "lock", "direct", "over"}]
  BY DEF Climb, LadderTypes, Looking
<1>2. wpc' = wpc /\ wjob' = wjob
  BY DEF vars
<1>3. LadderTypes'
  <2>1. html' \in [Workers -> Instances \cup {Failed, Dead}]
    BY DEF LadderTypes
  <2>2. beyond' \in Beyond /\ kept' \in BOOLEAN
    BY Zenon DEF LadderTypes, server
  <2>3. waits' \in [Workers -> Workers \cup {NoWorker}] /\ alive' \subseteq Instances
    BY DEF LadderTypes
  <2> QED BY <1>1, <2>1, <2>2, <2>3, Zenon DEF LadderTypes, Entry, Tries
<1>4. PlacesOK'
  BY <1>1, <1>2 DEF PlacesOK, Looking
<1>5. FetchesOK'
  <2>1. ASSUME NEW p \in Pages, memo'[p].by # NoWorker
        PROVE  memo'[p].present /\ rung'[memo'[p].by] = "fetch"
    <3>1. memo'[p] = memo[p]
      BY <2>1 DEF Absent
    <3>2. memo[p].present /\ rung[memo[p].by] = "fetch" /\ memo[p].by \in Workers
      BY <2>1, <3>1 DEF FetchesOK, LadderTypes
    <3> QED BY <1>1, <3>1, <3>2
  <2>2. ASSUME NEW v \in Workers, waits'[v] # NoWorker
        PROVE  rung'[v] = "wait" /\ rung'[waits'[v]] = "fetch"
    <3>1. rung[v] = "wait" /\ rung[waits[v]] = "fetch" /\ waits[v] \in Workers
      BY <2>2 DEF FetchesOK, LadderTypes
    <3> QED BY <1>1, <3>1
  <2> QED BY <2>1, <2>2 DEF FetchesOK
<1>6. InstancesOK'
  <2>1. \A v \in Workers : html'[v] \in alive \cup {Failed, Dead}
    BY DEF InstancesOK, LadderTypes
  <2>2. \A p \in Pages : memo'[p].inst \in alive \cup {Failed, Dead}
    BY DEF InstancesOK, Absent
  <2> QED BY <2>1, <2>2 DEF InstancesOK
<1> QED BY <1>3, <1>4, <1>5, <1>6

\* The next page of the search, or the first one again.
LEMMA NextTry ==
  ASSUME IInv, LadderOK, NEW w \in Workers, rung[w] \in Looking, MorePages(w),
         try' = [try EXCEPT ![w].at = @ + 1]
  PROVE  /\ try' \in Tries /\ \A v \in Workers \ {w} : try'[v] = try[v]
         /\ try'[w].at \in DOMAIN PagesOf[wjob[w]]
<1>1. PagesOf[wjob[w]] \in Seq(Pages)
  BY PagesAreListed DEF Looking
<1>2. try \in Tries /\ try[w].at \in DOMAIN PagesOf[wjob[w]]
  BY DEF LadderOK, LadderTypes, PlacesOK, Tries
<1>3. /\ try' \in Tries /\ \A v \in Workers \ {w} : try'[v] = try[v]
      /\ try'[w].at = try[w].at + 1
  BY <1>2 DEF Tries
<1> QED BY <1>1, <1>2, <1>3 DEF MorePages

LEMMA FirstTryAgain ==
  ASSUME LadderOK, NEW w \in Workers, NEW q \in 1..2,
         try' = [try EXCEPT ![w] = [at |-> 1, pass |-> q]]
  PROVE  try' \in Tries /\ (\A v \in Workers \ {w} : try'[v] = try[v]) /\ try'[w].at = 1
BY DEF LadderOK, LadderTypes, Tries

LEMMA FirstPage ==
  ASSUME IInv, LadderOK, NEW w \in Workers, rung[w] # "idle", HasCandidate(w)
  PROVE  1 \in DOMAIN PagesOf[wjob[w]]
<1>1. PagesOf[wjob[w]] \in Seq(Pages)
  BY PagesAreListed
<1> QED BY <1>1 DEF HasCandidate

LEMMA LookingHasCandidate ==
  ASSUME IInv, LadderOK, NEW w \in Workers, rung[w] \in Looking
  PROVE  HasCandidate(w)
BY DEF LadderOK, PlacesOK, HasCandidate

\* The link's page, or the next page, or a second pass, or the shared page.
LEMMA MissesOK ==
  ASSUME IInv, LadderOK, NEW w \in Workers, rung[w] = "click", Misses(w),
         faults' \in 0..MaxFaults, UNCHANGED <<vars, server, plainHTML, waits, alive, browser>>
  PROVE  LadderOK'
<1>1. rung[w] \in Looking /\ try \in Tries /\ memo \in [Pages -> Entry]
  BY DEF Looking, LadderOK, LadderTypes, Tries, Entry
<1>2. /\ plainHTML' \in [Workers -> BOOLEAN] /\ usedMemo \in [Workers -> BOOLEAN]
      /\ shown' \in [page : Pages \cup {"elsewhere"}, expanded : BOOLEAN]
      /\ fallback' \in [page : Pages \cup {"none"}, here : BOOLEAN, expanded : BOOLEAN]
      /\ reused' \in BOOLEAN
  BY Zenon DEF LadderOK, LadderTypes, browser
<1>3. CASE MorePages(w)
  <2>1. try' = [try EXCEPT ![w].at = @ + 1] /\ Climb(w, "lookup") /\ UNCHANGED <<memo, usedMemo, html>>
    BY <1>3 DEF Misses
  <2>2. usedMemo' \in [Workers -> BOOLEAN]
    BY <1>2, <2>1
  <2> QED BY <1>1, <1>2, <1>3, <2>1, <2>2, NextTry, OwnRungOK
<1>4. CASE ~MorePages(w) /\ try[w].pass = 1 /\ usedMemo[w]
  <2>1. /\ html' = [html EXCEPT ![w] = Failed]
        /\ memo' = [p \in Pages |-> IF p \in Drops(w) THEN Absent ELSE memo[p]]
        /\ try' = [try EXCEPT ![w] = [at |-> 1, pass |-> 2]]
        /\ Climb(w, "lookup") /\ UNCHANGED usedMemo
    BY <1>4 DEF Misses
  <2>2. memo' \in [Pages -> Entry] /\ \A p \in Pages : memo'[p] \in {memo[p], Absent}
    <3>1. Absent \in Entry
      BY DEF Absent, Entry
    <3> QED BY <1>1, <2>1, <3>1
  <2>3. usedMemo' \in [Workers -> BOOLEAN]
    BY <1>2, <2>1
  <2>4. try' \in Tries /\ (\A v \in Workers \ {w} : try'[v] = try[v]) /\ try'[w].at = 1
    <3>1. 2 \in 1..2
      OBVIOUS
    <3> QED BY <2>1, <3>1, FirstTryAgain
  <2>5. 1 \in DOMAIN PagesOf[wjob[w]]
    BY <1>1, LookingHasCandidate, FirstPage
  <2> QED BY <1>1, <1>2, <2>1, <2>2, <2>3, <2>4, <2>5, OwnRungOK
<1>5. CASE ~MorePages(w) /\ ~(try[w].pass = 1 /\ usedMemo[w])
  <2>1. html' = [html EXCEPT ![w] = Failed] /\ Climb(w, "lock") /\ UNCHANGED <<memo, try, usedMemo>>
    BY <1>5 DEF Misses
  <2>2. usedMemo' \in [Workers -> BOOLEAN]
    BY <1>2, <2>1
  <2>3. "lock" \notin Looking
    BY DEF Looking
  <2> QED BY <1>1, <1>2, <2>1, <2>2, <2>3, OwnRungOK
<1> QED BY <1>3, <1>4, <1>5

LEMMA ClickOK ==
  ASSUME IInv, LadderOK, NEW w \in Workers, Click(w)
  PROVE  LadderOK'
<1>1. rung[w] = "click" /\ UNCHANGED <<vars, server, plainHTML, waits, alive, browser>>
  BY DEF Click
<1>2. faults' \in 0..MaxFaults
  BY FaultsBounded DEF Click
<1>3. CASE Misses(w)
  BY <1>1, <1>2, <1>3, MissesOK
<1>4. ASSUME NEW r \in {"over", "lock"}, Climb(w, r), html' = [html EXCEPT ![w] = Failed],
             UNCHANGED <<memo, try, usedMemo>>
      PROVE  LadderOK'
  <2>1. try' \in Tries /\ memo' \in [Pages -> Entry] /\ r \notin Looking
    BY <1>4 DEF Looking, LadderOK, LadderTypes, Tries, Entry
  <2>2. /\ plainHTML' \in [Workers -> BOOLEAN] /\ usedMemo' \in [Workers -> BOOLEAN]
        /\ shown' \in [page : Pages \cup {"elsewhere"}, expanded : BOOLEAN]
        /\ fallback' \in [page : Pages \cup {"none"}, here : BOOLEAN, expanded : BOOLEAN]
        /\ reused' \in BOOLEAN
    BY <1>1, <1>4, Zenon DEF LadderOK, LadderTypes, browser
  <2> QED BY <1>1, <1>2, <1>4, <2>1, <2>2, OwnRungOK
<1> QED BY <1>3, <1>4 DEF Click

\* What the browser variables can be.
ShownTypes == /\ shown \in [page : Pages \cup {"elsewhere"}, expanded : BOOLEAN]
              /\ fallback \in [page : Pages \cup {"none"}, here : BOOLEAN, expanded : BOOLEAN]
              /\ reused \in BOOLEAN

LEMMA ShownTyped == LadderOK => ShownTypes /\ Nowhere \in [page : Pages \cup {"elsewhere"}, expanded : BOOLEAN]
                                /\ Forgotten \in [page : Pages \cup {"none"}, here : BOOLEAN, expanded : BOOLEAN]
<1>1. LadderOK => ShownTypes
  BY Zenon DEF LadderOK, LadderTypes, ShownTypes
<1>2. Nowhere \in [page : Pages \cup {"elsewhere"}, expanded : BOOLEAN]
  BY DEF Nowhere
<1>3. Forgotten \in [page : Pages \cup {"none"}, here : BOOLEAN, expanded : BOOLEAN]
  BY DEF Forgotten
<1> QED BY <1>1, <1>2, <1>3

\* A step at the shared page.
LEMMA BrowserRungOK ==
  ASSUME IInv, LadderOK, NEW w \in Workers, rung[w] \in AtBrowser,
         UNCHANGED <<vars, server, refresh, plainHTML>>, faults' \in 0..MaxFaults, ShownTypes',
         NEW r \in AtBrowser \cup {"over"}, r # "direct", Climb(w, r),
         try' \in Tries, \A v \in Workers \ {w} : try'[v] = try[v],
         r \in Looking => try'[w].at \in DOMAIN PagesOf[wjob[w]]
  PROVE  LadderOK'
<1>1. memo' \in [Pages -> Entry] /\ memo' = memo /\ html' = html /\ UNCHANGED <<waits, alive>>
  BY DEF LadderOK, LadderTypes, Entry, refresh
<1>2. usedMemo' \in [Workers -> BOOLEAN] /\ plainHTML' \in [Workers -> BOOLEAN]
  BY Zenon DEF LadderOK, LadderTypes, refresh
<1>3. /\ shown' \in [page : Pages \cup {"elsewhere"}, expanded : BOOLEAN]
      /\ fallback' \in [page : Pages \cup {"none"}, here : BOOLEAN, expanded : BOOLEAN]
      /\ reused' \in BOOLEAN
  BY Zenon DEF ShownTypes
<1>4. r \in {"lookup", "click", "open", "search", "expand", "again", "lock", "direct", "over"} /\ UNCHANGED <<vars, server>>
      /\ rung[w] \notin {"idle", "fetch", "wait"}
  BY DEF AtBrowser
<1> QED BY <1>1, <1>2, <1>3, <1>4, OwnRungOK

\* The next page of the search at the shared page.
LEMMA NextPageOK ==
  ASSUME IInv, LadderOK, NEW w \in Workers, rung[w] \in AtBrowser \cap Looking,
         UNCHANGED <<vars, server, refresh, plainHTML>>, faults' \in 0..MaxFaults, ShownTypes',
         NextPage(w)
  PROVE  LadderOK'
<1>1. try \in Tries /\ HasCandidate(w) /\ "over" \notin Looking /\ rung[w] # "idle"
  BY LookingHasCandidate DEF LadderOK, LadderTypes, Tries, Looking
<1>2. CASE MorePages(w)
  <2>1. Climb(w, "open") /\ try' = [try EXCEPT ![w].at = @ + 1]
    BY <1>2 DEF NextPage
  <2> QED BY <1>2, <2>1, NextTry, BrowserRungOK DEF AtBrowser
<1>3. CASE ~MorePages(w) /\ try[w].pass = 1
  <2>1. Climb(w, "open") /\ try' = [try EXCEPT ![w] = [at |-> 1, pass |-> 2]]
    BY <1>3 DEF NextPage
  <2>2. try' \in Tries /\ (\A v \in Workers \ {w} : try'[v] = try[v]) /\ try'[w].at = 1
    <3>1. 2 \in 1..2
      OBVIOUS
    <3> QED BY <2>1, <3>1, FirstTryAgain
  <2>3. try'[w].at \in DOMAIN PagesOf[wjob[w]]
    BY <1>1, <2>2, FirstPage
  <2> QED BY <2>1, <2>2, <2>3, BrowserRungOK DEF AtBrowser
<1>4. CASE ~MorePages(w) /\ try[w].pass # 1
  <2>1. try[w].pass = 2
    BY <1>1, <1>4 DEF Tries
  <2>2. Climb(w, "over") /\ try' = try
    BY <1>4, <2>1 DEF NextPage
  <2> QED BY <1>1, <2>2, BrowserRungOK
<1> QED BY <1>2, <1>3, <1>4

\* A step that stays with the page it is at.
LEMMA SamePageOK ==
  ASSUME IInv, LadderOK, NEW w \in Workers, rung[w] \in AtBrowser \cap Looking,
         UNCHANGED <<vars, server, refresh, plainHTML>>, faults' \in 0..MaxFaults, ShownTypes',
         NEW r \in {"search", "expand", "again", "over"}, Climb(w, r), try' = try
  PROVE  LadderOK'
<1>1. try \in Tries /\ try[w].at \in DOMAIN PagesOf[wjob[w]]
  BY DEF LadderOK, LadderTypes, PlacesOK, Tries
<1>2. r \in AtBrowser \cup {"over"} /\ r # "direct"
  BY DEF AtBrowser
<1> QED BY <1>1, <1>2, BrowserRungOK

LEMMA LockOK ==
  ASSUME IInv, LadderOK, NEW w \in Workers, Lock(w)
  PROVE  LadderOK'
<1>1. /\ rung[w] = "lock" /\ StartsAfresh(w)
      /\ UNCHANGED <<vars, server, html, memo, waits, alive, browser, faults>>
  BY DEF Lock
<1>2. try' \in Tries /\ (\A v \in Workers \ {w} : try'[v] = try[v]) /\ try'[w].at = 1
  <2>1. 1 \in 1..2
    OBVIOUS
  <2> QED BY <1>1, <2>1, FirstTryAgain DEF StartsAfresh, FirstTry
<1>3. usedMemo' \in [Workers -> BOOLEAN] /\ plainHTML' \in [Workers -> BOOLEAN]
  BY <1>1, Zenon DEF StartsAfresh, LadderOK, LadderTypes
<1>4. PICK r \in {"direct", "open"} : Climb(w, r) /\ (r = "open" => HasCandidate(w))
  BY DEF Lock
<1>5. r \in Looking => 1 \in DOMAIN PagesOf[wjob[w]]
  BY <1>1, <1>4, FirstPage DEF Looking
<1>6. memo' \in [Pages -> Entry] /\ faults' \in 0..MaxFaults
  BY <1>1 DEF LadderOK, LadderTypes, Entry
<1>7. /\ shown' \in [page : Pages \cup {"elsewhere"}, expanded : BOOLEAN]
      /\ fallback' \in [page : Pages \cup {"none"}, here : BOOLEAN, expanded : BOOLEAN]
      /\ reused' \in BOOLEAN
  BY <1>1, Zenon DEF LadderOK, LadderTypes, browser
<1> QED BY <1>1, <1>2, <1>3, <1>4, <1>5, <1>6, <1>7, OwnRungOK

LEMMA DirectOK ==
  ASSUME IInv, LadderOK, NEW w \in Workers, Direct(w)
  PROVE  LadderOK'
<1>1. rung[w] = "direct" /\ UNCHANGED <<vars, server, try, refresh, plainHTML, faults>>
  BY DEF Direct
<1>2. PICK r \in {"over", "open"} : Climb(w, r) /\ (r = "open" => HasCandidate(w))
  BY DEF Direct
<1>3. ShownTypes' /\ faults' \in 0..MaxFaults
  <2>1. shown' = Nowhere /\ fallback' = Forgotten /\ reused' = reused
    BY DEF Direct
  <2>2. reused' \in BOOLEAN
    BY <2>1, Zenon DEF LadderOK, LadderTypes
  <2>3. faults' \in 0..MaxFaults
    BY <1>1, FaultsBounded
  <2> QED BY <2>1, <2>2, <2>3, ShownTyped DEF ShownTypes
<1>4. try' \in Tries /\ try'[w].at = 1 /\ try' = try
  BY <1>1 DEF LadderOK, LadderTypes, PlacesOK, Tries
<1>5. r \in Looking => 1 \in DOMAIN PagesOf[wjob[w]]
  BY <1>1, <1>2, FirstPage DEF Looking
<1> QED BY <1>1, <1>2, <1>3, <1>4, <1>5, BrowserRungOK DEF AtBrowser

LEMMA OpenOK ==
  ASSUME IInv, LadderOK, NEW w \in Workers, Open(w)
  PROVE  LadderOK'
<1>1. rung[w] = "open" /\ rung[w] \in AtBrowser \cap Looking /\ UNCHANGED <<vars, server, refresh, plainHTML>>
  BY DEF Open, AtBrowser, Looking
<1>2. faults' \in 0..MaxFaults
  BY FaultsBounded DEF Open
<1>3. Here(w) \in Pages /\ ShownTypes
  BY <1>1, HereIsAPage, ShownTyped
<1>4. CASE Climb(w, "search") /\ reused' = TRUE /\ UNCHANGED <<shown, fallback, try>>
  <2>1. ShownTypes'
    BY <1>3, <1>4 DEF ShownTypes
  <2> QED BY <1>1, <1>2, <1>4, <2>1, SamePageOK
<1>5. CASE /\ shown' = [page |-> Here(w), expanded |-> FALSE]
           /\ fallback' = [page |-> Here(w), here |-> TRUE, expanded |-> FALSE]
           /\ Climb(w, "search") /\ reused' = FALSE /\ UNCHANGED try
  <2>1. ShownTypes'
    BY <1>3, <1>5 DEF ShownTypes
  <2> QED BY <1>1, <1>2, <1>5, <2>1, SamePageOK
<1>6. CASE shown' = Nowhere /\ fallback' = Forgotten /\ NextPage(w)
  <2>1. ShownTypes'
    BY <1>6, ShownTyped DEF ShownTypes, NextPage
  <2> QED BY <1>1, <1>2, <1>6, <2>1, NextPageOK
<1> QED BY <1>4, <1>5, <1>6 DEF Open

LEMMA SearchOK ==
  ASSUME IInv, LadderOK, NEW w \in Workers, Search(w)
  PROVE  LadderOK'
<1>1. rung[w] = "search" /\ rung[w] \in AtBrowser \cap Looking /\ UNCHANGED <<vars, server, refresh, plainHTML>>
  BY DEF Search, AtBrowser, Looking
<1>2. faults' \in 0..MaxFaults
  BY FaultsBounded DEF Search, Finds, FindsNothing
<1>3. /\ shown' \in [page : Pages \cup {"elsewhere"}, expanded : BOOLEAN]
      /\ fallback' \in [page : Pages \cup {"none"}, here : BOOLEAN, expanded : BOOLEAN]
  BY ShownTyped DEF Search, Finds, FindsNothing, ShownTypes
<1>4. CASE \E r \in {"expand", "over"} : Climb(w, r) /\ try' = try /\ reused' \in {FALSE, reused}
  <2>1. ShownTypes'
    BY <1>3, <1>4, ShownTyped DEF ShownTypes
  <2> QED BY <1>1, <1>2, <1>4, <2>1, SamePageOK
<1>5. CASE NextPage(w)
  <2>1. ShownTypes'
    BY <1>3, <1>5 DEF ShownTypes, NextPage
  <2> QED BY <1>1, <1>2, <1>5, <2>1, NextPageOK
<1> QED BY <1>4, <1>5 DEF Search, Finds

LEMMA ExpandOK ==
  ASSUME IInv, LadderOK, NEW w \in Workers, Expand(w)
  PROVE  LadderOK'
<1>1. rung[w] = "expand" /\ rung[w] \in AtBrowser \cap Looking /\ UNCHANGED <<vars, server, refresh, plainHTML>>
  BY DEF Expand, AtBrowser, Looking
<1>2. faults' \in 0..MaxFaults
  BY FaultsBounded DEF Expand
<1>3. /\ shown' \in [page : Pages \cup {"elsewhere"}, expanded : BOOLEAN]
      /\ fallback' \in [page : Pages \cup {"none"}, here : BOOLEAN, expanded : BOOLEAN]
  BY ShownTyped DEF Expand, ShownTypes
<1>4. CASE Climb(w, "again") /\ UNCHANGED <<try, reused>>
  <2>1. ShownTypes'
    BY <1>3, <1>4, ShownTyped DEF ShownTypes
  <2> QED BY <1>1, <1>2, <1>4, <2>1, SamePageOK
<1>5. CASE NextPage(w)
  <2>1. ShownTypes'
    BY <1>3, <1>5 DEF ShownTypes, NextPage
  <2> QED BY <1>1, <1>2, <1>5, <2>1, NextPageOK
<1> QED BY <1>4, <1>5 DEF Expand

LEMMA AgainOK ==
  ASSUME IInv, LadderOK, NEW w \in Workers, Again(w)
  PROVE  LadderOK'
<1>1. rung[w] = "again" /\ rung[w] \in AtBrowser \cap Looking /\ UNCHANGED <<vars, server, refresh, plainHTML>>
  BY DEF Again, AtBrowser, Looking
<1>2. faults' \in 0..MaxFaults
  BY FaultsBounded DEF Again, Finds, FindsNothing
<1>3. /\ shown' \in [page : Pages \cup {"elsewhere"}, expanded : BOOLEAN]
      /\ fallback' \in [page : Pages \cup {"none"}, here : BOOLEAN, expanded : BOOLEAN]
  BY ShownTyped DEF Again, Finds, FindsNothing, ShownTypes
<1>4. CASE Climb(w, "over") /\ try' = try /\ reused' = FALSE
  <2>1. ShownTypes'
    BY <1>3, <1>4 DEF ShownTypes
  <2> QED BY <1>1, <1>2, <1>4, <2>1, SamePageOK
<1>5. CASE NextPage(w)
  <2>1. ShownTypes'
    BY <1>3, <1>5 DEF ShownTypes, NextPage
  <2> QED BY <1>1, <1>2, <1>5, <2>1, NextPageOK
<1> QED BY <1>4, <1>5 DEF Again, Finds

\* A worker takes a job, and its plain GET is answered or not.
LEMMA TakesOK ==
  ASSUME IInv, IInv', LadderOK, NEW w \in Workers, Takes(w)
  PROVE  LadderOK'
<1> USE DEF LadderOK
<1>1. /\ wpc[w] = "recv" /\ wpc' = [wpc EXCEPT ![w] = "busy"] /\ wjob' = [wjob EXCEPT ![w] = next]
      /\ UNCHANGED <<server, try, html, usedMemo, memo, waits, alive, browser>>
  BY DEF Takes, Hand
<1>2. PICK r \in {"over", "lookup", "lock"} : Climb(w, r) /\ (r = "lookup" => PagesOf[next] # <<>>)
  BY DEF Takes
<1>3. faults' \in 0..MaxFaults /\ plainHTML' \in [Workers -> BOOLEAN]
  <2>1. plainHTML' = plainHTML \/ plainHTML' = [plainHTML EXCEPT ![w] = TRUE]
    BY Zenon DEF Takes
  <2>2. plainHTML' \in [Workers -> BOOLEAN]
    BY <2>1, Zenon DEF LadderTypes
  <2> QED BY <2>2, FaultsBounded DEF Takes
<1>4. rung[w] = "idle" /\ next \in Jobs
  BY <1>1 DEF PlacesOK, Takes, Hand, IInv, TypeOK, ClosedInOrder, Jobs
<1>5. /\ \A v \in Workers : rung'[v] = IF v = w THEN r ELSE rung[v]
      /\ rung' \in [Workers -> Looking \cup {"idle", "lock", "direct", "over"}]
      /\ \A v \in Workers : wpc'[v] = IF v = w THEN "busy" ELSE wpc[v]
      /\ \A v \in Workers : wjob'[v] = IF v = w THEN next ELSE wjob[v]
  BY <1>1, <1>2 DEF Climb, LadderTypes, Looking, IInv, TypeOK
<1>6. LadderTypes'
  BY <1>1, <1>3, <1>5, Zenon DEF LadderTypes, server, browser
<1>7. PlacesOK'
  <2>1. try[w].at = 1
    BY <1>4 DEF PlacesOK
  <2>2. r \in Looking => 1 \in DOMAIN PagesOf[next]
    <3>1. PagesOf[next] \in Seq(Pages)
      BY <1>4, LadderAssumption
    <3> QED BY <1>2, <3>1 DEF Looking
  <2> QED BY <1>1, <1>2, <1>5, <2>1, <2>2 DEF PlacesOK
<1>8. FetchesOK' /\ InstancesOK'
  BY <1>1, <1>4, <1>5 DEF FetchesOK, InstancesOK, LadderTypes
<1> QED BY <1>6, <1>7, <1>8

\* A worker tells the pool that its job is over.
LEMMA ReportsOK ==
  ASSUME IInv, IInv', LadderOK, NEW w \in Workers, Reports(w)
  PROVE  LadderOK'
<1> USE DEF LadderOK
<1>1. /\ wpc[w] = "busy" /\ wpc' = [wpc EXCEPT ![w] = "send"] /\ wjob' = wjob /\ StartsAfresh(w)
      /\ rung[w] = "over" /\ Climb(w, "idle")
      /\ UNCHANGED <<server, html, memo, waits, alive, browser, faults>>
  BY DEF Reports, Finish
<1>2. usedMemo' \in [Workers -> BOOLEAN] /\ plainHTML' \in [Workers -> BOOLEAN]
  BY <1>1, Zenon DEF StartsAfresh, LadderTypes
<1>3. try' \in Tries /\ (\A v \in Workers \ {w} : try'[v] = try[v]) /\ try'[w].at = 1
  <2>1. 1 \in 1..2
    OBVIOUS
  <2> QED BY <1>1, <2>1, FirstTryAgain DEF StartsAfresh, FirstTry
<1>4. /\ \A v \in Workers : rung'[v] = IF v = w THEN "idle" ELSE rung[v]
      /\ rung' \in [Workers -> Looking \cup {"idle", "lock", "direct", "over"}]
      /\ \A v \in Workers : wpc'[v] = IF v = w THEN "send" ELSE wpc[v]
  BY <1>1 DEF Climb, LadderTypes, Looking, IInv, TypeOK
<1>5. LadderTypes'
  BY <1>1, <1>2, <1>3, <1>4, Zenon DEF LadderTypes, server, browser, Tries
<1>6. PlacesOK'
  BY <1>1, <1>3, <1>4 DEF PlacesOK, Looking
<1>7. FetchesOK' /\ InstancesOK'
  BY <1>1, <1>4 DEF FetchesOK, InstancesOK, LadderTypes
<1> QED BY <1>5, <1>6, <1>7

LEMMA StepLadderOK == IInv /\ IInv' /\ LadderOK /\ [LadderNext]_allVars => LadderOK'
<1> SUFFICES ASSUME IInv, IInv', LadderOK, [LadderNext]_allVars PROVE LadderOK'
  OBVIOUS
<1>1. CASE (PoolStep \/ Cancel) /\ UNCHANGED ladderVars
  BY <1>1, PoolLadderOK
<1>2. ASSUME NEW w \in Workers, Rung(w) PROVE LadderOK'
  BY <1>2, LookupOK, FetchOK, ClickOK, LockOK, DirectOK, OpenOK, SearchOK, ExpandOK, AgainOK DEF Rung
<1>3. ASSUME NEW w \in Workers, Takes(w) \/ Reports(w) PROVE LadderOK'
  BY <1>3, TakesOK, ReportsOK
<1>4. CASE UNCHANGED allVars
  BY <1>4, PoolLadderOK DEF allVars
<1> QED BY <1>1, <1>2, <1>3, <1>4 DEF LadderNext, Step

LEMMA PoolInvariant == LadderSpec => []IInv
BY LadderRunsInPool, InductiveInvariant, PTL

LEMMA LadderInvariant == LadderSpec => [](IInv /\ LadderOK)
<1>1. LadderInit /\ IInv => IInv /\ LadderOK
  BY InitLadderOK
<1> QED BY <1>1, InitLadderOK, StepLadderOK, PoolInvariant, PTL DEF LadderSpec

\* Whatever the workers meet, the ladder's variables keep their types, a worker
\* climbs exactly while the pool has it busy and never reads past its job's list
\* of pages, whoever waits for a fetch waits for one that is on its way, and the
\* server still knows every page instance somebody counts on, or it is marked as
\* gone.
THEOREM LadderTypeCorrect == LadderSpec => []LadderOK
BY LadderInvariant, PTL

-----------------------------------------------------------------------------
(* The ladder: the shared browser page *)

\* A step away from the shared page.
LEMMA ElsewhereBrowser ==
  ASSUME LadderOK, BrowserInv, UNCHANGED <<shown, fallback, reused>>,
         \A v \in Workers : rung'[v] \in AtBrowser => rung'[v] = rung[v],
         \A v \in Workers : rung[v] \in Searching => wjob'[v] = wjob[v] /\ try'[v] = try[v]
  PROVE  BrowserInv'
<1>1. \A v \in Workers : rung'[v] \in Searching => rung[v] = rung'[v] /\ Here(v)' = Here(v)
  BY DEF AtBrowser, Here, Searching
<1>2. MemoOfPage'
  BY DEF BrowserInv, MemoOfPage
<1> QED BY <1>1, <1>2 DEF BrowserInv, SearchOf

\* A step of the worker that has the page, or that is given it.
LEMMA OwnerBrowser ==
  ASSUME LadderOK, BrowserInv, NEW w \in Workers,
         rung[w] \in AtBrowser \/ \A v \in Workers : rung[v] \notin AtBrowser,
         NEW r, Climb(w, r), wjob' = wjob,
         MemoOfPage', r \in Searching => try' = try /\ SearchOf(r, Here(w))'
  PROVE  BrowserInv'
<1>1. \A v \in Workers : rung'[v] = IF v = w THEN r ELSE rung[v]
  BY DEF Climb, LadderOK, LadderTypes
<1>2. \A v \in Workers : rung'[v] \in AtBrowser => v = w
  BY <1>1 DEF BrowserInv
<1>3. \A v \in Workers : rung'[v] \in Searching => v = w /\ rung'[v] = r
  BY <1>1, <1>2 DEF AtBrowser, Searching
<1> QED BY <1>2, <1>3 DEF BrowserInv

LEMMA NextPageBrowser ==
  ASSUME LadderOK, BrowserInv, NEW w \in Workers, rung[w] \in AtBrowser, NextPage(w), wjob' = wjob, MemoOfPage'
  PROVE  BrowserInv'
<1>1. PICK r \in {"over", "open"} : Climb(w, r)
  BY DEF NextPage
<1>2. r \notin Searching
  BY DEF Searching
<1> QED BY <1>1, <1>2, OwnerBrowser

\* A search that finds nothing leaves the page as the memo has it, or leaves it and
\* is no longer where the memo was written.
LEMMA FindsNothingMemo ==
  ASSUME LadderOK, BrowserInv, NEW w \in Workers, Finds(w) \/ FindsNothing(w)
  PROVE  MemoOfPage' /\ fallback'.page = fallback.page
<1>1. CASE UNCHANGED <<shown, fallback>>
  BY <1>1 DEF BrowserInv, MemoOfPage
<1>2. CASE shown' = Nowhere /\ fallback' = [fallback EXCEPT !.here = FALSE]
  BY <1>2 DEF MemoOfPage, Nowhere, LadderOK, LadderTypes
<1> QED BY <1>1, <1>2 DEF Finds, FindsNothing

\* Each step keeps the memo of the page in line with the page, and the page in
\* line with what is searched on it.
LEMMA StepBrowser == IInv /\ LadderOK /\ BrowserInv /\ [LadderNext]_allVars => BrowserInv'
<1> SUFFICES ASSUME IInv, LadderOK, BrowserInv, [LadderNext]_allVars PROVE BrowserInv'
  OBVIOUS
<1>1. CASE (PoolStep \/ Cancel \/ UNCHANGED vars) /\ UNCHANGED ladderVars
  <2>1. \A v \in Workers : rung[v] # "idle" => wjob'[v] = wjob[v]
    BY <1>1 DEF LadderOK, PlacesOK, PoolStep, FeederPoll, FeederAbort, Deliver, Exit, CloseResults,
                DrainEnd, Cancel, vars, IInv, TypeOK
  <2> QED BY <1>1, <2>1, ElsewhereBrowser DEF ladderVars, Searching
<1>2. ASSUME NEW w \in Workers, Lookup(w) PROVE BrowserInv'
  <2>1. PICK r \in {"wait", "click", "fetch"} : Climb(w, r)
    BY <1>2 DEF Lookup
  <2>2. \A v \in Workers : rung'[v] \in AtBrowser => rung'[v] = rung[v]
    BY <2>1 DEF Climb, AtBrowser, LadderOK, LadderTypes
  <2> QED BY <1>2, <2>2, ElsewhereBrowser DEF Lookup, vars, browser
<1>3. ASSUME NEW w \in Workers, Fetch(w) PROVE BrowserInv'
  <2>1. \A v \in Workers : rung'[v] \in AtBrowser => rung'[v] = rung[v]
    BY <1>3 DEF Fetch, Fetched, AtBrowser
  <2> QED BY <1>3, <2>1, ElsewhereBrowser DEF Fetch, vars, browser
<1>4. ASSUME NEW w \in Workers, Click(w) PROVE BrowserInv'
  <2>1. PICK r \in {"over", "lock", "lookup"} : Climb(w, r)
    BY <1>4 DEF Click, Misses
  <2>2. \A v \in Workers : rung'[v] \in AtBrowser => rung'[v] = rung[v]
    BY <2>1 DEF Climb, AtBrowser, LadderOK, LadderTypes
  <2>3. rung[w] = "click" /\ \A v \in Workers \ {w} : try'[v] = try[v]
    BY <1>4 DEF Click, Misses, LadderOK, LadderTypes
  <2> QED BY <1>4, <2>2, <2>3, ElsewhereBrowser DEF Click, vars, browser, Searching
<1>5. ASSUME NEW w \in Workers, Takes(w) PROVE BrowserInv'
  <2>1. PICK r \in {"over", "lookup", "lock"} : Climb(w, r)
    BY <1>5 DEF Takes
  <2>2. \A v \in Workers : rung'[v] \in AtBrowser => rung'[v] = rung[v]
    BY <2>1 DEF Climb, AtBrowser, LadderOK, LadderTypes
  <2>3. \A v \in Workers : rung[v] # "idle" => wjob'[v] = wjob[v]
    BY <1>5 DEF Takes, Hand, LadderOK, PlacesOK, IInv, TypeOK
  <2> QED BY <1>5, <2>2, <2>3, ElsewhereBrowser DEF Takes, browser, Searching
<1>6. ASSUME NEW w \in Workers, Reports(w) PROVE BrowserInv'
  <2>1. Climb(w, "idle") /\ rung[w] = "over" /\ wjob' = wjob /\ StartsAfresh(w) /\ UNCHANGED browser
    BY <1>6 DEF Reports, Finish
  <2>2. \A v \in Workers : rung'[v] \in AtBrowser => rung'[v] = rung[v]
    BY <2>1 DEF Climb, AtBrowser, LadderOK, LadderTypes
  <2>3. \A v \in Workers \ {w} : try'[v] = try[v]
    BY <2>1 DEF StartsAfresh, LadderOK, LadderTypes
  <2> QED BY <2>1, <2>2, <2>3, ElsewhereBrowser DEF browser, Searching
<1>7. ASSUME NEW w \in Workers, Lock(w) PROVE BrowserInv'
  <2>1. PICK r \in {"direct", "open"} : Climb(w, r)
    BY <1>7 DEF Lock
  <2>2. r \notin Searching
    BY DEF Searching
  <2>3. MemoOfPage'
    BY <1>7 DEF Lock, browser, BrowserInv, MemoOfPage
  <2> QED BY <1>7, <2>1, <2>2, <2>3, OwnerBrowser DEF Lock, vars
<1>8. ASSUME NEW w \in Workers, Direct(w) PROVE BrowserInv'
  <2>1. PICK r \in {"over", "open"} : Climb(w, r)
    BY <1>8 DEF Direct
  <2>2. r \notin Searching
    BY DEF Searching
  <2>3. MemoOfPage'
    BY <1>8 DEF Direct, Nowhere, Forgotten, MemoOfPage
  <2> QED BY <1>8, <2>1, <2>2, <2>3, OwnerBrowser DEF Direct, vars, AtBrowser
<1>9. ASSUME NEW w \in Workers, Open(w) PROVE BrowserInv'
  <2>1. rung[w] \in AtBrowser /\ wjob' = wjob
    BY <1>9 DEF Open, vars, AtBrowser
  <2>2. CASE CanReuse(Here(w)) /\ Climb(w, "search") /\ reused' = TRUE /\ UNCHANGED <<shown, fallback, try>>
    <3>1. MemoOfPage'
      BY <2>2 DEF BrowserInv, MemoOfPage
    <3>2. Here(w)' = Here(w)
      BY <2>1, <2>2 DEF Here
    <3>3. SearchOf("search", Here(w))'
      BY <2>2, <3>2 DEF CanReuse, SearchOf
    <3> QED BY <2>1, <2>2, <3>1, <3>3, OwnerBrowser
  <2>3. CASE /\ shown' = [page |-> Here(w), expanded |-> FALSE]
             /\ fallback' = [page |-> Here(w), here |-> TRUE, expanded |-> FALSE]
             /\ Climb(w, "search") /\ UNCHANGED try
    <3>1. MemoOfPage'
      BY <2>3 DEF MemoOfPage
    <3>2. Here(w)' = Here(w)
      BY <2>1, <2>3 DEF Here
    <3>3. SearchOf("search", Here(w))'
      BY <2>3, <3>2 DEF SearchOf
    <3> QED BY <2>1, <2>3, <3>1, <3>3, OwnerBrowser
  <2>4. CASE shown' = Nowhere /\ fallback' = Forgotten /\ NextPage(w)
    BY <2>1, <2>4, NextPageBrowser DEF Nowhere, Forgotten, MemoOfPage
  <2> QED BY <1>9, <2>2, <2>3, <2>4 DEF Open
<1>10. ASSUME NEW w \in Workers, Search(w) PROVE BrowserInv'
  <2>1. rung[w] \in AtBrowser /\ wjob' = wjob /\ fallback.page = Here(w)
    BY <1>10 DEF Search, vars, AtBrowser, BrowserInv, Searching, SearchOf
  <2>2. MemoOfPage' /\ fallback'.page = fallback.page
    BY <1>10, FindsNothingMemo DEF Search
  <2>3. CASE NextPage(w)
    BY <2>1, <2>2, <2>3, NextPageBrowser
  <2>4. CASE Climb(w, "over")
    <3>1. "over" \notin Searching
      BY DEF Searching
    <3> QED BY <2>1, <2>2, <2>4, <3>1, OwnerBrowser
  <2>5. CASE Climb(w, "expand") /\ UNCHANGED <<try, reused>>
    <3>1. Here(w)' = Here(w)
      BY <2>1, <2>5 DEF Here
    <3>2. SearchOf("expand", Here(w))'
      BY <2>1, <2>2, <3>1 DEF SearchOf
    <3> QED BY <2>1, <2>2, <2>5, <3>2, OwnerBrowser
  <2> QED BY <1>10, <2>3, <2>4, <2>5 DEF Search, Finds
<1>11. ASSUME NEW w \in Workers, Expand(w) PROVE BrowserInv'
  <2>1. rung[w] \in AtBrowser /\ wjob' = wjob /\ fallback.page = Here(w)
    BY <1>11 DEF Expand, vars, AtBrowser, BrowserInv, Searching, SearchOf
  <2>2. CASE NextPage(w) /\ UNCHANGED <<shown, fallback>>
    <3>1. MemoOfPage'
      BY <2>2 DEF BrowserInv, MemoOfPage
    <3> QED BY <2>1, <2>2, <3>1, NextPageBrowser
  <2>3. CASE /\ shown' \in {shown, [shown EXCEPT !.expanded = TRUE], Nowhere}
             /\ fallback' = [fallback EXCEPT !.expanded = TRUE, !.here = TRUE]
             /\ Climb(w, "again") /\ UNCHANGED <<try, reused>>
    <3>1. fallback'.here /\ fallback'.expanded /\ fallback'.page = fallback.page
      BY <2>3 DEF LadderOK, LadderTypes
    <3>2. shown'.page = shown.page \/ shown'.page = "elsewhere"
      BY <2>3 DEF LadderOK, LadderTypes, Nowhere
    <3>3. MemoOfPage'
      BY <3>1, <3>2 DEF BrowserInv, MemoOfPage
    <3>4. Here(w)' = Here(w)
      BY <2>1, <2>3 DEF Here
    <3>5. SearchOf("again", Here(w))'
      BY <2>1, <3>1, <3>4 DEF SearchOf
    <3> QED BY <2>1, <2>3, <3>3, <3>5, OwnerBrowser
  <2> QED BY <1>11, <2>2, <2>3 DEF Expand
<1>12. ASSUME NEW w \in Workers, Again(w) PROVE BrowserInv'
  <2>1. rung[w] \in AtBrowser /\ wjob' = wjob
    BY <1>12 DEF Again, vars, AtBrowser
  <2>2. MemoOfPage'
    BY <1>12, FindsNothingMemo DEF Again
  <2>3. CASE NextPage(w)
    BY <2>1, <2>2, <2>3, NextPageBrowser
  <2>4. CASE Climb(w, "over")
    <3>1. "over" \notin Searching
      BY DEF Searching
    <3> QED BY <2>1, <2>2, <2>4, <3>1, OwnerBrowser
  <2> QED BY <1>12, <2>3, <2>4 DEF Again, Finds
<1>13. CASE UNCHANGED allVars
  BY <1>1, <1>13 DEF allVars
<1> QED
  BY <1>1, <1>2, <1>3, <1>4, <1>5, <1>6, <1>7, <1>8, <1>9, <1>10, <1>11, <1>12, <1>13
  DEF LadderNext, Step, Rung

LEMMA InitBrowser == LadderInit => BrowserInv
BY DEF LadderInit, BrowserInv, MemoOfPage, AtBrowser, Searching, Forgotten, Nowhere

\* Whatever the jobs, their pages and the faults, a worker that looks for a link on
\* the shared page has the listing it asked for before it, or a page elsewhere for
\* which a show-all click vouched under that listing's URL.
THEOREM SearchesTheRightListing == LadderSpec => []SearchesItsListing
<1>1. BrowserInv => SearchesItsListing
  BY DEF BrowserInv, MemoOfPage, Searching, SearchOf, SearchesItsListing
<1> QED BY <1>1, InitBrowser, StepBrowser, LadderInvariant, PTL DEF LadderSpec

-----------------------------------------------------------------------------
(* The ladder: the memo of section pages *)

\* While nothing goes wrong a worker that fetches a page has a place for it on
\* the server: every instance there is the one of a page that is ready, and its
\* own is not.
LEMMA RoomForAPage ==
  ASSUME IInv, LadderOK, MemoInv, Calm, NEW w \in Workers, rung[w] = "fetch"
  PROVE  Cardinality(alive) < Capacity /\ Capacity \in Nat
<1> DEFINE f == [p \in Ready |-> memo[p].inst]
           T == {f[p] : p \in Ready}
<1>1. Ready \in SUBSET Pages /\ IsFiniteSet(Pages) /\ IsFiniteSet(Ready)
  BY SentinelsApart, FS_Subset DEF Ready
<1>2. PICK q \in Pages : memo[q].by = w
  BY DEF MemoInv
<1>3. q \notin Ready
  BY <1>2, SentinelsApart DEF Ready
<1>4. Cardinality(Ready) <= Cardinality(Pages) /\ Cardinality(Ready) # Cardinality(Pages)
  BY <1>1, <1>3, <1>2, FS_Subset
<1>5. f \in Surjection(Ready, T)
  BY DEF Surjection
<1> HIDE DEF f
<1>6. IsFiniteSet(T) /\ Cardinality(T) <= Cardinality(Ready)
  BY <1>1, <1>5, FS_Surjection
<1>7. alive \in SUBSET T
  BY DEF MemoInv, f
<1> HIDE DEF T
<1>8. IsFiniteSet(alive) /\ Cardinality(alive) <= Cardinality(T)
  BY <1>6, <1>7, FS_Subset
<1>9. /\ Cardinality(alive) \in Nat /\ Cardinality(T) \in Nat /\ Cardinality(Ready) \in Nat
      /\ Cardinality(Pages) \in Nat
  BY <1>1, <1>6, <1>8, FS_CardinalityType
<1>10. Cardinality(Pages) <= Capacity /\ Capacity \in Nat
  BY SentinelsApart DEF Calm
<1> QED BY <1>4, <1>6, <1>8, <1>9, <1>10

\* What is calm after a step was calm before it.
LEMMA CalmBefore == LadderOK /\ [LadderNext]_allVars /\ Calm' => Calm
<1> SUFFICES ASSUME LadderOK, [LadderNext]_allVars, Calm' PROVE Calm
  OBVIOUS
<1>1. faults \in Nat /\ faults' = 0 /\ ~ctxDone' /\ beyond' = {}
  BY SentinelsApart DEF LadderOK, LadderTypes, Calm
<1>2. [Next]_vars
  BY LadderStepIsPoolStep
<1>3. ctxDone => ctxDone'
  BY <1>2 DEF Next, Cancel, FeederPoll, FeederAbort, Hand, Finish, Deliver, Exit, CloseResults,
              DrainEnd, vars
<1>4. beyond' = beyond
  BY DEF LadderNext, Step, ladderVars, allVars, Takes, Reports, Rung, Lookup, Fetch, Click, Lock, Direct,
         Open, Search, Expand, Again, Finds, FindsNothing, server
<1>5. Answered \/ GoesWrong \/ UNCHANGED faults
  BY DEF LadderNext, Step, ladderVars, allVars, Takes, Reports, Rung, Lookup, Fetch, Click, Lock, Direct,
         Open, Search, Expand, Again, Finds, FindsNothing
<1>6. faults = 0
  BY <1>1, <1>5 DEF Answered, GoesWrong
<1> QED BY <1>1, <1>3, <1>4, <1>6 DEF Calm

\* Nothing goes wrong in a step after which all is calm.
LEMMA CalmIsAnswered == LadderOK /\ Calm /\ Calm' => ~GoesWrong
BY SentinelsApart DEF LadderOK, LadderTypes, Calm, GoesWrong

\* A step that leaves the memo and the server's instances alone.
LEMMA QuietMemo ==
  ASSUME MemoInv, Calm, UNCHANGED <<memo, alive>>,
         \A v \in Workers : rung'[v] = "fetch" => rung[v] = "fetch",
         \A v \in Workers : rung'[v] = "click" =>
           html'[v] \in Instances \/ (rung[v] = "click" /\ html'[v] = html[v]),
         \A v \in Workers : rung'[v] = "lock" =>
           PagesOf[wjob'[v]] = <<>> \/ (rung[v] = "lock" /\ wjob'[v] = wjob[v])
  PROVE  MemoInv'
<1>1. Ready' = Ready
  BY DEF Ready
<1> QED BY <1>1 DEF MemoInv, HasCandidate

\* get: an entry that is ready is of an instance the server has.
LEMMA LookupMemo ==
  ASSUME IInv, LadderOK, MemoInv, Calm, NEW w \in Workers, Lookup(w)
  PROVE  MemoInv'
<1> DEFINE p == Here(w)
<1>1. p \in Pages /\ rung[w] = "lookup" /\ wjob' = wjob /\ alive' = alive
  BY HereIsAPage DEF Lookup, Looking, vars
<1>2. CASE Memoized(p) /\ memo[p].by # NoWorker
  <2>1. Climb(w, "wait") /\ html' = html /\ memo' = memo
    BY <1>2 DEF Lookup
  <2>2. \A v \in Workers : rung'[v] = IF v = w THEN "wait" ELSE rung[v]
    BY <2>1 DEF Climb, LadderOK, LadderTypes
  <2> QED BY <1>1, <2>1, <2>2, QuietMemo DEF MemoInv, HasCandidate
<1>3. CASE Memoized(p) /\ memo[p].by = NoWorker
  <2>1. Climb(w, "click") /\ html' = [html EXCEPT ![w] = memo[p].inst] /\ memo' = memo
    BY <1>3 DEF Lookup
  <2>2. /\ \A v \in Workers : rung'[v] = IF v = w THEN "click" ELSE rung[v]
        /\ \A v \in Workers : html'[v] = IF v = w THEN memo[p].inst ELSE html[v]
    BY <2>1 DEF Climb, LadderOK, LadderTypes
  <2>3. memo[p].inst \in Instances
    BY <1>1, <1>3 DEF MemoInv, Ready, Memoized
  <2> HIDE DEF p
  <2> QED BY <1>1, <2>1, <2>2, <2>3, QuietMemo DEF MemoInv, HasCandidate
<1>4. CASE ~Memoized(p)
  <2> DEFINE e == [Absent EXCEPT !.by = w, !.present = TRUE]
  <2>1. Climb(w, "fetch") /\ html' = html /\ memo' = [memo EXCEPT ![p] = e]
    BY <1>4 DEF Lookup
  <2>2. e.by = w
    <3>1. Absent \in Entry
      BY DEF Entry, Absent
    <3> QED BY <3>1 DEF Entry
  <2>3. ~memo[p].present
    BY <1>4 DEF Memoized
  <2> HIDE DEF p, e
  <2>4. /\ \A v \in Workers : rung'[v] = IF v = w THEN "fetch" ELSE rung[v]
        /\ \A q \in Pages : memo'[q] = IF q = p THEN e ELSE memo[q]
    BY <2>1 DEF Climb, LadderOK, LadderTypes
  <2>5. p \notin Ready /\ p \notin Ready' /\ \A q \in Pages \ {p} : q \in Ready' <=> q \in Ready
    BY <2>2, <2>3, <2>4, SentinelsApart DEF Ready
  <2>6. Ready' = Ready /\ \A q \in Ready : memo'[q] = memo[q]
    BY <2>4, <2>5 DEF Ready
  <2>7. ASSUME NEW v \in Workers, rung'[v] = "fetch" PROVE \E q \in Pages : memo'[q].by = v
    <3>1. CASE v = w
      BY <1>1, <2>2, <2>4, <3>1
    <3>2. CASE v # w
      <4>1. PICK q \in Pages : memo[q].by = v
        BY <2>4, <2>7, <3>2 DEF MemoInv
      <4>2. memo[q].present
        BY <4>1, SentinelsApart DEF LadderOK, FetchesOK
      <4> QED BY <2>3, <2>4, <4>1, <4>2
    <3> QED BY <3>1, <3>2
  <2>8. {memo'[q].inst : q \in Ready'} = {memo[q].inst : q \in Ready}
    BY <2>6
  <2>9. /\ \A v \in Workers : rung'[v] = "click" => html'[v] \in Instances
        /\ \A v \in Workers : rung'[v] = "lock" => ~HasCandidate(v)'
    BY <1>1, <2>1, <2>4 DEF MemoInv, HasCandidate
  <2> QED BY <1>1, <2>6, <2>7, <2>8, <2>9 DEF MemoInv
<1> QED BY <1>2, <1>3, <1>4

\* A page comes: there was room for it, so nobody's instance goes.
LEMMA FetchMemo ==
  ASSUME IInv, LadderOK, MemoInv, Calm, Calm', NEW w \in Workers, Fetch(w)
  PROVE  MemoInv'
<1> DEFINE n == CHOOSE i \in Instances : i \notin alive
<1>1. rung[w] = "fetch" /\ wjob' = wjob /\ ~GoesWrong
  BY CalmIsAnswered DEF Fetch, vars
<1>2. Cardinality(alive) < Capacity
  BY <1>1, RoomForAPage
<1>3. Fetched(w, TRUE, n, Dead)
  BY <1>1, <1>2 DEF Fetch
<1>4. n \in Instances
  <2>1. \E i \in Instances : i \notin alive
    <3> SUFFICES ASSUME Instances \subseteq alive PROVE FALSE
      BY Zenon
    <3>1. alive = Instances
      BY DEF LadderOK, LadderTypes
    <3>2. Cardinality(1..Capacity) = Capacity
      BY SentinelsApart, FS_Interval
    <3> QED BY <1>2, <3>1, <3>2, SentinelsApart DEF Instances
  <2> QED BY <2>1, Zenon
<1> HIDE DEF n
<1>5. ASSUME NEW p \in Pages
      PROVE  /\ memo[p].by = w => memo'[p].by = NoWorker /\ memo'[p].inst = n
             /\ memo[p].by # w => memo'[p].by = memo[p].by /\ memo'[p].inst = memo[p].inst
             /\ memo'[p].present = memo[p].present
  <2>1. memo[p] \in Entry
    BY DEF LadderOK, LadderTypes, Entry
  <2>2. CASE memo[p].by = w
    <3>1. memo'[p] = [memo[p] EXCEPT !.by = NoWorker, !.inst = n]
      BY <1>3, <2>2 DEF Fetched
    <3> QED BY <2>1, <2>2, <3>1 DEF Entry
  <2>3. CASE memo[p].by # w
    <3>1. memo'[p] = [memo[p] EXCEPT !.inst = IF memo[p].inst = Dead THEN Dead ELSE memo[p].inst]
      BY <1>3, <2>3 DEF Fetched
    <3> QED BY <2>1, <2>3, <3>1 DEF Entry
  <2> QED BY <2>2, <2>3
<1>6. /\ \A v \in Workers : rung'[v] = IF v = w \/ waits[v] = w THEN "click" ELSE rung[v]
      /\ \A v \in Workers : html'[v] = IF v = w \/ waits[v] = w THEN n ELSE html[v]
      /\ alive' \subseteq alive \cup {n}
  BY <1>3 DEF Fetched
<1>7. ASSUME NEW v \in Workers, rung'[v] = "fetch" PROVE \E q \in Pages : memo'[q].by = v
  <2>1. rung[v] = "fetch" /\ v # w
    BY <1>6, <1>7
  <2>2. PICK q \in Pages : memo[q].by = v
    BY <2>1 DEF MemoInv
  <2> QED BY <1>5, <2>1, <2>2
<1>8. \A p \in Ready : p \in Ready' /\ memo'[p].inst = memo[p].inst
  BY <1>5, SentinelsApart DEF Ready
<1>9. \E p \in Ready' : memo'[p].inst = n
  <2>1. PICK q \in Pages : memo[q].by = w
    BY <1>1 DEF MemoInv
  <2>2. memo[q].present
    BY <2>1, SentinelsApart DEF LadderOK, FetchesOK
  <2> QED BY <1>5, <2>1, <2>2 DEF Ready
<1>10. alive' \subseteq {memo'[p].inst : p \in Ready'}
  <2> SUFFICES ASSUME NEW i \in alive' PROVE \E p \in Ready' : memo'[p].inst = i
    OBVIOUS
  <2>1. CASE i = n
    BY <1>9, <2>1
  <2>2. CASE i \in alive
    <3>1. PICK p \in Ready : memo[p].inst = i
      BY <2>2 DEF MemoInv
    <3> QED BY <1>8, <3>1
  <2> QED BY <1>6, <2>1, <2>2
<1>11. \A p \in Ready' : memo'[p].inst \in Instances
  BY <1>4, <1>5 DEF MemoInv, Ready
<1>12. /\ \A v \in Workers : rung'[v] = "click" => html'[v] \in Instances
       /\ \A v \in Workers : rung'[v] = "lock" => ~HasCandidate(v)'
  BY <1>1, <1>4, <1>6 DEF MemoInv, HasCandidate
<1> QED BY <1>7, <1>10, <1>11, <1>12 DEF MemoInv

\* The HTML a worker holds lists its file, and the server still knows it.
LEMMA ClickMemo ==
  ASSUME IInv, LadderOK, MemoInv, Calm, Calm', NEW w \in Workers, Click(w)
  PROVE  MemoInv'
<1>1. rung[w] = "click" /\ ~GoesWrong /\ UNCHANGED <<wjob, alive>>
  BY CalmIsAnswered DEF Click, vars
<1>2. html[w] # Failed /\ html[w] # Dead /\ Lists(Here(w), wjob[w])
  BY <1>1, SentinelsApart DEF MemoInv, Calm, Lists
<1>3. html' = [html EXCEPT ![w] = Failed] /\ Climb(w, "over") /\ memo' = memo
  BY <1>1, <1>2 DEF Click
<1>4. /\ \A v \in Workers : rung'[v] = IF v = w THEN "over" ELSE rung[v]
      /\ \A v \in Workers : v # w => html'[v] = html[v]
  BY <1>3 DEF Climb, LadderOK, LadderTypes
<1> QED BY <1>1, <1>3, <1>4, QuietMemo DEF MemoInv, HasCandidate

\* A step at the shared page.
LEMMA BrowserMemo ==
  ASSUME LadderOK, MemoInv, Calm, NEW w \in Workers, UNCHANGED <<vars, html, memo, alive>>,
         NEW r, r \notin {"fetch", "click", "lock"}, Climb(w, r)
  PROVE  MemoInv'
<1>1. \A v \in Workers : rung'[v] = IF v = w THEN r ELSE rung[v]
  BY DEF Climb, LadderOK, LadderTypes
<1> QED BY <1>1, QuietMemo DEF MemoInv, HasCandidate, vars

LEMMA StepMemo == IInv /\ LadderOK /\ MemoInv /\ [LadderNext]_allVars => MemoInv'
<1> SUFFICES ASSUME IInv, LadderOK, MemoInv, [LadderNext]_allVars, Calm' PROVE MemoInv'
  BY DEF MemoInv
<1>0. Calm
  BY CalmBefore
<1>1. CASE (PoolStep \/ Cancel \/ UNCHANGED vars) /\ UNCHANGED ladderVars
  <2>1. \A v \in Workers : rung[v] # "idle" => wjob'[v] = wjob[v]
    BY <1>1 DEF LadderOK, PlacesOK, PoolStep, FeederPoll, FeederAbort, Deliver, Exit, CloseResults,
                DrainEnd, Cancel, vars, IInv, TypeOK
  <2> QED BY <1>0, <1>1, <2>1, QuietMemo DEF ladderVars
<1>2. ASSUME NEW w \in Workers, Lookup(w) PROVE MemoInv'
  BY <1>0, <1>2, LookupMemo
<1>3. ASSUME NEW w \in Workers, Fetch(w) PROVE MemoInv'
  BY <1>0, <1>3, FetchMemo
<1>4. ASSUME NEW w \in Workers, Click(w) PROVE MemoInv'
  BY <1>0, <1>4, ClickMemo
<1>5. ASSUME NEW w \in Workers, Takes(w) PROVE MemoInv'
  <2>1. PICK r \in {"over", "lookup", "lock"} : Climb(w, r) /\ (r = "lock" => PagesOf[next] = <<>>)
    <3>1. CASE Climb(w, "over")
      BY <3>1
    <3>2. CASE Climb(w, IF PagesOf[next] # <<>> THEN "lookup" ELSE "lock")
      BY <3>2
    <3> QED BY <1>5, <3>1, <3>2 DEF Takes
  <2>2. \A v \in Workers : rung'[v] = IF v = w THEN r ELSE rung[v]
    BY <2>1 DEF Climb, LadderOK, LadderTypes
  <2>3. \A v \in Workers : wjob'[v] = IF v = w THEN next ELSE wjob[v]
    BY <1>5 DEF Takes, Hand, IInv, TypeOK
  <2> QED BY <1>0, <1>5, <2>1, <2>2, <2>3, QuietMemo DEF Takes
<1>6. ASSUME NEW w \in Workers, Reports(w) PROVE MemoInv'
  <2>1. Climb(w, "idle") /\ wjob' = wjob /\ UNCHANGED <<html, memo, alive>>
    BY <1>6 DEF Reports, Finish
  <2>2. \A v \in Workers : rung'[v] = IF v = w THEN "idle" ELSE rung[v]
    BY <2>1 DEF Climb, LadderOK, LadderTypes
  <2> QED BY <1>0, <2>1, <2>2, QuietMemo
<1>7. ASSUME NEW w \in Workers, Lock(w) PROVE MemoInv'
  <2>1. PICK r \in {"direct", "open"} : Climb(w, r)
    BY <1>7 DEF Lock
  <2> QED BY <1>0, <1>7, <2>1, BrowserMemo DEF Lock
<1>8. ASSUME NEW w \in Workers, Direct(w) PROVE MemoInv'
  <2>1. PICK r \in {"over", "open"} : Climb(w, r)
    BY <1>8 DEF Direct
  <2> QED BY <1>0, <1>8, <2>1, BrowserMemo DEF Direct, refresh
<1>9. ASSUME NEW w \in Workers, Open(w) PROVE MemoInv'
  <2>1. PICK r \in {"over", "open", "search"} : Climb(w, r)
    BY <1>9 DEF Open, NextPage
  <2> QED BY <1>0, <1>9, <2>1, BrowserMemo DEF Open, refresh
<1>10. ASSUME NEW w \in Workers, Search(w) PROVE MemoInv'
  <2>1. PICK r \in {"over", "open", "expand"} : Climb(w, r)
    BY <1>10 DEF Search, Finds, NextPage
  <2> QED BY <1>0, <1>10, <2>1, BrowserMemo DEF Search, refresh
<1>11. ASSUME NEW w \in Workers, Expand(w) PROVE MemoInv'
  <2>1. PICK r \in {"over", "open", "again"} : Climb(w, r)
    BY <1>11 DEF Expand, NextPage
  <2> QED BY <1>0, <1>11, <2>1, BrowserMemo DEF Expand, refresh
<1>12. ASSUME NEW w \in Workers, Again(w) PROVE MemoInv'
  <2>1. PICK r \in {"over", "open"} : Climb(w, r)
    BY <1>12 DEF Again, Finds, NextPage
  <2> QED BY <1>0, <1>12, <2>1, BrowserMemo DEF Again, refresh
<1>13. CASE UNCHANGED allVars
  BY <1>1, <1>13 DEF allVars
<1> QED
  BY <1>1, <1>2, <1>3, <1>4, <1>5, <1>6, <1>7, <1>8, <1>9, <1>10, <1>11, <1>12, <1>13
  DEF LadderNext, Step, Rung

LEMMA InitMemo == LadderInit => MemoInv
BY SentinelsApart DEF LadderInit, MemoInv, Ready, Absent

\* However many pages, jobs and workers there are, as long as the server keeps as
\* many instances as there are pages: while nothing goes wrong, nobody is driven
\* to the shared page by what the others fetch.
THEOREM NeighboursDoNotOutrun == LadderSpec => []NoWorkerOutrunByNeighbours
<1>1. MemoInv => NoWorkerOutrunByNeighbours
  BY DEF MemoInv, Calm, NoWorkerOutrunByNeighbours
<1> QED BY <1>1, InitMemo, StepMemo, LadderInvariant, PTL DEF LadderSpec

\* What holds of every batch holds of the downloads: each job that is handed to a
\* worker has its one result, and the pool's promise is kept.
THEOREM DownloadsExactlyOnce == LadderSpec => []ExactlyOnce /\ []NoSendOnClosedChannel /\ ImplementsPool
BY LadderRunsInPool, ResultsExactlyOnce, ChannelsClosedSafely, PoolImplemented

=============================================================================
