-------------------------- MODULE SharedFilesProofs --------------------------
(***************************************************************************)
(* Proofs about the files that processes share, for any number of          *)
(* processes and steps.  The lock file keeps sync runs apart as long as no *)
(* two calls of Acquire have overlapped; without that condition it does    *)
(* not, see the README.  The status files of unattended syncs let a day    *)
(* have one of them.  config.yaml keeps what a form did not touch and what *)
(* a fault cut off.                                                        *)
(***************************************************************************)
EXTENDS SyncLock, ScheduledSync, Settings, SequenceTheorems, TLAPS

-----------------------------------------------------------------------------
(* The lock file (SyncLock).                                               *)

(* Only one process is inside Acquire.                                     *)
SoleAcquirer ==
  \A p, q \in Procs : pc[p] \in Acquiring /\ pc[q] \in Acquiring => p = q

(* The process inside Acquire knows what it needs to know: a file it has   *)
(* created is still its own, a file it has read is the holder's if there   *)
(* is a holder, and it is about to remove a file only if there is none.    *)
AcquirerInformed ==
  \A p \in Procs :
    /\ pc[p] \in {"write", "close"} => Mine(p)
    /\ pc[p] = "close" => lock.written
    /\ pc[p] = "reading" =>
         \A q \in Procs : pc[q] = "held" =>
           got[p] # NoFile /\ got[p].by = q /\ got[p].life = life[q] /\ got[p].written
    /\ pc[p] = "reclaim" => \A q \in Procs : pc[q] # "held"

Orderly == SoleAcquirer /\ AcquirerInformed /\ HolderNamed

LockInv == LockTypeOK /\ (~contended => Orderly)

(* Nobody holds the lock, nobody is inside Acquire.                        *)
LEMMA InitInformed == LockInit => LockInv
<1>1. LockInit => LockTypeOK
  <2>. SUFFICES ASSUME LockInit PROVE LockTypeOK
    OBVIOUS
  <2>1. windows \in BOOLEAN /\ contended \in BOOLEAN
    BY DEF LockInit
  <2>2. /\ pc \in [Procs -> Acquiring \cup {"dead", "idle", "held"}]
        /\ lock \in LockFile \cup {NoFile} /\ got \in [Procs -> LockFile \cup {NoFile}]
    BY DEF LockInit
  <2>3. attempt \in [Procs -> 1 .. 2] /\ life \in [Procs -> Nat] /\ crashes \in Nat
    BY DEF LockInit
  <2> QED
    BY <2>1, <2>2, <2>3 DEF LockTypeOK
<1>2. LockInit => Orderly
  BY DEF LockInit, Mine, Orderly, HolderNamed, SoleAcquirer, AcquirerInformed, Acquiring
<1> QED
  BY <1>1, <1>2 DEF LockInv

(* The types do not depend on the order of the calls.                      *)
LEMMA LockTypeKept ==
  ASSUME LockTypeOK, [LockNext]_lockVars
  PROVE  LockTypeOK'
<1> USE DEF LockTypeOK, Acquiring, LockFile
<1>1. ASSUME NEW p \in Procs, Acquire(p) PROVE LockTypeOK'
  BY <1>1 DEF Acquire
<1>2. ASSUME NEW p \in Procs, CreateLock(p) PROVE LockTypeOK'
  <2>1. [by |-> p, life |-> life[p], written |-> FALSE] \in LockFile
    OBVIOUS
  <2>2. lock' \in LockFile \cup {NoFile}
    BY <1>2, <2>1 DEF CreateLock
  <2> QED
    BY <1>2, <2>2 DEF CreateLock
<1>3. ASSUME NEW p \in Procs, WriteLock(p) PROVE LockTypeOK'
  <2>1. lock' \in LockFile \cup {NoFile}
    <3>1. CASE Mine(p)
      <4>1. lock \in LockFile
        BY <3>1 DEF Mine
      <4> QED
        BY <1>3, <3>1, <4>1 DEF WriteLock
    <3>2. CASE ~Mine(p)
      BY <1>3, <3>2 DEF WriteLock
    <3> QED
      BY <3>1, <3>2
  <2> QED
    BY <1>3, <2>1 DEF WriteLock
<1>4. ASSUME NEW p \in Procs, Close(p) PROVE LockTypeOK'
  BY <1>4 DEF Close
<1>5. ASSUME NEW p \in Procs, WriteFails(p) PROVE LockTypeOK'
  BY <1>5 DEF WriteFails
<1>6. ASSUME NEW p \in Procs, Read(p) PROVE LockTypeOK'
  BY <1>6 DEF Read
<1>7. ASSUME NEW p \in Procs, Inspect(p) PROVE LockTypeOK'
  BY <1>7 DEF Inspect
<1>8. ASSUME NEW p \in Procs, Reclaim(p) PROVE LockTypeOK'
  BY <1>8 DEF Reclaim, RemoveLock
<1>9. ASSUME NEW p \in Procs, Release(p) PROVE LockTypeOK'
  BY <1>9 DEF Release, RemoveLock
<1>10. ASSUME NEW p \in Procs, Crash(p) PROVE LockTypeOK'
  BY <1>10 DEF Crash
<1>11. ASSUME NEW p \in Procs, Recycle(p) PROVE LockTypeOK'
  BY <1>11 DEF Recycle
<1>12. CASE UNCHANGED lockVars
  BY <1>12 DEF lockVars
<1> QED
  BY <1>1, <1>2, <1>3, <1>4, <1>5, <1>6, <1>7, <1>8, <1>9, <1>10, <1>11, <1>12
     DEF LockNext, InAcquire

(* As long as the calls do not overlap every step keeps their order.       *)
LEMMA OrderKept ==
  ASSUME LockTypeOK, Orderly, [LockNext]_lockVars, ~contended, ~contended'
  PROVE  Orderly'
<1> USE DEF Orderly, LockTypeOK, HolderNamed, SoleAcquirer, AcquirerInformed, Acquiring, LockFile, Mine
<1>1. ASSUME NEW p \in Procs, Acquire(p) PROVE Orderly'
  BY <1>1 DEF Acquire
<1>2. ASSUME NEW p \in Procs, CreateLock(p) PROVE Orderly'
  <2>1. CASE CanCreate
    <3>. DEFINE new == [by |-> p, life |-> life[p], written |-> FALSE]
    <3>1. /\ lock = NoFile /\ lock' = new
          /\ pc' = [pc EXCEPT ![p] = "write"] /\ pc[p] = "create"
          /\ UNCHANGED <<windows, attempt, got, life, crashes, contended>>
      BY <1>2, <2>1 DEF CreateLock, CanCreate
    <3>2. new \in LockFile /\ new.by = p /\ new.life = life[p]
      OBVIOUS
    <3>3. new # NoFile
      BY <3>2, NoFileAssumption
    <3>4. \A q \in Procs : pc[q] # "held" /\ pc[q] \notin {"write", "close"}
      BY <3>1
    <3>. HIDE DEF new
    <3> QED
      BY <3>1, <3>2, <3>3, <3>4
  <2>2. CASE ~CanCreate
    BY <1>2, <2>2 DEF CreateLock
  <2> QED
    BY <2>1, <2>2
<1>3. ASSUME NEW p \in Procs, WriteLock(p) PROVE Orderly'
  <2>1. Mine(p)
    BY <1>3 DEF WriteLock
  <2>. DEFINE new == [lock EXCEPT !.written = TRUE]
  <2>2. /\ pc[p] = "write" /\ pc' = [pc EXCEPT ![p] = "close"] /\ lock' = new
        /\ UNCHANGED <<windows, attempt, got, life, crashes, contended>>
    BY <1>3, <2>1 DEF WriteLock
  <2>3. lock \in LockFile
    BY <2>1
  <2>4. new \in LockFile /\ new.by = p /\ new.life = life[p] /\ new.written
    BY <2>1, <2>3
  <2>5. new # NoFile
    BY <2>4, NoFileAssumption
  <2>6. \A q \in Procs : pc[q] # "held"
    BY <2>1, <2>2
  <2>. HIDE DEF new
  <2> QED
    BY <2>1, <2>2, <2>4, <2>5, <2>6
<1>4. ASSUME NEW p \in Procs, Close(p) PROVE Orderly'
  BY <1>4 DEF Close
<1>5. ASSUME NEW p \in Procs, WriteFails(p) PROVE Orderly'
  BY <1>5 DEF WriteFails
<1>6. ASSUME NEW p \in Procs, Read(p) PROVE Orderly'
  BY <1>6 DEF Read
<1>7. ASSUME NEW p \in Procs, Inspect(p) PROVE Orderly'
  BY <1>7 DEF Inspect, StillRunning, Alive
<1>8. ASSUME NEW p \in Procs, Reclaim(p) PROVE Orderly'
  BY <1>8 DEF Reclaim, RemoveLock
<1>9. ASSUME NEW p \in Procs, Release(p) PROVE Orderly'
  BY <1>9 DEF Release, RemoveLock
<1>10. ASSUME NEW p \in Procs, Crash(p) PROVE Orderly'
  BY <1>10 DEF Crash, Alive
<1>11. ASSUME NEW p \in Procs, Recycle(p) PROVE Orderly'
  BY <1>11 DEF Recycle
<1>12. CASE UNCHANGED lockVars
  BY <1>12 DEF lockVars
<1> QED
  BY <1>1, <1>2, <1>3, <1>4, <1>5, <1>6, <1>7, <1>8, <1>9, <1>10, <1>11, <1>12
     DEF LockNext, InAcquire

(* A contention is remembered for good, so that what has to be shown of a  *)
(* step is shown of a step without one.                                    *)
LEMMA LockInvKept ==
  ASSUME LockInv, [LockNext]_lockVars
  PROVE  LockInv'
<1>1. LockTypeOK'
  BY LockTypeKept DEF LockInv
<1>2. contended => contended'
  BY DEF LockNext, InAcquire, lockVars, Acquire, CreateLock, WriteLock, Close, WriteFails, Read,
         Inspect, Reclaim, Release, Crash, Recycle
<1>3. CASE ~contended'
  BY <1>1, <1>2, <1>3, OrderKept DEF LockInv
<1>4. CASE contended'
  BY <1>1, <1>4 DEF LockInv
<1> QED
  BY <1>3, <1>4

LEMMA LockInvAlways == LockSpec => []LockInv
BY InitInformed, LockInvKept, PTL DEF LockSpec

(* A file that names each holder names at most one of them.                *)
LEMMA NamedOnce == HolderNamed => ExclusiveUncontended
BY DEF HolderNamed, ExclusiveUncontended, MutualExclusion, Mine

LEMMA NamedFollows == LockInv => HolderNamed
BY DEF LockInv, Orderly, HolderNamed

(* The values of the variables are the intended ones.                      *)
THEOREM LockTypeCorrect == LockSpec => []LockTypeOK
<1>1. LockInv => LockTypeOK
  BY DEF LockInv
<1> QED
  BY <1>1, LockInvAlways, PTL

(* While a sync run is on, the lock file is its own and readable, unless   *)
(* two calls of Acquire have overlapped.                                   *)
THEOREM HolderIsNamed == LockSpec => []HolderNamed
BY NamedFollows, LockInvAlways, PTL

(* Two sync runs never overlap unless two calls of Acquire have.           *)
THEOREM RunsExcludeEachOther == LockSpec => []ExclusiveUncontended
BY NamedFollows, NamedOnce, LockInvAlways, PTL

-----------------------------------------------------------------------------
(* The status files (ScheduledSync).                                       *)

Tasks == [pc : {"none", "preflight", "network", "locking", "syncing",
                "reporting", "filing", "noting"},
          id : 0 .. MaxRuns, start : 0 .. MaxTime, tries : 0 .. Retries,
          outcome : Outcome]

Others == [pc : {"none", "locking", "working", "noting"},
           kind : {"gui", "cli", "list"}, outcome : Outcome]

(* A run that was started has a number and began in the past.              *)
Numbered ==
  /\ task.start <= now
  /\ task.pc # "none" => task.id \in 1 .. MaxRuns

-----------------------------------------------------------------------------
(* Types.                                                                  *)

LEMMA Idles == NoTask \in Tasks /\ NoOther \in Others
  BY ConstantsAssumption DEF NoTask, NoOther, Tasks, Others, Outcome

LEMMA DayTyped == ASSUME NEW t \in Nat PROVE Day(t) \in Int
  BY ConstantsAssumption DEF Day

LEMMA HistoryTyped ==
  ASSUME NEW lines \in Seq(1 .. MaxRuns), NEW n \in 0 .. Len(lines)
  PROVE  /\ SubSeq(lines, 1, n) \in Seq(1 .. MaxRuns)
         /\ Len(SubSeq(lines, 1, n)) = n
<1>1. Len(lines) \in Nat /\ \A i \in 1 .. Len(lines) : lines[i] \in 1 .. MaxRuns
  BY LenProperties, ElementOfSeq
<1>2. n \in Nat /\ n <= Len(lines)
  BY <1>1
<1>3. \A i \in 1 .. n : lines[i] \in 1 .. MaxRuns
  BY <1>1, <1>2
<1> QED
  BY <1>2, <1>3, SubSeqProperties

LEMMA TrimmedTyped ==
  ASSUME NEW lines \in Seq(1 .. MaxRuns)
  PROVE  Trimmed(lines) \in Seq(1 .. MaxRuns) /\ Len(Trimmed(lines)) <= HistorySize
<1>1. CASE Len(lines) > HistorySize
  BY <1>1, SubSeqProperties, ConstantsAssumption DEF Trimmed
<1>2. CASE ~(Len(lines) > HistorySize)
  BY <1>2, ConstantsAssumption DEF Trimmed
<1> QED
  BY <1>1, <1>2

LEMMA InitTyped == Init => TypeOK /\ Numbered
<1> SUFFICES ASSUME Init PROVE TypeOK /\ Numbered
  OBVIOUS
<1>1. task \in Tasks /\ other \in Others
  BY Idles DEF Init
<1>2. TypeOK
  BY <1>1, ConstantsAssumption DEF Init, TypeOK, Tasks, Others
<1>3. Numbered
  BY DEF Init, Numbered, NoTask
<1> QED
  BY <1>2, <1>3

(* A run that fails before it is given the lock.                           *)
LEMMA FailureTyped ==
  ASSUME task \in Tasks, Fails
  PROVE  /\ task' \in Tasks
         /\ task'.start = task.start /\ task'.id = task.id
<1>1. "failure" \in Outcome /\ 0 \in 0 .. Retries
  BY ConstantsAssumption DEF Outcome
<1> QED
  BY <1>1, Zenon DEF Fails, Tasks

(* The scheduled run's own steps.                                          *)
LEMMA RunTyped ==
  ASSUME TypeOK, Numbered, RunStep
  PROVE  TypeOK' /\ Numbered'
<1>0. task \in Tasks
  BY DEF TypeOK, Tasks
<1>1. CASE Preflight
  <2>1. task' \in Tasks /\ task'.start = task.start /\ task'.id = task.id
    <3>1. CASE task' = [task EXCEPT !.pc = "network"]
      BY <1>0, <3>1 DEF Tasks
    <3>2. CASE Fails
      BY <1>0, <3>2, FailureTyped
    <3> QED
      BY <1>1, <3>1, <3>2 DEF Preflight
  <2> QED
    BY <1>1, <2>1 DEF TypeOK, Numbered, Tasks, Preflight, records, page, bounds
<1>2. CASE AwaitNetwork
  <2>1. CASE task' = [task EXCEPT !.pc = "locking", !.tries = 0]
    <3>1. task' \in Tasks /\ task'.start = task.start /\ task'.id = task.id
      <4>1. 0 \in 0 .. Retries
        BY ConstantsAssumption
      <4> QED
        BY <1>0, <2>1, <4>1, Zenon DEF Tasks
    <3> QED
      BY <1>2, <3>1 DEF AwaitNetwork, TypeOK, Numbered, Tasks, records, page, bounds
  <2>2. CASE WaitsLeft /\ task' = [task EXCEPT !.tries = (@ + 1) % (Retries + 1)]
    <3>1. (task.tries + 1) % (Retries + 1) \in 0 .. Retries
      BY <1>0, ConstantsAssumption DEF Tasks
    <3> QED
      BY <1>0, <1>2, <2>2, <3>1 DEF AwaitNetwork, TypeOK, Numbered, Tasks, records, page, bounds
  <2>3. CASE ~WaitsLeft /\ Fails
    <3>1. task' \in Tasks /\ task'.start = task.start /\ task'.id = task.id
      BY <1>0, <2>3, FailureTyped
    <3>2. task.pc # "none"
      BY <1>2 DEF AwaitNetwork
    <3> QED
      BY <1>2, <3>1, <3>2 DEF AwaitNetwork, TypeOK, Numbered, Tasks, records, page, bounds
  <2> QED
    BY <1>2, <2>1, <2>2, <2>3 DEF AwaitNetwork
<1>3. CASE StartSync
  <2>1. task' \in Tasks /\ task'.start = task.start /\ task'.id = task.id
    BY <1>0, <1>3 DEF StartSync, Tasks, Outcome
  <2> QED
    BY <1>3, <2>1 DEF TypeOK, Numbered, Tasks, StartSync, records, page, bounds
<1>4. CASE EndSync
  <2>1. task' \in Tasks /\ task'.start = task.start /\ task'.id = task.id
    BY <1>0, <1>4 DEF EndSync, Tasks, Outcome
  <2> QED
    BY <1>4, <2>1 DEF TypeOK, Numbered, Tasks, EndSync, records, page, bounds
<1>5. CASE Report
  <2>1. task' \in Tasks /\ task'.start = task.start /\ task'.id = task.id
    BY <1>0, <1>5 DEF Report, Tasks
  <2>2. status' \in Status
    BY <1>0, <1>5 DEF Report, StatusOfRun, Status, Numbered, Tasks
  <2>3. done' \subseteq Int
    BY <1>0, <1>5, DayTyped, ConstantsAssumption DEF Report, TypeOK, Tasks
  <2> QED
    BY <1>5, <2>1, <2>2, <2>3 DEF TypeOK, Numbered, Tasks, Report, page, bounds
<1>6. CASE FileHistory
  <2>1. task' \in Tasks /\ task'.start = task.start /\ task'.id = task.id
    BY <1>0, <1>6 DEF FileHistory, Tasks
  <2>2. Append(history, task.id) \in Seq(1 .. MaxRuns)
    BY <1>0, <1>6 DEF FileHistory, TypeOK, Numbered, Tasks
  <2>3. history' \in Seq(1 .. MaxRuns) /\ Len(history') <= HistorySize
    BY <1>6, <2>2, TrimmedTyped DEF FileHistory
  <2> QED
    BY <1>6, <2>1, <2>3 DEF TypeOK, Numbered, Tasks, FileHistory, page, bounds
<1>7. CASE NoteSync
  <2>1. task' \in Tasks /\ task'.start = 0 /\ task'.pc = "none" /\ lastSync' \in Outcome
    BY <1>0, <1>7, Idles DEF NoteSync, NoTask, Tasks
  <2> QED
    BY <1>7, <2>1 DEF TypeOK, Numbered, Tasks, NoteSync, page, bounds
<1> QED
  BY <1>1, <1>2, <1>3, <1>4, <1>5, <1>6, <1>7 DEF RunStep

(* What a kill leaves of the records.                                      *)
LEMMA TornTyped ==
  ASSUME TypeOK, Numbered, Torn, task.pc # "none"
  PROVE  /\ status' \in Status \cup {None}
         /\ history' \in Seq(1 .. MaxRuns) /\ Len(history') <= HistorySize
         /\ lastSync' \in Outcome \cup {None}
         /\ done' \subseteq Int
<1>0. task \in Tasks
  BY DEF TypeOK, Tasks
<1>1. CASE task.pc = "reporting"
  <2>1. StatusOfRun \in Status
    BY <1>0, <1>1 DEF StatusOfRun, Status, Numbered, Tasks
  <2>2. Day(task.start) \in Int
    BY <1>0, DayTyped, ConstantsAssumption DEF Tasks
  <2> QED
    BY <1>1, <2>1, <2>2 DEF Torn, TypeOK
<1>2. CASE task.pc = "filing"
  <2>1. Append(history, task.id) \in Seq(1 .. MaxRuns)
    BY <1>0, <1>2 DEF TypeOK, Numbered, Tasks
  <2>2. PICK lines \in {history, Trimmed(Append(history, task.id))}, n \in Nat :
          n <= Len(lines) /\ history' = SubSeq(lines, 1, n)
    <3>1. \A lines \in {history, Trimmed(Append(history, task.id))} : Len(lines) \in Nat
      BY <2>1, TrimmedTyped DEF TypeOK
    <3> QED
      BY <1>2, <3>1 DEF Torn
  <2>3. lines \in Seq(1 .. MaxRuns) /\ Len(lines) \in Nat /\ Len(lines) <= HistorySize
    <3>1. /\ Trimmed(Append(history, task.id)) \in Seq(1 .. MaxRuns)
          /\ Len(Trimmed(Append(history, task.id))) <= HistorySize
      BY <2>1, TrimmedTyped
    <3>2. history \in Seq(1 .. MaxRuns) /\ Len(history) <= HistorySize
      BY DEF TypeOK
    <3> QED
      BY <2>2, <3>1, <3>2, LenProperties
  <2>4. history' \in Seq(1 .. MaxRuns) /\ Len(history') = n
    BY <2>2, <2>3, HistoryTyped
  <2>5. Len(history') <= HistorySize
    BY <2>2, <2>3, <2>4, ConstantsAssumption
  <2> QED
    BY <1>2, <2>4, <2>5 DEF Torn, TypeOK
<1>3. CASE task.pc = "noting"
  BY <1>3 DEF Torn, TypeOK
<1>4. CASE task.pc \notin {"reporting", "filing", "noting"}
  BY <1>4 DEF Torn, TypeOK
<1> QED
  BY <1>1, <1>2, <1>3, <1>4

LEMMA TypeKept ==
  ASSUME TypeOK, Numbered, [Next]_vars
  PROVE  TypeOK' /\ Numbered'
<1>0. task \in Tasks /\ other \in Others
  BY DEF TypeOK, Tasks, Others
<1> USE DEF TypeOK, Numbered
<1>1. CASE Trigger
  <2>1. runs' = runs + 1 /\ runs' \in 1 .. MaxRuns /\ runs' \in 0 .. MaxRuns
    BY <1>1, ConstantsAssumption DEF Trigger
  <2>2. now \in 0 .. MaxTime /\ now <= now
    BY ConstantsAssumption
  <2>3. task' = Begin(runs')
    BY <1>1, <2>1 DEF Trigger
  <2>4. task' \in Tasks /\ task'.start = now /\ task'.id = runs'
    BY <2>1, <2>2, <2>3, Idles, Zenon DEF Begin, NoTask, Tasks
  <2> QED
    BY <1>1, <2>1, <2>2, <2>4 DEF Trigger, Tasks, records, page
<1>2. CASE TurnAway
  BY <1>2, ConstantsAssumption DEF TurnAway, LeavesNoTrace, page
<1>3. CASE RunStep
  BY <1>3, RunTyped
<1>4. CASE StartOther
  <2>1. other' \in Others
    BY <1>4, Idles DEF StartOther, NoOther, Others
  <2> QED
    BY <1>4, <2>1, ConstantsAssumption DEF StartOther, Others, records, page
<1>5. CASE LockOther
  <2>1. other' \in Others
    BY <1>0, <1>5, Idles DEF LockOther, Refused, Others, Outcome
  <2> QED
    BY <1>5, <2>1 DEF LockOther, Others, records, page, bounds
<1>6. CASE EndOther
  <2>1. other' \in Others
    BY <1>0, <1>6, Idles DEF EndOther, Others, Outcome
  <2> QED
    BY <1>6, <2>1 DEF EndOther, Others, records, page, bounds
<1>7. CASE NoteOther
  <2>1. other' \in Others /\ lastSync' \in Outcome
    BY <1>0, <1>7, Idles DEF NoteOther, Others
  <2> QED
    BY <1>7, <2>1 DEF NoteOther, Others, page, bounds
<1>8. CASE LoadPage
  <2>1. Banner \in 1 .. MaxRuns \cup {None}
    BY DEF Banner, Status
  <2> QED
    BY <1>8, <2>1 DEF LoadPage, records, bounds
<1>9. CASE Dismiss
  <2>1. IsOnFile => status.run \in 1 .. MaxRuns
    BY DEF IsOnFile, Status
  <2> QED
    BY <1>9, <2>1 DEF Dismiss, records, bounds
<1>10. CASE WriteDismissal
  BY <1>10 DEF WriteDismissal, records, bounds
<1>11. CASE KillTask
  <2>1. task' \in Tasks /\ task'.start = 0 /\ task'.pc = "none"
    BY <1>11, Idles DEF KillTask, NoTask
  <2>2. /\ status' \in Status \cup {None}
        /\ history' \in Seq(1 .. MaxRuns) /\ Len(history') <= HistorySize
        /\ lastSync' \in Outcome \cup {None}
        /\ done' \subseteq Int
    <3>1. task.pc # "none" /\ Torn
      BY <1>11 DEF KillTask
    <3> HIDE DEF TypeOK, Numbered
    <3> QED
      BY <3>1, TornTyped
  <2>3. kills' \in 0 .. MaxKills /\ holder' \in {None, "task", "other"}
    BY <1>11, ConstantsAssumption DEF KillTask
  <2> QED
    BY <1>11, <2>1, <2>2, <2>3 DEF KillTask, Tasks, page
<1>12. CASE KillOther
  <2>1. other' \in Others
    BY <1>12, Idles DEF KillOther
  <2> QED
    BY <1>12, <2>1, ConstantsAssumption DEF KillOther, Others, page
<1>13. CASE Tick
  BY <1>13, ConstantsAssumption DEF Tick, records, page, bounds
<1>14. CASE UNCHANGED vars
  BY <1>14 DEF vars, records, page, bounds
<1> QED
  BY <1>1, <1>2, <1>3, <1>4, <1>5, <1>6, <1>7, <1>8, <1>9, <1>10, <1>11, <1>12, <1>13, <1>14
     DEF Next

(* Every variable keeps its type.                                          *)
THEOREM TypeCorrect == Spec => []TypeOK
<1>1. TypeOK /\ Numbered /\ [Next]_vars => (TypeOK /\ Numbered)'
  BY TypeKept
<1> QED
  BY <1>1, InitTyped, PTL DEF Spec

-----------------------------------------------------------------------------
(* A day is synced once, and not lost.                                     *)

(* Later instants fall on the same day or on a later one.                  *)
LEMMA DayMonotone ==
  ASSUME NEW a \in Nat, NEW b \in Nat, a <= b
  PROVE  Day(a) <= Day(b)
<1> DEFINE p == a \div DayLength
<1> DEFINE q == b \div DayLength
<1>1. DayLength \in Nat /\ DayLength > 0
  BY ConstantsAssumption
<1>2. p \in Int /\ q \in Int
  BY <1>1
<1>3. /\ a = DayLength * (a \div DayLength) + (a % DayLength)
      /\ a % DayLength \in 0 .. (DayLength - 1)
      /\ b = DayLength * (b \div DayLength) + (b % DayLength)
      /\ b % DayLength \in 0 .. (DayLength - 1)
  BY <1>1
<1>4. DayLength * p <= a /\ b < (DayLength * q) + DayLength
  BY <1>1, <1>3
<1> HIDE DEF p, q
<1>5. DayLength * p < DayLength * (q + 1)
  BY <1>1, <1>2, <1>4
<1>6. p < q + 1
  <2>1. CASE p >= q + 1
    <3>1. DayLength * p >= DayLength * (q + 1)
      BY <1>1, <1>2, <2>1
    <3> QED
      BY <1>1, <1>2, <1>5, <3>1
  <2> QED
    BY <1>2, <2>1
<1>7. p <= q
  BY <1>2, <1>6
<1> QED
  BY <1>7 DEF Day, p, q

Unreported == {"preflight", "network", "locking", "syncing", "reporting"}

(* A run that has yet to report began on a later day than any that is done.*)
BeganAfterwards ==
  task.pc \in Unreported => \A day \in done : day < Day(task.start)

(* The last status says of today, and of the day of a success, whether it  *)
(* is done.                                                                *)
OnFile ==
  /\ \A day \in done : day <= Day(now)
  /\ Day(now) \in done => SucceededToday
  /\ (status # None /\ status.outcome = "success") => Day(status.at) \in done

Dated == TypeOK /\ Numbered /\ BeganAfterwards /\ OnFile

LEMMA InitDated == Init => Dated
<1> SUFFICES ASSUME Init PROVE Dated
  OBVIOUS
<1>1. TypeOK /\ Numbered
  BY InitTyped
<1>2. done = {} /\ status = None
  BY DEF Init
<1> QED
  BY <1>1, <1>2 DEF Dated, BeganAfterwards, OnFile

(* While a run has yet to report, today is not done.                       *)
LEMMA NotYetToday ==
  ASSUME Dated, task.pc \in Unreported
  PROVE  /\ Day(now) \notin done
         /\ Day(task.start) <= Day(now)
         /\ Day(task.start) \in Int /\ Day(now) \in Int
<1>1. task.start \in Nat /\ now \in Nat /\ task.start <= now
  BY ConstantsAssumption DEF Dated, TypeOK, Numbered
<1>2. Day(task.start) <= Day(now) /\ Day(task.start) \in Int /\ Day(now) \in Int
  BY <1>1, DayMonotone, DayTyped
<1> QED
  BY <1>2 DEF Dated, BeganAfterwards

(* Steps that leave the time, the status and the run's start alone.        *)
LEMMA Undisturbing ==
  ASSUME Dated,
         now' = now, status' = status, done' = done,
         task'.pc \in Unreported =>
           task.pc \in Unreported /\ task'.start = task.start
  PROVE  BeganAfterwards' /\ OnFile'
BY DEF Dated, BeganAfterwards, OnFile, SucceededToday, Day

(* The status is written, whole, torn or not at all.                       *)
LEMMA Reporting ==
  ASSUME Dated, task.pc = "reporting", now' = now, task'.pc \notin Unreported,
         status' \in {status, None, StatusOfRun},
         done' = IF status' = StatusOfRun /\ task.outcome = "success"
                 THEN done \cup {Day(task.start)} ELSE done
  PROVE  BeganAfterwards' /\ OnFile'
<1>1. /\ Day(now) \notin done
      /\ Day(task.start) <= Day(now)
      /\ Day(task.start) \in Int /\ Day(now) \in Int
  BY NotYetToday DEF Unreported
<1>2. StatusOfRun # None
  <2>1. StatusOfRun \in Status
    BY DEF Dated, TypeOK, Numbered, StatusOfRun, Status
  <2> QED
    BY <2>1, NoneAssumption
<1>3. Day(now') = Day(now)
  BY DEF Day
<1>4. CASE status' = StatusOfRun /\ task.outcome = "success"
  <2>1. done' = done \cup {Day(task.start)}
    BY <1>4
  <2>2. status' # None /\ status'.outcome = "success" /\ status'.at = task.start
    BY <1>2, <1>4 DEF StatusOfRun
  <2>3. (\A day \in done : day <= Day(now))'
    BY <1>1, <1>3, <2>1 DEF Dated, OnFile
  <2>4. Day(now') \in done' => Day(task.start) = Day(now')
    BY <1>1, <1>3, <2>1
  <2>5. (Day(now) \in done => SucceededToday)'
    BY <2>2, <2>4 DEF SucceededToday, Day
  <2>6. Day(status'.at) \in done'
    BY <2>1, <2>2 DEF Day
  <2> QED
    BY <2>3, <2>5, <2>6 DEF BeganAfterwards, OnFile, Day
<1>5. CASE ~(status' = StatusOfRun /\ task.outcome = "success")
  <2>1. done' = done
    BY <1>5
  <2>2. Day(now') \notin done'
    BY <1>1, <1>3, <2>1
  <2>3. (status' # None /\ status'.outcome = "success") => Day(status'.at) \in done'
    <3>1. CASE status' = status
      BY <2>1, <3>1 DEF Dated, OnFile, Day
    <3>2. CASE status' = StatusOfRun
      BY <1>5, <3>2 DEF StatusOfRun
    <3> QED
      BY <3>1, <3>2
  <2>4. (\A day \in done : day <= Day(now))'
    BY <1>3, <2>1 DEF Dated, OnFile
  <2> QED
    BY <2>2, <2>3, <2>4 DEF BeganAfterwards, OnFile, Day
<1> QED
  BY <1>4, <1>5

LEMMA DatedKept ==
  ASSUME Dated, [Next]_vars
  PROVE  Dated'
<1>0. TypeOK' /\ Numbered'
  BY TypeKept DEF Dated
<1>t. task \in Tasks
  BY DEF Dated, TypeOK, Tasks
<1>1. CASE Trigger
  <2>1. task' = Begin(runs + 1) /\ now' = now /\ status' = status /\ done' = done
    BY <1>1 DEF Trigger, records
  <2>2. task'.start = now
    BY <2>1 DEF Begin, NoTask
  <2>3. \A day \in done : day < Day(now)
    <3>1. ~SucceededToday /\ Day(now) \notin done
      BY <1>1 DEF Trigger, Dated, OnFile
    <3>2. Day(now) \in Int /\ done \subseteq Int
      BY DayTyped, ConstantsAssumption DEF Dated, TypeOK
    <3> QED
      BY <3>1, <3>2 DEF Dated, OnFile
  <2> QED
    BY <1>0, <2>1, <2>2, <2>3 DEF Dated, BeganAfterwards, OnFile, SucceededToday, Day
<1>2. CASE TurnAway
  <2>1. now' = now /\ status' = status /\ done' = done /\ task' = task
    BY <1>2 DEF TurnAway, LeavesNoTrace
  <2> QED
    BY <1>0, <2>1, Undisturbing DEF Dated
<1>3. CASE Preflight
  <2>1. now' = now /\ status' = status /\ done' = done
    BY <1>3 DEF Preflight, records
  <2>2. task'.start = task.start /\ task.pc \in Unreported
    BY <1>t, <1>3 DEF Preflight, Fails, Tasks, Unreported
  <2> QED
    BY <1>0, <2>1, <2>2, Undisturbing DEF Dated
<1>4. CASE AwaitNetwork
  <2>1. now' = now /\ status' = status /\ done' = done
    BY <1>4 DEF AwaitNetwork, records
  <2>2. task'.start = task.start /\ task.pc \in Unreported
    BY <1>t, <1>4 DEF AwaitNetwork, Fails, Tasks, Unreported
  <2> QED
    BY <1>0, <2>1, <2>2, Undisturbing DEF Dated
<1>5. CASE StartSync
  <2>1. now' = now /\ status' = status /\ done' = done
    BY <1>5 DEF StartSync, records
  <2>2. task'.start = task.start /\ task.pc \in Unreported
    BY <1>t, <1>5 DEF StartSync, Tasks, Unreported
  <2> QED
    BY <1>0, <2>1, <2>2, Undisturbing DEF Dated
<1>6. CASE EndSync
  <2>1. now' = now /\ status' = status /\ done' = done
    BY <1>6 DEF EndSync, records
  <2>2. task'.start = task.start /\ task.pc \in Unreported
    BY <1>t, <1>6 DEF EndSync, Tasks, Unreported
  <2> QED
    BY <1>0, <2>1, <2>2, Undisturbing DEF Dated
<1>7. CASE Report
  <2>1. now' = now /\ status' = StatusOfRun /\ task.pc = "reporting"
        /\ done' = IF task.outcome = "success" THEN done \cup {Day(task.start)} ELSE done
    BY <1>7 DEF Report
  <2>2. task'.pc \notin Unreported
    BY <1>t, <1>7 DEF Report, Tasks, Unreported
  <2> QED
    BY <1>0, <2>1, <2>2, Reporting DEF Dated
<1>8. CASE FileHistory
  <2>1. now' = now /\ status' = status /\ done' = done
    BY <1>8 DEF FileHistory
  <2>2. task'.pc \notin Unreported
    BY <1>t, <1>8 DEF FileHistory, Tasks, Unreported
  <2> QED
    BY <1>0, <2>1, <2>2, Undisturbing DEF Dated
<1>9. CASE NoteSync
  <2>1. now' = now /\ status' = status /\ done' = done
    BY <1>9 DEF NoteSync
  <2>2. task'.pc \notin Unreported
    BY <1>9 DEF NoteSync, NoTask, Unreported
  <2> QED
    BY <1>0, <2>1, <2>2, Undisturbing DEF Dated
<1>10. CASE StartOther \/ LockOther \/ EndOther \/ NoteOther
  <2>1. now' = now /\ status' = status /\ done' = done /\ task' = task
    BY <1>10 DEF StartOther, LockOther, EndOther, NoteOther, records
  <2> QED
    BY <1>0, <2>1, Undisturbing DEF Dated
<1>11. CASE LoadPage \/ Dismiss \/ WriteDismissal
  <2>1. now' = now /\ status' = status /\ done' = done /\ task' = task
    BY <1>11 DEF LoadPage, Dismiss, WriteDismissal, records
  <2> QED
    BY <1>0, <2>1, Undisturbing DEF Dated
<1>12. CASE KillTask
  <2>1. now' = now /\ Torn /\ task'.pc \notin Unreported
    BY <1>12 DEF KillTask, NoTask, Unreported
  <2>2. CASE task.pc = "reporting"
    <3>1. /\ status' \in {status, None, StatusOfRun}
          /\ done' = IF status' = StatusOfRun /\ task.outcome = "success"
                     THEN done \cup {Day(task.start)} ELSE done
      BY <2>1, <2>2 DEF Torn
    <3> QED
      BY <1>0, <2>1, <2>2, <3>1, Reporting DEF Dated
  <2>3. CASE task.pc # "reporting"
    <3>1. status' = status /\ done' = done
      BY <2>1, <2>3 DEF Torn
    <3> QED
      BY <1>0, <2>1, <3>1, Undisturbing DEF Dated
  <2> QED
    BY <2>2, <2>3
<1>13. CASE KillOther
  <2>1. now' = now /\ status' = status /\ done' = done /\ task' = task
    BY <1>13 DEF KillOther
  <2> QED
    BY <1>0, <2>1, Undisturbing DEF Dated
<1>14. CASE Tick
  <2>1. now' = now + 1 /\ status' = status /\ done' = done /\ task' = task
    BY <1>14 DEF Tick, records
  <2>2. now \in Nat /\ now' \in Nat /\ now <= now'
    BY <2>1, ConstantsAssumption DEF Dated, TypeOK
  <2>3. Day(now) <= Day(now') /\ Day(now) \in Int /\ Day(now') \in Int
    BY <2>2, DayMonotone, DayTyped
  <2>4. done \subseteq Int
    BY DEF Dated, TypeOK
  <2>5. (\A day \in done : day <= Day(now))'
    BY <2>1, <2>3, <2>4 DEF Dated, OnFile
  <2>6. Day(now') \in done => Day(now') = Day(now) /\ SucceededToday
    BY <2>3 DEF Dated, OnFile
  <2>7. (Day(now) \in done => SucceededToday)'
    BY <2>1, <2>6 DEF SucceededToday, Day
  <2>8. (BeganAfterwards)' /\ ((status # None /\ status.outcome = "success") => Day(status.at) \in done)'
    BY <2>1 DEF Dated, BeganAfterwards, OnFile, Day
  <2> QED
    BY <1>0, <2>5, <2>7, <2>8 DEF Dated, OnFile
<1>15. CASE UNCHANGED vars
  <2>1. now' = now /\ status' = status /\ done' = done /\ task' = task
    BY <1>15 DEF vars, records
  <2> QED
    BY <1>0, <2>1, Undisturbing DEF Dated
<1> QED
  BY <1>1, <1>2, <1>3, <1>4, <1>5, <1>6, <1>7, <1>8, <1>9, <1>10, <1>11, <1>12, <1>13,
     <1>14, <1>15 DEF Next, RunStep

LEMMA DatedAlways == Spec => []Dated
<1>1. Dated /\ [Next]_vars => Dated'
  BY DatedKept
<1> QED
  BY <1>1, InitDated, PTL DEF Spec

(* OPAL is crawled at most once on a day that has had its scheduled        *)
(* success: a run that crawls began on a later day than any that is done   *)
(* (alreadySucceededToday).                                                *)
THEOREM DayOnce == Spec => []OneSyncADay
<1>1. Dated => OneSyncADay
  <2> SUFFICES ASSUME Dated, task.pc = "syncing" PROVE Day(task.start) \notin done
    BY DEF OneSyncADay
  <2>1. task.pc \in Unreported
    BY DEF Unreported
  <2>2. Day(task.start) \in Int
    BY <2>1, NotYetToday
  <2> QED
    BY <2>1, <2>2 DEF Dated, BeganAfterwards
<1> QED
  BY <1>1, DatedAlways, PTL

(* A run is turned away only on a day whose own scheduled sync succeeded   *)
(* (errAlreadySucceededToday).                                             *)
THEOREM NoDayLost == Spec => TurnedAwayOnlyIfDone
<1>1. Dated /\ [Next]_vars => [refused' # refused => Day(now) \in done]_vars
  <2> SUFFICES ASSUME Dated, [Next]_vars, refused' # refused
               PROVE  Day(now) \in done
    OBVIOUS
  <2>1. TurnAway
    BY DEF Next, vars, bounds, Trigger, RunStep, Preflight, AwaitNetwork, StartSync,
           EndSync, Report, FileHistory, NoteSync, StartOther, LockOther, EndOther,
           NoteOther, LoadPage, Dismiss, WriteDismissal, KillTask, KillOther, Tick
  <2> QED
    BY <2>1 DEF TurnAway, SucceededToday, Dated, OnFile
<1> QED
  BY <1>1, DatedAlways, PTL DEF Spec, TurnedAwayOnlyIfDone

-----------------------------------------------------------------------------
(* What is dismissed was seen.                                             *)

(* What a page shows has been seen, and so has what its click writes.      *)
Seen ==
  /\ shown # None => shown \in seen
  /\ click # None => click \in seen
  /\ dismissed # None => dismissed \in seen

LEMMA SeenKept == ASSUME Seen, [Next]_vars PROVE Seen'
<1>1. CASE LoadPage
  BY <1>1 DEF LoadPage, Seen
<1>2. CASE Dismiss
  BY <1>2 DEF Dismiss, Seen, IsOnFile
<1>3. CASE WriteDismissal
  BY <1>3 DEF WriteDismissal, Seen
<1>4. CASE UNCHANGED page
  BY <1>4 DEF page, Seen
<1>5. LoadPage \/ Dismiss \/ WriteDismissal \/ UNCHANGED page
  BY DEF Next, vars, Trigger, TurnAway, RunStep, Preflight, AwaitNetwork, StartSync,
         EndSync, Report, FileHistory, NoteSync, StartOther, LockOther, EndOther,
         NoteOther, KillTask, KillOther, Tick
<1> QED
  BY <1>1, <1>2, <1>3, <1>4, <1>5

(* A failure is dismissed only after a page has shown it, whatever is      *)
(* reported in the meantime (handleScheduledStatusDismiss).                *)
THEOREM SeenFirst == Spec => []DismissedWasSeen
<1>1. Init => Seen
  BY DEF Init, Seen
<1>2. Seen /\ [Next]_vars => Seen'
  BY SeenKept
<1>3. Seen => DismissedWasSeen
  BY DEF Seen, DismissedWasSeen
<1> QED
  BY <1>1, <1>2, <1>3, PTL DEF Spec

-----------------------------------------------------------------------------
(* config.yaml (Settings).                                                 *)

(* The folder a row of the form stands for.                                *)
FolderOf(row) == IF row \in Folders THEN row ELSE Unset

(* The row of n stands for what the form was opened with.                  *)
StandsFor(f, n) ==
  /\ FolderOf(f.shows.rows[n]) = f.opened.folders[n]
  /\ ~ f.opened.every /\ n \in f.opened.courses => f.shows.rows[n] # Absent

(* So does each row that nobody touched.                                   *)
FormsOK ==
  \A t \in Tabs :
    /\ asked[t] # Nothing => form[t] # NoForm
    /\ form[t] # NoForm =>
         \A n \in Names \ form[t].touched : StandsFor(form[t], n)

(* The form under a save stays what was submitted.                         *)
PostsOK ==
  \A t \in Tabs : post[t] # Idle =>
    /\ form[t] # NoForm
    /\ asked[t] = Nothing
    /\ \A n \in Names : post[t].config.folders[n] = FolderOf(form[t].shows.rows[n])
    /\ \A n \in Names : ~ post[t].config.every
         => (n \in post[t].config.courses <=> form[t].shows.rows[n] # Absent)
    /\ At(t, "read") => post[t].old \in Contents

(* What a save that nobody overlaps finds and leaves in the files.         *)
Saved == good = Missing \/ backup = good
Committed(t) == post[t].at \in {"backed", "writing"}

FilesOK ==
  /\ good # Empty
  /\ \A t, u \in Tabs : post[t] # Idle /\ post[u] # Idle => t = u
  /\ \A t \in Tabs : At(t, "writing") => file = Empty
  /\ \A t \in Tabs : At(t, "read") => file # Missing /\ post[t].old = file
  /\ faults = 0 =>
       /\ (\A t \in Tabs : ~At(t, "writing")) => file = good
       /\ \A t \in Tabs : Committed(t) => Saved
  /\ faults = 1 /\ (\A t \in Tabs : ~Committed(t)) /\ file = Empty => Saved

(* The save under way was computed from the content still on disk.         *)
BaseOK ==
  faults = 0 /\ Loads(good) =>
    \A t \in Tabs : post[t] # Idle =>
      /\ post[t].config.hidden = Load(good).hidden
      /\ post[t].config.hidden # Unset
      /\ post[t].synced => (post[t].warned <=> post[t].config.sections # Load(good).sections)

Consistent == SettingsTypeOK /\ FormsOK /\ PostsOK /\ (~overlapped => FilesOK /\ BaseOK)

-----------------------------------------------------------------------------
(* Types.                                                                  *)

LEMMA NormalTyped ==
  ASSUME NEW raw \in Raw
  PROVE  /\ Normal(raw) \in Raw
         /\ Normal(raw).hidden # Unset
         /\ Normal(raw).folders = raw.folders
         /\ Normal(raw).sections = raw.sections
         /\ Normal(raw).courses = raw.courses
         /\ raw.every => Normal(raw).every
         /\ raw.hidden # Unset => Normal(raw).hidden = raw.hidden
  BY SettingsAssumption DEF Normal, Raw

LEMMA LoadTyped ==
  ASSUME NEW content \in Contents, Loads(content)
  PROVE  Load(content) \in Raw /\ Load(content).hidden # Unset
  BY NormalTyped, SettingsAssumption DEF Load, Loads, Contents

(* What a save and a form are computed from.                               *)
LEMMA BaseTyped ==
  ASSUME file \in Contents
  PROVE  Base \in Raw /\ Base.hidden # Unset
  BY LoadTyped, SettingsAssumption DEF Base

LEMMA ViewTyped ==
  ASSUME NEW c \in Raw
  PROVE  /\ View(c) \in FormContent
         /\ \A n \in Names : FolderOf(View(c).rows[n]) = c.folders[n]
         /\ \A n \in Names : ~ c.every /\ n \in c.courses => View(c).rows[n] # Absent
  <1>1. Rows(c) \in [Names -> Folders \cup {Unset, Absent}]
    BY DEF Rows, Raw
  <1>2. \A n \in Names : FolderOf(Rows(c)[n]) = c.folders[n]
    BY MarksAssumption DEF Rows, Raw, FolderOf
  <1>3. \A n \in Names : ~ c.every /\ n \in c.courses => Rows(c)[n] # Absent
    BY MarksAssumption DEF Rows, Raw
  <1>4. View(c).rows = Rows(c)
    BY DEF View
  <1>5. View(c) \in FormContent
    BY <1>1 DEF View, FormContent, Raw
  <1> QED
    BY <1>2, <1>3, <1>4, <1>5

LEMMA BlankTyped ==
  /\ BlankForm \in FormContent
  /\ \A n \in Names : FolderOf(BlankForm.rows[n]) = Defaults.folders[n]
  BY MarksAssumption, SettingsAssumption DEF BlankForm, FormContent, FolderOf

LEMMA ParsedTyped ==
  ASSUME NEW f \in FormContent, NEW base \in Raw
  PROVE  /\ Parsed(f, base) \in Raw
         /\ Parsed(f, base).hidden = base.hidden
         /\ Parsed(f, base).folders = [n \in Names |-> FolderOf(f.rows[n])]
         /\ \A n \in Names : ~ Parsed(f, base).every
              => (n \in Parsed(f, base).courses <=> f.rows[n] # Absent)
  BY SettingsAssumption DEF Parsed, Raw, FormContent, FolderOf

LEMMA SuggestTyped ==
  ASSUME NEW courses, NEW candidates \in SUBSET Dirs, NEW taken
  PROVE  \A c \in courses : Suggest(courses, candidates, taken)[c] \in Dirs \cup {NoDir}
  <1>1. \A c : BestCandidate(c, candidates, taken) \in Dirs \cup {NoDir}
    <2> TAKE c
    <2> DEFINE pool == {d \in candidates \ taken : ScoreOf(c, d) >= MinScore}
               Leads(d) == \A e \in pool : ScoreOf(c, e) <= ScoreOf(c, d) + TieBand
               first == {d \in pool : Leads(d)}
               winners == {d \in Freshest(Leaves(first)) :
                             \A e \in pool : \/ Leads(e)
                                             \/ ScoreOf(c, d) >= ScoreOf(c, e) + MinMargin}
    <2>1. first \subseteq Dirs
      OBVIOUS
    <2>2. winners \subseteq Dirs
      <3> HIDE DEF first, Leads, pool
      <3> QED BY <2>1 DEF Freshest, Leaves
    <2>3. BestCandidate(c, candidates, taken)
            = IF winners = {} THEN NoDir ELSE CHOOSE d \in winners : TRUE
      BY Zenon DEF BestCandidate
    <2> HIDE DEF winners
    <2> QED BY <2>2, <2>3
  <1> QED
    BY <1>1, Zenon DEF Suggest

LEMMA FillTyped ==
  ASSUME NEW sent \in FormContent, NEW rows \in [Names -> Folders \cup {Unset, Absent}]
  PROVE  Fill(rows, sent) \in [Names -> Folders \cup {Unset, Absent}]
  <1> DEFINE wanted == {n \in Names : sent.rows[n] = Unset}
             taken == {sent.rows[n] : n \in Names} \cap Folders
             candidates == Candidates(Scanned({sent.default}, MaxDirs))
  <1>1. candidates \subseteq Dirs
    BY Zenon DEF Candidates, Scanned, Reachable
  <1>2. \A n \in wanted : Proposed(sent)[n] \in Dirs \cup {NoDir}
    <2>1. Proposed(sent) = Suggest(wanted, candidates, taken)
      BY Zenon DEF Proposed, Proposal
    <2> HIDE DEF candidates, taken, wanted
    <2> QED BY <1>1, <2>1, SuggestTyped, Zenon
  <1> QED
    BY <1>2 DEF Fill, Folders

LEMMA SettingsInitTyped == SettingsInit => SettingsTypeOK
  <1> SUFFICES ASSUME SettingsInit PROVE SettingsTypeOK
    OBVIOUS
  <1>1. NoForm \in Forms /\ Idle \in Posts
    BY DEF Forms, Posts
  <1>2. file \in Contents /\ backup \in Contents /\ good \in Contents
    BY SettingsAssumption DEF SettingsInit, Contents
  <1>3. form \in [Tabs -> Forms] /\ post \in [Tabs -> Posts]
    BY <1>1 DEF SettingsInit
  <1>4. asked \in [Tabs -> FormContent \cup {Nothing}]
    BY DEF SettingsInit
  <1>5. edits \in 0..MaxEdits /\ saves \in 0..MaxSaves /\ faults \in 0..MaxFaults
    BY SettingsAssumption DEF SettingsInit
  <1> QED
    BY <1>2, <1>3, <1>4, <1>5 DEF SettingsInit, SettingsTypeOK

OpenForms == [at : {"open"}, touched : SUBSET Names, opened : Raw, shows : FormContent]
OpenPosts == [at : {"valid", "read", "backed", "writing"}, config : Raw, warned : BOOLEAN,
              synced : BOOLEAN, old : Contents \cup {Nothing}]

LEMMA NotOpen == NoForm \notin OpenForms
  BY DEF OpenForms, NoForm

(* A form or a save under way is one with all its parts.                   *)
LEMMA Parts ==
  ASSUME SettingsTypeOK, NEW t \in Tabs
  PROVE  /\ form[t] # NoForm => form[t] \in OpenForms
         /\ form[t] = NoForm \/ form[t] \in OpenForms
         /\ post[t] # Idle => post[t] \in OpenPosts
         /\ post[t].at # "idle" => post[t] \in OpenPosts
         /\ post[t] \in OpenPosts => post[t] # Idle
         /\ asked[t] # Nothing => asked[t] \in FormContent
  <1>1. /\ form[t] \in {NoForm} \cup OpenForms
        /\ post[t] \in {Idle} \cup OpenPosts
        /\ asked[t] \in FormContent \cup {Nothing}
    BY DEF SettingsTypeOK, Forms, Posts, OpenForms, OpenPosts
  <1>2. Idle \notin OpenPosts /\ Idle.at = "idle"
    BY DEF OpenPosts, Idle
  <1> QED
    BY <1>1, <1>2

(* The page of a tab and its changes.                                      *)
LEMMA OpenedTyped ==
  ASSUME SettingsTypeOK, NEW t \in Tabs, OpenForm(t)
  PROVE  /\ form' = [form EXCEPT ![t] = form'[t]]
         /\ form'[t] \in OpenForms
         /\ \A n \in Names : StandsFor(form'[t], n)
  <1> DEFINE opened == IF Loads(file) THEN Load(file) ELSE Defaults
             shows == IF file = Broken THEN BlankForm
                      ELSE IF file = Missing THEN View(Defaults) ELSE View(Load(file))
             f == [at |-> "open", touched |-> {}, opened |-> opened, shows |-> shows]
  <1>1. form' = [form EXCEPT ![t] = f]
    BY Zenon DEF OpenForm
  <1>2. form'[t] = f
    <2> HIDE DEF f
    <2> QED BY <1>1 DEF SettingsTypeOK
  <1>3. opened \in Raw
    BY LoadTyped, SettingsAssumption DEF SettingsTypeOK
  <1>4. /\ shows \in FormContent
        /\ \A n \in Names : FolderOf(shows.rows[n]) = opened.folders[n]
        /\ \A n \in Names : ~ opened.every /\ n \in opened.courses => shows.rows[n] # Absent
    <2>1. CASE file = Broken
      BY <2>1, BlankTyped, SettingsAssumption DEF Loads
    <2>2. CASE file # Broken /\ file = Missing
      BY <2>2, ViewTyped, SettingsAssumption DEF Loads
    <2>3. CASE file # Broken /\ file # Missing
      BY <1>3, <2>3, ViewTyped DEF Loads
    <2> QED BY <2>1, <2>2, <2>3
  <1>5. /\ f \in OpenForms /\ f.opened = opened /\ f.shows = shows
    <2> HIDE DEF opened, shows
    <2> QED BY <1>3, <1>4 DEF OpenForms
  <1> QED
    <2> HIDE DEF opened, shows, f
    <2> QED BY <1>1, <1>2, <1>4, <1>5 DEF StandsFor

(* What the user or the answer to a suggestion does to an open form.       *)
Reworked(t) ==
  /\ form[t] \in OpenForms /\ form'[t] \in OpenForms
  /\ form' = [form EXCEPT ![t] = form'[t]]
  /\ form'[t].opened = form[t].opened
  /\ form[t].touched \subseteq form'[t].touched
  /\ \A n \in Names \ form'[t].touched : form'[t].shows.rows[n] = form[t].shows.rows[n]

LEMMA EditReworks ==
  ASSUME SettingsTypeOK, NEW t \in Tabs, NEW content \in FormContent, NEW rows \in SUBSET Names,
         Edit(t, content, rows),
         \A n \in Names \ rows : content.rows[n] = form[t].shows.rows[n]
  PROVE  Reworked(t)
  <1> DEFINE f == [[form[t] EXCEPT !.shows = content] EXCEPT !.touched = @ \cup rows]
  <1>1. form[t] \in OpenForms
    BY Parts DEF Edit
  <1>2. form' = [form EXCEPT ![t] = f]
    BY DEF Edit
  <1>3. /\ f \in OpenForms /\ f.opened = form[t].opened
        /\ f.touched = form[t].touched \cup rows /\ f.shows = content
    BY <1>1 DEF OpenForms
  <1>4. form'[t] = f
    BY <1>2 DEF SettingsTypeOK
  <1> QED
    <2> HIDE DEF f
    <2> QED BY <1>1, <1>2, <1>3, <1>4 DEF Reworked

LEMMA SetRowReworks ==
  ASSUME SettingsTypeOK, NEW t \in Tabs, NEW n \in Names, NEW f \in Typed \cup {Unset, Absent},
         SetRow(t, n, f)
  PROVE  Reworked(t)
  <1> DEFINE content == [form[t].shows EXCEPT !.rows[n] = f]
  <1>1. form[t].shows \in FormContent
    BY Parts DEF SetRow, OpenForms
  <1>2. f \in Folders \cup {Unset, Absent}
    BY SettingsAssumption
  <1>3. /\ content \in FormContent
        /\ \A m \in Names \ {n} : content.rows[m] = form[t].shows.rows[m]
    BY <1>1, <1>2 DEF FormContent
  <1>4. Edit(t, content, {n})
    BY DEF SetRow
  <1> QED
    <2> HIDE DEF content
    <2> QED BY <1>3, <1>4, EditReworks

LEMMA ToggleReworks ==
  ASSUME SettingsTypeOK, NEW t \in Tabs, Toggle(t)
  PROVE  Reworked(t)
  <1>1. form[t].shows \in FormContent
    BY Parts DEF Toggle, OpenForms
  <1>2. PICK content : /\ Edit(t, content, {})
                     /\ \/ content = [form[t].shows EXCEPT !.every = ~ @]
                        \/ content = [form[t].shows EXCEPT !.sections = ~ @]
                        \/ content = [form[t].shows EXCEPT !.path = Unset]
    BY DEF Toggle
  <1>3. content \in FormContent /\ content.rows = form[t].shows.rows
    BY <1>1, <1>2 DEF FormContent
  <1> QED
    BY <1>2, <1>3, EditReworks

LEMMA AnswerReworks ==
  ASSUME SettingsTypeOK, NEW t \in Tabs, Answer(t), form[t] # NoForm
  PROVE  Reworked(t)
  <1> DEFINE rows == form[t].shows.rows
             filled == Fill(rows, asked[t])
             changed == {n \in Names : filled[n] # rows[n]}
             f == [[form[t] EXCEPT !.shows.rows = filled] EXCEPT !.touched = @ \cup changed]
  <1>1. form[t] \in OpenForms /\ asked[t] \in FormContent
    BY Parts DEF Answer
  <1>2. rows \in [Names -> Folders \cup {Unset, Absent}]
    BY <1>1 DEF OpenForms, FormContent
  <1>3. filled \in [Names -> Folders \cup {Unset, Absent}]
    <2> HIDE DEF rows
    <2> QED BY <1>1, <1>2, FillTyped
  <1>4. form' = [form EXCEPT ![t] = f]
    BY DEF Answer
  <1>5. /\ f \in OpenForms /\ f.opened = form[t].opened
        /\ f.touched = form[t].touched \cup changed /\ f.shows.rows = filled
    <2> HIDE DEF filled, changed
    <2>1. changed \subseteq Names
      BY DEF changed
    <2> QED BY <1>1, <1>3, <2>1 DEF OpenForms, FormContent
  <1>6. form'[t] = f
    BY <1>4 DEF SettingsTypeOK
  <1>7. \A n \in Names \ changed : filled[n] = rows[n]
    OBVIOUS
  <1> QED
    <2> HIDE DEF f, filled, changed
    <2> QED BY <1>1, <1>4, <1>5, <1>6, <1>7 DEF Reworked

(* A save.                                                                 *)
LEMMA Submitted ==
  ASSUME SettingsTypeOK, NEW t \in Tabs, Submit(t)
  PROVE  /\ post' = [post EXCEPT ![t] = post'[t]]
         /\ post'[t] \in OpenPosts
         /\ post'[t].at = "valid"
         /\ \A n \in Names : post'[t].config.folders[n] = FolderOf(form[t].shows.rows[n])
         /\ \A n \in Names : ~ post'[t].config.every
              => (n \in post'[t].config.courses <=> form[t].shows.rows[n] # Absent)
         /\ post'[t].config.hidden = Base.hidden
         /\ post'[t].synced = synced
         /\ post'[t].warned <=> (Base.sections # post'[t].config.sections /\ synced)
  <1> DEFINE c == Parsed(form[t].shows, Base)
             p == [at |-> "valid", old |-> Nothing, config |-> c, warned |-> Warns(Base, c),
                   synced |-> synced]
  <1>1. form[t].shows \in FormContent
    BY Parts DEF Submit, OpenForms
  <1>2. Base \in Raw
    BY BaseTyped DEF SettingsTypeOK
  <1>3. /\ c \in Raw /\ c.hidden = Base.hidden
        /\ \A n \in Names : c.folders[n] = FolderOf(form[t].shows.rows[n])
        /\ \A n \in Names : ~ c.every => (n \in c.courses <=> form[t].shows.rows[n] # Absent)
    <2>1. /\ c \in Raw /\ c.hidden = Base.hidden
          /\ c.folders = [n \in Names |-> FolderOf(form[t].shows.rows[n])]
          /\ \A n \in Names : ~ c.every => (n \in c.courses <=> form[t].shows.rows[n] # Absent)
      BY <1>1, <1>2, ParsedTyped, Zenon
    <2> HIDE DEF c
    <2> QED BY <2>1
  <1>4. post' = [post EXCEPT ![t] = p]
    BY Zenon DEF Submit
  <1>5. post'[t] = p
    <2> HIDE DEF p
    <2> QED BY <1>4 DEF SettingsTypeOK
  <1>6. /\ p \in OpenPosts /\ p.at = "valid" /\ p.config = c /\ p.synced = synced
        /\ p.warned = (Base.sections # c.sections /\ synced)
    <2>1. Warns(Base, c) \in BOOLEAN /\ synced \in BOOLEAN
      BY Zenon DEF Warns, SettingsTypeOK
    <2>2. Warns(Base, c) = (Base.sections # c.sections /\ synced)
      BY Zenon DEF Warns
    <2> HIDE DEF c
    <2> QED BY <1>3, <2>1, <2>2 DEF OpenPosts
  <1> QED
    <2> HIDE DEF c, p
    <2> QED BY <1>3, <1>4, <1>5, <1>6

(* The save of t goes on to the given stage.                               *)
Advances(t, stage) ==
  /\ post[t] \in OpenPosts /\ post'[t] \in OpenPosts
  /\ post' = [post EXCEPT ![t] = post'[t]]
  /\ post'[t].at = stage
  /\ post'[t].config = post[t].config
  /\ post'[t].warned = post[t].warned
  /\ post'[t].synced = post[t].synced

LEMMA ReadAdvances ==
  ASSUME SettingsTypeOK, NEW t \in Tabs, ReadOld(t)
  PROVE  /\ Advances(t, IF file = Missing THEN "backed" ELSE "read")
         /\ post'[t].old = file
  <1> DEFINE stage == IF file = Missing THEN "backed" ELSE "read"
             p == [[post[t] EXCEPT !.at = stage] EXCEPT !.old = file]
  <1>1. post[t] \in OpenPosts /\ file \in Contents
    BY Parts DEF ReadOld, At, SettingsTypeOK
  <1>2. post' = [post EXCEPT ![t] = p]
    BY DEF ReadOld
  <1>3. /\ p \in OpenPosts /\ p.at = stage /\ p.old = file /\ p.config = post[t].config
        /\ p.warned = post[t].warned /\ p.synced = post[t].synced
    BY <1>1 DEF OpenPosts
  <1>4. post'[t] = p
    <2> HIDE DEF p
    <2> QED BY <1>2 DEF SettingsTypeOK
  <1> QED
    <2> HIDE DEF p, stage
    <2>1. Advances(t, stage) /\ post'[t].old = file
      BY <1>1, <1>2, <1>3, <1>4 DEF Advances
    <2> QED BY <2>1 DEF stage

LEMMA StageAdvances ==
  ASSUME SettingsTypeOK, NEW t \in Tabs, NEW stage \in {"backed", "writing"},
         post[t].at # "idle", post' = [post EXCEPT ![t].at = stage]
  PROVE  Advances(t, stage)
  <1> DEFINE p == [post[t] EXCEPT !.at = stage]
  <1>1. post[t] \in OpenPosts
    BY Parts
  <1>2. /\ p \in OpenPosts /\ p.at = stage /\ p.config = post[t].config
        /\ p.warned = post[t].warned /\ p.synced = post[t].synced
    BY <1>1 DEF OpenPosts
  <1>3. post' = [post EXCEPT ![t] = p]
    OBVIOUS
  <1>4. post'[t] = p
    <2> HIDE DEF p
    <2> QED BY <1>3 DEF SettingsTypeOK
  <1> QED
    <2> HIDE DEF p
    <2> QED BY <1>1, <1>2, <1>3, <1>4 DEF Advances

(* What a completed save writes, and the form it leaves.                   *)
LEMMA Written ==
  ASSUME SettingsTypeOK, NEW t \in Tabs, Write(t), form[t] # NoForm
  PROVE  /\ post[t] \in OpenPosts /\ post' = [post EXCEPT ![t] = Idle]
         /\ file' = post[t].config \/ (file # Empty /\ file' = Broken)
         /\ good' = file'
         /\ file' \in Contents
         /\ form' = [form EXCEPT ![t] = form'[t]]
         /\ form[t] \in OpenForms /\ form'[t] \in OpenForms
         /\ form'[t].touched = {} /\ form'[t].shows = form[t].shows
         /\ form'[t].opened.folders = post[t].config.folders
         /\ form'[t].opened.courses = post[t].config.courses
         /\ post[t].config.every => form'[t].opened.every
  <1> DEFINE f == [[form[t] EXCEPT !.touched = {}] EXCEPT !.opened = Normal(post[t].config)]
  <1>1. post[t] \in OpenPosts /\ form[t] \in OpenForms
    BY Parts DEF Write, At
  <1>2. post[t].config \in Raw
    BY <1>1 DEF OpenPosts
  <1>3. form' = [form EXCEPT ![t] = f]
    BY DEF Write
  <1>4. /\ f \in OpenForms /\ f.touched = {} /\ f.shows = form[t].shows
        /\ f.opened = Normal(post[t].config)
    BY <1>1, <1>2, NormalTyped DEF OpenForms
  <1>5. form'[t] = f
    <2> HIDE DEF f
    <2> QED BY <1>3 DEF SettingsTypeOK
  <1>6. /\ f.opened.folders = post[t].config.folders
        /\ f.opened.courses = post[t].config.courses
        /\ post[t].config.every => f.opened.every
    <2> HIDE DEF f
    <2> QED BY <1>2, <1>4, NormalTyped
  <1>7. /\ file' = post[t].config \/ (file # Empty /\ file' = Broken)
        /\ good' = file' /\ post' = [post EXCEPT ![t] = Idle]
    BY DEF Write
  <1>8. file' \in Contents
    BY <1>2, <1>7 DEF Contents
  <1> QED
    <2> HIDE DEF f
    <2> QED BY <1>1, <1>3, <1>4, <1>5, <1>6, <1>7, <1>8

LEMMA SyncTyped ==
  ASSUME SettingsTypeOK, Sync
  PROVE  run' \in [config : Raw, folders : [Courses -> Folders \cup {Nothing}]]
  <1>1. Load(file) \in Raw
    BY LoadTyped DEF Sync, SettingsTypeOK
  <1>2. PICK folders \in [Courses -> Folders \cup {Nothing}] :
          run' = [config |-> Load(file), folders |-> folders]
    BY Zenon DEF Sync
  <1> QED
    BY <1>1, <1>2

LEMMA SettingsTypeKept ==
  ASSUME SettingsTypeOK, FormsOK, PostsOK, [SettingsNext]_settingsVars
  PROVE  SettingsTypeOK'
  <1> DEFINE Page == /\ form' \in [Tabs -> Forms]
                     /\ asked' \in [Tabs -> FormContent \cup {Nothing}]
             Disk == file' \in Contents /\ backup' \in Contents /\ good' \in Contents
             Saves == post' \in [Tabs -> Posts]
             Runs == /\ run' \in {Nothing} \cup [config : Raw, folders : [Courses -> Folders \cup {Nothing}]]
                     /\ synced' \in BOOLEAN /\ overlapped' \in BOOLEAN
             Counts == edits' \in 0..MaxEdits /\ saves' \in 0..MaxSaves /\ faults' \in 0..MaxFaults
  <1>1. SUFFICES Page /\ Disk /\ Saves /\ Runs /\ Counts
    BY DEF SettingsTypeOK
  <1>2. OpenForms \subseteq Forms /\ NoForm \in Forms /\ OpenPosts \subseteq Posts /\ Idle \in Posts
    BY DEF Forms, OpenForms, Posts, OpenPosts
  <1>3. Counts
    <2>1. /\ edits' = edits \/ (edits < MaxEdits /\ edits' = edits + 1)
          /\ saves' = saves \/ (saves < MaxSaves /\ saves' = saves + 1)
          /\ faults' = faults \/ (faults < MaxFaults /\ faults' = faults + 1)
      BY DEF SettingsNext, settingsVars, OpenForm, Toggle, SetRow, Edit, Ask, Answer, Saving,
             Submit, Refuse, ReadOld, Backup, Truncate, Write, SaveFails, Fault, Kill, Sync
    <2>2. edits \in 0..MaxEdits /\ saves \in 0..MaxSaves /\ faults \in 0..MaxFaults
      BY DEF SettingsTypeOK
    <2> QED BY <2>1, <2>2, SettingsAssumption
  <1>4. Runs
    <2>1. CASE Sync
      BY <2>1, SyncTyped DEF Sync, SettingsTypeOK
    <2>2. CASE \E t \in Tabs : Submit(t)
      BY <2>2 DEF Submit, SettingsTypeOK
    <2>3. CASE ~Sync /\ ~(\E t \in Tabs : Submit(t))
      BY <2>3
      DEF SettingsTypeOK, SettingsNext, settingsVars, OpenForm, Toggle, SetRow, Edit, Ask, Answer,
          Saving, Refuse, ReadOld, Backup, Truncate, Write, SaveFails, Kill
    <2> QED BY <2>1, <2>2, <2>3
  <1>5. Disk
    <2>1. CASE \E t \in Tabs : Write(t)
      BY <2>1, Parts, Written DEF PostsOK, OpenPosts, Write, At, SettingsTypeOK, Idle
    <2>2. CASE \E t \in Tabs : Backup(t)
      <3>1. PICK t \in Tabs : Backup(t)
        BY <2>2
      <3>2. post[t].old \in Contents
        BY <3>1, Parts DEF Backup, At, OpenPosts, PostsOK
      <3> QED BY <3>1, <3>2 DEF Backup, SettingsTypeOK
    <2>3. CASE \E t \in Tabs : Truncate(t) \/ SaveFails(t)
      BY <2>3 DEF Truncate, SaveFails, SettingsTypeOK, Contents
    <2>4. CASE ~(\E t \in Tabs : Write(t) \/ Backup(t) \/ Truncate(t) \/ SaveFails(t))
      BY <2>4
      DEF SettingsTypeOK, SettingsNext, settingsVars, OpenForm, Toggle, SetRow, Edit, Ask, Answer,
          Saving, Submit, Refuse, ReadOld, Kill, Sync
    <2> QED BY <2>1, <2>2, <2>3, <2>4

<1>6. Saves
    <2>1. post \in [Tabs -> Posts]
      BY DEF SettingsTypeOK
    <2>2. ASSUME NEW t \in Tabs, NEW p \in Posts, post' = [post EXCEPT ![t] = p]
          PROVE  Saves
      BY <2>1, <2>2
    <2>3. CASE \E t \in Tabs : Submit(t)
      <3>1. PICK t \in Tabs : Submit(t)
        BY <2>3
      <3> QED BY <1>2, <2>2, <3>1, Submitted
    <2>4. CASE \E t \in Tabs : ReadOld(t)
      <3>1. PICK t \in Tabs : ReadOld(t)
        BY <2>4
      <3> QED BY <1>2, <2>2, <3>1, ReadAdvances DEF Advances
    <2>5. CASE \E t \in Tabs : Backup(t) \/ Truncate(t)
      <3>1. PICK t \in Tabs, stage \in {"backed", "writing"} :
              post[t].at # "idle" /\ post' = [post EXCEPT ![t].at = stage]
        BY <2>5 DEF Backup, Truncate, At
      <3> QED BY <1>2, <2>2, <3>1, StageAdvances DEF Advances
    <2>6. CASE \E t \in Tabs : Write(t) \/ SaveFails(t)
      <3>1. PICK t \in Tabs : post' = [post EXCEPT ![t] = Idle]
        BY <2>6 DEF Write, SaveFails
      <3> QED BY <1>2, <2>2, <3>1
    <2>7. CASE Kill
      BY <1>2, <2>7 DEF Kill
    <2>8. CASE ~(\E t \in Tabs : (Saving(t) /\ ~Refuse(t)) \/ SaveFails(t)) /\ ~Kill
      BY <2>1, <2>8
      DEF SettingsNext, settingsVars, OpenForm, Toggle, SetRow, Edit, Ask, Answer, Saving, Refuse,
          Sync
    <2> QED BY <2>3, <2>4, <2>5, <2>6, <2>7, <2>8 DEF Saving
  <1>7. Page
    <2>1. form \in [Tabs -> Forms] /\ asked \in [Tabs -> FormContent \cup {Nothing}]
      BY DEF SettingsTypeOK
    <2>2. ASSUME NEW t \in Tabs, NEW f \in Forms, form' = [form EXCEPT ![t] = f]
          PROVE  form' \in [Tabs -> Forms]
      BY <2>1, <2>2
    <2>3. ASSUME NEW t \in Tabs, Reworked(t)
          PROVE  form' \in [Tabs -> Forms]
      BY <1>2, <2>2, <2>3 DEF Reworked
    <2>4. CASE \E t \in Tabs : OpenForm(t)
      <3>1. PICK t \in Tabs : OpenForm(t)
        BY <2>4
      <3> QED BY <1>2, <2>1, <2>2, <3>1, OpenedTyped DEF OpenForm
    <2>5. CASE \E t \in Tabs : Toggle(t)
      <3>1. PICK t \in Tabs : Toggle(t)
        BY <2>5
      <3>2. UNCHANGED asked
        BY <3>1 DEF Toggle, Edit
      <3> QED BY <2>1, <2>3, <3>1, <3>2, ToggleReworks
    <2>6. CASE \E t \in Tabs : \E n \in Names, f \in Typed \cup {Unset, Absent} : SetRow(t, n, f)
      <3>1. PICK t \in Tabs, n \in Names, f \in Typed \cup {Unset, Absent} : SetRow(t, n, f)
        BY <2>6
      <3>2. UNCHANGED asked
        BY <3>1 DEF SetRow, Edit
      <3> QED BY <2>1, <2>3, <3>1, <3>2, SetRowReworks
    <2>7. CASE \E t \in Tabs : Ask(t)
      <3>1. PICK t \in Tabs : Ask(t)
        BY <2>7
      <3>2. form[t].shows \in FormContent
        BY <3>1, Parts DEF Ask, OpenForms
      <3> QED BY <2>1, <3>1, <3>2 DEF Ask
    <2>8. CASE \E t \in Tabs : Answer(t)
      <3>1. PICK t \in Tabs : Answer(t)
        BY <2>8
      <3>2. Reworked(t)
        BY <3>1, AnswerReworks DEF Answer, FormsOK
      <3> QED BY <2>1, <2>3, <3>1, <3>2 DEF Answer
    <2>9. CASE \E t \in Tabs : Submit(t) \/ Refuse(t)
      BY <2>1, <2>9 DEF Submit, Refuse
    <2>10. CASE \E t \in Tabs : Write(t)
      <3>1. PICK t \in Tabs : Write(t)
        BY <2>10
      <3>2. form[t] # NoForm
        BY <3>1, Parts DEF Write, At, PostsOK, Idle
      <3>3. UNCHANGED asked
        BY <3>1 DEF Write
      <3> QED BY <1>2, <2>1, <2>2, <3>1, <3>2, <3>3, Written
    <2>11. CASE Kill
      BY <1>2, <2>11 DEF Kill
    <2>12. CASE UNCHANGED <<form, asked>>
      BY <2>1, <2>12
    <2>13. \/ \E t \in Tabs : \/ OpenForm(t) \/ Toggle(t) \/ Ask(t) \/ Answer(t)
                              \/ \E n \in Names, f \in Typed \cup {Unset, Absent} : SetRow(t, n, f)
                              \/ Submit(t) \/ Refuse(t) \/ Write(t)
           \/ Kill \/ UNCHANGED <<form, asked>>
      BY DEF SettingsNext, settingsVars, Saving, ReadOld, Backup, Truncate, SaveFails, Sync
    <2> QED
      <3> HIDE DEF Page
      <3> QED BY <2>4, <2>5, <2>6, <2>7, <2>8, <2>9, <2>10, <2>11, <2>12, <2>13
  <1> QED BY <1>3, <1>4, <1>5, <1>6, <1>7

-----------------------------------------------------------------------------
(* Forms and the saves computed from them.                                 *)

(* A save under way has a form, and a suggestion cannot be awaited there.  *)
LEMMA ReworkKeeps ==
  ASSUME FormsOK, PostsOK, NEW t \in Tabs, SettingsTypeOK,
         Reworked(t), post[t] = Idle, UNCHANGED post,
         \A u \in Tabs \ {t} : asked'[u] = asked[u]
  PROVE  FormsOK' /\ PostsOK'
  <1>1. \A u \in Tabs \ {t} : form'[u] = form[u]
    BY DEF Reworked, SettingsTypeOK
  <1>2. form[t] # NoForm /\ form'[t] # NoForm
    BY NotOpen DEF Reworked
  <1>3. \A n \in Names \ form'[t].touched : StandsFor(form'[t], n)
    BY <1>2 DEF Reworked, FormsOK, StandsFor
  <1> QED
    BY <1>1, <1>2, <1>3 DEF FormsOK, PostsOK, At

(* A save goes on, on a form that stays as it is.                          *)
LEMMA AdvanceKeeps ==
  ASSUME FormsOK, PostsOK, NEW t \in Tabs, NEW stage, SettingsTypeOK,
         Advances(t, stage), UNCHANGED <<form, asked>>,
         stage = "read" => post'[t].old \in Contents
  PROVE  FormsOK' /\ PostsOK'
  <1>1. \A u \in Tabs \ {t} : post'[u] = post[u]
    BY DEF Advances, SettingsTypeOK
  <1>2. post[t] # Idle
    BY Parts DEF Advances
  <1> QED
    BY <1>1, <1>2 DEF FormsOK, PostsOK, Advances, At

LEMMA FormsKept ==
  ASSUME SettingsTypeOK, FormsOK, PostsOK, [SettingsNext]_settingsVars
  PROVE  FormsOK' /\ PostsOK'
  <1>1. CASE \E t \in Tabs : OpenForm(t)
    <2>1. PICK t \in Tabs : OpenForm(t)
      BY <1>1
    <2>2. \A u \in Tabs \ {t} : form'[u] = form[u] /\ asked'[u] = asked[u]
      BY <2>1, OpenedTyped DEF OpenForm, SettingsTypeOK
    <2>3. form'[t] # NoForm /\ UNCHANGED post /\ post[t] = Idle
      BY <2>1, OpenedTyped, NotOpen DEF OpenForm
    <2> QED BY <2>1, <2>2, <2>3, OpenedTyped DEF FormsOK, PostsOK, At
  <1>2. CASE \E t \in Tabs : Toggle(t)
    <2>1. PICK t \in Tabs : Toggle(t)
      BY <1>2
    <2>2. post[t] = Idle /\ UNCHANGED <<post, asked>>
      BY <2>1 DEF Toggle, Edit
    <2> QED BY <2>1, <2>2, ToggleReworks, ReworkKeeps
  <1>3. CASE \E t \in Tabs : \E n \in Names, f \in Typed \cup {Unset, Absent} : SetRow(t, n, f)
    <2>1. PICK t \in Tabs, n \in Names, f \in Typed \cup {Unset, Absent} : SetRow(t, n, f)
      BY <1>3
    <2>2. post[t] = Idle /\ UNCHANGED <<post, asked>>
      BY <2>1 DEF SetRow, Edit
    <2> QED BY <2>1, <2>2, SetRowReworks, ReworkKeeps
  <1>4. CASE \E t \in Tabs : Answer(t)
    <2>1. PICK t \in Tabs : Answer(t)
      BY <1>4
    <2>2. post[t] = Idle /\ form[t] # NoForm /\ UNCHANGED post
      BY <2>1 DEF Answer, PostsOK, FormsOK
    <2>3. \A u \in Tabs \ {t} : asked'[u] = asked[u]
      BY <2>1 DEF Answer, SettingsTypeOK
    <2> QED BY <2>1, <2>2, <2>3, AnswerReworks, ReworkKeeps
  <1>5. CASE \E t \in Tabs : Ask(t) \/ Refuse(t)
    BY <1>5 DEF Ask, Refuse, FormsOK, PostsOK, SettingsTypeOK, At
  <1>6. CASE \E t \in Tabs : Submit(t)
    <2>1. PICK t \in Tabs : Submit(t)
      BY <1>6
    <2>2. /\ form[t] # NoForm /\ UNCHANGED form /\ asked'[t] = Nothing
          /\ \A u \in Tabs \ {t} : post'[u] = post[u] /\ asked'[u] = asked[u]
      BY <2>1, Submitted DEF Submit, SettingsTypeOK
    <2> QED BY <2>1, <2>2, Submitted DEF FormsOK, PostsOK, At
  <1>7. CASE \E t \in Tabs : ReadOld(t)
    <2>1. PICK t \in Tabs : ReadOld(t)
      BY <1>7
    <2>2. UNCHANGED <<form, asked>> /\ file \in Contents
      BY <2>1 DEF ReadOld, SettingsTypeOK
    <2> QED BY <2>1, <2>2, ReadAdvances, AdvanceKeeps
  <1>8. CASE \E t \in Tabs : Backup(t) \/ Truncate(t)
    <2>1. PICK t \in Tabs, stage \in {"backed", "writing"} :
            /\ post[t].at # "idle" /\ post' = [post EXCEPT ![t].at = stage]
            /\ UNCHANGED <<form, asked>>
      BY <1>8 DEF Backup, Truncate, At
    <2>2. Advances(t, stage)
      BY <2>1, StageAdvances
    <2>3. stage # "read"
      OBVIOUS
    <2> QED BY <2>1, <2>2, <2>3, AdvanceKeeps
  <1>9. CASE \E t \in Tabs : Write(t)
    <2>1. PICK t \in Tabs : Write(t)
      BY <1>9
    <2>2. post[t] # Idle /\ post[t] \in OpenPosts /\ form[t] # NoForm /\ UNCHANGED asked
      BY <2>1, Parts DEF Write, At, PostsOK, Idle
    <2>3. \A u \in Tabs \ {t} : post'[u] = post[u] /\ form'[u] = form[u]
      BY <2>1, <2>2, Written DEF SettingsTypeOK
    <2>4. post'[t] = Idle /\ form'[t] # NoForm
      <3>1. post'[t] = Idle
        BY <2>1, <2>2, Written DEF SettingsTypeOK
      <3>2. form'[t] \in OpenForms
        BY <2>1, <2>2, Written
      <3> QED BY <3>1, <3>2, NotOpen
    <2>5. \A n \in Names : StandsFor(form'[t], n)
      BY <2>1, <2>2, Written DEF PostsOK, StandsFor
    <2> QED BY <2>2, <2>3, <2>4, <2>5 DEF FormsOK, PostsOK, At
  <1>10. CASE \E t \in Tabs : SaveFails(t)
    BY <1>10 DEF SaveFails, FormsOK, PostsOK, SettingsTypeOK, At
  <1>11. CASE Kill
    BY <1>11 DEF Kill, FormsOK, PostsOK
  <1>12. CASE UNCHANGED <<form, asked, post>>
    BY <1>12 DEF FormsOK, PostsOK, At
  <1>13. \/ \E t \in Tabs : \/ OpenForm(t) \/ Toggle(t) \/ Ask(t) \/ Answer(t)
                            \/ \E n \in Names, f \in Typed \cup {Unset, Absent} : SetRow(t, n, f)
                            \/ Submit(t) \/ Refuse(t) \/ ReadOld(t) \/ Backup(t) \/ Truncate(t)
                            \/ Write(t) \/ SaveFails(t)
         \/ Kill \/ UNCHANGED <<form, asked, post>>
    BY DEF SettingsNext, settingsVars, Saving, Sync
  <1> QED
    BY <1>1, <1>2, <1>3, <1>4, <1>5, <1>6, <1>7, <1>8, <1>9, <1>10, <1>11, <1>12, <1>13

-----------------------------------------------------------------------------
(* The files, while no two saves overlap.                                  *)

(* With t the only one that saves, before and after.                       *)
Alone(t) == \A u \in Tabs \ {t} : post[u] = Idle /\ post'[u] = Idle

LEMMA AloneKeeps ==
  ASSUME SettingsTypeOK, FilesOK, NEW t \in Tabs, post[t] # Idle,
         NEW p, post' = [post EXCEPT ![t] = p]
  PROVE  Alone(t) /\ post'[t] = p
  BY DEF Alone, FilesOK, SettingsTypeOK

(* What is to be shown of a step of t.                                     *)
LEMMA OwnFiles ==
  ASSUME NEW t \in Tabs, Alone(t),
         good' # Empty,
         At(t, "writing")' => file' = Empty,
         At(t, "read")' => file' # Missing /\ post'[t].old = file',
         faults' = 0 => /\ ~At(t, "writing")' => file' = good'
                        /\ Committed(t)' => Saved',
         faults' = 1 /\ ~Committed(t)' /\ file' = Empty => Saved'
  PROVE  FilesOK'
  BY DEF Alone, FilesOK, At, Committed, Idle

LEMMA OwnBase ==
  ASSUME NEW t \in Tabs, Alone(t), BaseOK, post[t] # Idle,
         UNCHANGED <<good, faults>>, Advances(t, post'[t].at)
  PROVE  BaseOK'
  BY DEF Alone, BaseOK, Advances

(* No save is under way.                                                   *)
LEMMA QuietFiles ==
  ASSUME FilesOK, \A t \in Tabs : post[t] = Idle
  PROVE  /\ faults = 0 => file = good
         /\ faults = 1 /\ file = Empty => Saved
  BY DEF FilesOK, At, Committed, Idle

LEMMA SubmitKeepsFiles ==
  ASSUME SettingsTypeOK, FilesOK, NEW t \in Tabs, Submit(t), ~overlapped'
  PROVE  FilesOK' /\ BaseOK'
  <1>1. /\ \A u \in Tabs : post[u] = Idle
        /\ UNCHANGED <<file, backup, good, faults>>
    BY DEF Submit
  <1>2. \A u \in Tabs \ {t} : post'[u] = Idle
    BY <1>1, Submitted DEF SettingsTypeOK
  <1>3. post'[t].at = "valid"
    BY Submitted
  <1>4. FilesOK'
    <2>1. Alone(t)
      BY <1>1, <1>2 DEF Alone
    <2>2. good' # Empty
      BY <1>1 DEF FilesOK
    <2> QED BY <1>1, <1>3, <2>1, <2>2, QuietFiles, OwnFiles DEF At, Committed, Saved
  <1>5. ASSUME faults = 0, Loads(good)
        PROVE  Base = Load(good)
    BY <1>1, <1>5, QuietFiles DEF Base
  <1>6. Base.hidden # Unset
    BY BaseTyped DEF SettingsTypeOK
  <1> QED
    BY <1>1, <1>2, <1>4, <1>5, <1>6, Submitted DEF BaseOK

LEMMA ReadKeepsFiles ==
  ASSUME SettingsTypeOK, FilesOK, BaseOK, NEW t \in Tabs, ReadOld(t)
  PROVE  FilesOK' /\ BaseOK'
  <1> DEFINE stage == IF file = Missing THEN "backed" ELSE "read"
  <1>1. Advances(t, stage) /\ post'[t].old = file /\ post[t] # Idle /\ post'[t].at = stage
    BY ReadAdvances, Parts DEF Advances
  <1>2. Alone(t)
    BY <1>1, AloneKeeps DEF Advances
  <1>3. UNCHANGED <<file, backup, good, faults>> /\ ~At(t, "writing") /\ ~Committed(t)
    BY DEF ReadOld, At, Committed
  <1>4. \A u \in Tabs : ~At(u, "writing") /\ ~Committed(u)
    BY <1>2, <1>3 DEF Alone, At, Committed, Idle
  <1>5. (faults = 0 => file = good) /\ (faults = 1 /\ file = Empty => Saved) /\ good # Empty
    BY <1>4 DEF FilesOK
  <1>6. FilesOK'
    <2>1. At(t, "read")' => file' # Missing /\ post'[t].old = file'
      BY <1>1, <1>3 DEF At
    <2>2. ~At(t, "writing")'
      BY <1>1 DEF At
    <2>3. Committed(t)' => file = Missing
      BY <1>1 DEF Committed
    <2> QED BY <1>2, <1>3, <1>5, <2>1, <2>2, <2>3, OwnFiles DEF Saved
  <1> QED
    BY <1>1, <1>2, <1>3, <1>6, OwnBase

LEMMA BackupKeepsFiles ==
  ASSUME SettingsTypeOK, FilesOK, BaseOK, NEW t \in Tabs, Backup(t)
  PROVE  FilesOK' /\ BaseOK'
  <1>1. Advances(t, "backed") /\ post[t] # Idle /\ post'[t].at = "backed"
    BY StageAdvances, Parts DEF Backup, At, Advances
  <1>2. Alone(t)
    BY <1>1, AloneKeeps DEF Advances
  <1>3. UNCHANGED <<file, good, faults>> /\ backup' = file /\ post[t].at = "read"
    BY DEF Backup, FilesOK, At
  <1>4. \A u \in Tabs : ~At(u, "writing")
    BY <1>2, <1>3 DEF Alone, At, Idle
  <1>5. (faults = 0 => file = good) /\ good # Empty
    BY <1>4 DEF FilesOK
  <1>6. FilesOK'
    BY <1>1, <1>2, <1>3, <1>5, OwnFiles DEF At, Committed, Saved
  <1> QED
    BY <1>1, <1>2, <1>3, <1>6, OwnBase

LEMMA TruncateKeepsFiles ==
  ASSUME SettingsTypeOK, FilesOK, BaseOK, NEW t \in Tabs, Truncate(t)
  PROVE  FilesOK' /\ BaseOK'
  <1>1. Advances(t, "writing") /\ post[t] # Idle /\ post'[t].at = "writing"
    BY StageAdvances, Parts DEF Truncate, At, Advances
  <1>2. Alone(t)
    BY <1>1, AloneKeeps DEF Advances
  <1>3. UNCHANGED <<backup, good, faults>> /\ file' = Empty /\ Committed(t)
    BY DEF Truncate, At, Committed
  <1>4. (faults = 0 => Saved) /\ good # Empty
    BY <1>3 DEF FilesOK
  <1>5. FilesOK'
    BY <1>1, <1>2, <1>3, <1>4, OwnFiles DEF At, Committed, Saved
  <1> QED
    BY <1>1, <1>2, <1>3, <1>5, OwnBase

LEMMA WriteKeepsFiles ==
  ASSUME SettingsTypeOK, PostsOK, FilesOK, BaseOK, NEW t \in Tabs, Write(t)
  PROVE  FilesOK' /\ BaseOK'
  <1>1. post[t] # Idle /\ post[t] \in OpenPosts /\ form[t] # NoForm
    BY Parts DEF Write, At, PostsOK, Idle
  <1>2. Alone(t) /\ post'[t] = Idle
    BY <1>1, Written, AloneKeeps
  <1>3. file = Empty
    BY DEF FilesOK, Write
  <1>4. file' = post[t].config /\ good' = file' /\ UNCHANGED faults
    BY <1>1, <1>3, Written DEF Write
  <1>5. file' \in Raw /\ file' # Empty /\ file' # Missing
    BY <1>1, <1>4, MarksAssumption DEF OpenPosts
  <1>6. FilesOK'
    BY <1>2, <1>4, <1>5, OwnFiles DEF At, Committed, Idle
  <1>7. \A u \in Tabs : post'[u] = Idle
    BY <1>2 DEF Alone
  <1> QED
    BY <1>6, <1>7 DEF BaseOK

LEMMA FailureKeepsFiles ==
  ASSUME SettingsTypeOK, FilesOK, NEW t \in Tabs, SaveFails(t)
  PROVE  FilesOK' /\ BaseOK'
  <1>1. post[t] # Idle
    BY DEF SaveFails, Idle
  <1>2. Alone(t) /\ post'[t] = Idle
    BY <1>1, AloneKeeps DEF SaveFails
  <1>3. faults' = faults + 1 /\ faults \in Nat /\ UNCHANGED good
    BY DEF SaveFails, Fault, SettingsTypeOK
  <1>4. CASE At(t, "read")
    <2>1. UNCHANGED file /\ \A u \in Tabs : ~At(u, "writing")
      BY <1>2, <1>4 DEF SaveFails, At, Alone, Idle
    <2>2. (faults = 0 => file' = good') /\ good' # Empty
      BY <1>3, <2>1 DEF FilesOK
    <2>3. FilesOK'
      BY <1>2, <1>3, <2>2, OwnFiles DEF At, Committed, Idle
    <2> QED BY <1>3, <2>3 DEF BaseOK
  <1>5. CASE ~At(t, "read")
    <2>1. UNCHANGED backup /\ Committed(t)
      BY <1>5 DEF SaveFails, At, Committed
    <2>2. (faults = 0 => Saved') /\ good' # Empty
      BY <1>3, <2>1 DEF FilesOK, Saved
    <2>3. FilesOK'
      BY <1>2, <1>3, <2>2, OwnFiles DEF At, Committed, Idle
    <2> QED BY <1>3, <2>3 DEF BaseOK
  <1> QED
    BY <1>4, <1>5

LEMMA KillKeepsFiles ==
  ASSUME SettingsTypeOK, FilesOK, Kill
  PROVE  FilesOK' /\ BaseOK'
  <1>1. /\ faults' = faults + 1 /\ faults \in Nat
        /\ UNCHANGED <<file, backup, good>>
        /\ \A u \in Tabs : post'[u] = Idle
    BY DEF Kill, Fault, SettingsTypeOK
  <1>2. faults = 0 /\ file = Empty => Saved
    BY DEF FilesOK, At, Committed
  <1>3. FilesOK'
    BY <1>1, <1>2 DEF FilesOK, At, Committed, Saved, Idle
  <1> QED
    BY <1>1, <1>3 DEF BaseOK

LEMMA FilesKept ==
  ASSUME Consistent, ~overlapped', [SettingsNext]_settingsVars
  PROVE  FilesOK' /\ BaseOK'
  <1>1. ~overlapped
    BY DEF Consistent, SettingsTypeOK, SettingsNext, settingsVars, OpenForm, Toggle, SetRow, Edit,
           Ask, Answer, Saving, Submit, Refuse, ReadOld, Backup, Truncate, Write, SaveFails, Kill,
           Sync
  <1>2. SettingsTypeOK /\ PostsOK /\ FilesOK /\ BaseOK
    BY <1>1 DEF Consistent
  <1>3. CASE UNCHANGED <<file, backup, post, faults, good>>
    BY <1>2, <1>3 DEF FilesOK, BaseOK, At, Committed, Saved
  <1>4. \/ \E t \in Tabs : \/ Submit(t) \/ ReadOld(t) \/ Backup(t) \/ Truncate(t)
                           \/ Write(t) \/ SaveFails(t)
        \/ Kill \/ UNCHANGED <<file, backup, post, faults, good>>
    BY DEF SettingsNext, settingsVars, OpenForm, Toggle, SetRow, Edit, Ask, Answer, Saving, Refuse,
           Sync
  <1> QED
    BY <1>2, <1>3, <1>4, SubmitKeepsFiles, ReadKeepsFiles, BackupKeepsFiles, TruncateKeepsFiles,
       WriteKeepsFiles, FailureKeepsFiles, KillKeepsFiles

LEMMA InitConsistent == SettingsInit => Consistent
  <1> SUFFICES ASSUME SettingsInit PROVE Consistent
    OBVIOUS
  <1>1. FilesOK /\ BaseOK
    BY SettingsAssumption DEF SettingsInit, FilesOK, BaseOK, At, Committed, Idle
  <1>2. FormsOK /\ PostsOK
    BY DEF SettingsInit, FormsOK, PostsOK
  <1> QED
    BY <1>1, <1>2, SettingsInitTyped DEF Consistent

LEMMA ConsistentKept == Consistent /\ [SettingsNext]_settingsVars => Consistent'
  BY SettingsTypeKept, FormsKept, FilesKept DEF Consistent

LEMMA AlwaysConsistent == SettingsSpec => []Consistent
  BY InitConsistent, ConsistentKept, PTL DEF SettingsSpec

-----------------------------------------------------------------------------

(* The variables of Settings have their types.                             *)
THEOREM SettingsTypeCorrect == SettingsSpec => []SettingsTypeOK
  <1>1. Consistent => SettingsTypeOK
    BY DEF Consistent
  <1> QED
    BY <1>1, AlwaysConsistent, PTL

(* A configuration that a first fault cut off is in config.yaml.bak until  *)
(* the next save copies the torn file over it (config.Save,                *)
(* backupExisting), for any number of tabs, courses and saves.             *)
THEOREM Recoverable == SettingsSpec => []TornIsRecoverable
  <1>1. Consistent => TornIsRecoverable
    <2> SUFFICES ASSUME Consistent, file = Empty, good # Missing, ~overlapped, faults <= 1,
                        faults = 0 \/ \A t \in Tabs : post[t].at \in {"idle", "valid", "read"}
                 PROVE  backup = good
      BY DEF TornIsRecoverable
    <2>1. FilesOK /\ faults \in Nat
      BY DEF Consistent, SettingsTypeOK
    <2>2. CASE faults = 0
      BY <2>1, <2>2 DEF FilesOK, Saved, At, Committed
    <2>3. CASE faults = 1
      BY <2>1, <2>3 DEF FilesOK, Saved, Committed
    <2> QED BY <2>1, <2>2, <2>3
  <1> QED
    BY <1>1, AlwaysConsistent, PTL

(* What an undisturbed save writes.                                        *)
LEMMA WritesSubmitted ==
  ASSUME Consistent, NEW t \in Tabs, Write(t), Undisturbed
  PROVE  /\ file' = post[t].config /\ file' \in Raw
         /\ post[t] # Idle /\ form[t] # NoForm
         /\ FilesOK /\ BaseOK
  <1>1. SettingsTypeOK /\ PostsOK /\ FilesOK /\ BaseOK
    BY DEF Consistent, Undisturbed
  <1>2. post[t] # Idle /\ post[t] \in OpenPosts /\ form[t] # NoForm
    BY <1>1, Parts DEF Write, At, PostsOK, Idle
  <1>3. file = Empty
    BY <1>1 DEF FilesOK, Write
  <1> QED
    BY <1>1, <1>2, <1>3, Written DEF OpenPosts

(* A save writes what nobody touched as it was: what config.yaml sets and  *)
(* the form does not show, but for opal_url and session_state_file, which  *)
(* it sets back; the folder of an untouched row; and an untouched course   *)
(* of the list, unless it is a save for all courses (handleSettings,       *)
(* parseSettingsForm, buildCourseRows).                                    *)
THEOREM NothingElseChanges == SettingsSpec => UntouchedKept
  <1>1. Consistent /\ [SettingsNext]_settingsVars =>
          \A t \in Tabs : Write(t) /\ Undisturbed
            => /\ file' \in Raw
               /\ Normal(file').hidden = Load(good).hidden
               /\ \A n \in Names \ form[t].touched : file'.folders[n] = form[t].opened.folders[n]
               /\ ~ file'.every /\ ~ form[t].opened.every
                  => form[t].opened.courses \ form[t].touched \subseteq file'.courses
    <2> SUFFICES ASSUME Consistent, NEW t \in Tabs, Write(t), Undisturbed
                 PROVE  /\ file' \in Raw
                        /\ Normal(file').hidden = Load(good).hidden
                        /\ \A n \in Names \ form[t].touched :
                             file'.folders[n] = form[t].opened.folders[n]
                        /\ ~ file'.every /\ ~ form[t].opened.every
                           => form[t].opened.courses \ form[t].touched \subseteq file'.courses
      OBVIOUS
    <2>1. FormsOK /\ PostsOK
      BY DEF Consistent
    <2>2. form[t].opened.courses \subseteq Names
      BY WritesSubmitted, Parts DEF Consistent, OpenForms, Raw
    <2>3. \A n \in Names \ form[t].touched : StandsFor(form[t], n)
      BY <2>1, WritesSubmitted DEF FormsOK
    <2>4. ~ file'.every /\ ~ form[t].opened.every
            => form[t].opened.courses \ form[t].touched \subseteq file'.courses
      BY <2>1, <2>2, <2>3, WritesSubmitted DEF PostsOK, StandsFor
    <2>5. \A n \in Names \ form[t].touched : file'.folders[n] = form[t].opened.folders[n]
      BY <2>1, <2>3, WritesSubmitted DEF PostsOK, StandsFor
    <2> QED
      BY <2>4, <2>5, WritesSubmitted, NormalTyped DEF Undisturbed, BaseOK
  <1> QED
    BY <1>1, AlwaysConsistent, PTL DEF SettingsSpec, UntouchedKept

(* A save that changes the layout of a download folder with a history says *)
(* so, however long its form was open (sectionSubfolderToggleWarning).     *)
THEOREM LayoutChangesAnnounced == SettingsSpec => LayoutChangeIsAnnounced
  <1>1. Consistent /\ [SettingsNext]_settingsVars =>
          \A t \in Tabs : Write(t) /\ Undisturbed /\ post[t].synced
            => (post[t].warned <=> file'.sections # Load(good).sections)
    BY WritesSubmitted DEF Undisturbed, BaseOK
  <1> QED
    BY <1>1, AlwaysConsistent, PTL DEF SettingsSpec, LayoutChangeIsAnnounced

=============================================================================
