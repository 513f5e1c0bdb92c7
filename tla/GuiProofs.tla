------------------------------ MODULE GuiProofs ------------------------------
(***************************************************************************)
(* Proofs about the pages of the GUI.  The schedule page tells the truth   *)
(* and the task is registered as was asked, for any number of copies,      *)
(* requests at once, edits and removals; an installer that is started was  *)
(* verified, unless requests overlapped; and every stream of the sync page *)
(* carries the events of the job once and in order, for any number of      *)
(* viewers and any capacity of their channels.                             *)
(***************************************************************************)
EXTENDS TaskRegistration, Updater, SyncPage, SequenceTheorems, TLAPS

-----------------------------------------------------------------------------
(* The registered task (TaskRegistration).                                 *)

-----------------------------------------------------------------------------
(* Types.                                                                  *)

(* A request is served by a copy that is there, and one about to repair    *)
(* the task has read that its program will not stay, and will itself.      *)
Poised ==
  \A r \in Requests :
    /\ req[r].pc # "idle" => req[r].exe \in present
    /\ req[r].pc = "repairing" =>
         /\ req[r].exe \in Stable
         /\ req[r].info # None /\ Doomed(req[r].info)

LEMMA IdleTyped == Idle \in Reqs
  BY DEF Idle, Reqs, Kinds

LEMMA TimeTyped ==
  ASSUME NEW t \in Tasks PROVE TimeOf(t) \in Times
  BY TimesAssumption DEF TimeOf, Tasks

LEMMA ShownTyped ==
  ASSUME TypeOK, NEW r \in Requests, NEW on \in BOOLEAN, NEW time \in Times,
         NEW verdict \in {"fine", "repaired", "doomed", "unknown", "refused"}
  PROVE  Shown(r, on, time, verdict) \in Pages
<1>1. req[r].at \in Times \cup {None}
  BY DEF TypeOK, Reqs
<1> QED
  BY <1>1 DEF Shown, Pages

LEMMA InitTyped == Init => TypeOK
<1> SUFFICES ASSUME Init PROVE TypeOK
  OBVIOUS
<1>1. req \in [Requests -> Reqs]
  BY IdleTyped DEF Init
<1>2. task \in Tasks \cup {None} /\ wanted \in Times \cup {None}
  BY DEF Init, Tasks
<1>3. asked \in 0 .. MaxRequests /\ edits \in 0 .. MaxEdits /\ removals \in 0 .. MaxRemovals
  BY BoundsAssumption DEF Init
<1>4. page \in Pages \cup {None} /\ present \subseteq Copies
  BY DEF Init
<1>5. raced \in BOOLEAN
  BY Zenon DEF Init
<1> QED
  BY <1>1, <1>2, <1>3, <1>4, <1>5 DEF TypeOK

LEMMA ContinueTyped ==
  ASSUME TypeOK, NEW r \in Requests, NEW failed \in BOOLEAN, Continue(r, failed)
  PROVE  req' \in [Requests -> Reqs]
<1>1. req[r] \in Reqs
  BY DEF TypeOK
<1>2. [req[r] EXCEPT !.pc = "querying", !.failed = failed] \in Reqs
  BY <1>1 DEF Reqs
<1> QED
  BY <1>2, IdleTyped DEF Continue, TypeOK

LEMMA TypeKept == ASSUME TypeOK, Poised, [Next]_vars PROVE TypeOK'
<1> USE DEF TypeOK
<1>1. ASSUME NEW r \in Requests, Ask(r) PROVE TypeOK'
  <2>1. PICK kind \in Kinds, exe \in present, at \in Times \cup {None} :
          req' = [req EXCEPT ![r] =
            [Idle EXCEPT !.pc = IF kind = "view" THEN "querying" ELSE "registering",
                         !.kind = kind, !.exe = exe, !.at = at]]
    BY <1>1 DEF Ask
  <2>2. [Idle EXCEPT !.pc = IF kind = "view" THEN "querying" ELSE "registering",
                     !.kind = kind, !.exe = exe, !.at = at] \in Reqs
    BY DEF Idle, Reqs
  <2>3. req' \in [Requests -> Reqs]
    BY <2>1, <2>2
  <2>4. asked' \in 0 .. MaxRequests
    <3>1. asked' = asked + 1 /\ asked < MaxRequests /\ asked \in 0 .. MaxRequests
      BY <1>1 DEF Ask
    <3> QED
      BY <3>1, BoundsAssumption
  <2> QED
    BY <1>1, <2>3, <2>4 DEF Ask
<1>2. ASSUME NEW r \in Requests, Register(r) PROVE TypeOK'
  <2>1. req' \in [Requests -> Reqs]
    BY <1>2, ContinueTyped DEF Register
  <2>2. req[r].exe \in Copies \cup {None} /\ req[r].at \in Times \cup {None}
    BY DEF Reqs
  <2>3. raced' \in BOOLEAN
    BY <1>2, Zenon DEF Register, Change, Leave
  <2>4. task' \in Tasks \cup {None}
    <3>1. CASE task' = [exe |-> req[r].exe, time |-> req[r].at]
      BY <2>2, <3>1 DEF Tasks
    <3>2. CASE task' = task
      BY <3>2
    <3> QED
      BY <1>2, <3>1, <3>2 DEF Register, Change, Leave
  <2>5. wanted' \in Times \cup {None} /\ page' \in Pages \cup {None}
    BY <1>2, <2>2 DEF Register
  <2> QED
    BY <1>2, <2>1, <2>3, <2>4, <2>5 DEF Register, counters
<1>3. ASSUME NEW r \in Requests, Unregister(r) PROVE TypeOK'
  <2>1. req' \in [Requests -> Reqs]
    BY <1>3, ContinueTyped DEF Unregister
  <2>2. raced' \in BOOLEAN
    BY <1>3, Zenon DEF Unregister, Change, Leave
  <2>3. task' \in Tasks \cup {None} /\ wanted' \in Times \cup {None}
    BY <1>3 DEF Unregister, Change, Leave
  <2>4. page' \in Pages \cup {None}
    BY <1>3 DEF Unregister
  <2> QED
    BY <1>3, <2>1, <2>2, <2>3, <2>4 DEF Unregister, counters
<1>4. ASSUME NEW r \in Requests, Query(r) PROVE TypeOK'
  <2>1. TRUE \in BOOLEAN /\ FALSE \in BOOLEAN /\ DefaultTime \in Times
    BY TimesAssumption
  <2>2. task # None => TimeOf(task) \in Times
    BY TimeTyped
  <2>3. ASSUME NEW shown, Answer(r, shown), shown \in Pages
        PROVE  page' \in Pages \cup {None} /\ req' \in [Requests -> Reqs]
    BY <2>3, IdleTyped DEF Answer
  <2>4. ASSUME req' = [req EXCEPT ![r].pc = "repairing", ![r].info = task], task # None
        PROVE  req' \in [Requests -> Reqs]
    <3>1. req[r] \in Reqs /\ task \in Tasks
      BY <2>4
    <3>2. [req[r] EXCEPT !.pc = "repairing", !.info = task] \in Reqs
      BY <3>1 DEF Reqs
    <3>3. req' = [req EXCEPT ![r] = [req[r] EXCEPT !.pc = "repairing", !.info = task]]
      BY <2>4
    <3> QED
      BY <3>2, <3>3
  <2>5. page' \in Pages \cup {None} /\ req' \in [Requests -> Reqs]
    <3>1. Shown(r, FALSE, DefaultTime, "unknown") \in Pages
      BY <2>1, ShownTyped
    <3>2. Shown(r, FALSE, DefaultTime, "fine") \in Pages
      BY <2>1, ShownTyped
    <3>3. task # None => /\ Shown(r, TRUE, TimeOf(task), "fine") \in Pages
                         /\ Shown(r, TRUE, TimeOf(task), "doomed") \in Pages
      BY <2>1, <2>2, ShownTyped
    <3> HIDE DEF TypeOK
    <3>4. page \in Pages \cup {None}
      BY DEF TypeOK
    <3> QED
      BY <1>4, <2>3, <2>4, <3>1, <3>2, <3>3, <3>4 DEF Query
  <2> QED
    BY <1>4, <2>5 DEF Query, counters
<1>5. ASSUME NEW r \in Requests, Repair(r) PROVE TypeOK'
  <2>1. /\ req[r].info \in Tasks
        /\ req[r].exe \in Copies
    BY <1>5, CopiesAssumption DEF Repair, Poised, Reqs
  <2>2. TimeOf(req[r].info) \in Times
    BY <2>1, TimeTyped
  <2>3. Repaired(r) \in Tasks
    BY <2>1, <2>2 DEF Repaired, Tasks
  <2>4. /\ Shown(r, TRUE, TimeOf(req[r].info), "repaired") \in Pages
        /\ Shown(r, TRUE, TimeOf(req[r].info), "doomed") \in Pages
    BY <2>2, ShownTyped
  <2>5. raced' \in BOOLEAN
    BY <1>5, Zenon DEF Repair, Change, Leave
  <2>6. task' \in Tasks \cup {None}
    BY <1>5, <2>3 DEF Repair, Change, Leave
  <2>7. page' \in Pages \cup {None} /\ req' \in [Requests -> Reqs]
    BY <1>5, <2>4, IdleTyped DEF Repair, Answer
  <2> QED
    BY <1>5, <2>5, <2>6, <2>7 DEF Repair, counters
<1>6. ASSUME Edit PROVE TypeOK'
  <2>1. task \in Tasks
    BY <1>6 DEF Edit
  <2>2. edits' \in 0 .. MaxEdits
    BY <1>6, BoundsAssumption DEF Edit
  <2>3. /\ \A time \in Times \cup {None} : [task EXCEPT !.time = time] \in Tasks
        /\ [task EXCEPT !.exe = None] \in Tasks
    BY <2>1 DEF Tasks
  <2>4. raced' \in BOOLEAN
    BY <1>6, Zenon DEF Edit, Change
  <2>5. task' \in Tasks \cup {None}
    BY <1>6, <2>3, Zenon DEF Edit, Change
  <2>6. wanted' \in Times \cup {None}
    BY <1>6, TimesAssumption DEF Edit
  <2> QED
    BY <1>6, <2>2, <2>4, <2>5, <2>6 DEF Edit
<1>7. ASSUME NEW c \in Copies, RemoveCopy(c) PROVE TypeOK'
  BY <1>7, BoundsAssumption DEF RemoveCopy
<1>8. CASE UNCHANGED vars
  BY <1>8 DEF vars, counters
<1> QED
  BY <1>1, <1>2, <1>3, <1>4, <1>5, <1>6, <1>7, <1>8 DEF Next

-----------------------------------------------------------------------------
(* What a page says.                                                       *)

LEMMA DoomedNotWorking ==
  ASSUME NEW t, Doomed(t)
  PROVE  ~Works(t)
BY DEF Doomed, Works

LEMMA SoundWorks ==
  ASSUME NEW t \in Tasks, ~Doomed(t)
  PROVE  Works(t) \/ t.exe = None
BY DEF Doomed, Works, Tasks

Truthful == TypeOK /\ Poised /\ PageIsTrue

LEMMA InitTruthful == Init => Truthful
<1> SUFFICES ASSUME Init PROVE Truthful
  OBVIOUS
<1>1. \A r \in Requests : req[r].pc = "idle"
  BY DEF Init, Idle
<1>2. Poised /\ PageIsTrue
  BY <1>1 DEF Init, Poised, PageIsTrue
<1> QED
  BY <1>2, InitTyped DEF Truthful

(* A step by which the copies stay and one request goes on, or ends.       *)
LEMMA PoisedOn ==
  ASSUME TypeOK, Poised, NEW r \in Requests, present' = present,
         \A q \in Requests \ {r} : req'[q] = req[q],
         \/ req'[r].pc = "idle"
         \/ /\ req'[r].pc # "repairing"
            /\ req'[r].exe \in present
         \/ /\ req'[r].exe \in present \cap Stable
            /\ req'[r].info # None /\ Doomed(req'[r].info)
  PROVE  Poised'
<1> SUFFICES ASSUME NEW q \in Requests
             PROVE  /\ req'[q].pc # "idle" => req'[q].exe \in present'
                    /\ req'[q].pc = "repairing" =>
                         /\ req'[q].exe \in Stable
                         /\ req'[q].info # None
                         /\ Doomed(req[q].info)'
  BY DEF Poised
<1>1. Doomed(req[q].info)' <=> Doomed(req'[q].info)
  BY DEF Doomed
<1>2. CASE q = r
  BY <1>1, <1>2
<1>3. CASE q # r
  BY <1>1, <1>3 DEF Poised
<1> QED
  BY <1>2, <1>3

LEMMA PoisedKept == ASSUME TypeOK, Poised, [Next]_vars PROVE Poised'
<1>1. ASSUME NEW r \in Requests, Ask(r) PROVE Poised'
  <2>1. /\ present' = present /\ \A q \in Requests \ {r} : req'[q] = req[q]
        /\ req'[r].pc # "repairing" /\ req'[r].exe \in present
    BY <1>1 DEF Ask, Idle, TypeOK
  <2> QED
    BY <2>1, PoisedOn
<1>2. ASSUME NEW r \in Requests, Register(r) \/ Unregister(r) PROVE Poised'
  <2>1. req[r].exe \in present /\ present' = present
    BY <1>2 DEF Register, Unregister, Poised
  <2>2. PICK failed \in BOOLEAN : Continue(r, failed)
    BY <1>2 DEF Register, Unregister
  <2>3. req[r] \in Reqs
    BY DEF TypeOK
  <2>4. [req[r] EXCEPT !.pc = "querying", !.failed = failed].exe = req[r].exe
    BY <2>3 DEF Reqs
  <2>5. [req[r] EXCEPT !.pc = "querying", !.failed = failed].pc = "querying"
    BY <2>3 DEF Reqs
  <2>6. Idle.pc = "idle"
    BY DEF Idle
  <2>7. /\ \A q \in Requests \ {r} : req'[q] = req[q]
        /\ req'[r].pc = "idle" \/ (req'[r].pc # "repairing" /\ req'[r].exe \in present)
    BY <2>1, <2>2, <2>4, <2>5, <2>6 DEF Continue, TypeOK
  <2> QED
    BY <2>1, <2>7, PoisedOn
<1>3. ASSUME NEW r \in Requests, Query(r) PROVE Poised'
  <2>1. req[r].exe \in present /\ present' = present
    BY <1>3 DEF Query, Poised
  <2>2. ASSUME NEW shown, Answer(r, shown) PROVE Poised'
    <3>1. req'[r].pc = "idle" /\ \A q \in Requests \ {r} : req'[q] = req[q]
      BY <2>2 DEF Answer, TypeOK, Idle
    <3> QED
      BY <2>1, <3>1, PoisedOn
  <2>3. ASSUME task # None, Doomed(task), req[r].exe \in Stable,
               req' = [req EXCEPT ![r].pc = "repairing", ![r].info = task]
        PROVE  Poised'
    <3>1. /\ req'[r].exe = req[r].exe /\ req'[r].info = task
          /\ \A q \in Requests \ {r} : req'[q] = req[q]
      BY <2>3 DEF TypeOK, Reqs
    <3> QED
      BY <2>1, <2>3, <3>1, PoisedOn
  <2> QED
    BY <1>3, <2>2, <2>3 DEF Query
<1>4. ASSUME NEW r \in Requests, Repair(r) PROVE Poised'
  <2>1. present' = present /\ req' = [req EXCEPT ![r] = Idle]
    BY <1>4, Zenon DEF Repair, Answer
  <2>2. /\ req'[r].pc = "idle"
        /\ \A q \in Requests \ {r} : req'[q] = req[q]
    BY <2>1 DEF TypeOK, Idle
  <2> QED
    BY <2>1, <2>2, PoisedOn
<1>5. ASSUME Edit \/ UNCHANGED vars PROVE Poised'
  <2>1. present' = present /\ req' = req
    BY <1>5 DEF Edit, vars
  <2> QED
    BY <2>1 DEF Poised, Doomed
<1>6. ASSUME NEW c \in Copies, RemoveCopy(c) PROVE Poised'
  <2>1. /\ req' = req /\ present' = present \ {c}
        /\ \A r \in Requests : req[r].exe # c
    BY <1>6 DEF RemoveCopy
  <2> QED
    BY <2>1 DEF Poised, Doomed
<1> QED
  BY <1>1, <1>2, <1>3, <1>4, <1>5, <1>6 DEF Next

LEMMA QueryTruthful ==
  ASSUME Truthful, NEW r \in Requests, Query(r)
  PROVE  PageIsTrue'
<1>1. task' = task /\ present' = present
  BY DEF Query
<1>2. \A t : (Works(t) <=> Works(t)') /\ TimeOf(t) = TimeOf(t)'
  BY <1>1 DEF Works, TimeOf
<1>3. CASE Answer(r, Shown(r, FALSE, DefaultTime, "unknown"))
  <2>1. page'.verdict \in {"refused", "unknown"}
    BY <1>3 DEF Answer, Shown
  <2> QED
    BY <2>1 DEF PageIsTrue
<1>4. CASE task = None /\ Answer(r, Shown(r, FALSE, DefaultTime, "fine"))
  <2>1. page'.verdict = "refused" \/ (page'.verdict = "fine" /\ page'.enabled = FALSE)
    BY <1>4 DEF Answer, Shown
  <2> QED
    BY <1>1, <1>4, <2>1 DEF PageIsTrue
<1>5. CASE /\ task # None /\ ~Doomed(task)
           /\ Answer(r, Shown(r, TRUE, TimeOf(task), "fine"))
  <2>1. \/ page'.verdict = "refused"
        \/ page'.verdict = "fine" /\ page'.enabled = TRUE /\ page'.time = TimeOf(task)
    BY <1>5 DEF Answer, Shown
  <2>2. Works(task) \/ task.exe = None
    BY <1>5, SoundWorks DEF Truthful, TypeOK
  <2> QED
    BY <1>1, <1>2, <1>5, <2>1, <2>2 DEF PageIsTrue
<1>6. CASE /\ task # None /\ Doomed(task)
           /\ Answer(r, Shown(r, TRUE, TimeOf(task), "doomed"))
  <2>1. page'.verdict \in {"refused", "doomed"}
    BY <1>6 DEF Answer, Shown
  <2>2. ~Works(task)
    BY <1>6, DoomedNotWorking
  <2> QED
    BY <1>1, <1>2, <1>6, <2>1, <2>2 DEF PageIsTrue
<1>7. CASE page' = page
  BY <1>1, <1>2, <1>7 DEF Truthful, PageIsTrue
<1> QED
  BY <1>3, <1>4, <1>5, <1>6, <1>7 DEF Query

LEMMA RepairTruthful ==
  ASSUME Truthful, NEW r \in Requests, Repair(r)
  PROVE  PageIsTrue'
<1> DEFINE time == TimeOf(req[r].info)
<1>1. present' = present
  BY DEF Repair
<1>2. \A t : (Works(t) <=> Works(t)') /\ TimeOf(t) = TimeOf(t)'
  BY <1>1 DEF Works, TimeOf
<1>3. /\ req[r].info # None /\ Doomed(req[r].info)
      /\ req[r].info \in Tasks
      /\ req[r].exe \in Stable \cap present
  BY DEF Repair, Truthful, Poised, TypeOK, Reqs
<1>4. CASE task' = Repaired(r) /\ Answer(r, Shown(r, TRUE, time, "repaired"))
  <2>1. \/ page'.verdict = "refused"
        \/ page'.verdict = "repaired" /\ page'.enabled = TRUE /\ page'.time = time
    BY <1>4 DEF Answer, Shown
  <2>2. time # None
    BY <1>3, TimesAssumption DEF TimeOf, Tasks
  <2>3. task'.exe = req[r].exe /\ task'.time = time
    BY <1>4 DEF Repaired
  <2>4. Works(task') /\ TimeOf(task') = time
    BY <1>3, <2>2, <2>3 DEF Works, TimeOf
  <2>5. CASE task' # None
    BY <1>2, <2>1, <2>4, <2>5 DEF PageIsTrue
  <2>6. task' \in Tasks
    BY <1>3, <1>4, TimeTyped, CopiesAssumption DEF Repaired, Tasks
  <2> QED
    BY <2>5, <2>6, NoneAssumption
<1>5. CASE /\ task' = task
           /\ Answer(r, IF task = req[r].info THEN Shown(r, TRUE, time, "doomed") ELSE None)
  <2>1. CASE task = req[r].info
    <3>1. page'.verdict \in {"refused", "doomed"}
      BY <1>5, <2>1 DEF Answer, Shown
    <3>2. ~Works(task) /\ task # None
      BY <1>3, <2>1, DoomedNotWorking
    <3> QED
      BY <1>2, <1>5, <3>1, <3>2 DEF PageIsTrue
  <2>2. CASE task # req[r].info
    BY <1>5, <2>2 DEF Answer, PageIsTrue
  <2> QED
    BY <2>1, <2>2
<1> QED
  BY <1>4, <1>5 DEF Repair, Change, Leave

LEMMA TruthfulKept == ASSUME Truthful, [Next]_vars PROVE Truthful'
<1>0. TypeOK' /\ Poised'
  BY TypeKept, PoisedKept DEF Truthful
<1>1. ASSUME page' = None PROVE PageIsTrue'
  BY <1>1 DEF PageIsTrue
<1>2. ASSUME page' = page, task' = task, present' = present PROVE PageIsTrue'
  BY <1>2 DEF Truthful, PageIsTrue, Works, TimeOf
<1>3. ASSUME NEW r \in Requests, Register(r) \/ Unregister(r) PROVE PageIsTrue'
  BY <1>1, <1>2, <1>3 DEF Register, Unregister, Leave
<1>4. ASSUME NEW r \in Requests, Ask(r) PROVE PageIsTrue'
  BY <1>2, <1>4 DEF Ask
<1>5. ASSUME NEW c \in Copies, RemoveCopy(c) PROVE PageIsTrue'
  BY <1>1, <1>5 DEF RemoveCopy
<1>6. ASSUME Edit PROVE PageIsTrue'
  BY <1>1, <1>6 DEF Edit
<1>7. ASSUME UNCHANGED vars PROVE PageIsTrue'
  BY <1>2, <1>7 DEF vars
<1>8. PageIsTrue'
  BY <1>3, <1>4, <1>5, <1>6, <1>7, QueryTruthful, RepairTruthful DEF Next
<1> QED
  BY <1>0, <1>8 DEF Truthful

LEMMA TruthfulAlways == Spec => []Truthful
  BY InitTruthful, TruthfulKept, PTL DEF Spec

(* Every variable keeps its type.                                          *)
THEOREM TypeCorrect == Spec => []TypeOK
<1>1. Truthful => TypeOK
  BY DEF Truthful
<1> QED
  BY <1>1, TruthfulAlways, PTL

(* Until somebody changes something, the schedule page tells the truth     *)
(* about the task and warns exactly if its program will not stay           *)
(* (applyScheduleStatus, applyScheduleForm).                               *)
THEOREM PageTruth == Spec => []PageIsTrue
<1>1. Truthful => PageIsTrue
  BY DEF Truthful
<1> QED
  BY <1>1, TruthfulAlways, PTL

-----------------------------------------------------------------------------
(* What was asked for.                                                     *)

(* Unless a change raced a repair: the task is what was asked for, at the  *)
(* default time if its trigger cannot be read, and a request about to      *)
(* repair it holds the task as it is.                                      *)
Obedient ==
  ~raced =>
    /\ (task = None) <=> (wanted = None)
    /\ task # None => task.time \in {wanted, None}
    /\ (task # None /\ task.time = None) => wanted = DefaultTime
    /\ \A r \in Requests : req[r].pc = "repairing" => task = req[r].info

LEMMA InitObedient == Init => Obedient
<1> SUFFICES ASSUME Init PROVE Obedient
  OBVIOUS
<1>1. \A r \in Requests : req[r].pc = "idle"
  BY DEF Init, Idle
<1>2. task # None => task.time \in Times
  BY DEF Init
<1> QED
  BY <1>1, <1>2, TimesAssumption DEF Init, Obedient

(* A change that races no repair leaves none under way but r's own.        *)
LEMMA NoneRepairs ==
  ASSUME NEW r, NEW t, Change(r, t), raced \in BOOLEAN, ~raced'
  PROVE  ~raced /\ \A q \in Requests \ {r} : req[q].pc # "repairing"
BY Zenon DEF Change, Races

LEMMA ObedientKept == ASSUME Truthful, Obedient, [Next]_vars PROVE Obedient'
<1> SUFFICES ASSUME ~raced' PROVE Obedient'
  BY DEF Obedient
<1>t. TypeOK /\ Poised /\ raced \in BOOLEAN /\ req \in [Requests -> Reqs]
  BY DEF Truthful, TypeOK
<1>i. Idle.pc = "idle"
  BY DEF Idle
<1>1. ASSUME NEW r \in Requests, Ask(r) PROVE Obedient'
  <2>1. UNCHANGED <<task, wanted, raced>>
    BY <1>1 DEF Ask
  <2>2. \A q \in Requests : req'[q].pc = "repairing" => req'[q] = req[q]
    BY <1>t, <1>1 DEF Ask, Idle
  <2> QED
    BY <2>1, <2>2 DEF Obedient
<1>2. ASSUME NEW r \in Requests, Register(r) \/ Unregister(r) PROVE Obedient'
  <2>1. req[r].pc = "registering"
    BY <1>2 DEF Register, Unregister
  <2>2. \A q \in Requests : req'[q].pc = "repairing" => q # r /\ req'[q] = req[q]
    <3>1. PICK failed \in BOOLEAN : Continue(r, failed)
      BY <1>2 DEF Register, Unregister
    <3>2. [req[r] EXCEPT !.pc = "querying", !.failed = failed].pc = "querying"
      BY <1>t DEF Reqs
    <3> QED
      BY <1>t, <1>i, <3>1, <3>2 DEF Continue
  <2>3. CASE UNCHANGED <<task, raced, wanted>>
    BY <2>2, <2>3 DEF Obedient
  <2>4. CASE /\ Change(r, [exe |-> req[r].exe, time |-> req[r].at])
             /\ wanted' = req[r].at /\ req[r].at # None /\ req[r].exe \in Stable
    <3>1. \A q \in Requests : req'[q].pc # "repairing"
      BY <1>t, <2>2, <2>4, NoneRepairs
    <3>2. task'.time = req[r].at
      BY <2>4 DEF Change
    <3>3. task' \in Tasks
      BY <2>4, <1>t DEF Change, TypeOK, Reqs, Tasks
    <3> QED
      BY <2>4, <3>1, <3>2, <3>3, NoneAssumption DEF Obedient
  <2>5. CASE Change(r, None) /\ wanted' = None
    <3>1. \A q \in Requests : req'[q].pc # "repairing"
      BY <1>t, <2>2, <2>5, NoneRepairs
    <3> QED
      BY <2>5, <3>1 DEF Obedient, Change
  <2> QED
    BY <1>2, <2>3, <2>4, <2>5 DEF Register, Unregister, Leave
<1>3. ASSUME NEW r \in Requests, Query(r) PROVE Obedient'
  <2>1. UNCHANGED <<task, wanted, raced>>
    BY <1>3 DEF Query
  <2>2. ASSUME NEW shown, Answer(r, shown)
        PROVE  \A q \in Requests : req'[q].pc = "repairing" => req'[q] = req[q]
    BY <1>t, <1>i, <2>2 DEF Answer
  <2>3. ASSUME req' = [req EXCEPT ![r].pc = "repairing", ![r].info = task]
        PROVE  /\ req'[r].info = task
               /\ \A q \in Requests \ {r} : req'[q] = req[q]
    BY <1>t, <2>3 DEF Reqs
  <2>4. \A q \in Requests : req'[q].pc = "repairing" =>
          req'[q] = req[q] \/ req'[q].info = task
    BY <1>3, <2>2, <2>3 DEF Query
  <2> QED
    BY <2>1, <2>4 DEF Obedient
<1>4. ASSUME NEW r \in Requests, Repair(r) PROVE Obedient'
  <2>1. wanted' = wanted /\ req[r].pc = "repairing"
    BY <1>4 DEF Repair
  <2>2. \A q \in Requests : req'[q].pc = "repairing" => q # r /\ req'[q] = req[q]
    BY <1>t, <1>i, <1>4 DEF Repair, Answer
  <2>3. CASE Leave
    BY <2>1, <2>2, <2>3 DEF Leave, Obedient
  <2>4. CASE Change(r, Repaired(r))
    <3>1. ~raced /\ \A q \in Requests : req'[q].pc # "repairing"
      BY <1>t, <2>2, <2>4, NoneRepairs
    <3>2. task = req[r].info /\ task # None /\ task \in Tasks
      BY <1>t, <2>1, <3>1 DEF Obedient, Poised, TypeOK
    <3>3. TimeOf(task) = wanted /\ wanted # None
      BY <3>1, <3>2 DEF Obedient, TimeOf
    <3>4. task'.time = wanted
      BY <2>4, <3>2, <3>3 DEF Change, Repaired
    <3>5. task' \in Tasks
      <4>1. req[r].exe \in Copies /\ TimeOf(req[r].info) \in Times
        BY <1>t, <2>1, <3>2, TimeTyped, CopiesAssumption DEF Poised
      <4> QED
        BY <2>4, <4>1 DEF Change, Repaired, Tasks
    <3> QED
      BY <2>1, <3>1, <3>3, <3>4, <3>5, NoneAssumption DEF Obedient
  <2> QED
    BY <1>4, <2>3, <2>4 DEF Repair
<1>5. CASE Edit
  <2>1. req' = req /\ task # None
    BY <1>5 DEF Edit
  <2>2. ASSUME NEW t, Change(None, t)
        PROVE  ~raced /\ \A q \in Requests : req'[q].pc # "repairing"
    BY <1>t, <2>1, <2>2, NoneRepairs, NoneAssumption
  <2>3. CASE Change(None, None) /\ wanted' = None
    BY <2>2, <2>3 DEF Obedient, Change
  <2>4. ASSUME NEW time \in Times \cup {None},
               Change(None, [task EXCEPT !.time = time]),
               wanted' = IF time = None THEN DefaultTime ELSE time
        PROVE  Obedient'
    <3>1. task'.time = time
      BY <2>4, <2>1, <1>t DEF Change, TypeOK, Tasks
    <3>2. task' \in Tasks
      BY <2>4, <2>1, <1>t DEF Change, TypeOK, Tasks
    <3> QED
      BY <2>2, <2>4, <3>1, <3>2, NoneAssumption, TimesAssumption DEF Obedient
  <2>5. CASE Change(None, [task EXCEPT !.exe = None]) /\ wanted' = wanted
    <3>1. task'.time = task.time
      BY <2>5, <2>1, <1>t DEF Change, TypeOK, Tasks
    <3>2. task' \in Tasks
      BY <2>5, <2>1, <1>t DEF Change, TypeOK, Tasks
    <3> QED
      BY <2>1, <2>2, <2>5, <3>1, <3>2, NoneAssumption DEF Obedient
  <2> QED
    BY <1>5, <2>3, <2>4, <2>5 DEF Edit
<1>6. ASSUME NEW c \in Copies, RemoveCopy(c) PROVE Obedient'
  BY <1>6 DEF RemoveCopy, Obedient
<1>7. CASE UNCHANGED vars
  BY <1>7 DEF vars, Obedient
<1> QED
  BY <1>1, <1>2, <1>3, <1>4, <1>5, <1>6, <1>7 DEF Next

(* Automatic sync is on exactly if it was last turned on, at the time then *)
(* chosen, unless the task was changed while a page was about to repair it *)
(* (applyScheduleRegistration).                                            *)
THEOREM AskedFor == Spec => []AskedIsRegistered
<1>1. Truthful /\ Obedient /\ [Next]_vars => Obedient'
  BY ObedientKept
<1>2. Obedient => AskedIsRegistered
  BY DEF Obedient, AskedIsRegistered
<1> QED
  BY <1>1, <1>2, InitObedient, TruthfulAlways, PTL DEF Spec

-----------------------------------------------------------------------------
(* The update (Updater).                                                   *)

(* A request that is under way is somebody's, for a release.               *)
Answered ==
  \A c \in Clicks : request[c].pc # "idle" =>
    request[c].by \in Processes /\ request[c].release \in Releases

(* Unless requests have overlapped, one at a time relies on the file, and  *)
(* what it launches with a checksum is what it verified.                   *)
SoleInv ==
  ~overlapped =>
    /\ \A c, d \in Clicks : request[c].pc \in Relies /\ request[d].pc \in Relies => c = d
    /\ \A c \in Clicks : request[c].pc = "launching" /\ request[c].release.sidecar =>
         file # Nil /\ file.content = "whole"

Verified == UpdaterTypeOK /\ Answered /\ SoleInv /\ LaunchedIsVerified

Updates ==
  [pc : {"idle", "starting", "closing"} \cup Relies, by : Processes \cup {Nil},
   release : Releases \cup {Nil}, sum : Releases \cup {Nil}]
Files == [of : Releases, content : Content]
Installers ==
  [by : Processes, of : Releases, content : Content, sidecar : BOOLEAN, guarded : BOOLEAN]

LEMMA NoRequestTyped == NoRequest \in Updates /\ NoRequest.pc = "idle"
  BY DEF NoRequest, Updates

LEMMA UpdaterInitVerified == UpdaterInit => Verified
  <1> SUFFICES ASSUME UpdaterInit PROVE Verified
    OBVIOUS
  <1>1. UpdaterTypeOK
    <2>1. proc \in [Processes -> [up : BOOLEAN, version : Versions \cup {Nil},
                                  found : Releases \cup {Nil}, guarded : BOOLEAN]]
      BY DEF UpdaterInit, Off
    <2>2. request \in [Clicks -> Updates]
      BY NoRequestTyped DEF UpdaterInit
    <2>3. /\ clicks \in 0 .. MaxClicks /\ releases \in 0 .. MaxReleases
          /\ starts \in 0 .. MaxStarts /\ faults \in 0 .. MaxFaults
      BY UpdaterAssumption DEF UpdaterInit
    <2>4. installed \in Versions
      BY UpdaterAssumption DEF UpdaterInit
    <2> QED
      BY <2>1, <2>2, <2>3, <2>4 DEF UpdaterInit, UpdaterTypeOK, Updates
  <1> QED
    BY <1>1, NoRequestTyped
    DEF UpdaterInit, Verified, Answered, SoleInv, LaunchedIsVerified, Relies

(* A request moves on.                                                     *)
Moves(c, step) ==
  /\ request' = [request EXCEPT ![c] = request'[c]]
  /\ request[c] \in Updates /\ request'[c] \in Updates
  /\ request'[c].pc = step
  /\ request'[c].by = request[c].by
  /\ request'[c].release = request[c].release

LEMMA GoMoves ==
  ASSUME UpdaterTypeOK, NEW c \in Clicks,
         NEW step \in {"closing"} \cup Relies, Go(c, step)
  PROVE  Moves(c, step)
  <1> DEFINE r == [request[c] EXCEPT !.pc = step]
  <1>1. request[c] \in Updates
    BY DEF UpdaterTypeOK, Updates
  <1>2. r \in Updates /\ r.pc = step /\ r.by = request[c].by /\ r.release = request[c].release
    BY <1>1 DEF Updates
  <1>3. request' = [request EXCEPT ![c] = r]
    BY DEF Go
  <1>4. request'[c] = r
    <2> HIDE DEF r
    <2> QED BY <1>3 DEF UpdaterTypeOK
  <1> QED
    <2> HIDE DEF r
    <2> QED BY <1>1, <1>2, <1>3, <1>4 DEF Moves

LEMMA EndEnds ==
  ASSUME UpdaterTypeOK, NEW c \in Clicks, End(c)
  PROVE  request'[c] = NoRequest /\ request' = [request EXCEPT ![c] = NoRequest]
  BY DEF End, UpdaterTypeOK

(* Who relies on the file when a request moves on or ends.                 *)
LEMMA MovingKeeps ==
  ASSUME UpdaterTypeOK, Answered, SoleInv, NEW c \in Clicks, NEW step, Moves(c, step),
         request[c].pc # "idle",
         overlapped => overlapped',
         step \in Relies => request[c].pc \in Relies \/ overlapped' \/ Others(c) = {},
         step \in Relies \/ UNCHANGED file,
         ~overlapped' /\ step = "launching" /\ request[c].release.sidecar =>
           file' # Nil /\ file'.content = "whole"
  PROVE  Answered' /\ SoleInv'
  <1>1. \A d \in Clicks \ {c} : request'[d] = request[d]
    BY DEF Moves, UpdaterTypeOK
  <1>2. Answered'
    BY <1>1 DEF Answered, Moves
  <1>3. request'[c].pc = step /\ request'[c].release = request[c].release /\ "launching" \in Relies
    BY DEF Moves, Relies
  <1>4. SUFFICES ASSUME ~overlapped'
                 PROVE  /\ \A d, e \in Clicks :
                             request'[d].pc \in Relies /\ request'[e].pc \in Relies => d = e
                        /\ \A d \in Clicks :
                             request'[d].pc = "launching" /\ request'[d].release.sidecar =>
                               file' # Nil /\ file'.content = "whole"
    BY <1>2 DEF SoleInv
  <1>5. /\ \A d, e \in Clicks : request[d].pc \in Relies /\ request[e].pc \in Relies => d = e
        /\ \A d \in Clicks : request[d].pc = "launching" /\ request[d].release.sidecar =>
             file # Nil /\ file.content = "whole"
    BY <1>4 DEF SoleInv
  <1>6. step \in Relies => \A d \in Clicks \ {c} : request[d].pc \notin Relies
    BY <1>4, <1>5 DEF Others
  <1>7. \A d, e \in Clicks : request'[d].pc \in Relies /\ request'[e].pc \in Relies => d = e
    BY <1>1, <1>3, <1>5, <1>6
  <1>8. ASSUME NEW d \in Clicks, request'[d].pc = "launching", request'[d].release.sidecar
        PROVE  file' # Nil /\ file'.content = "whole"
    <2>1. CASE d = c
      <3>1. step = "launching"
        BY <1>3, <1>8, <2>1
      <3>2. request[c].release.sidecar
        BY <1>3, <1>8, <2>1, Zenon
      <3> QED BY <1>4, <3>1, <3>2, Zenon
    <2>2. CASE d # c
      <3>1. request'[d] = request[d] /\ request[d].pc \in Relies
        BY <1>1, <1>3, <1>8, <2>2
      <3>2. UNCHANGED file
        BY <1>6, <2>2, <3>1
      <3>3. request[d].pc = "launching" /\ request[d].release.sidecar
        BY <1>8, <3>1, Zenon
      <3> QED BY <1>5, <3>2, <3>3, Zenon
    <2> QED BY <2>1, <2>2
  <1> QED
    BY <1>7, <1>8

LEMMA RemainingKeep ==
  ASSUME SoleInv, UNCHANGED overlapped,
         \A d \in Clicks : request'[d].pc \in Relies => request'[d] = request[d],
         ~overlapped => \A d \in Clicks : request'[d].pc \in Relies => UNCHANGED file
  PROVE  SoleInv'
  <1>1. "launching" \in Relies
    BY DEF Relies
  <1>2. CASE overlapped
    BY <1>2 DEF SoleInv
  <1>3. CASE ~overlapped
    <2>1. \A d, e \in Clicks : request'[d].pc \in Relies /\ request'[e].pc \in Relies => d = e
      BY <1>3, Zenon DEF SoleInv
    <2>2. \A d \in Clicks : request'[d].pc = "launching" /\ request'[d].release.sidecar =>
            file' # Nil /\ file'.content = "whole"
      BY <1>1, <1>3, Zenon DEF SoleInv
    <2> QED BY <2>1, <2>2 DEF SoleInv
  <1> QED BY <1>2, <1>3

LEMMA EndingKeeps ==
  ASSUME UpdaterTypeOK, Answered, SoleInv, NEW c \in Clicks, End(c),
         UNCHANGED overlapped, request[c].pc \in Relies \/ UNCHANGED file
  PROVE  Answered' /\ SoleInv'
  <1>1. \A d \in Clicks \ {c} : request'[d] = request[d]
    BY DEF End, UpdaterTypeOK
  <1>2. request'[c].pc = "idle"
    BY EndEnds, NoRequestTyped
  <1>3. "idle" \notin Relies
    BY DEF Relies
  <1>4. Answered'
    BY <1>1, <1>2 DEF Answered
  <1>5. \A d \in Clicks : request'[d].pc \in Relies => request'[d] = request[d] /\ d # c
    BY <1>1, <1>2, <1>3
  <1>6. ~overlapped /\ request[c].pc \in Relies =>
          \A d \in Clicks : request'[d].pc \notin Relies
    BY <1>5 DEF SoleInv
  <1> QED
    BY <1>4, <1>5, <1>6, RemainingKeep

(* A process takes its requests along, and in a job its installers.        *)
LEMMA ProcessesEnd ==
  ASSUME Verified, NEW over \in SUBSET Processes, NEW left \in SUBSET installers,
         EndOf(over, left), UNCHANGED <<file, overlapped>>
  PROVE  /\ Answered' /\ SoleInv' /\ LaunchedIsVerified'
         /\ request' \in [Clicks -> Updates]
         /\ proc' \in [Processes -> [up : BOOLEAN, version : Versions \cup {Nil},
                                     found : Releases \cup {Nil}, guarded : BOOLEAN]]
         /\ installers' \subseteq installers
  <1>1. \A c \in Clicks : request'[c] = request[c] \/ request'[c].pc = "idle"
    BY NoRequestTyped DEF EndOf
  <1>2. "idle" \notin Relies
    BY DEF Relies
  <1>3. Answered' /\ SoleInv'
    BY <1>1, <1>2, RemainingKeep DEF Verified, Answered
  <1>4. installers' \subseteq installers
    BY DEF EndOf
  <1>5. LaunchedIsVerified'
    BY <1>4 DEF Verified, LaunchedIsVerified
  <1>6. request \in [Clicks -> Updates]
    BY DEF Verified, UpdaterTypeOK, Updates
  <1>7. request' \in [Clicks -> Updates]
    BY <1>6, NoRequestTyped DEF EndOf
  <1>8. proc' \in [Processes -> [up : BOOLEAN, version : Versions \cup {Nil},
                                 found : Releases \cup {Nil}, guarded : BOOLEAN]]
    BY DEF EndOf, Off, Verified, UpdaterTypeOK
  <1> QED
    BY <1>3, <1>4, <1>5, <1>7, <1>8

(* A step of a request: its effect on the requests, and on the rest.       *)
LEMMA RequestsTyped ==
  ASSUME UpdaterTypeOK, NEW c \in Clicks, End(c) \/ \E step : Moves(c, step)
  PROVE  request' \in [Clicks -> Updates]
  <1>1. request \in [Clicks -> Updates]
    BY DEF UpdaterTypeOK, Updates
  <1>2. CASE End(c)
    BY <1>1, <1>2, EndEnds, NoRequestTyped
  <1>3. CASE \E step : Moves(c, step)
    BY <1>1, <1>3 DEF Moves
  <1> QED BY <1>2, <1>3

Rest == /\ latest \in Releases /\ installed \in Versions
        /\ proc \in [Processes ->
             [up : BOOLEAN, version : Versions \cup {Nil},
              found : Releases \cup {Nil}, guarded : BOOLEAN]]
        /\ file \in Files \cup {Nil}
        /\ sums \in Releases \cup {Nil}
        /\ installers \subseteq Installers
        /\ overlapped \in BOOLEAN
Counts == /\ clicks \in 0 .. MaxClicks /\ releases \in 0 .. MaxReleases
          /\ starts \in 0 .. MaxStarts /\ faults \in 0 .. MaxFaults

LEMMA UpdaterTypes == UpdaterTypeOK <=> Rest /\ Counts /\ request \in [Clicks -> Updates]
  BY DEF UpdaterTypeOK, Rest, Counts, Updates, Files, Installers

LEMMA NextTypes == Rest' /\ Counts' /\ request' \in [Clicks -> Updates] => UpdaterTypeOK'
  BY DEF UpdaterTypeOK, Rest, Counts, Updates, Files, Installers

LEMMA CountsKept ==
  ASSUME UpdaterTypeOK, [UpdaterNext]_updaterVars
  PROVE  Counts'
  <1>1. /\ clicks' = clicks \/ (clicks < MaxClicks /\ clicks' = clicks + 1)
        /\ releases' = releases \/ (releases < MaxReleases /\ releases' = releases + 1)
        /\ starts' = starts \/ (starts < MaxStarts /\ starts' = starts + 1)
    BY DEF UpdaterNext, updaterVars, updaterBounds, Start, Exit, Click, Create, Write, FetchSum,
           ReadSum, Verify, Launch, Install, Publish
  <1>2. faults' = faults \/ (faults < MaxFaults /\ faults' = faults + 1)
    BY DEF UpdaterNext, updaterVars, updaterBounds, Start, Exit, Click, Create, Write, FetchSum,
           ReadSum, Verify, Launch, Install, Publish
  <1>3. clicks \in Nat /\ releases \in Nat /\ starts \in Nat /\ faults \in Nat
        /\ clicks <= MaxClicks /\ releases <= MaxReleases /\ starts <= MaxStarts
        /\ faults <= MaxFaults
    BY UpdaterAssumption DEF UpdaterTypeOK
  <1> QED
    BY <1>1, <1>2, <1>3, UpdaterAssumption DEF Counts

LEMMA ClickVerified ==
  ASSUME Verified, NEW c \in Clicks, Click(c), Counts'
  PROVE  Verified'
  <1>1. PICK p \in Processes :
          /\ proc[p].found # Nil
          /\ request' = [request EXCEPT ![c] =
               [[[NoRequest EXCEPT !.pc = "starting"] EXCEPT !.by = p] EXCEPT !.release = proc[p].found]]
    BY DEF Click
  <1>2. /\ UNCHANGED <<latest, installed, proc, file, sums, installers, overlapped>>
        /\ request[c].pc = "idle"
    BY DEF Click
  <1> DEFINE r == [[[NoRequest EXCEPT !.pc = "starting"] EXCEPT !.by = p] EXCEPT !.release = proc[p].found]
  <1>3. proc[p].found \in Releases
    BY <1>1 DEF Verified, UpdaterTypeOK
  <1>4. /\ r \in Updates /\ r.pc = "starting" /\ r.by = p
        /\ r.release = proc[p].found
    BY <1>3 DEF NoRequest, Updates
  <1>5. /\ request' \in [Clicks -> Updates] /\ request'[c] = r
        /\ \A d \in Clicks \ {c} : request'[d] = request[d]
    <2>1. request \in [Clicks -> Updates]
      BY UpdaterTypes DEF Verified
    <2>2. request' = [request EXCEPT ![c] = r]
      BY <1>1
    <2> HIDE DEF r
    <2> QED BY <1>4, <2>1, <2>2
  <1> HIDE DEF r
  <1>6. r.pc \notin Relies
    BY <1>4 DEF Relies
  <1>7. Answered' /\ LaunchedIsVerified'
    BY <1>2, <1>3, <1>4, <1>5 DEF Verified, Answered, LaunchedIsVerified
  <1>8. SoleInv'
    BY <1>2, <1>5, <1>6, RemainingKeep DEF Verified
  <1>9. Rest'
    BY <1>2, UpdaterTypes DEF Verified, Rest
  <1> QED
    BY <1>5, <1>7, <1>8, <1>9, UpdaterTypes, NextTypes DEF Verified

(* A step of a request that launches nothing.                              *)
LEMMA MoveVerified ==
  ASSUME Verified, NEW c \in Clicks, NEW step \in {"closing"} \cup Relies, Go(c, step),
         request[c].pc # "idle",
         UNCHANGED <<latest, installed, proc, sums, installers>>, Counts',
         file' \in Files \cup {Nil}, overlapped' \in BOOLEAN,
         overlapped => overlapped',
         request[c].pc \in Relies \/ overlapped' \/ Others(c) = {},
         step \in Relies,
         ~overlapped' /\ step = "launching" /\ request[c].release.sidecar =>
           file' # Nil /\ file'.content = "whole"
  PROVE  Verified'
  <1>1. Moves(c, step)
    BY GoMoves DEF Verified
  <1>2. Answered' /\ SoleInv'
    BY <1>1, MovingKeeps DEF Verified
  <1>3. LaunchedIsVerified'
    BY DEF Verified, LaunchedIsVerified
  <1>4. Rest'
    BY UpdaterTypes DEF Verified, Rest
  <1>5. request' \in [Clicks -> Updates]
    BY <1>1, RequestsTyped DEF Verified
  <1> QED
    BY <1>2, <1>3, <1>4, <1>5, UpdaterTypes, NextTypes DEF Verified

LEMMA EndVerified ==
  ASSUME Verified, NEW c \in Clicks, End(c),
         UNCHANGED <<latest, installed, proc, overlapped, installers>>, Counts',
         file' \in Files \cup {Nil}, sums' \in Releases \cup {Nil},
         request[c].pc \in Relies \/ UNCHANGED file
  PROVE  Verified'
  <1>1. Answered' /\ SoleInv'
    BY EndingKeeps DEF Verified
  <1>2. LaunchedIsVerified'
    BY DEF Verified, LaunchedIsVerified
  <1>3. Rest'
    BY UpdaterTypes DEF Verified, Rest
  <1>4. request' \in [Clicks -> Updates]
    BY RequestsTyped DEF Verified
  <1> QED
    BY <1>1, <1>2, <1>3, <1>4, UpdaterTypes, NextTypes DEF Verified

LEMMA CreateVerified ==
  ASSUME Verified, NEW c \in Clicks, Create(c), Counts'
  PROVE  Verified'
  <1>1. /\ request[c].pc = "starting" /\ request[c].release \in Releases
        /\ file \in Files \cup {Nil} /\ overlapped \in BOOLEAN
        /\ sums \in Releases \cup {Nil}
    BY UpdaterTypes DEF Create, Verified, Answered, Rest
  <1>2. CASE Go(c, "writing") /\ file' = [of |-> request[c].release, content |-> "part"]
             /\ overlapped' = (overlapped \/ Others(c) # {})
    <2>1. file' \in Files
      BY <1>1, <1>2 DEF Files, Content
    <2>2. overlapped' \in BOOLEAN
      BY <1>2
    <2>3. "writing" \in Relies
      BY DEF Relies
    <2> QED BY <1>1, <1>2, <2>1, <2>2, <2>3, MoveVerified DEF Create
  <1>3. CASE End(c) /\ UNCHANGED <<file, overlapped>>
    BY <1>1, <1>3, EndVerified DEF Create
  <1> QED
    BY <1>2, <1>3 DEF Create

LEMMA RemovedTyped ==
  ASSUME Verified, NEW c \in Clicks
  PROVE  Removed(c) \in Files \cup {Nil}
  BY UpdaterTypes DEF Removed, Verified, Rest

LEMMA WriteVerified ==
  ASSUME Verified, NEW c \in Clicks, Write(c), Counts'
  PROVE  Verified'
  <1>1. /\ request[c].pc = "writing" /\ request[c].release \in Releases
        /\ overlapped \in BOOLEAN /\ sums \in Releases \cup {Nil}
    BY UpdaterTypes DEF Write, IsWriting, Verified, Answered, Rest
  <1>2. "writing" \in Relies /\ "summing" \in Relies /\ "launching" \in Relies
    BY DEF Relies
  <1>3. UNCHANGED <<latest, installed, proc, sums, installers, overlapped>>
    BY DEF Write
  <1>4. CASE End(c) /\ file' = Removed(c)
    BY <1>1, <1>2, <1>3, <1>4, RemovedTyped, EndVerified
  <1>5. CASE \E content \in {"whole", "bad"} :
               /\ file' = [of |-> request[c].release, content |-> content]
               /\ Go(c, IF request[c].release.sidecar THEN "summing" ELSE "launching")
    <2>1. file' \in Files
      BY <1>1, <1>5 DEF Files, Content
    <2>2. CASE request[c].release.sidecar
      <3>1. Go(c, "summing")
        BY <1>5, <2>2, Zenon
      <3> QED BY <1>1, <1>2, <1>3, <2>1, <3>1, MoveVerified
    <2>3. CASE ~request[c].release.sidecar
      <3>1. Go(c, "launching")
        BY <1>5, <2>3, Zenon
      <3> QED BY <1>1, <1>2, <1>3, <2>1, <2>3, <3>1, MoveVerified
    <2> QED BY <2>2, <2>3
  <1> QED
    BY <1>4, <1>5, Zenon DEF Write

LEMMA SumVerified ==
  ASSUME Verified, NEW c \in Clicks, FetchSum(c) \/ ReadSum(c), Counts'
  PROVE  Verified'
  <1>1. /\ request[c].pc \in {"summing", "reading"} /\ request[c] \in Updates
        /\ request[c].release \in Releases
        /\ file \in Files \cup {Nil} /\ overlapped \in BOOLEAN /\ sums \in Releases \cup {Nil}
        /\ request[c].pc \in Relies /\ request[c].pc # "idle"
    BY UpdaterTypes DEF FetchSum, ReadSum, Verified, Answered, Rest, Relies
  <1>2. /\ UNCHANGED <<latest, installed, proc, file, installers, overlapped>>
        /\ sums' \in Releases \cup {Nil}
    BY <1>1 DEF FetchSum, ReadSum
  <1>3. CASE End(c)
    BY <1>1, <1>2, <1>3, EndVerified
  <1>4. ASSUME NEW r \in Updates, request' = [request EXCEPT ![c] = r],
               r.pc \in {"reading", "verifying"}, r.by = request[c].by,
               r.release = request[c].release
        PROVE  Verified'
    <2>1. /\ Moves(c, r.pc) /\ r.pc \in Relies /\ r.pc # "launching"
          /\ request' \in [Clicks -> Updates]
      BY <1>1, <1>4, UpdaterTypes DEF Moves, Relies, Verified
    <2>2. Answered' /\ SoleInv'
      BY <1>1, <1>2, <2>1, MovingKeeps DEF Verified
    <2>3. LaunchedIsVerified' /\ Rest'
      BY <1>2, UpdaterTypes DEF Verified, LaunchedIsVerified, Rest
    <2> QED BY <2>1, <2>2, <2>3, UpdaterTypes, NextTypes DEF Verified
  <1>5. CASE FetchSum(c) /\ ~End(c)
    <2> DEFINE r == [request[c] EXCEPT !.pc = "reading"]
    <2>1. /\ r \in Updates /\ r.pc = "reading" /\ r.by = request[c].by
          /\ r.release = request[c].release
      BY <1>1 DEF Updates, Relies
    <2>2. request' = [request EXCEPT ![c] = r]
      BY <1>5 DEF FetchSum, Go
    <2> HIDE DEF r
    <2> QED BY <1>4, <2>1, <2>2
  <1>6. CASE ReadSum(c) /\ ~End(c)
    <2> DEFINE r == [[request[c] EXCEPT !.pc = "verifying"] EXCEPT !.sum = sums]
    <2>1. /\ r \in Updates /\ r.pc = "verifying" /\ r.by = request[c].by
          /\ r.release = request[c].release
      BY <1>1 DEF Updates, Relies
    <2>2. request' = [request EXCEPT ![c] = r]
      BY <1>6 DEF ReadSum, End
    <2> HIDE DEF r
    <2> QED BY <1>4, <2>1, <2>2
  <1> QED
    BY <1>3, <1>5, <1>6

LEMMA VerifyVerified ==
  ASSUME Verified, NEW c \in Clicks, Verify(c), Counts'
  PROVE  Verified'
  <1>1. /\ request[c].pc = "verifying"
        /\ file \in Files \cup {Nil} /\ overlapped \in BOOLEAN /\ sums \in Releases \cup {Nil}
        /\ UNCHANGED <<latest, installed, proc, sums, installers, overlapped>>
    BY UpdaterTypes DEF Verify, Verified, Rest
  <1>2. "verifying" \in Relies /\ "launching" \in Relies
    BY DEF Relies
  <1>3. CASE Matches(c) /\ Go(c, "launching") /\ UNCHANGED file
    BY <1>1, <1>2, <1>3, MoveVerified DEF Matches
  <1>4. CASE End(c) /\ file' = Removed(c)
    BY <1>1, <1>2, <1>4, RemovedTyped, EndVerified
  <1> QED
    BY <1>3, <1>4 DEF Verify

LEMMA LaunchVerified ==
  ASSUME Verified, NEW c \in Clicks, Launch(c), Counts'
  PROVE  Verified'
  <1>1. /\ request[c].pc = "launching" /\ request[c].pc \in Relies
        /\ request[c].by \in Processes /\ request[c].release \in Releases
        /\ file \in Files \cup {Nil} /\ overlapped \in BOOLEAN /\ sums \in Releases \cup {Nil}
        /\ UNCHANGED <<latest, installed, proc, file, sums, overlapped>>
    BY UpdaterTypes DEF Launch, Verified, Rest, Answered, Relies
  <1>2. CASE End(c) /\ UNCHANGED installers
    BY <1>1, <1>2, EndVerified
  <1> DEFINE i == [by |-> request[c].by, of |-> file.of, content |-> file.content,
                   sidecar |-> request[c].release.sidecar,
                   guarded |-> proc[request[c].by].guarded]
  <1>3. CASE CanRun(c) /\ Go(c, "closing") /\ installers' = installers \cup {i}
    <2>1. file \in Files
      BY <1>1, <1>3 DEF CanRun
    <2>2. request[c].release.sidecar \in BOOLEAN /\ proc[request[c].by].guarded \in BOOLEAN
      BY <1>1, UpdaterTypes DEF Releases, Verified, Rest
    <2>3. i \in Installers /\ i.content = file.content /\ i.sidecar = request[c].release.sidecar
      BY <1>1, <2>1, <2>2 DEF Files, Installers
    <2> HIDE DEF i
    <2>4. ~overlapped /\ request[c].release.sidecar => file.content = "whole"
      BY <1>1 DEF Verified, SoleInv
    <2>5. LaunchedIsVerified'
      <3> SUFFICES ASSUME ~overlapped', NEW j \in installers', j.sidecar
                   PROVE  j.content = "whole"
        BY DEF LaunchedIsVerified
      <3>1. CASE j \in installers
        BY <1>1, <3>1, Zenon DEF Verified, LaunchedIsVerified
      <3>2. CASE j = i
        <4>1. request[c].release.sidecar
          BY <2>3, <3>2, Zenon
        <4> QED BY <1>1, <2>3, <2>4, <3>2, <4>1
      <3> QED BY <1>3, <3>1, <3>2
    <2>6. Moves(c, "closing") /\ "closing" \notin Relies
      BY <1>3, GoMoves DEF Verified, Relies
    <2>7. Answered' /\ SoleInv'
      BY <1>1, <2>6, MovingKeeps DEF Verified
    <2>8. request' \in [Clicks -> Updates]
      BY <2>6, RequestsTyped DEF Verified
    <2>9. Rest'
      BY <1>1, <1>3, <2>3, UpdaterTypes DEF Verified, Rest
    <2> QED BY <2>5, <2>7, <2>8, <2>9, UpdaterTypes, NextTypes DEF Verified
  <1> QED
    BY <1>2, <1>3, Zenon DEF Launch

LEMMA InstallVerified ==
  ASSUME Verified, NEW i \in installers, Install(i), Counts'
  PROVE  Verified'
  <1>1. /\ UNCHANGED <<latest, file, sums, overlapped>>
        /\ i \in Installers /\ installers \subseteq Installers
        /\ Rest /\ request \in [Clicks -> Updates]
    BY UpdaterTypes DEF Install, Verified, Rest
  <1>2. installed' \in Versions
    BY <1>1 DEF Install, Rest, Installers, Releases
  <1>3. CASE EndOf(Processes, installers \ {i})
    <2>1. Processes \in SUBSET Processes /\ installers \ {i} \in SUBSET installers
      OBVIOUS
    <2> QED BY <1>1, <1>2, <1>3, <2>1, ProcessesEnd, NextTypes DEF Verified, Rest
  <1>4. CASE installers' = installers \ {i} /\ UNCHANGED <<proc, request>>
    <2>1. Answered' /\ LaunchedIsVerified'
      BY <1>1, <1>4 DEF Verified, Answered, LaunchedIsVerified
    <2>2. SoleInv'
      BY <1>1, <1>4, RemainingKeep DEF Verified
    <2>3. Rest' /\ request' \in [Clicks -> Updates]
      BY <1>1, <1>2, <1>4 DEF Rest
    <2> QED BY <2>1, <2>2, <2>3, UpdaterTypes, NextTypes DEF Verified
  <1> QED
    BY <1>3, <1>4 DEF Install

LEMMA ProcessVerified ==
  ASSUME Verified, Counts', NEW p \in Processes, Start(p) \/ Exit(p)
  PROVE  Verified'
  <1>1. Rest /\ request \in [Clicks -> Updates]
    BY UpdaterTypes DEF Verified
  <1>2. CASE Exit(p)
    <2>1. EndOf({p}, installers) /\ UNCHANGED <<latest, installed, file, sums, overlapped>>
      BY <1>2 DEF Exit
    <2> QED BY <1>1, <2>1, ProcessesEnd, UpdaterTypes, NextTypes DEF Verified, Rest
  <1>3. CASE Start(p)
    <2>1. UNCHANGED <<latest, installed, request, file, sums, installers, overlapped>>
      BY <1>3 DEF Start
    <2>2. PICK guarded \in BOOLEAN, found \in {Nil, Offer(installed)} :
            proc' = [proc EXCEPT ![p] =
              [up |-> TRUE, version |-> installed, found |-> found, guarded |-> guarded]]
      BY <1>3 DEF Start
    <2>3. found \in Releases \cup {Nil}
      BY <1>1 DEF Offer, Rest
    <2>4. proc' \in [Processes -> [up : BOOLEAN, version : Versions \cup {Nil},
                                   found : Releases \cup {Nil}, guarded : BOOLEAN]]
      BY <1>1, <2>2, <2>3 DEF Rest
    <2>5. Answered' /\ LaunchedIsVerified'
      BY <2>1 DEF Verified, Answered, LaunchedIsVerified
    <2>6. SoleInv'
      BY <2>1, RemainingKeep DEF Verified
    <2> QED BY <1>1, <2>1, <2>4, <2>5, <2>6, UpdaterTypes, NextTypes DEF Verified, Rest
  <1> QED BY <1>2, <1>3

LEMMA VerifiedKept == Verified /\ [UpdaterNext]_updaterVars => Verified'
  <1> SUFFICES ASSUME Verified, [UpdaterNext]_updaterVars PROVE Verified'
    OBVIOUS
  <1>1. Counts' /\ Rest /\ request \in [Clicks -> Updates]
    BY CountsKept, UpdaterTypes DEF Verified
  <1>2. CASE UNCHANGED <<installed, proc, request, file, sums, installers, overlapped>>
             /\ latest' \in Releases
    <2>1. Answered' /\ LaunchedIsVerified'
      BY <1>2 DEF Verified, Answered, LaunchedIsVerified
    <2>2. SoleInv'
      BY <1>2, RemainingKeep DEF Verified
    <2> QED BY <1>1, <1>2, <2>1, <2>2, UpdaterTypes, NextTypes DEF Verified, Rest
  <1>3. CASE Publish
    BY <1>2, <1>3 DEF Publish
  <1>4. CASE UNCHANGED updaterVars
    BY <1>1, <1>2, <1>4 DEF updaterVars, Rest
  <1>5. CASE \E p \in Processes : Start(p) \/ Exit(p)
    BY <1>1, <1>5, ProcessVerified
  <1>6. CASE \E c \in Clicks :
               \/ Click(c) \/ Create(c) \/ Write(c) \/ FetchSum(c) \/ ReadSum(c)
               \/ Verify(c) \/ Launch(c)
    BY <1>1, <1>6, ClickVerified, CreateVerified, WriteVerified, SumVerified, VerifyVerified,
       LaunchVerified
  <1>7. CASE \E i \in installers : Install(i)
    BY <1>1, <1>7, InstallVerified
  <1> QED
    BY <1>3, <1>4, <1>5, <1>6, <1>7 DEF UpdaterNext

LEMMA VerifiedAlways == UpdaterSpec => []Verified
  BY UpdaterInitVerified, VerifiedKept, PTL DEF UpdaterSpec

(* The variables of Updater have their types.                              *)
THEOREM UpdaterTypeCorrect == UpdaterSpec => []UpdaterTypeOK
  <1>1. Verified => UpdaterTypeOK
    BY DEF Verified
  <1> QED
    BY <1>1, VerifiedAlways, PTL

(* An installer that is started is the whole file its release's checksum   *)
(* is of, unless requests shared the path of the download at once          *)
(* (handleUpdateStart), for any number of copies, requests, releases,      *)
(* failures and leftovers.                                                 *)
THEOREM OnlyVerifiedRuns == UpdaterSpec => []LaunchedIsVerified
  <1>1. Verified => LaunchedIsVerified
    BY DEF Verified
  <1> QED
    BY <1>1, VerifiedAlways, PTL

-----------------------------------------------------------------------------
(* The job's events and their viewers (JobHub, SyncPage).                  *)

-----------------------------------------------------------------------------
(* What holds between the steps.                                           *)

(* The job runs from its start to its finish, and sends what it has        *)
(* published last only until its next step.                                *)
JobInPhase ==
  /\ running <=> pc # "none"
  /\ pc \in {"none", "working"} => pending = {}
  /\ pending # {} => log # <<>>
  /\ running => gen # 0

(* The log numbers the events of its job; there is room for the end.       *)
LogNumbered ==
  /\ \A i \in 1 .. Len(log) : log[i].job = gen /\ log[i].seq = i
  /\ Len(log) = MaxEvents => log[Len(log)].end

(* It is what was published last, and nothing was published that comes     *)
(* after it.                                                               *)
LogIsLatest ==
  /\ Len(log) <= Len(published)
  /\ \A i \in 1 .. Len(log) : log[i] = published[Len(published) - Len(log) + i]
  /\ \A e \in ToSet(published) :
       e.job < gen \/ (e.job = gen /\ e.seq < Len(log) + 1)

(* A viewer that is not there yet is owed nothing.                         *)
ViewsKept ==
  \A v \in Viewers :
    /\ view[v] = "out" => chan[v] = <<>> /\ dropped[v] = {} /\ v \notin pending
    /\ dropped[v] \subseteq ToSet(published)
    /\ since[v] <= Len(published)

HubInv ==
  HubTypeOK /\ JobInPhase /\ LogNumbered /\ LogIsLatest /\ ViewsKept /\ StreamIsOwed

-----------------------------------------------------------------------------
(* Sequences of events.                                                    *)

LEMMA ToSetIndexed ==
  ASSUME NEW S, NEW s \in Seq(S)
  PROVE  ToSet(s) = {s[i] : i \in 1 .. Len(s)} /\ ToSet(s) \subseteq S
BY LenProperties DEF ToSet

LEMMA ToSetOfOne ==
  ASSUME NEW S, NEW e \in S
  PROVE  <<e>> \in Seq(S) /\ Len(<<e>>) = 1 /\ <<e>>[1] = e /\ ToSet(<<e>>) = {e}
<1>1. <<e>> \in Seq(S) /\ Len(<<e>>) = 1 /\ <<e>>[1] = e
  OBVIOUS
<1>2. DOMAIN <<e>> = {1}
  OBVIOUS
<1> QED
  BY <1>1, <1>2 DEF ToSet

LEMMA ToSetOfNone == ToSet(<<>>) = {} /\ AsPublished(<<>>)
<1>1. DOMAIN <<>> = {}
  OBVIOUS
<1> QED
  BY <1>1 DEF ToSet, AsPublished

LEMMA ToSetConcat ==
  ASSUME NEW S, NEW s \in Seq(S), NEW t \in Seq(S)
  PROVE  s \o t \in Seq(S) /\ ToSet(s \o t) = ToSet(s) \cup ToSet(t)
<1> DEFINE st == s \o t
<1>1. /\ st \in Seq(S)
      /\ Len(st) = Len(s) + Len(t)
      /\ \A i \in 1 .. Len(s) + Len(t) :
           st[i] = IF i <= Len(s) THEN s[i] ELSE t[i - Len(s)]
  BY ConcatProperties
<1> HIDE DEF st
<1>2. Len(s) \in Nat /\ Len(t) \in Nat
  BY LenProperties
<1>3. /\ ToSet(s) = {s[i] : i \in 1 .. Len(s)}
      /\ ToSet(t) = {t[i] : i \in 1 .. Len(t)}
      /\ ToSet(st) = {st[i] : i \in 1 .. Len(st)}
  BY <1>1, ToSetIndexed
<1>4. ASSUME NEW x \in ToSet(st) PROVE x \in ToSet(s) \cup ToSet(t)
  <2>1. PICK i \in 1 .. Len(s) + Len(t) : x = st[i]
    BY <1>1, <1>3, <1>4
  <2>2. CASE i <= Len(s)
    BY <1>1, <1>2, <1>3, <2>1, <2>2
  <2>3. CASE ~(i <= Len(s))
    <3>1. i - Len(s) \in 1 .. Len(t)
      BY <1>2, <2>1, <2>3
    <3> QED
      BY <1>1, <1>3, <2>1, <2>3, <3>1
  <2> QED
    BY <2>2, <2>3
<1>5. ASSUME NEW x \in ToSet(s) PROVE x \in ToSet(st)
  <2>1. PICK i \in 1 .. Len(s) : x = s[i]
    BY <1>3, <1>5
  <2>2. i \in 1 .. Len(s) + Len(t) /\ i <= Len(s)
    BY <1>2, <2>1
  <2> QED
    BY <1>1, <1>3, <2>1, <2>2
<1>6. ASSUME NEW x \in ToSet(t) PROVE x \in ToSet(st)
  <2>1. PICK i \in 1 .. Len(t) : x = t[i]
    BY <1>3, <1>6
  <2>2. Len(s) + i \in 1 .. Len(s) + Len(t) /\ ~(Len(s) + i <= Len(s)) /\ Len(s) + i - Len(s) = i
    BY <1>2, <2>1
  <2>3. st[Len(s) + i] = t[i]
    BY <1>1, <2>2
  <2> QED
    BY <1>1, <1>3, <2>1, <2>2, <2>3
<1> QED
  BY <1>1, <1>4, <1>5, <1>6 DEF st

(* An event that is added at the end keeps the order when all before it    *)
(* are earlier, and only then.                                             *)
LEMMA AsPublishedSnoc ==
  ASSUME NEW S, NEW s \in Seq(S), NEW e \in S
  PROVE  AsPublished(s \o <<e>>) <=> AsPublished(s) /\ \A x \in ToSet(s) : Earlier(x, e)
<1> DEFINE st == s \o <<e>>
<1>1. <<e>> \in Seq(S) /\ Len(<<e>>) = 1 /\ <<e>>[1] = e
  BY ToSetOfOne
<1>2. Len(s) \in Nat /\ DOMAIN s = 1 .. Len(s)
  BY LenProperties
<1>3. st \in Seq(S) /\ Len(st) = Len(s) + 1
  BY <1>1, ConcatProperties
<1>4. \A i \in 1 .. Len(s) : st[i] = s[i]
  <2> SUFFICES ASSUME NEW i \in 1 .. Len(s) PROVE st[i] = s[i]
    OBVIOUS
  <2>1. i \in 1 .. Len(s) + Len(<<e>>) /\ i <= Len(s)
    BY <1>1, <1>2
  <2> QED
    BY <1>1, <2>1, ConcatProperties
<1>5. st[Len(s) + 1] = e
  <2>1. /\ Len(s) + 1 \in 1 .. Len(s) + Len(<<e>>)
        /\ ~(Len(s) + 1 <= Len(s))
        /\ Len(s) + 1 - Len(s) = 1
    BY <1>1, <1>2
  <2> QED
    BY <1>1, <2>1, ConcatProperties
<1> HIDE DEF st
<1>6. DOMAIN st = 1 .. Len(s) + 1
  BY <1>3, LenProperties
<1>7. ToSet(s) = {s[i] : i \in 1 .. Len(s)}
  BY ToSetIndexed
<1>8. ASSUME AsPublished(st) PROVE AsPublished(s) /\ \A x \in ToSet(s) : Earlier(x, e)
  <2>1. \A i, j \in 1 .. Len(s) + 1 : i < j => Earlier(st[i], st[j])
    BY <1>6, <1>8 DEF AsPublished
  <2>2. \A i, j \in 1 .. Len(s) : i < j => Earlier(s[i], s[j])
    BY <1>2, <1>4, <2>1
  <2>3. \A i \in 1 .. Len(s) : Earlier(s[i], e)
    BY <1>2, <1>4, <1>5, <2>1
  <2> QED
    BY <1>2, <1>7, <2>2, <2>3 DEF AsPublished
<1>9. ASSUME AsPublished(s), \A x \in ToSet(s) : Earlier(x, e) PROVE AsPublished(st)
  <2>1. \A i, j \in 1 .. Len(s) : i < j => Earlier(s[i], s[j])
    BY <1>2, <1>9 DEF AsPublished
  <2>2. \A i \in 1 .. Len(s) : Earlier(s[i], e)
    BY <1>7, <1>9
  <2>3. ASSUME NEW i \in 1 .. Len(s) + 1, NEW j \in 1 .. Len(s) + 1, i < j
        PROVE  Earlier(st[i], st[j])
    <3>1. i \in 1 .. Len(s)
      BY <1>2, <2>3
    <3>2. CASE j \in 1 .. Len(s)
      BY <1>4, <2>1, <2>3, <3>1, <3>2
    <3>3. CASE j = Len(s) + 1
      BY <1>4, <1>5, <2>2, <3>1, <3>3
    <3> QED
      BY <1>2, <3>2, <3>3
  <2> QED
    BY <1>6, <2>3 DEF AsPublished
<1> QED
  BY <1>8, <1>9 DEF st

(* The oldest event that waits may as well have been written.              *)
LEMMA MovedOn ==
  ASSUME NEW S, NEW w \in Seq(S), NEW c \in Seq(S), c # <<>>
  PROVE  Append(w, Head(c)) \o Tail(c) = w \o c
<1>1. Head(c) \in S /\ Tail(c) \in Seq(S)
  BY HeadTailProperties
<1>2. <<Head(c)>> \o Tail(c) = c
  <2>1. Len(c) \in Nat \ {0}
    BY EmptySeq
  <2>2. 1 \in 1 .. Len(c) /\ Len(c) \in 1 .. Len(c)
    BY <2>1
  <2>3. SubSeq(c, 1, Len(c)) = <<c[1]>> \o SubSeq(c, 2, Len(c))
    BY <2>2, SubSeqRecursiveFirst
  <2>4. SubSeq(c, 1, Len(c)) = c
    BY SubSeqFull
  <2>5. Tail(c) = SubSeq(c, 2, Len(c))
    BY TailIsSubSeq
  <2>6. Head(c) = c[1]
    OBVIOUS
  <2> QED
    BY <2>3, <2>4, <2>5, <2>6
<1>3. Append(w, Head(c)) = w \o <<Head(c)>>
  BY <1>1, AppendIsConcat
<1>4. <<Head(c)>> \in Seq(S)
  BY <1>1, ToSetOfOne
<1>5. (w \o <<Head(c)>>) \o Tail(c) = w \o (<<Head(c)>> \o Tail(c))
  BY <1>1, <1>4, ConcatAssociative
<1> QED
  BY <1>2, <1>3, <1>5

LEMMA SentOn ==
  ASSUME NEW S, NEW w \in Seq(S), NEW c \in Seq(S), NEW e \in S
  PROVE  w \o Append(c, e) = (w \o c) \o <<e>>
<1>1. <<e>> \in Seq(S)
  BY ToSetOfOne
<1> QED
  BY <1>1, AppendIsConcat, ConcatAssociative

(* What is owed, as a set.                                                 *)
LEMMA ToSetOwed ==
  ASSUME NEW S, NEW p \in Seq(S), NEW m \in Nat
  PROVE  ToSet(SubSeq(p, m + 1, Len(p))) = {p[i] : i \in m + 1 .. Len(p)}
<1> DEFINE q == SubSeq(p, m + 1, Len(p))
<1>1. Len(p) \in Nat
  BY LenProperties
<1>2. m + 1 \in Int /\ Len(p) \in Int
  BY <1>1
<1>3. \A i \in m + 1 .. Len(p) : p[i] \in S
  BY <1>1, ElementOfSeq
<1>4. /\ q \in Seq(S)
      /\ Len(q) = IF m + 1 <= Len(p) THEN Len(p) - (m + 1) + 1 ELSE 0
      /\ \A i \in 1 .. Len(p) - (m + 1) + 1 : q[i] = p[m + 1 + i - 1]
  BY <1>2, <1>3, SubSeqProperties
<1> HIDE DEF q
<1>5. ToSet(q) = {q[i] : i \in 1 .. Len(q)}
  BY <1>4, ToSetIndexed
<1>6. ASSUME NEW i \in 1 .. Len(q)
      PROVE  m + i \in m + 1 .. Len(p) /\ q[i] = p[m + i]
  <2>1. i \in 1 .. Len(p) - (m + 1) + 1 /\ m + 1 + i - 1 = m + i
    BY <1>1, <1>4, <1>6
  <2> QED
    BY <1>1, <1>4, <2>1
<1>7. ASSUME NEW k \in m + 1 .. Len(p)
      PROVE  k - m \in 1 .. Len(q) /\ q[k - m] = p[k]
  <2>1. k - m \in 1 .. Len(q)
    BY <1>1, <1>4, <1>7
  <2>2. m + (k - m) = k
    BY <1>1, <1>7
  <2> QED
    BY <1>6, <2>1, <2>2
<1>8. {q[i] : i \in 1 .. Len(q)} \subseteq {p[i] : i \in m + 1 .. Len(p)}
  BY <1>6
<1>9. {p[i] : i \in m + 1 .. Len(p)} \subseteq {q[i] : i \in 1 .. Len(q)}
  BY <1>7
<1> QED
  BY <1>5, <1>8, <1>9 DEF q

-----------------------------------------------------------------------------
(* The hub under the page.                                                 *)

(* What the page's steps do to the hub.                                    *)
HubStep ==
  \/ StartJob \/ PublishEvent \/ Finish
  \/ \E v \in Viewers :
       Send(v) \/ Subscribe(v) \/ Replayed(v) \/ Forward(v) \/ Unsubscribe(v)

Told(v) ==
  LET events == Stream(v) \o OnItsWay(v)
  IN  /\ ToSet(events) = ToSet(Owed(v)) \ dropped[v]
      /\ AsPublished(events)

LEMMA ToldToEach == StreamIsOwed <=> \A v \in Attached : Told(v)
BY Zenon DEF StreamIsOwed, Told

LEMMA ToldToEachThen ==
  ASSUME \A v \in Viewers : v \in Attached' => Told(v)' PROVE StreamIsOwed'
<1>1. \A v \in Attached' : v \in Viewers
  BY DEF Attached
<1>2. \A v \in Attached' : Told(v)'
  BY <1>1
<1> QED
  BY Zenon, <1>2 DEF StreamIsOwed, Told

LEMMA LastIsLatest ==
  ASSUME HubTypeOK, log # <<>>
  PROVE  Len(log) \in Nat \ {0} /\ Last(log) = log[Len(log)] /\ Last(log) \in Event
<1>1. Len(log) \in Nat \ {0}
  BY EmptySeq DEF HubTypeOK
<1>2. Len(log) \in 1 .. Len(log)
  BY <1>1
<1> QED
  BY <1>1, <1>2, ElementOfSeq DEF HubTypeOK, Last

LEMMA StreamTyped ==
  ASSUME HubTypeOK, NEW v \in Viewers
  PROVE  /\ written[v] \in Seq(Event) /\ chan[v] \in Seq(Event) /\ Stream(v) \in Seq(Event)
         /\ since[v] \in Nat
         /\ ToSet(Owed(v)) = {published[i] : i \in since[v] + 1 .. Len(published)}
         /\ ToSet(Owed(v)) \subseteq ToSet(published)
<1>1. written[v] \in Seq(Event) /\ chan[v] \in Seq(Event) /\ since[v] \in Nat
  BY DEF HubTypeOK
<1>2. Stream(v) \in Seq(Event)
  BY <1>1, ToSetConcat DEF Stream
<1>3. published \in Seq(Event) /\ Len(published) \in Nat
  BY LenProperties DEF HubTypeOK
<1>4. ToSet(Owed(v)) = {published[i] : i \in since[v] + 1 .. Len(published)}
  BY <1>1, <1>3, ToSetOwed DEF Owed
<1>5. ToSet(published) = {published[i] : i \in 1 .. Len(published)}
  BY <1>3, ToSetIndexed
<1>6. since[v] + 1 .. Len(published) \subseteq 1 .. Len(published)
  BY <1>1, <1>3
<1> QED
  BY <1>1, <1>2, <1>4, <1>5, <1>6

(* For whom a send is pending, the last event has still to come, and only  *)
(* for those.                                                              *)
LEMMA ToldWhenSettled ==
  ASSUME HubTypeOK, NEW v \in Viewers, v \notin pending
  PROVE  Told(v) <=> ToSet(Stream(v)) = ToSet(Owed(v)) \ dropped[v] /\ AsPublished(Stream(v))
<1>1. Stream(v) \in Seq(Event)
  BY StreamTyped
<1>2. OnItsWay(v) = <<>>
  BY DEF OnItsWay
<1>3. Stream(v) \o OnItsWay(v) = Stream(v)
  BY <1>1, <1>2, ConcatEmptySeq
<1> QED
  BY <1>3 DEF Told

LEMMA ToldWhilePending ==
  ASSUME HubTypeOK, JobInPhase, NEW v \in Viewers, v \in pending
  PROVE  Told(v) <=> /\ ToSet(Stream(v)) \cup {Last(log)} = ToSet(Owed(v)) \ dropped[v]
                     /\ AsPublished(Stream(v))
                     /\ \A e \in ToSet(Stream(v)) : Earlier(e, Last(log))
<1>1. Stream(v) \in Seq(Event)
  BY StreamTyped
<1>2. Last(log) \in Event
  BY LastIsLatest DEF JobInPhase
<1>3. OnItsWay(v) = <<Last(log)>>
  BY DEF OnItsWay
<1>4. <<Last(log)>> \in Seq(Event) /\ ToSet(<<Last(log)>>) = {Last(log)}
  BY <1>2, ToSetOfOne
<1>5. ToSet(Stream(v) \o <<Last(log)>>) = ToSet(Stream(v)) \cup {Last(log)}
  <2>1. ToSet(Stream(v) \o <<Last(log)>>) = ToSet(Stream(v)) \cup ToSet(<<Last(log)>>)
    BY <1>1, <1>4, ToSetConcat
  <2> QED
    BY <1>4, <2>1
<1>6. AsPublished(Stream(v) \o <<Last(log)>>)
        <=> AsPublished(Stream(v)) /\ \A e \in ToSet(Stream(v)) : Earlier(e, Last(log))
  BY <1>1, <1>2, AsPublishedSnoc
<1> QED
  BY <1>3, <1>5, <1>6 DEF Told

(* No event is earlier than itself.                                        *)
LEMMA NeverEarlier ==
  ASSUME NEW e \in Event PROVE ~Earlier(e, e)
BY DEF Earlier, Event

-----------------------------------------------------------------------------
LEMMA HubInitHolds == HubInit => HubInv
<1> SUFFICES ASSUME HubInit PROVE HubInv
  OBVIOUS
<1>1. <<>> \in Seq(Event) /\ Len(<<>>) = 0
  BY EmptySeq
<1>2. HubTypeOK
  <2>1. running \in BOOLEAN
    BY Zenon DEF HubInit
  <2>2. log \in Seq(Event) /\ Len(log) <= MaxEvents /\ published \in Seq(Event)
    BY <1>1, HubAssumption DEF HubInit
  <2>3. chan \in [Viewers -> Seq(Event)] /\ \A v \in Viewers : Len(chan[v]) <= Capacity
    BY <1>1, HubAssumption DEF HubInit
  <2>4. /\ pc \in {"none", "working", "sending", "panicked"}
        /\ view \in [Viewers -> {"out", "replaying", "live", "gone"}]
        /\ written \in [Viewers -> Seq(Event)]
        /\ since \in [Viewers -> Nat]
        /\ dropped \in [Viewers -> SUBSET Event]
    BY <1>1 DEF HubInit
  <2>5. gen \in 0 .. MaxJobs /\ pending \subseteq Viewers
    BY HubAssumption DEF HubInit
  <2> QED
    BY <2>1, <2>2, <2>3, <2>4, <2>5 DEF HubTypeOK
<1>3. JobInPhase
  BY DEF HubInit, JobInPhase
<1>4. LogNumbered
  BY <1>1, HubAssumption DEF HubInit, LogNumbered
<1>5. LogIsLatest
  BY <1>1, ToSetOfNone DEF HubInit, LogIsLatest
<1>6. ViewsKept
  BY <1>1 DEF HubInit, ViewsKept
<1>7. StreamIsOwed
  <2>1. Attached = {}
    BY DEF HubInit, Attached
  <2> QED
    BY <2>1 DEF StreamIsOwed
<1> QED
  BY <1>2, <1>3, <1>4, <1>5, <1>6, <1>7 DEF HubInv

(* A viewer keeps what it was told while neither it, nor what was          *)
(* published, nor what is pending for it changes.                          *)
LEMMA ToldStays ==
  ASSUME HubTypeOK, HubTypeOK', NEW v \in Viewers, Told(v), v \notin pending, v \notin pending',
         UNCHANGED published, written'[v] = written[v], chan'[v] = chan[v],
         since'[v] = since[v], dropped'[v] = dropped[v]
  PROVE  Told(v)'
<1>1. Stream(v)' = Stream(v)
  BY DEF Stream
<1>2. Owed(v)' = Owed(v)
  BY DEF Owed
<1>3. OnItsWay(v)' = OnItsWay(v)
  BY DEF OnItsWay
<1> QED
  BY Zenon, <1>1, <1>2, <1>3 DEF Told

LEMMA ToldStaysPending ==
  ASSUME NEW v \in Viewers, Told(v), v \in pending <=> v \in pending',
         UNCHANGED <<published, log>>, written'[v] = written[v], chan'[v] = chan[v],
         since'[v] = since[v], dropped'[v] = dropped[v]
  PROVE  Told(v)'
<1>1. Stream(v)' = Stream(v)
  BY DEF Stream
<1>2. Owed(v)' = Owed(v)
  BY DEF Owed
<1>3. OnItsWay(v)' = OnItsWay(v)
  BY DEF OnItsWay
<1> QED
  BY Zenon, <1>1, <1>2, <1>3 DEF Told

LEMMA StartJobKeeps == ASSUME HubInv, StartJob PROVE HubInv'
<1>1. <<>> \in Seq(Event) /\ Len(<<>>) = 0
  BY EmptySeq
<1>2. pc = "none" /\ pending = {} /\ gen \in Nat
  BY DEF HubInv, HubTypeOK, StartJob, JobInPhase
<1>3. HubTypeOK'
  BY <1>1, <1>2, HubAssumption DEF HubInv, HubTypeOK, StartJob
<1>4. JobInPhase'
  BY <1>2 DEF StartJob, JobInPhase
<1>5. LogNumbered'
  BY <1>1, HubAssumption DEF StartJob, LogNumbered
<1>6. LogIsLatest'
  <2>1. \A e \in ToSet(published) : e \in Event
    BY ToSetIndexed DEF HubInv, HubTypeOK
  <2>2. \A e \in ToSet(published) : e.job < gen + 1
    BY <1>2, <2>1 DEF HubInv, LogIsLatest, Event
  <2>3. Len(published) \in Nat
    BY LenProperties DEF HubInv, HubTypeOK
  <2> QED
    BY <1>1, <2>2, <2>3 DEF StartJob, LogIsLatest
<1>7. ViewsKept'
  BY DEF HubInv, ViewsKept, StartJob
<1>8. StreamIsOwed'
  <2> SUFFICES ASSUME NEW v \in Viewers, v \in Attached' PROVE Told(v)'
    BY ToldToEachThen
  <2> QED
    BY <1>2, <1>3, ToldToEach, ToldStays DEF HubInv, StartJob, Attached
<1> QED
  BY <1>3, <1>4, <1>5, <1>6, <1>7, <1>8 DEF HubInv

LEMMA FinishKeeps == ASSUME HubInv, Finish PROVE HubInv'
<1>1. HubTypeOK'
  BY DEF HubInv, HubTypeOK, Finish
<1>2. JobInPhase'
  BY DEF HubInv, JobInPhase, Finish
<1>3. LogNumbered' /\ LogIsLatest'
  BY DEF HubInv, LogNumbered, LogIsLatest, Finish
<1>4. ViewsKept'
  BY DEF HubInv, ViewsKept, Finish
<1>5. StreamIsOwed'
  <2> SUFFICES ASSUME NEW v \in Viewers, v \in Attached' PROVE Told(v)'
    BY ToldToEachThen
  <2> QED
    BY ToldToEach, ToldStaysPending DEF HubInv, Finish, Attached
<1> QED
  BY <1>1, <1>2, <1>3, <1>4, <1>5 DEF HubInv

LEMMA ReplayedKeeps == ASSUME HubInv, NEW v \in Viewers, Replayed(v) PROVE HubInv'
<1>1. HubTypeOK'
  BY DEF HubInv, HubTypeOK, Replayed, hub
<1>2. JobInPhase' /\ LogNumbered' /\ LogIsLatest'
  BY DEF HubInv, JobInPhase, LogNumbered, LogIsLatest, Replayed, hub
<1>3. ViewsKept'
  BY DEF HubInv, HubTypeOK, ViewsKept, Replayed, hub
<1>4. StreamIsOwed'
  <2> SUFFICES ASSUME NEW w \in Viewers, w \in Attached' PROVE Told(w)'
    BY ToldToEachThen
  <2>1. w \in Attached
    BY DEF HubInv, HubTypeOK, Replayed, Attached
  <2> QED
    BY <2>1, ToldToEach, ToldStaysPending DEF HubInv, Replayed, hub
<1> QED
  BY <1>1, <1>2, <1>3, <1>4 DEF HubInv

LEMMA UnsubscribeKeeps == ASSUME HubInv, NEW v \in Viewers, Unsubscribe(v) PROVE HubInv'
<1>1. HubTypeOK'
  BY DEF HubInv, HubTypeOK, Unsubscribe, hub
<1>2. JobInPhase' /\ LogNumbered' /\ LogIsLatest'
  BY DEF HubInv, JobInPhase, LogNumbered, LogIsLatest, Unsubscribe, hub
<1>3. ViewsKept'
  BY DEF HubInv, HubTypeOK, ViewsKept, Unsubscribe, hub
<1>4. StreamIsOwed'
  <2> SUFFICES ASSUME NEW w \in Viewers, w \in Attached' PROVE Told(w)'
    BY ToldToEachThen
  <2>1. w \in Attached
    BY DEF HubInv, HubTypeOK, Unsubscribe, Attached
  <2> QED
    BY <2>1, ToldToEach, ToldStaysPending DEF HubInv, Unsubscribe, hub
<1> QED
  BY <1>1, <1>2, <1>3, <1>4 DEF HubInv

LEMMA ToSetAppend ==
  ASSUME NEW S, NEW s \in Seq(S), NEW e \in S
  PROVE  ToSet(Append(s, e)) = ToSet(s) \cup {e}
<1>1. <<e>> \in Seq(S) /\ ToSet(<<e>>) = {e}
  BY ToSetOfOne
<1>2. Append(s, e) = s \o <<e>>
  BY AppendIsConcat
<1>3. ToSet(s \o <<e>>) = ToSet(s) \cup ToSet(<<e>>)
  BY <1>1, ToSetConcat
<1> QED
  BY <1>1, <1>2, <1>3

LEMMA PublishEventKeeps == ASSUME HubInv, PublishEvent PROVE HubInv'
<1> USE DEF HubInv
<1>1. PICK end \in BOOLEAN :
        /\ MayEnd(end)
        /\ log' = Append(log, [job |-> gen, seq |-> Len(log) + 1, end |-> end])
        /\ published' = Append(published, [job |-> gen, seq |-> Len(log) + 1, end |-> end])
  BY DEF PublishEvent
<1> DEFINE event == [job |-> gen, seq |-> Len(log) + 1, end |-> end]
<1>2. /\ pc = "working" /\ pending = {} /\ running = TRUE /\ gen \in 1 .. MaxJobs
      /\ pending' = Registered
      /\ pc' = IF Registered = {} THEN "working" ELSE "sending"
      /\ UNCHANGED <<running, gen, view, chan, written, since, dropped>>
  BY HubAssumption DEF PublishEvent, JobInPhase, HubTypeOK
<1>3. /\ log \in Seq(Event) /\ Len(log) \in Nat /\ Len(log) < MaxEvents
      /\ published \in Seq(Event) /\ Len(published) \in Nat
  <2>1. log \in Seq(Event) /\ published \in Seq(Event) /\ Len(log) <= MaxEvents
    BY DEF HubTypeOK
  <2>2. Len(log) \in Nat /\ Len(published) \in Nat
    BY <2>1, LenProperties
  <2>3. CASE log = <<>>
    BY <2>1, <2>2, <2>3, EmptySeq, HubAssumption
  <2>4. CASE log # <<>>
    <3>1. ~log[Len(log)].end
      BY <1>1, <2>4, LastIsLatest DEF MayEnd
    <3>2. Len(log) # MaxEvents
      BY <3>1 DEF LogNumbered
    <3> QED
      BY <2>1, <2>2, <3>2, HubAssumption
  <2> QED
    BY <2>3, <2>4
<1>4. /\ event \in Event
      /\ event.job = gen /\ event.seq = Len(log) + 1 /\ event.end = end
  <2>1. Len(log) + 1 \in 1 .. MaxEvents
    BY <1>3, HubAssumption
  <2> QED
    BY <1>2, <2>1 DEF Event
<1>5. log' = Append(log, event) /\ published' = Append(published, event)
  BY <1>1
<1> HIDE DEF event
<1>6. /\ log' \in Seq(Event) /\ log' # <<>> /\ Len(log') = Len(log) + 1
      /\ \A i \in 1 .. Len(log) : log'[i] = log[i]
      /\ log'[Len(log) + 1] = event
  BY <1>3, <1>4, <1>5, AppendProperties
<1>7. /\ published' \in Seq(Event) /\ Len(published') = Len(published) + 1
      /\ \A i \in 1 .. Len(published) : published'[i] = published[i]
      /\ published'[Len(published) + 1] = event
  BY <1>3, <1>4, <1>5, AppendProperties
<1>8. ToSet(published') = ToSet(published) \cup {event}
  BY <1>3, <1>4, <1>5, ToSetAppend
<1>9. ToSet(published) \subseteq Event
  BY <1>3, ToSetIndexed
<1>10. \A e \in ToSet(published) : Earlier(e, event)
  BY <1>4 DEF LogIsLatest, Earlier
<1>11. event \notin ToSet(published)
  BY <1>4, <1>10, NeverEarlier
<1>12. HubTypeOK'
  <2>1. pending' \subseteq Viewers
    BY <1>2 DEF Registered
  <2> QED
    BY <1>2, <1>3, <1>6, <1>7, <2>1, HubAssumption DEF HubTypeOK
<1>13. JobInPhase'
  BY <1>2, <1>6 DEF JobInPhase
<1>14. LogNumbered'
  <2>1. ASSUME NEW i \in 1 .. Len(log) + 1 PROVE log'[i].job = gen /\ log'[i].seq = i
    <3>1. CASE i = Len(log) + 1
      BY <1>4, <1>6, <3>1
    <3>2. CASE i # Len(log) + 1
      <4>1. i \in 1 .. Len(log)
        BY <1>3, <3>2
      <4> QED
        BY <1>6, <4>1 DEF LogNumbered
    <3> QED
      BY <3>1, <3>2
  <2>2. ASSUME Len(log) + 1 = MaxEvents PROVE log'[Len(log) + 1].end
    <3>1. end
      BY <1>1, <1>3, <2>2 DEF MayEnd
    <3> QED
      BY <1>4, <1>6, <3>1
  <2> QED
    BY <1>2, <1>6, <2>1, <2>2 DEF LogNumbered
<1>15. LogIsLatest'
  <2>1. Len(log) <= Len(published)
    BY DEF LogIsLatest
  <2>2. ASSUME NEW i \in 1 .. Len(log) + 1
        PROVE  log'[i] = published'[Len(published) + 1 - (Len(log) + 1) + i]
    <3>1. CASE i = Len(log) + 1
      <4>1. Len(published) + 1 - (Len(log) + 1) + i = Len(published) + 1
        BY <1>3, <3>1
      <4> QED
        BY <1>6, <1>7, <3>1, <4>1
    <3>2. CASE i # Len(log) + 1
      <4>1. i \in 1 .. Len(log)
        BY <1>3, <3>2
      <4>2. Len(published) + 1 - (Len(log) + 1) + i = Len(published) - Len(log) + i
        BY <1>3
      <4>3. Len(published) - Len(log) + i \in 1 .. Len(published)
        BY <1>3, <2>1, <4>1
      <4>4. log[i] = published[Len(published) - Len(log) + i]
        BY <4>1 DEF LogIsLatest
      <4> QED
        BY <1>6, <1>7, <4>1, <4>2, <4>3, <4>4
    <3> QED
      BY <3>1, <3>2
  <2>3. ASSUME NEW e \in ToSet(published')
        PROVE  e.job < gen \/ (e.job = gen /\ e.seq < Len(log) + 1 + 1)
    <3>1. CASE e = event
      BY <1>3, <1>4, <3>1
    <3>2. CASE e # event
      <4>1. e \in ToSet(published) /\ e \in Event
        BY <1>8, <1>9, <2>3, <3>2
      <4>2. e.seq \in Nat
        BY <4>1, HubAssumption DEF Event
      <4> QED
        BY <1>3, <4>1, <4>2 DEF LogIsLatest
    <3> QED
      BY <3>1, <3>2
  <2> QED
    BY <1>2, <1>3, <1>6, <1>7, <2>1, <2>2, <2>3 DEF LogIsLatest
<1>16. ViewsKept'
  <2> SUFFICES ASSUME NEW v \in Viewers
               PROVE  /\ view'[v] = "out"
                           => chan'[v] = <<>> /\ dropped'[v] = {} /\ v \notin pending'
                      /\ dropped'[v] \subseteq ToSet(published')
                      /\ since'[v] <= Len(published')
    BY DEF ViewsKept
  <2>1. view[v] = "out" => v \notin Registered
    BY DEF Registered
  <2>2. since[v] \in Nat /\ since[v] <= Len(published)
    BY DEF HubTypeOK, ViewsKept
  <2> QED
    BY <1>2, <1>3, <1>7, <1>8, <2>1, <2>2 DEF ViewsKept
<1>17. StreamIsOwed'
  <2> SUFFICES ASSUME NEW v \in Viewers, v \in Attached' PROVE Told(v)'
    BY ToldToEachThen
  <2>1. v \in Attached /\ v \in pending'
    BY <1>2 DEF Attached, Registered
  <2>2. ToSet(Stream(v)) = ToSet(Owed(v)) \ dropped[v] /\ AsPublished(Stream(v))
    BY <1>2, <2>1, ToldToEach, ToldWhenSettled
  <2>3. /\ Stream(v) \in Seq(Event) /\ ToSet(Owed(v)) \subseteq ToSet(published)
        /\ since[v] \in Nat
        /\ ToSet(Owed(v)) = {published[i] : i \in since[v] + 1 .. Len(published)}
    BY StreamTyped
  <2>4. Stream(v)' \o OnItsWay(v)' = Stream(v) \o <<event>>
    <3>1. Last(log') = event
      BY <1>6 DEF Last
    <3>2. OnItsWay(v)' = <<event>>
      BY <2>1, <3>1 DEF OnItsWay
    <3>3. Stream(v)' = Stream(v)
      BY <1>2 DEF Stream
    <3> QED
      BY <3>2, <3>3
  <2>5. AsPublished(Stream(v) \o <<event>>)
    BY <1>4, <1>10, <2>2, <2>3, AsPublishedSnoc
  <2>6. ToSet(Stream(v) \o <<event>>) = ToSet(Stream(v)) \cup {event}
    <3>1. <<event>> \in Seq(Event) /\ ToSet(<<event>>) = {event}
      BY <1>4, ToSetOfOne
    <3>2. ToSet(Stream(v) \o <<event>>) = ToSet(Stream(v)) \cup ToSet(<<event>>)
      BY <2>3, <3>1, ToSetConcat
    <3> QED
      BY <3>1, <3>2
  <2>7. ToSet(Owed(v)') = ToSet(Owed(v)) \cup {event}
    <3>1. Owed(v)' = SubSeq(published', since[v] + 1, Len(published'))
      BY <1>2 DEF Owed
    <3>2. ToSet(Owed(v)') = {published'[i] : i \in since[v] + 1 .. Len(published')}
      BY <1>7, <2>3, <3>1, ToSetOwed
    <3>3. since[v] <= Len(published)
      BY DEF ViewsKept
    <3>4. since[v] + 1 .. Len(published')
            = (since[v] + 1 .. Len(published)) \cup {Len(published) + 1}
      BY <1>3, <1>7, <2>3, <3>3
    <3>5. \A i \in since[v] + 1 .. Len(published) : published'[i] = published[i]
      BY <1>3, <1>7, <2>3
    <3> QED
      BY <1>7, <2>3, <3>2, <3>4, <3>5
  <2>8. dropped'[v] = dropped[v] /\ event \notin dropped[v]
    BY <1>2, <1>11 DEF ViewsKept
  <2>9. ToSet(Stream(v) \o <<event>>) = ToSet(Owed(v)') \ dropped'[v]
    BY <2>2, <2>6, <2>7, <2>8
  <2> QED
    BY <2>4, <2>5, <2>9 DEF Told
<1> QED
  BY <1>12, <1>13, <1>14, <1>15, <1>16, <1>17

LEMMA SendKeeps == ASSUME HubInv, NEW v \in Viewers, Send(v) PROVE HubInv'
<1> USE DEF HubInv
<1>1. /\ v \in pending /\ pending' = pending \ {v} /\ pc = "sending"
      /\ pc' = IF view[v] = "gone" THEN "panicked"
               ELSE IF pending = {v} THEN "working" ELSE "sending"
      /\ UNCHANGED <<running, gen, log, view, written, published, since>>
  BY DEF Send, hub
<1>2. log # <<>> /\ Last(log) = log[Len(log)] /\ Last(log) \in Event
  BY <1>1, LastIsLatest DEF JobInPhase
<1>3. /\ chan \in [Viewers -> Seq(Event)] /\ \A w \in Viewers : Len(chan[w]) <= Capacity
      /\ dropped \in [Viewers -> SUBSET Event]
      /\ Len(chan[v]) \in Nat
  BY LenProperties DEF HubTypeOK
<1>4. \A w \in Viewers \ {v} : chan'[w] = chan[w] /\ dropped'[w] = dropped[w]
  BY <1>3 DEF Send
<1>5. \/ view[v] = "gone" /\ chan'[v] = chan[v] /\ dropped'[v] = dropped[v]
      \/ /\ view[v] # "gone" /\ Len(chan[v]) < Capacity
         /\ chan'[v] = Append(chan[v], Last(log)) /\ dropped'[v] = dropped[v]
      \/ /\ view[v] # "gone" /\ chan'[v] = chan[v]
         /\ dropped'[v] = dropped[v] \cup {Last(log)}
  BY <1>3 DEF Send, Fits
<1>6. chan' \in [Viewers -> Seq(Event)] /\ dropped' \in [Viewers -> SUBSET Event]
  BY <1>2, <1>3 DEF Send
<1>7. HubTypeOK'
  <2>1. Len(chan'[v]) <= Capacity
    BY <1>2, <1>3, <1>5, AppendProperties, HubAssumption
  <2>2. \A w \in Viewers : Len(chan'[w]) <= Capacity
    BY <1>3, <1>4, <2>1
  <2> QED
    BY <1>1, <1>6, <2>2 DEF HubTypeOK
<1>8. JobInPhase'
  BY <1>1 DEF JobInPhase
<1>9. LogNumbered' /\ LogIsLatest'
  BY <1>1 DEF LogNumbered, LogIsLatest
<1>10. Last(log) \in ToSet(published)
  <2>1. Len(log) \in Nat \ {0} /\ published \in Seq(Event) /\ Len(published) \in Nat
    BY <1>2, EmptySeq, LenProperties DEF HubTypeOK
  <2>2. Len(log) \in 1 .. Len(log) /\ Len(published) - Len(log) + Len(log) = Len(published)
    BY <2>1
  <2>3. Last(log) = published[Len(published)] /\ Len(log) <= Len(published)
    BY <1>2, <2>2 DEF LogIsLatest
  <2>4. Len(published) \in 1 .. Len(published)
    BY <2>1, <2>3
  <2> QED
    BY <2>1, <2>3, <2>4, ToSetIndexed
<1>11. ViewsKept'
  <2> SUFFICES ASSUME NEW w \in Viewers
               PROVE  /\ view'[w] = "out"
                           => chan'[w] = <<>> /\ dropped'[w] = {} /\ w \notin pending'
                      /\ dropped'[w] \subseteq ToSet(published')
                      /\ since'[w] <= Len(published')
    BY DEF ViewsKept
  <2>1. view[v] # "out"
    BY <1>1 DEF ViewsKept
  <2>2. dropped'[w] \subseteq ToSet(published)
    BY <1>4, <1>5, <1>10 DEF ViewsKept
  <2> QED
    BY <1>1, <1>4, <2>1, <2>2 DEF ViewsKept
<1>12. StreamIsOwed'
  <2> SUFFICES ASSUME NEW w \in Viewers, w \in Attached' PROVE Told(w)'
    BY ToldToEachThen
  <2>1. w \in Attached /\ Told(w)
    BY <1>1, ToldToEach DEF Attached
  <2>2. CASE w # v
    BY <1>1, <1>4, <2>1, <2>2, ToldStaysPending
  <2>3. CASE w = v
    <3>1. /\ ToSet(Stream(v)) \cup {Last(log)} = ToSet(Owed(v)) \ dropped[v]
          /\ AsPublished(Stream(v))
          /\ \A e \in ToSet(Stream(v)) : Earlier(e, Last(log))
      BY <1>1, <2>1, <2>3, ToldWhilePending
    <3>2. /\ written[v] \in Seq(Event) /\ chan[v] \in Seq(Event) /\ Stream(v) \in Seq(Event)
      BY StreamTyped
    <3>3. Owed(v)' = Owed(v) /\ OnItsWay(v)' = <<>>
      BY <1>1 DEF Owed, OnItsWay
    <3>4. CASE chan'[v] = chan[v] /\ dropped'[v] = dropped[v] \cup {Last(log)}
      <4>1. Stream(v)' = Stream(v)
        BY <1>1, <3>4 DEF Stream
      <4>2. Stream(v)' \o OnItsWay(v)' = Stream(v)
        BY <3>2, <3>3, <4>1, ConcatEmptySeq
      <4>3. Last(log) \notin ToSet(Stream(v))
        BY <1>2, <3>1, NeverEarlier
      <4>4. ToSet(Stream(v)) = ToSet(Owed(v)') \ dropped'[v]
        BY <3>1, <3>3, <3>4, <4>3
      <4>5. Told(v)'
        BY <3>1, <4>2, <4>4 DEF Told
      <4> QED
        BY <2>3, <4>5
    <3>5. CASE chan'[v] = Append(chan[v], Last(log)) /\ dropped'[v] = dropped[v]
      <4>1. Stream(v)' = Stream(v) \o <<Last(log)>>
        <5>1. Stream(v)' = written[v] \o Append(chan[v], Last(log))
          BY <1>1, <3>5 DEF Stream
        <5>2. \A s, c \in Seq(Event), e \in Event : s \o Append(c, e) = (s \o c) \o <<e>>
          BY SentOn
        <5>3. written[v] \o Append(chan[v], Last(log)) = (written[v] \o chan[v]) \o <<Last(log)>>
          BY <1>2, <3>2, <5>2
        <5> QED
          BY <5>1, <5>3 DEF Stream
      <4>2. <<Last(log)>> \in Seq(Event) /\ ToSet(<<Last(log)>>) = {Last(log)}
        BY <1>2, ToSetOfOne
      <4>3. /\ Stream(v) \o <<Last(log)>> \in Seq(Event)
            /\ ToSet(Stream(v) \o <<Last(log)>>) = ToSet(Stream(v)) \cup ToSet(<<Last(log)>>)
        BY <3>2, <4>2, ToSetConcat
      <4>4. Stream(v)' \o OnItsWay(v)' = Stream(v) \o <<Last(log)>>
        BY <3>3, <4>1, <4>3, ConcatEmptySeq
      <4>5. AsPublished(Stream(v) \o <<Last(log)>>)
        BY <1>2, <3>1, <3>2, AsPublishedSnoc
      <4>6. ToSet(Stream(v) \o <<Last(log)>>) = ToSet(Owed(v)') \ dropped'[v]
        BY <3>1, <3>3, <3>5, <4>2, <4>3
      <4>7. Told(v)'
        BY <4>4, <4>5, <4>6 DEF Told
      <4> QED
        BY <2>3, <4>7
    <3>6. view[v] # "gone"
      BY <2>1, <2>3 DEF Attached
    <3> QED
      BY <1>5, <3>4, <3>5, <3>6
  <2> QED
    BY <2>2, <2>3
<1> QED
  BY <1>7, <1>8, <1>9, <1>11, <1>12

LEMMA SubscribeKeeps == ASSUME HubInv, NEW v \in Viewers, Subscribe(v) PROVE HubInv'
<1> USE DEF HubInv
<1>1. /\ view[v] = "out" /\ view' = [view EXCEPT ![v] = "replaying"]
      /\ written' = [written EXCEPT ![v] = log]
      /\ since' = [since EXCEPT ![v] = Len(published) - Len(log)]
      /\ UNCHANGED <<running, gen, log, pc, pending, chan, published, dropped>>
  BY DEF Subscribe, Replay, hub
<1>2. /\ log \in Seq(Event) /\ Len(log) \in Nat
      /\ published \in Seq(Event) /\ Len(published) \in Nat
      /\ Len(log) <= Len(published)
  BY LenProperties DEF HubTypeOK, LogIsLatest
<1>3. Len(published) - Len(log) \in Nat /\ Len(published) - Len(log) <= Len(published)
  BY <1>2
<1>4. HubTypeOK'
  BY <1>1, <1>2, <1>3 DEF HubTypeOK
<1>5. JobInPhase' /\ LogNumbered' /\ LogIsLatest'
  BY <1>1 DEF JobInPhase, LogNumbered, LogIsLatest
<1>6. chan[v] = <<>> /\ dropped[v] = {} /\ v \notin pending
  BY <1>1 DEF ViewsKept
<1>7. ViewsKept'
  <2>1. since \in [Viewers -> Nat] /\ view \in [Viewers -> {"out", "replaying", "live", "gone"}]
    BY DEF HubTypeOK
  <2> QED
    BY <1>1, <1>3, <2>1 DEF ViewsKept
<1>8. /\ written'[v] = log /\ since'[v] = Len(published) - Len(log)
      /\ \A w \in Viewers \ {v} :
           written'[w] = written[w] /\ since'[w] = since[w] /\ view'[w] = view[w]
  BY <1>1 DEF HubTypeOK
<1>9. StreamIsOwed'
  <2> SUFFICES ASSUME NEW w \in Viewers, w \in Attached' PROVE Told(w)'
    BY ToldToEachThen
  <2>1. CASE w # v
    <3>1. w \in Attached
      BY <1>8, <2>1 DEF Attached
    <3> QED
      BY <1>1, <1>8, <2>1, <3>1, ToldToEach, ToldStaysPending
  <2>2. CASE w = v
    <3>1. Stream(v)' \o OnItsWay(v)' = log
      <4>1. Stream(v)' = log \o <<>> /\ OnItsWay(v)' = <<>>
        BY <1>1, <1>6, <1>8 DEF Stream, OnItsWay
      <4> QED
        BY <1>2, <4>1, ConcatEmptySeq
    <3>2. AsPublished(log)
      <4>1. DOMAIN log = 1 .. Len(log)
        BY <1>2, LenProperties
      <4> QED
        BY <4>1 DEF AsPublished, Earlier, LogNumbered
    <3>3. ToSet(Owed(v)') = ToSet(log)
      <4> DEFINE m == Len(published) - Len(log)
      <4>1. m \in Nat /\ m + Len(log) = Len(published)
        BY <1>2, <1>3
      <4>2. Owed(v)' = SubSeq(published, m + 1, Len(published))
        BY <1>1, <1>8 DEF Owed
      <4>3. \A i \in 1 .. Len(log) : log[i] = published[m + i]
        BY DEF LogIsLatest
      <4> HIDE DEF m
      <4>4. ToSet(Owed(v)') = {published[i] : i \in m + 1 .. Len(published)}
        BY <1>2, <4>1, <4>2, ToSetOwed
      <4>5. ToSet(log) = {log[i] : i \in 1 .. Len(log)}
        BY <1>2, ToSetIndexed
      <4>6. \A i \in 1 .. Len(log) : m + i \in m + 1 .. Len(published)
        BY <1>2, <4>1
      <4>7. \A k \in m + 1 .. Len(published) : k - m \in 1 .. Len(log) /\ m + (k - m) = k
        BY <1>2, <4>1
      <4>8. \A k \in m + 1 .. Len(published) : published[k] = log[k - m]
        BY <4>3, <4>7
      <4>9. ToSet(log) \subseteq ToSet(Owed(v)')
        BY <4>3, <4>4, <4>5, <4>6
      <4>10. ToSet(Owed(v)') \subseteq ToSet(log)
        BY <4>4, <4>5, <4>7, <4>8
      <4> QED
        BY <4>9, <4>10
    <3>4. ToSet(log) = ToSet(Owed(v)') \ dropped'[v]
      BY <1>1, <1>6, <3>3
    <3>5. Told(v)'
      BY <3>1, <3>2, <3>4 DEF Told
    <3> QED
      BY <2>2, <3>5
  <2> QED
    BY <2>1, <2>2
<1> QED
  BY <1>4, <1>5, <1>7, <1>9

LEMMA ForwardKeeps == ASSUME HubInv, NEW v \in Viewers, Forward(v) PROVE HubInv'
<1> USE DEF HubInv
<1>1. /\ view[v] = "live" /\ chan[v] # <<>>
      /\ written' = [written EXCEPT ![v] = Append(written[v], Head(chan[v]))]
      /\ chan' = [chan EXCEPT ![v] = Tail(chan[v])]
      /\ UNCHANGED <<running, gen, log, pc, pending, view, published, since, dropped>>
  BY DEF Forward, hub
<1>2. /\ written \in [Viewers -> Seq(Event)] /\ chan \in [Viewers -> Seq(Event)]
      /\ written[v] \in Seq(Event) /\ chan[v] \in Seq(Event)
      /\ \A w \in Viewers : Len(chan[w]) <= Capacity
  BY DEF HubTypeOK
<1>3. /\ Head(chan[v]) \in Event /\ Tail(chan[v]) \in Seq(Event)
      /\ Len(Tail(chan[v])) = Len(chan[v]) - 1
      /\ Append(written[v], Head(chan[v])) \in Seq(Event)
  BY <1>1, <1>2, HeadTailProperties, AppendProperties
<1>4. /\ written'[v] = Append(written[v], Head(chan[v])) /\ chan'[v] = Tail(chan[v])
      /\ \A w \in Viewers \ {v} : written'[w] = written[w] /\ chan'[w] = chan[w]
  BY <1>1, <1>2
<1>5. HubTypeOK'
  <2>1. written' \in [Viewers -> Seq(Event)] /\ chan' \in [Viewers -> Seq(Event)]
    BY <1>1, <1>2, <1>3
  <2>2. Len(chan'[v]) <= Capacity
    <3>1. Len(chan[v]) \in Nat /\ Len(chan[v]) <= Capacity
      BY <1>2, LenProperties
    <3> QED
      BY <1>3, <1>4, <3>1, HubAssumption
  <2>3. \A w \in Viewers : Len(chan'[w]) <= Capacity
    BY <1>2, <1>4, <2>2
  <2> QED
    BY <1>1, <2>1, <2>3 DEF HubTypeOK
<1>6. JobInPhase' /\ LogNumbered' /\ LogIsLatest'
  BY <1>1 DEF JobInPhase, LogNumbered, LogIsLatest
<1>7. ViewsKept'
  BY <1>1, <1>4 DEF ViewsKept
<1>8. StreamIsOwed'
  <2> SUFFICES ASSUME NEW w \in Viewers, w \in Attached' PROVE Told(w)'
    BY ToldToEachThen
  <2>1. w \in Attached /\ Told(w)
    BY <1>1, ToldToEach DEF Attached
  <2>2. CASE w # v
    BY <1>1, <1>4, <2>1, <2>2, ToldStaysPending
  <2>3. CASE w = v
    <3>1. Stream(v)' = Stream(v)
      BY <1>1, <1>2, <1>4, MovedOn DEF Stream
    <3>2. Owed(v)' = Owed(v) /\ OnItsWay(v)' = OnItsWay(v)
      BY <1>1 DEF Owed, OnItsWay
    <3>3. Told(v)'
      BY <1>1, <2>1, <2>3, <3>1, <3>2 DEF Told
    <3> QED
      BY <2>3, <3>3
  <2> QED
    BY <2>2, <2>3
<1> QED
  BY <1>5, <1>6, <1>7, <1>8

LEMMA HubKept == HubInv /\ [HubStep]_hubVars => HubInv'
<1> SUFFICES ASSUME HubInv, [HubStep]_hubVars PROVE HubInv'
  OBVIOUS
<1>1. CASE StartJob \/ PublishEvent \/ Finish
  BY <1>1, StartJobKeeps, PublishEventKeeps, FinishKeeps
<1>2. CASE \E v \in Viewers :
             Send(v) \/ Subscribe(v) \/ Replayed(v) \/ Forward(v) \/ Unsubscribe(v)
  BY <1>2, SendKeeps, SubscribeKeeps, ReplayedKeeps, ForwardKeeps, UnsubscribeKeeps
<1>3. CASE UNCHANGED hubVars
  <2>1. /\ UNCHANGED <<running, gen, log, pc, pending, view, chan>>
        /\ UNCHANGED <<written, published, since, dropped>>
    BY <1>3 DEF hubVars, hub
  <2>2. HubTypeOK' /\ JobInPhase' /\ LogNumbered' /\ LogIsLatest'
    BY <2>1 DEF HubInv, HubTypeOK, JobInPhase, LogNumbered, LogIsLatest
  <2>3. ViewsKept'
    BY <2>1 DEF HubInv, ViewsKept
  <2>4. StreamIsOwed'
    <3> SUFFICES ASSUME NEW v \in Viewers, v \in Attached' PROVE Told(v)'
      BY ToldToEachThen
    <3> QED
      BY <2>1, ToldToEach, ToldStaysPending DEF HubInv, Attached
  <2> QED
    BY <2>2, <2>3, <2>4 DEF HubInv
<1> QED
  BY <1>1, <1>2, <1>3 DEF HubStep

-----------------------------------------------------------------------------
(* The page over it.                                                       *)

(* A start request that is under way was pressed for.                      *)
RequestsPressed ==
  requests["sent"] + requests["accepted"] + requests["refused"] <= presses

PageRest ==
  /\ ready \in BOOLEAN
  /\ frame \in [Viewers -> BOOLEAN \cup {Nothing}]
  /\ tab \in [DOMAIN Blank -> BOOLEAN]
  /\ conn \in Viewers \cup {Nothing}
  /\ read \in Nat
  /\ ended \subseteq 1 .. MaxJobs

RequestsOK ==
  /\ requests \in [{"sent", "accepted", "refused"} -> 0 .. MaxPresses]
  /\ presses \in 0 .. MaxPresses
  /\ RequestsPressed

PageInv == HubInv /\ PageRest /\ RequestsOK

LEMMA PageInvTypes == PageInv => PageTypeOK /\ StreamIsOwed
BY DEF PageInv, HubInv, PageRest, RequestsOK, PageTypeOK

LEMMA TabSet ==
  ASSUME NEW p \in [DOMAIN Blank -> BOOLEAN], NEW field \in DOMAIN Blank, NEW on \in BOOLEAN
  PROVE  [p EXCEPT ![field] = on] \in [DOMAIN Blank -> BOOLEAN]
OBVIOUS

LEMMA BlankFields ==
  DOMAIN Blank = {"loaded", "blocked", "running", "mayStart", "mayCancel", "spinning"}
BY DEF Blank

LEMMA BlankTyped == Blank \in [DOMAIN Blank -> BOOLEAN]
<1>1. \A field \in DOMAIN Blank : Blank[field] = FALSE
  <2>1. /\ Blank.loaded = FALSE /\ Blank.blocked = FALSE /\ Blank.running = FALSE
        /\ Blank.mayStart = FALSE /\ Blank.mayCancel = FALSE /\ Blank.spinning = FALSE
    BY DEF Blank
  <2> QED
    BY <2>1, BlankFields
<1>2. Blank = [field \in DOMAIN Blank |-> Blank[field]]
  BY DEF Blank
<1> QED
  BY <1>1, <1>2

LEMMA SetRunningTyped ==
  ASSUME NEW p \in [DOMAIN Blank -> BOOLEAN], NEW on \in BOOLEAN
  PROVE  SetRunning(p, on) \in [DOMAIN Blank -> BOOLEAN]
<1>1. StartEnabled(p, on) \in BOOLEAN
  BY Zenon DEF StartEnabled
<1> DEFINE q == [p EXCEPT !["mayStart"] = StartEnabled(p, on)]
           r == [q EXCEPT !["mayCancel"] = on]
<1>2. q \in [DOMAIN Blank -> BOOLEAN]
  BY <1>1, BlankFields, TabSet
<1>3. r \in [DOMAIN Blank -> BOOLEAN]
  BY <1>2, BlankFields, TabSet
<1>4. [r EXCEPT !["spinning"] = on] \in [DOMAIN Blank -> BOOLEAN]
  BY <1>3, BlankFields, TabSet
<1>5. SetRunning(p, on) = [r EXCEPT !["spinning"] = on]
  BY Zenon DEF SetRunning, Spin
<1> QED
  BY Zenon, <1>4, <1>5

LEMMA ShowsTyped ==
  ASSUME NEW p \in [DOMAIN Blank -> BOOLEAN]
  PROVE  /\ ShowsRun(p) \in [DOMAIN Blank -> BOOLEAN]
         /\ ShowsEnd(p) \in [DOMAIN Blank -> BOOLEAN]
<1>1. [p EXCEPT !["running"] = TRUE] \in [DOMAIN Blank -> BOOLEAN]
  BY BlankFields, TabSet
<1>2. [[p EXCEPT !["running"] = TRUE] EXCEPT !["spinning"] = TRUE] \in [DOMAIN Blank -> BOOLEAN]
  BY <1>1, BlankFields, TabSet
<1>3. ShowsRun(p) \in [DOMAIN Blank -> BOOLEAN]
  BY Zenon, <1>2 DEF ShowsRun, Spin
<1>4. SetRunning(p, FALSE) \in [DOMAIN Blank -> BOOLEAN]
  BY SetRunningTyped
<1>5. [SetRunning(p, FALSE) EXCEPT !["running"] = FALSE] \in [DOMAIN Blank -> BOOLEAN]
  BY <1>4, BlankFields, TabSet
<1> QED
  BY Zenon, <1>3, <1>5 DEF ShowsEnd

(* Whatever the page and the server do, the hub takes a step of its own or *)
(* none.                                                                   *)
LEMMA PageIsHub ==
  ASSUME PageRest, [PageNext]_allVars PROVE [HubStep]_hubVars
<1>1. CASE Accept \/ StartElsewhere
  BY <1>1 DEF Accept, StartElsewhere, HubStep
<1>2. CASE Refuse \/ SetUp \/ Load \/ Reads \/ ClickStart \/ StartAnswered \/ ClickCancel
  BY <1>2 DEF Refuse, SetUp, Load, Reads, ReadState, HandleEvent, ClickStart, StartAnswered,
              ClickCancel
<1>3. CASE Connects
  BY <1>3 DEF Connects, Connect, HubStep
<1>4. CASE Disconnect
  <2>1. conn \in Viewers /\ Unsubscribe(conn)
    BY <1>4 DEF Disconnect, PageRest
  <2> QED
    BY <2>1 DEF HubStep
<1>5. CASE JobSteps
  BY <1>5 DEF JobSteps, JobStep, HubStep
<1>6. CASE \E v \in Viewers : StreamSteps(v) \/ OtherTab(v)
  BY <1>6 DEF StreamSteps, Announce, Replays, Forwards, OtherTab, HubStep
<1>7. CASE UNCHANGED allVars
  BY <1>7 DEF allVars
<1> QED
  BY <1>1, <1>2, <1>3, <1>4, <1>5, <1>6, <1>7 DEF PageNext

LEMMA RequestsKept ==
  ASSUME RequestsOK, [PageNext]_allVars PROVE RequestsOK'
<1> DEFINE sent == requests["sent"]
           accepted == requests["accepted"]
           refused == requests["refused"]
<1>1. /\ sent \in Nat /\ accepted \in Nat /\ refused \in Nat
      /\ presses \in Nat /\ presses <= MaxPresses
      /\ sent + accepted + refused <= presses /\ MaxPresses \in Nat
  BY PageAssumption DEF RequestsOK, RequestsPressed
<1>2. requests \in [{"sent", "accepted", "refused"} -> 0 .. MaxPresses]
  BY DEF RequestsOK
<1>3. CASE Accept \/ Refuse
  <2>1. /\ sent > 0 /\ UNCHANGED presses
        /\ \/ Reply("accepted")
           \/ Reply("refused")
    BY <1>3 DEF Accept, Refuse
  <2>2. CASE Reply("accepted")
    <3>1. /\ requests'["sent"] = sent - 1 /\ requests'["accepted"] = accepted + 1
          /\ requests'["refused"] = refused
          /\ requests' \in [{"sent", "accepted", "refused"} -> Int]
      BY <1>1, <1>2, <2>2 DEF Reply
    <3>2. \A s \in {"sent", "accepted", "refused"} : requests'[s] \in 0 .. MaxPresses
      BY <1>1, <2>1, <3>1
    <3> QED
      BY <1>1, <2>1, <3>1, <3>2 DEF RequestsOK, RequestsPressed
  <2>3. CASE Reply("refused")
    <3>1. /\ requests'["sent"] = sent - 1 /\ requests'["accepted"] = accepted
          /\ requests'["refused"] = refused + 1
          /\ requests' \in [{"sent", "accepted", "refused"} -> Int]
      BY <1>1, <1>2, <2>3 DEF Reply
    <3>2. \A s \in {"sent", "accepted", "refused"} : requests'[s] \in 0 .. MaxPresses
      BY <1>1, <2>1, <3>1
    <3> QED
      BY <1>1, <2>1, <3>1, <3>2 DEF RequestsOK, RequestsPressed
  <2> QED
    BY <2>1, <2>2, <2>3
<1>4. CASE ClickStart
  <2>1. /\ requests'["sent"] = sent + 1 /\ requests'["accepted"] = accepted
        /\ requests'["refused"] = refused /\ presses' = presses + 1 /\ presses < MaxPresses
        /\ requests' \in [{"sent", "accepted", "refused"} -> Int]
    BY <1>1, <1>2, <1>4 DEF ClickStart
  <2>2. \A s \in {"sent", "accepted", "refused"} : requests'[s] \in 0 .. MaxPresses
    BY <1>1, <2>1
  <2> QED
    BY <1>1, <2>1, <2>2 DEF RequestsOK, RequestsPressed
<1>5. CASE StartAnswered
  <2>1. PICK s \in {"accepted", "refused"} :
          requests[s] > 0 /\ requests' = [requests EXCEPT ![s] = requests[s] - 1]
    BY <1>5 DEF StartAnswered
  <2>2. UNCHANGED presses
    BY <1>5 DEF StartAnswered
  <2>3. /\ requests'[s] = requests[s] - 1
        /\ \A t \in {"sent", "accepted", "refused"} \ {s} : requests'[t] = requests[t]
        /\ requests' \in [{"sent", "accepted", "refused"} -> Int]
    BY <1>2, <2>1
  <2>4. \A t \in {"sent", "accepted", "refused"} : requests'[t] \in 0 .. MaxPresses
    BY <1>1, <1>2, <2>1, <2>3
  <2>5. requests'["sent"] + requests'["accepted"] + requests'["refused"] <= presses
    BY <1>1, <2>1, <2>3
  <2> QED
    BY <1>1, <2>2, <2>3, <2>4, <2>5 DEF RequestsOK, RequestsPressed
<1>6. CASE UNCHANGED <<requests, presses>>
  BY <1>6 DEF RequestsOK, RequestsPressed
<1>7. \/ Accept \/ Refuse \/ ClickStart \/ StartAnswered
      \/ UNCHANGED <<requests, presses>>
  BY DEF PageNext, StartElsewhere, SetUp, Load, Connects, Connect, Disconnect, Reads,
         ReadState, HandleEvent, ClickCancel, JobSteps, StreamSteps, Announce, Replays,
         Forwards, OtherTab, pageVars, allVars
<1> QED
  BY <1>3, <1>4, <1>5, <1>6, <1>7

LEMMA PageRestKept ==
  ASSUME HubTypeOK, PageRest, [PageNext]_allVars PROVE PageRest'
<1>1. ready' \in BOOLEAN
  <2>1. ready' = ready \/ ready' = TRUE
    BY DEF PageNext, Accept, Refuse, ClickStart, StartAnswered, StartElsewhere, SetUp, Load,
           Connects, Connect, Disconnect, Reads, ReadState, HandleEvent, ClickCancel, JobSteps,
           StreamSteps, Announce, Replays, Forwards, OtherTab, pageVars, allVars
  <2> QED
    BY Zenon, <2>1 DEF PageRest
<1>2. frame' \in [Viewers -> BOOLEAN \cup {Nothing}]
  <2>1. frame' = frame \/ \E v \in Viewers : frame' = [frame EXCEPT ![v] = running]
    BY DEF PageNext, Accept, Refuse, ClickStart, StartAnswered, StartElsewhere, SetUp, Load,
           Connects, Connect, Disconnect, Reads, ReadState, HandleEvent, ClickCancel, JobSteps,
           StreamSteps, Announce, Replays, Forwards, OtherTab, stream, pageVars, allVars
  <2>2. running \in BOOLEAN /\ frame \in [Viewers -> BOOLEAN \cup {Nothing}]
    BY Zenon DEF HubTypeOK, PageRest
  <2> QED
    BY <2>1, <2>2
<1>3. conn' \in Viewers \cup {Nothing} /\ read' \in Nat
  <2>1. \/ conn' = conn /\ read' = read
        \/ conn' \in Viewers \cup {Nothing} /\ read' = 0
        \/ conn' = conn /\ read' = 1
        \/ conn' = conn /\ read' = read + 1
    BY DEF PageNext, Accept, Refuse, ClickStart, StartAnswered, StartElsewhere, SetUp, Load,
           Connects, Connect, Disconnect, Reads, ReadState, HandleEvent, ClickCancel, JobSteps,
           StreamSteps, Announce, Replays, Forwards, OtherTab, stream, pageVars, allVars
  <2> QED
    BY <2>1 DEF PageRest
<1>4. tab' \in [DOMAIN Blank -> BOOLEAN]
  <2>0. tab \in [DOMAIN Blank -> BOOLEAN]
    BY DEF PageRest
  <2>1. CASE Load
    <3> DEFINE p == [Blank EXCEPT !["loaded"] = TRUE]
               q == [p EXCEPT !["blocked"] = ~ready]
    <3>1. ready \in BOOLEAN /\ (~ready) \in BOOLEAN
      BY Zenon DEF PageRest
    <3>2. p \in [DOMAIN Blank -> BOOLEAN]
      BY BlankTyped, BlankFields, TabSet
    <3>3. q \in [DOMAIN Blank -> BOOLEAN]
      BY <3>1, <3>2, BlankFields, TabSet
    <3>4. [q EXCEPT !["mayStart"] = ready] \in [DOMAIN Blank -> BOOLEAN]
      BY <3>1, <3>3, BlankFields, TabSet
    <3>5. tab' = [q EXCEPT !["mayStart"] = ready]
      BY Zenon, <2>1 DEF Load
    <3> QED
      BY Zenon, <3>4, <3>5
  <2>2. CASE ReadState
    <3>1. frame[conn] \in BOOLEAN
      BY <2>2 DEF ReadState, PageRest
    <3>2. SetRunning(tab, frame[conn]) \in [DOMAIN Blank -> BOOLEAN]
      BY <2>0, <3>1, SetRunningTyped
    <3>3. [SetRunning(tab, frame[conn]) EXCEPT !["running"] = frame[conn]]
            \in [DOMAIN Blank -> BOOLEAN]
      BY <3>1, <3>2, BlankFields, TabSet
    <3> QED
      BY Zenon, <2>2, <3>3 DEF ReadState
  <2>3. CASE HandleEvent
    <3>1. tab' = ShowsEnd(tab) \/ tab' = ShowsRun(tab)
      BY Zenon, <2>3 DEF HandleEvent
    <3> QED
      BY Zenon, <2>0, <3>1, ShowsTyped
  <2>4. CASE StartAnswered
    <3>1. tab' = SetRunning(tab, TRUE) \/ tab' = tab
      BY <2>4 DEF StartAnswered
    <3>2. SetRunning(tab, TRUE) \in [DOMAIN Blank -> BOOLEAN]
      BY <2>0, SetRunningTyped
    <3> QED
      BY Zenon, <2>0, <3>1, <3>2
  <2>5. CASE ClickCancel
    <3>1. [tab EXCEPT !["mayCancel"] = FALSE] \in [DOMAIN Blank -> BOOLEAN]
      BY <2>0, BlankFields, TabSet
    <3> QED
      BY Zenon, <2>5, <3>1 DEF ClickCancel
  <2>6. CASE UNCHANGED tab
    BY <2>0, <2>6
  <2>7. Load \/ ReadState \/ HandleEvent \/ StartAnswered \/ ClickCancel \/ UNCHANGED tab
    BY DEF PageNext, Accept, Refuse, ClickStart, StartElsewhere, SetUp, Connects, Connect,
           Disconnect, Reads, JobSteps, StreamSteps, Announce, Replays, Forwards, OtherTab,
           pageVars, allVars
  <2> QED
    BY <2>1, <2>2, <2>3, <2>4, <2>5, <2>6, <2>7
<1>5. ended' \subseteq 1 .. MaxJobs
  <2>1. CASE HandleEvent
    <3>1. conn \in Viewers /\ read \in 1 .. Len(written[conn])
      BY <2>1 DEF HandleEvent, PageRest
    <3>2. written[conn] \in Seq(Event)
      BY <3>1 DEF HubTypeOK
    <3>3. written[conn][read].job \in 1 .. MaxJobs
      <4>1. written[conn][read] \in Event
        BY <3>1, <3>2, ElementOfSeq
      <4> QED
        BY <4>1 DEF Event
    <3>4. ended' \subseteq ended \cup {written[conn][read].job}
      BY <2>1 DEF HandleEvent
    <3> QED
      BY <3>3, <3>4 DEF PageRest
  <2>2. CASE UNCHANGED ended
    BY <2>2 DEF PageRest
  <2>3. HandleEvent \/ UNCHANGED ended
    BY DEF PageNext, Accept, Refuse, ClickStart, StartAnswered, StartElsewhere, SetUp, Load,
           Connects, Connect, Disconnect, Reads, ReadState, ClickCancel, JobSteps,
           StreamSteps, Announce, Replays, Forwards, OtherTab, pageVars, allVars
  <2> QED
    BY <2>1, <2>2, <2>3
<1> QED
  BY <1>1, <1>2, <1>3, <1>4, <1>5 DEF PageRest

LEMMA PageInitHolds == PageInit => PageInv
<1> SUFFICES ASSUME PageInit PROVE PageInv
  OBVIOUS
<1>1. HubInv
  BY HubInitHolds DEF PageInit
<1>2. ready \in BOOLEAN
  BY Zenon DEF PageInit
<1>3. tab \in [DOMAIN Blank -> BOOLEAN]
  BY BlankTyped DEF PageInit
<1>4. /\ frame \in [Viewers -> BOOLEAN \cup {Nothing}]
      /\ conn \in Viewers \cup {Nothing} /\ read \in Nat /\ ended \subseteq 1 .. MaxJobs
  BY DEF PageInit
<1>5. RequestsOK
  BY PageAssumption DEF PageInit, RequestsOK, RequestsPressed
<1> QED
  BY <1>1, <1>2, <1>3, <1>4, <1>5 DEF PageInv, PageRest

LEMMA PageInvAlways == PageSpec => []PageInv
<1>1. ASSUME PageInv, [PageNext]_allVars PROVE PageInv'
  <2>1. HubInv'
    BY <1>1, PageIsHub, HubKept DEF PageInv
  <2>2. PageRest' /\ RequestsOK'
    BY <1>1, PageRestKept, RequestsKept DEF PageInv, HubInv
  <2> QED
    BY <2>1, <2>2 DEF PageInv
<1> QED
  BY <1>1, PageInitHolds, PTL DEF PageSpec

(* The page, its connection and its requests stay within their types, and  *)
(* so do the job and its streams under it.                                 *)
THEOREM PageTypeCorrect == PageSpec => []PageTypeOK
BY PageInvAlways, PageInvTypes, PTL

(* handleStream's subscribe copies the log and registers the channel in    *)
(* one critical section, and publish sends outside of it to the channels   *)
(* it found there: whatever their order, each stream shows the log and     *)
(* everything published since once and in order, but for what a full       *)
(* channel dropped.                                                        *)
THEOREM StreamsAreOwed == PageSpec => []StreamIsOwed
BY PageInvAlways, PageInvTypes, PTL

=============================================================================
