-------------------------- MODULE TaskRegistration --------------------------
(***************************************************************************)
(* The one Task Scheduler task of the daily sync (internal/scheduler) and  *)
(* all who write it: the form of the schedule page, which every copy of    *)
(* the program may serve, a page view that repairs a doomed registration   *)
(* (internal/gui/schedule.go, schedule_page.go), `schedule enable` and     *)
(* `disable` (runSchedule), and the user in Task Scheduler's own window.   *)
(* The task is re-read for each page and nothing locks it.                 *)
(***************************************************************************)
EXTENDS Naturals, FiniteSets

CONSTANTS
  Copies,        \* the program's copies on this machine
  Stable,        \* those outside build caches, temp folders, git checkouts
  Times,         \* times of day
  DefaultTime,   \* 06:00
  Requests,      \* pages being served and commands being run at a time
  None,          \* no task, no page, no time that can be read, no command
  MaxRequests, MaxEdits, MaxRemovals   \* bounds

ASSUME CopiesAssumption == Stable \subseteq Copies /\ None \notin Copies
ASSUME TimesAssumption == DefaultTime \in Times /\ None \notin Times
ASSUME BoundsAssumption == {MaxRequests, MaxEdits, MaxRemovals} \subseteq Nat

VARIABLES
  task,      \* the registered task
  present,   \* the copies whose file exists
  req,       \* the requests in flight
  page,      \* what the page answered last shows; None once that changed
  wanted,    \* what was last asked for: None, or a time
  raced,     \* a change came between another request's query and its repair
  asked, edits, removals   \* how many of each so far

counters == <<asked, edits, removals>>
vars == <<task, present, req, page, wanted, raced, counters>>

Tasks == [exe : Copies \cup {None}, time : Times \cup {None}]

ASSUME NoneAssumption == None \notin Requests \cup Tasks

(* What is asked: a page view, the form or the command, on or off.         *)
Kinds == {"view", "form on", "form off", "command on", "command off"}

Idle == [pc |-> "idle", kind |-> "view", exe |-> None, at |-> None,
         info |-> None, failed |-> FALSE]

Reqs ==
  [pc : {"idle", "registering", "querying", "repairing"}, kind : Kinds,
   exe : Copies \cup {None}, at : Times \cup {None},
   info : Tasks \cup {None}, failed : BOOLEAN]

Pages ==
  [enabled : BOOLEAN, time : Times \cup {None},
   verdict : {"fine", "repaired", "doomed", "unknown", "refused"}]

TypeOK ==
  /\ task \in Tasks \cup {None}
  /\ present \subseteq Copies
  /\ req \in [Requests -> Reqs]
  /\ page \in Pages \cup {None}
  /\ raced \in BOOLEAN
  /\ wanted \in Times \cup {None}
  /\ asked \in 0 .. MaxRequests
  /\ edits \in 0 .. MaxEdits
  /\ removals \in 0 .. MaxRemovals

(* A task may date from a version that registered any copy.                *)
Init ==
  /\ task \in [exe : Copies, time : Times] \cup {None}
  /\ present = Copies
  /\ req = [r \in Requests |-> Idle]
  /\ page = None
  /\ wanted = IF task = None THEN None ELSE task.time
  /\ raced = FALSE
  /\ asked = 0 /\ edits = 0 /\ removals = 0

-----------------------------------------------------------------------------
(* scheduleIsDoomed: the task's program is gone, or will be.  An unknown   *)
(* one (no command could be read) is neither.  The mutant looks only for   *)
(* the file.                                                               *)
IsMissing(t) == t.exe # None /\ t.exe \notin present
Doomed(t) == t.exe # None /\ (t.exe \notin present \/ t.exe \notin Stable)

(* A change of the task by r, or by nobody here (None).                    *)
Races(r) == \E q \in Requests \ {r} : req[q].pc = "repairing"

Change(r, t) ==
  /\ task' = t
  /\ raced' = (raced \/ Races(r))

Leave == UNCHANGED <<task, raced>>

-----------------------------------------------------------------------------
(* A request arrives at a copy that runs.  Its time is valid, or not.      *)
Ask(r) ==
  /\ req[r].pc = "idle"
  /\ asked < MaxRequests
  /\ asked' = asked + 1
  /\ \E kind \in Kinds, exe \in present, at \in Times \cup {None} :
       /\ kind \notin {"form on", "command on"} => at = None
       /\ req' = [req EXCEPT ![r] =
            [Idle EXCEPT !.pc = IF kind = "view" THEN "querying" ELSE "registering",
                         !.kind = kind, !.exe = exe, !.at = at]]
  /\ UNCHANGED <<task, present, page, wanted, raced, edits, removals>>

(* What happens next: a form answers with the page, a command is done.     *)
Continue(r, failed) ==
  req' = [req EXCEPT ![r] =
            IF @.kind \in {"form on", "form off"}
            THEN [@ EXCEPT !.pc = "querying", !.failed = failed] ELSE Idle]

(* applyScheduleRegistration and runSchedule: a bad time, no readable      *)
(* configuration (the form alone looks) or a copy that will not stay is    *)
(* refused, and schtasks may fail.                                         *)
Register(r) ==
  /\ req[r].pc = "registering"
  /\ req[r].kind \in {"form on", "command on"}
  /\ \/ /\ req[r].at # None
        /\ req[r].exe \in Stable
        /\ Change(r, [exe |-> req[r].exe, time |-> req[r].at])
        /\ wanted' = req[r].at
        /\ Continue(r, FALSE)
        /\ page' = None
     \/ /\ Leave
        /\ Continue(r, TRUE)
        /\ UNCHANGED <<wanted, page>>
  /\ UNCHANGED <<present, counters>>

(* Disable: a task that is not there is no error.                          *)
Unregister(r) ==
  /\ req[r].pc = "registering"
  /\ req[r].kind \in {"form off", "command off"}
  /\ \/ /\ Change(r, None)
        /\ wanted' = None
        /\ Continue(r, FALSE)
        /\ page' = None
     \/ /\ Leave
        /\ Continue(r, TRUE)
        /\ UNCHANGED <<wanted, page>>
  /\ UNCHANGED <<present, counters>>

(* renderSchedulePage: an error of the form goes before what the query     *)
(* found, and the form keeps the time that was typed.                      *)
Shown(r, enabled, time, verdict) ==
  IF req[r].failed
  THEN [enabled |-> enabled, time |-> req[r].at, verdict |-> "refused"]
  ELSE [enabled |-> enabled, time |-> time, verdict |-> verdict]

Answer(r, shown) ==
  /\ page' = shown
  /\ req' = [req EXCEPT ![r] = Idle]

(* The time a page shows, and a repair registers, for a trigger that was   *)
(* edited into a form that cannot be read.                                 *)
TimeOf(t) == IF t.time = None THEN DefaultTime ELSE t.time

(* applyScheduleStatus: schtasks fails, there is no task, it is sound, or  *)
(* it is doomed and this copy, if it will stay itself, takes its place.    *)
Query(r) ==
  /\ req[r].pc = "querying"
  /\ \/ Answer(r, Shown(r, FALSE, DefaultTime, "unknown"))
     \/ task = None /\ Answer(r, Shown(r, FALSE, DefaultTime, "fine"))
     \/ /\ task # None /\ ~Doomed(task)
        /\ Answer(r, Shown(r, TRUE, TimeOf(task), "fine"))
     \/ /\ task # None /\ Doomed(task) /\ req[r].exe \notin Stable
        /\ Answer(r, Shown(r, TRUE, TimeOf(task), "doomed"))
     \/ /\ task # None /\ Doomed(task) /\ req[r].exe \in Stable
        /\ req' = [req EXCEPT ![r].pc = "repairing", ![r].info = task]
        /\ UNCHANGED page
  /\ UNCHANGED <<task, present, wanted, raced, counters>>

(* repairDoomedSchedule: the trigger time is kept.  The mutant takes the   *)
(* default.                                                                *)
RepairedAnew(r) == [exe |-> req[r].exe, time |-> DefaultTime]
Repaired(r) == [exe |-> req[r].exe, time |-> TimeOf(req[r].info)]

Repair(r) ==
  /\ req[r].pc = "repairing"
  /\ LET time == TimeOf(req[r].info)
     IN  \/ /\ Change(r, Repaired(r))
            /\ Answer(r, Shown(r, TRUE, time, "repaired"))
         \/ /\ Leave
            /\ Answer(r, IF task = req[r].info
                         THEN Shown(r, TRUE, time, "doomed") ELSE None)
  /\ UNCHANGED <<present, wanted, counters>>

-----------------------------------------------------------------------------
(* In Task Scheduler's window the task can be removed, or its trigger set  *)
(* to something else or to what parseStartTime cannot read.                *)
Edit ==
  /\ task # None
  /\ edits < MaxEdits
  /\ edits' = edits + 1
  /\ \/ Change(None, None) /\ wanted' = None
     \/ \E time \in Times \cup {None} :
          /\ Change(None, [task EXCEPT !.time = time])
          /\ wanted' = IF time = None THEN DefaultTime ELSE time
     \/ Change(None, [task EXCEPT !.exe = None]) /\ UNCHANGED wanted
  /\ page' = None
  /\ UNCHANGED <<present, req, asked, removals>>

(* A cache is trimmed, a checkout cleaned, a program uninstalled; a copy   *)
(* that runs stays.                                                        *)
RemoveCopy(c) ==
  /\ c \in present
  /\ \A r \in Requests : req[r].exe # c
  /\ removals < MaxRemovals
  /\ removals' = removals + 1
  /\ present' = present \ {c}
  /\ page' = None
  /\ UNCHANGED <<task, req, wanted, raced, asked, edits>>

Next ==
  \/ \E r \in Requests :
       Ask(r) \/ Register(r) \/ Unregister(r) \/ Query(r) \/ Repair(r)
  \/ Edit
  \/ \E c \in Copies : RemoveCopy(c)

Spec == Init /\ [][Next]_vars

-----------------------------------------------------------------------------
(* Properties.                                                             *)

(* The task runs a copy that is there and will stay.                       *)
Works(t) == t.exe \in Stable \cap present

(* Automatic sync is on exactly if the user last turned it on, and at the  *)
(* time then chosen: no view, repair or refused form turns it on, off or   *)
(* to another time - unless it was changed while another page, having read *)
(* it, was about to repair it (applyScheduleRegistration: "no other code   *)
(* path turns scheduling on").                                             *)
AskedIsRegistered ==
  ~raced =>
    /\ (task = None) <=> (wanted = None)
    /\ task # None => task.time \in {wanted, None}

(* Until somebody changes something, the page tells the truth: on if the   *)
(* task is there, at its time, with a warning if the program it runs will  *)
(* not stay and with none if it will (applyScheduleStatus,                 *)
(* applyScheduleForm).                                                     *)
PageIsTrue ==
  page # None =>
    /\ page.verdict \in {"fine", "repaired"} =>
         /\ page.enabled <=> (task # None)
         /\ task # None => /\ page.time = TimeOf(task)
                           /\ Works(task) \/ task.exe = None
    /\ page.verdict = "doomed" => task # None /\ ~Works(task)

=============================================================================
