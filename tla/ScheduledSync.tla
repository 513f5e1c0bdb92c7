--------------------------- MODULE ScheduledSync ----------------------------
(***************************************************************************)
(* Unattended syncs and the records they leave (runSync with --scheduled   *)
(* of cmd/opal-downloader/root.go, internal/statuslog, the banner of       *)
(* internal/gui/scheduled_status.go).  Task Scheduler starts the task each *)
(* day and at every logon, one instance at a time (MultipleInstancesPolicy *)
(* IgnoreNew); a run that finds today's success on file is turned away.    *)
(* Beside it one other process at a time syncs (the GUI, the CLI) or lists *)
(* courses, which all contend for the sync lock.                           *)
(*                                                                         *)
(* Time is a counter of instants, DayLength of them to a day; it passes at *)
(* any moment.  A status is told apart by its run: two runs never start at *)
(* the same nanosecond.  The lock is SyncLock's, abstracted to its holder. *)
(***************************************************************************)
EXTENDS Integers, Sequences

CONSTANTS
  DayLength,    \* instants in a day
  MaxTime,      \* bound on time
  Retries,      \* waits for the network (networkRetryDelays has 5)
  HistorySize,  \* maxHistoryEntries (30)
  MaxRuns,      \* bound on the runs of the task
  MaxRefused,   \* bound on the runs turned away
  MaxOthers,    \* bound on the other processes
  MaxKills,     \* bound on the processes killed
  None          \* no such run, record or file; a torn file reads the same

ASSUME ConstantsAssumption ==
  /\ {DayLength, HistorySize} \subseteq Nat \ {0}
  /\ {MaxTime, Retries, MaxRuns, MaxRefused, MaxOthers, MaxKills} \subseteq Nat

VARIABLES
  now,        \* the time
  task,       \* the scheduled run: its pc, id, runStart, retries and outcome
  other,      \* the other process: its pc, kind, id and outcome
  holder,     \* who holds the sync lock
  status,     \* last-scheduled-run.json
  history,    \* scheduled-run-history.jsonl
  lastSync,   \* last-sync.json: its outcome
  dismissed,  \* dismissed-scheduled-run.json: the run, None if there is none
  shown,      \* the run whose banner the open page shows
  click,      \* the status a dismiss request has compared and will write
  runs, refused, others, kills,  \* how many there have been
  \* history, for the properties only:
  done,       \* the days whose scheduled sync is on file as a success
  seen        \* the runs whose banner was shown

page == <<dismissed, shown, click, seen>>
records == <<status, history, lastSync, done>>
bounds == <<runs, refused, others, kills>>
vars == <<now, task, other, holder, records, page, bounds>>

Day(t) == t \div DayLength

Outcome == {"success", "partial", "failure", "skipped"}
Status == [run : 1 .. MaxRuns, at : 0 .. MaxTime, outcome : Outcome]

ASSUME NoneAssumption == None \notin Int \cup Status \cup Outcome

NoTask == [pc |-> "none", id |-> 0, start |-> 0, tries |-> 0, outcome |-> "failure"]
NoOther == [pc |-> "none", kind |-> "gui", outcome |-> "failure"]

TypeOK ==
  /\ now \in 0 .. MaxTime
  /\ task \in [pc : {"none", "preflight", "network", "locking", "syncing",
                     "reporting", "filing", "noting"},
               id : 0 .. MaxRuns, start : 0 .. MaxTime, tries : 0 .. Retries,
               outcome : Outcome]
  /\ other \in [pc : {"none", "locking", "working", "noting"},
                kind : {"gui", "cli", "list"}, outcome : Outcome]
  /\ holder \in {None, "task", "other"}
  /\ status \in Status \cup {None}
  /\ history \in Seq(1 .. MaxRuns) /\ Len(history) <= HistorySize
  /\ lastSync \in Outcome \cup {None}
  /\ dismissed \in 1 .. MaxRuns \cup {None}
  /\ shown \in 1 .. MaxRuns \cup {None}
  /\ click \in 1 .. MaxRuns \cup {None}
  /\ runs \in 0 .. MaxRuns /\ refused \in 0 .. MaxRefused
  /\ others \in 0 .. MaxOthers /\ kills \in 0 .. MaxKills
  /\ done \subseteq Int
  /\ seen \subseteq 1 .. MaxRuns

Init ==
  /\ now = 0
  /\ task = NoTask
  /\ other = NoOther
  /\ holder = None
  /\ status = None
  /\ history = <<>>
  /\ lastSync = None
  /\ dismissed = None
  /\ shown = None
  /\ click = None
  /\ runs = 0 /\ refused = 0 /\ others = 0 /\ kills = 0
  /\ done = {}
  /\ seen = {}

-----------------------------------------------------------------------------
(* The scheduled run.                                                      *)

(* alreadySucceededToday.                                                  *)
SucceededToday ==
  status # None /\ status.outcome = "success" /\ Day(status.at) = Day(now)

Begin(run) == [NoTask EXCEPT !.pc = "preflight", !.id = run, !.start = now]

(* Task Scheduler starts the task, unless an instance is running.          *)
Trigger ==
  /\ task.pc = "none"
  /\ ~SucceededToday
  /\ runs < MaxRuns
  /\ runs' = runs + 1
  /\ task' = Begin(runs + 1)
  /\ UNCHANGED <<now, other, holder, records, page, refused, others, kills>>

(* A run that is turned away returns before its writers are registered,    *)
(* and leaves nothing.  The mutant reports that it did nothing.            *)
ReportsTheRefusal == status' = [status EXCEPT !.at = now, !.outcome = "skipped"]
LeavesNoTrace == UNCHANGED status

TurnAway ==
  /\ task.pc = "none"
  /\ SucceededToday
  /\ refused < MaxRefused
  /\ refused' = refused + 1
  /\ LeavesNoTrace
  /\ UNCHANGED <<now, task, other, holder, history, lastSync, done, page>>
  /\ UNCHANGED <<runs, others, kills>>

Fails == task' = [task EXCEPT !.pc = "reporting", !.outcome = "failure", !.tries = 0]

(* EnsureTUFastPresent and config.Load.                                    *)
Preflight ==
  /\ task.pc = "preflight"
  /\ \/ task' = [task EXCEPT !.pc = "network"]
     \/ Fails
  /\ UNCHANGED <<now, other, holder, records, page, bounds>>

(* waitForNetworkBeforeScheduledRun: one check, then one after each wait;  *)
(* after the last, Describe checks once more and may find the connection   *)
(* back after all.  The mutant starts the waits over.                      *)
WaitsAgain == task.tries <= Retries
WaitsLeft == task.tries < Retries

AwaitNetwork ==
  /\ task.pc = "network"
  /\ \/ task' = [task EXCEPT !.pc = "locking", !.tries = 0]
     \/ /\ WaitsLeft
        /\ task' = [task EXCEPT !.tries = (@ + 1) % (Retries + 1)]
     \/ ~WaitsLeft /\ Fails
  /\ UNCHANGED <<now, other, holder, records, page, bounds>>

(* SyncCourses takes the lock, or reports who has it.                      *)
StartSync ==
  /\ task.pc = "locking"
  /\ IF holder = None
       THEN /\ holder' = "task"
            /\ task' = [task EXCEPT !.pc = "syncing"]
       ELSE /\ task' = [task EXCEPT !.pc = "reporting", !.outcome = "skipped"]
            /\ UNCHANGED holder
  /\ UNCHANGED <<now, other, records, page, bounds>>

EndSync ==
  /\ task.pc = "syncing"
  /\ \E outcome \in {"success", "partial", "failure"} :
       task' = [task EXCEPT !.pc = "reporting", !.outcome = outcome]
  /\ holder' = None
  /\ UNCHANGED <<now, other, records, page, bounds>>

(* buildScheduledRunStatus: the status is dated when the run began.  The   *)
(* mutant dates it when it is written.                                     *)
DatedAtItsEnd == [run |-> task.id, at |-> now, outcome |-> task.outcome]
StatusOfRun == [run |-> task.id, at |-> task.start, outcome |-> task.outcome]

(* The deferred writers, in reverse order: the status, its history (the    *)
(* toast changes nothing here), the last-sync record.                      *)
Report ==
  /\ task.pc = "reporting"
  /\ status' = StatusOfRun
  /\ done' = IF task.outcome = "success" THEN done \cup {Day(task.start)} ELSE done
  /\ task' = [task EXCEPT !.pc = "filing"]
  /\ UNCHANGED <<now, other, holder, history, lastSync, page, bounds>>

(* AppendHistory: the lines of the file, the new one, the last of them all.*)
Trimmed(lines) ==
  IF Len(lines) > HistorySize
  THEN SubSeq(lines, Len(lines) - HistorySize + 1, Len(lines)) ELSE lines

FileHistory ==
  /\ task.pc = "filing"
  /\ history' = Trimmed(Append(history, task.id))
  /\ task' = [task EXCEPT !.pc = "noting"]
  /\ UNCHANGED <<now, other, holder, status, lastSync, done, page, bounds>>

NoteSync ==
  /\ task.pc = "noting"
  /\ lastSync' = task.outcome
  /\ task' = NoTask
  /\ UNCHANGED <<now, other, holder, status, history, done, page, bounds>>

-----------------------------------------------------------------------------
(* The other process: "Sync now" of the GUI, `sync` or `list`.  The GUI's  *)
(* own list takes no lock and leaves no record.                            *)
StartOther ==
  /\ other.pc = "none"
  /\ others < MaxOthers
  /\ others' = others + 1
  /\ \E kind \in {"gui", "cli", "list"} :
       other' = [NoOther EXCEPT !.pc = "locking", !.kind = kind]
  /\ UNCHANGED <<now, task, holder, records, page, runs, refused, kills>>

(* A refused GUI sync is a failure (buildGUISyncStatus), a refused CLI     *)
(* sync was skipped, a refused list just ends.                             *)
Refused ==
  CASE other.kind = "gui" -> [other EXCEPT !.pc = "noting", !.outcome = "failure"]
    [] other.kind = "cli" -> [other EXCEPT !.pc = "noting", !.outcome = "skipped"]
    [] other.kind = "list" -> NoOther

LockOther ==
  /\ other.pc = "locking"
  /\ IF holder = None
       THEN /\ holder' = "other"
            /\ other' = [other EXCEPT !.pc = "working"]
       ELSE /\ other' = Refused
            /\ UNCHANGED holder
  /\ UNCHANGED <<now, task, records, page, bounds>>

(* The crawl ends or is cancelled.                                         *)
EndOther ==
  /\ other.pc = "working"
  /\ holder' = None
  /\ \/ /\ other.kind = "list"
        /\ other' = NoOther
     \/ /\ other.kind # "list"
        /\ \E outcome \in {"success", "partial", "failure"} :
             other' = [other EXCEPT !.pc = "noting", !.outcome = outcome]
  /\ UNCHANGED <<now, task, records, page, bounds>>

NoteOther ==
  /\ other.pc = "noting"
  /\ lastSync' = other.outcome
  /\ other' = NoOther
  /\ UNCHANGED <<now, task, holder, status, history, done, page, bounds>>

-----------------------------------------------------------------------------
(* The banner.                                                             *)

(* handleScheduledStatus: successes and skips show nothing.                *)
Banner ==
  IF status = None \/ status.outcome \in {"success", "skipped"}
     \/ dismissed = status.run
  THEN None ELSE status.run

(* A page is loaded, and renders the banner the handler answers with.      *)
LoadPage ==
  /\ click = None
  /\ shown' = Banner
  /\ seen' = seen \cup ({Banner} \ {None})
  /\ UNCHANGED <<now, task, other, holder, records, dismissed, click, bounds>>

(* handleScheduledStatusDismiss: what the page showed is compared with the *)
(* file, and what was read is written.  The mutant compares nothing.       *)
AnyStatus == status # None
IsOnFile == status # None /\ status.run = shown

Dismiss ==
  /\ shown # None
  /\ shown' = None
  /\ click' = IF IsOnFile THEN status.run ELSE None
  /\ UNCHANGED <<now, task, other, holder, records, dismissed, seen, bounds>>

WriteDismissal ==
  /\ click # None
  /\ dismissed' = click
  /\ click' = None
  /\ UNCHANGED <<now, task, other, holder, records, shown, seen, bounds>>

-----------------------------------------------------------------------------
(* Files are truncated and written in place: a kill leaves the one being   *)
(* written as it was, torn, or complete.  A torn history keeps the lines   *)
(* that came before the cut.                                               *)
Torn ==
  CASE task.pc = "reporting" ->
         /\ status' \in {status, None, StatusOfRun}
         /\ done' = IF status' = StatusOfRun /\ task.outcome = "success"
                    THEN done \cup {Day(task.start)} ELSE done
         /\ UNCHANGED <<history, lastSync>>
    [] task.pc = "filing" ->
         /\ \E lines \in {history, Trimmed(Append(history, task.id))} :
              \E n \in 0 .. Len(lines) : history' = SubSeq(lines, 1, n)
         /\ UNCHANGED <<status, done, lastSync>>
    [] task.pc = "noting" ->
         /\ lastSync' \in {lastSync, None}
         /\ UNCHANGED <<status, history, done>>
    [] OTHER -> UNCHANGED <<status, history, done, lastSync>>

(* Logoff, shutdown or a crash ends the run; its lock is reclaimed (see    *)
(* SyncLock).                                                              *)
KillTask ==
  /\ task.pc # "none"
  /\ kills < MaxKills
  /\ kills' = kills + 1
  /\ Torn
  /\ task' = NoTask
  /\ holder' = IF holder = "task" THEN None ELSE holder
  /\ UNCHANGED <<now, other, page, runs, refused, others>>

KillOther ==
  /\ other.pc # "none"
  /\ kills < MaxKills
  /\ kills' = kills + 1
  /\ lastSync' \in IF other.pc = "noting" THEN {lastSync, None} ELSE {lastSync}
  /\ other' = NoOther
  /\ holder' = IF holder = "other" THEN None ELSE holder
  /\ UNCHANGED <<now, task, status, history, done, page, runs, refused, others>>

Tick ==
  /\ now < MaxTime
  /\ now' = now + 1
  /\ UNCHANGED <<task, other, holder, records, page, bounds>>

RunStep ==
  \/ Preflight \/ AwaitNetwork \/ StartSync \/ EndSync
  \/ Report \/ FileHistory \/ NoteSync

Next ==
  \/ Trigger \/ TurnAway \/ RunStep
  \/ StartOther \/ LockOther \/ EndOther \/ NoteOther
  \/ LoadPage \/ Dismiss \/ WriteDismissal
  \/ KillTask \/ KillOther \/ Tick

Spec == Init /\ [][Next]_vars

(* A run's calls return: its crawl is bounded by time limits of its own.   *)
FairSpec == Spec /\ WF_vars(RunStep)

-----------------------------------------------------------------------------
(* Properties.                                                             *)

(* The task fires at every logon, but OPAL is crawled at most once on a    *)
(* day that has had its scheduled success, whatever other runs, skips and  *)
(* kills came in between (alreadySucceededToday).                          *)
OneSyncADay == task.pc = "syncing" => Day(task.start) \notin done

(* No day is lost: a run is turned away only on a day whose own scheduled  *)
(* sync succeeded - not for one that began the day before, failed, or was  *)
(* skipped (errAlreadySucceededToday).                                     *)
TurnedAwayOnlyIfDone ==
  [][refused' # refused => Day(now) \in done]_vars

(* A failure is dismissed only after a page has shown it, even when a run  *)
(* reports between the page's load and the click, or between the handler's *)
(* comparison and its write (handleScheduledStatusDismiss).                *)
DismissedWasSeen == dismissed # None => dismissed \in seen

(* A run that was started and not turned away ends with its status and the *)
(* last-sync record written, offline or locked out as may be (runSync's    *)
(* deferred writers).                                                      *)
EveryRunReports ==
  \A r \in 1 .. MaxRuns :
    task.id = r ~> /\ task.id # r
                   /\ kills > 0 \/ (status # None /\ status.run >= r)

=============================================================================
