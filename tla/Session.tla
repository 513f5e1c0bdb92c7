------------------------------- MODULE Session -------------------------------
(***************************************************************************)
(* How a run gets its browser and its OPAL session, and loses them again   *)
(* (scraper/session.go, scraper.go, session_lock_windows.go; gui/sync.go,  *)
(* gui/settings.go and the CLI's commands as callers).  A run owns one     *)
(* scraper, whose fields its own goroutine sets while a cancellation's     *)
(* goroutine clears them: each read and each write is a critical section   *)
(* of its own, the work between them is not.  Processes share the saved    *)
(* session, the login profile, the named mutex and sync.lock, which is     *)
(* here what SyncLock promises: held by one run, freed by a crash.         *)
(***************************************************************************)
EXTENDS Naturals, FiniteSets

CONSTANTS
  Runs,        \* calls of handleStart, handleDiscoverCourses, runList, runSync, runLogin
  Processes, Process,  \* the process a run belongs to; the CLI has one per run
  Gui,         \* the GUI's process
  Kinds,       \* what a run may be: "sync", "list", "login" or "lookup" (names of courses only)
  Threads,     \* the OS threads of a process
  Cancels,     \* cancellations there will be: /sync/cancel or Ctrl-C
  MaxFaults,
  Nobody

ASSUME SessionAssumption ==
  /\ Process \in [Runs -> Processes] /\ Gui \in Processes
  /\ Kinds \in [Runs -> SUBSET {"sync", "list", "login", "lookup"}]
  /\ \A r, q \in Runs : r # q /\ Process[r] = Process[q] => Process[r] = Gui
  /\ IsFiniteSet(Runs) /\ IsFiniteSet(Cancels) /\ Runs \cap Cancels = {}
  /\ Nobody \notin Runs \cup Processes
  /\ MaxFaults \in Nat

VARIABLES
  kind,      \* what a run is
  at,        \* where a run's goroutine is
  goal,      \* what launchBrowser is called for
  pw, win, page,     \* the scraper's fields: driver, context (or browser), page
  drivers, windows,  \* what is really open, by run
  opened,    \* the context launchBrowser has just created
  closing,   \* who is inside closeBrowser or Close, on whose scraper
  after,     \* where a run goes on when that, or the release, is done
  mutex,     \* its owning thread and how often it is held
  saved,     \* the session file
  syncLock,
  cancelled, \* runs whose context is cancelled or that were interrupted
  running,   \* the GUI's job, until job.finish
  panicked,
  faults,
  disturbed  \* history: runs whose check of the saved session met an error

vars == <<kind, at, goal, pw, win, page, drivers, windows, opened, closing, after, mutex, saved,
          syncLock, cancelled, running, panicked, faults, disturbed>>

fields == <<pw, win, page>>
open == <<drivers, windows, opened>>
shared == <<mutex, saved, syncLock>>
history == <<kind, cancelled, running, panicked, faults, disturbed>>

Closers == Runs \cup Cancels
NotClosing == [at |-> "none", of |-> Nobody, got |-> 0, all |-> FALSE]
Free == [process |-> Nobody, thread |-> Nobody, depth |-> 0]

IsJob(r) == Process[r] = Gui /\ kind[r] \in {"sync", "list"}
TakesLock(r) == Process[r] # Gui \/ kind[r] = "sync"
Forced(r) == kind[r] = "login"

Init ==
  /\ kind \in [Runs -> UNION {Kinds[r] : r \in Runs}] /\ \A r \in Runs : kind[r] \in Kinds[r]
  /\ at = [r \in Runs |-> "idle"] /\ goal = [r \in Runs |-> "reuse"]
  /\ pw = [r \in Runs |-> 0] /\ win = [r \in Runs |-> 0] /\ page = [r \in Runs |-> 0]
  /\ drivers = [r \in Runs |-> {}] /\ windows = [r \in Runs |-> {}]
  /\ opened = [r \in Runs |-> 0]
  /\ closing = [c \in Closers |-> NotClosing] /\ after = [r \in Runs |-> "over"]
  /\ mutex = Free
  /\ saved \in {"none", "valid", "expired"}
  /\ syncLock = Nobody
  /\ cancelled = {} /\ running = Nobody /\ panicked = FALSE
  /\ faults = 0 /\ disturbed = {}

\* A driver and its windows have addresses; what nothing points to is reused.
Addresses == Nat \ {0}

Used(r) == drivers[r] \cup {v.id : v \in windows[r]} \cup {pw[r], win[r], page[r], opened[r]}
             \cup {closing[c].got : c \in {d \in Closers : closing[d].of = r}}
New(r) == CHOOSE n \in 1..(Cardinality(Used(r)) + 1) : n \notin Used(r)

Alive(r, w) == \E v \in windows[r] : v.id = w

Go(r, stage) == at' = [at EXCEPT ![r] = stage]

-----------------------------------------------------------------------------
(* closeBrowser, and Close, which stops the driver as well *)

StartClosing(c, r, all) == closing' = [closing EXCEPT ![c] = [at |-> "page", of |-> r, got |-> 0, all |-> all]]

\* The run's own goroutine closes, then goes on.
CloseThen(r, all, next) ==
  /\ Go(r, "closing")
  /\ StartClosing(r, r, all)
  /\ after' = [after EXCEPT ![r] = next]

CloseEnds(c) ==
  /\ closing' = [closing EXCEPT ![c] = NotClosing]
  /\ IF c \in Runs THEN Go(c, after[c]) /\ after' = [after EXCEPT ![c] = "over"]
     ELSE UNCHANGED <<at, after>>

CloseGoesOn(c, next, got) ==
  closing' = [closing EXCEPT ![c].at = next, ![c].got = got] /\ UNCHANGED <<at, after>>

\* setPage(nil), then getContext.
ReadWindow(c) ==
  LET r == closing[c].of IN
  /\ closing[c].at = "page"
  /\ page' = [page EXCEPT ![r] = 0]
  /\ IF win[r] # 0 THEN CloseGoesOn(c, "drop", win[r])
     ELSE IF closing[c].all THEN CloseGoesOn(c, "driver", 0) ELSE CloseEnds(c)
  /\ UNCHANGED <<goal, pw, win, open, shared, history>>

\* setContext(nil) and Close of what was read.
DropWindow(c) ==
  LET r == closing[c].of IN
  /\ closing[c].at = "drop"
  /\ win' = [win EXCEPT ![r] = 0]
  /\ windows' = [windows EXCEPT ![r] = {v \in @ : v.id # closing[c].got}]
  /\ IF closing[c].all THEN CloseGoesOn(c, "driver", 0) ELSE CloseEnds(c)
  /\ UNCHANGED <<goal, pw, page, drivers, opened, shared, history>>

ReadDriver(c) ==
  LET r == closing[c].of IN
  /\ closing[c].at = "driver"
  /\ IF pw[r] # 0 THEN CloseGoesOn(c, "stop", pw[r]) ELSE CloseEnds(c)
  /\ UNCHANGED <<goal, fields, open, shared, history>>

\* setPw(nil) and Stop.
StopDriver(c) ==
  LET r == closing[c].of IN
  /\ closing[c].at = "stop"
  /\ pw' = [pw EXCEPT ![r] = 0]
  /\ drivers' = [drivers EXCEPT ![r] = @ \ {closing[c].got}]
  /\ windows' = [windows EXCEPT ![r] = {v \in @ : v.driver # closing[c].got}]
  /\ CloseEnds(c)
  /\ UNCHANGED <<goal, win, page, opened, shared, history>>

CloseStep(c) == ReadWindow(c) \/ DropWindow(c) \/ ReadDriver(c) \/ StopDriver(c)

-----------------------------------------------------------------------------
(* The callers *)

\* One job at a time; a lookup and a CLI command are nobody's job.  A run that
\* finds sync.lock held does not begin.
Start(r) ==
  /\ at[r] = "idle"
  /\ IsJob(r) => running = Nobody
  /\ TakesLock(r) => syncLock = Nobody
  /\ Go(r, "queue")
  /\ running' = IF IsJob(r) THEN r ELSE running
  /\ syncLock' = IF TakesLock(r) THEN r ELSE syncLock
  /\ UNCHANGED <<goal, fields, open, closing, after, mutex, saved, cancelled, panicked,
                 faults, disturbed, kind>>

\* Close from another goroutine; the context of a job is cancelled first.
Cancel(c, r) ==
  /\ closing[c] = NotClosing
  /\ at[r] \notin {"idle", "over"}
  /\ IF Process[r] = Gui THEN running = r ELSE r \notin cancelled
  /\ cancelled' = cancelled \cup {r}
  /\ StartClosing(c, r, TRUE)
  /\ UNCHANGED <<at, goal, fields, open, after, shared, running, panicked, faults, disturbed, kind>>

\* runJob's deferred calls: the job is over before its browser is closed.  A
\* sync gives sync.lock back first, a CLI list or login last.
Leave(r) ==
  /\ at[r] = "leave"
  /\ CloseThen(r, TRUE, "exit")
  /\ running' = IF running = r THEN Nobody ELSE running
  /\ syncLock' = IF syncLock = r /\ kind[r] = "sync" THEN Nobody ELSE syncLock
  /\ UNCHANGED <<goal, fields, open, mutex, saved, cancelled, panicked, faults, disturbed, kind>>

\* What ends with a process.  Windows gives up a dead process's mutex.
Ends(p) ==
  /\ at' = [r \in Runs |-> IF Process[r] = p THEN "over" ELSE at[r]]
  /\ pw' = [r \in Runs |-> IF Process[r] = p THEN 0 ELSE pw[r]]
  /\ win' = [r \in Runs |-> IF Process[r] = p THEN 0 ELSE win[r]]
  /\ page' = [r \in Runs |-> IF Process[r] = p THEN 0 ELSE page[r]]
  /\ drivers' = [r \in Runs |-> IF Process[r] = p THEN {} ELSE drivers[r]]
  /\ windows' = [r \in Runs |-> IF Process[r] = p THEN {} ELSE windows[r]]
  /\ opened' = [r \in Runs |-> IF Process[r] = p THEN 0 ELSE opened[r]]
  /\ closing' = [c \in Closers |-> IF closing[c] # NotClosing /\ Process[closing[c].of] = p
                                   THEN NotClosing ELSE closing[c]]
  /\ mutex' = IF mutex.process = p THEN Free ELSE mutex
  /\ syncLock' = IF syncLock # Nobody /\ Process[syncLock] = p THEN Nobody ELSE syncLock
  /\ running' = IF p = Gui THEN Nobody ELSE running

Exit(r) ==
  /\ at[r] = "exit"
  /\ \/ /\ Process[r] = Gui
        /\ Go(r, "over")
        /\ UNCHANGED <<fields, drivers, windows, opened, closing, mutex, syncLock, running>>
     \/ Process[r] # Gui /\ Ends(Process[r])
  /\ UNCHANGED <<goal, after, saved, cancelled, panicked, faults, disturbed, kind>>

-----------------------------------------------------------------------------
(* The mutex of session establishment *)

\* A thread that owns the mutex gets it again.  The mutant asks for nothing.
GrantedToAll(r, th) == TRUE
Granted(r, th) == mutex = Free \/ (mutex.process = Process[r] /\ mutex.thread = th)

Acquire(r, th) ==
  /\ at[r] = "queue"
  /\ ~ (IsJob(r) /\ r \in cancelled)
  /\ Granted(r, th)
  /\ mutex' = [process |-> Process[r], thread |-> th, depth |-> mutex.depth + 1]
  /\ CloseThen(r, FALSE, "check")
  /\ UNCHANGED <<goal, fields, open, saved, syncLock, history>>

\* Offline, cancelled before it began, or six minutes of waiting.
GivesUp(r) ==
  /\ at[r] = "queue"
  /\ Go(r, "leave")
  /\ UNCHANGED <<goal, fields, open, closing, after, shared, history>>

\* ReleaseMutex counts down.
Released == IF mutex.depth = 1 THEN Free ELSE [mutex EXCEPT !.depth = @ - 1]

\* The deferred release, on whichever thread the goroutine now is: on another
\* than the owner ReleaseMutex fails, and nobody looks.
Release(r, th) ==
  /\ at[r] = "release"
  /\ Go(r, after[r])
  /\ mutex' = IF mutex.process = Process[r] /\ mutex.thread = th
              THEN Released ELSE mutex
  /\ after' = [after EXCEPT ![r] = "over"]
  /\ UNCHANGED <<goal, fields, open, closing, saved, syncLock, history>>

ReleaseThen(r, next) ==
  /\ Go(r, "release")
  /\ after' = [after EXCEPT ![r] = next]
  /\ goal' = [goal EXCEPT ![r] = "reuse"]

-----------------------------------------------------------------------------
(* launchBrowser *)

\* The mutant gets the test of the file backwards.
TriesMissing(r) == ~Forced(r) /\ saved = "none"
TriesSaved(r) == ~Forced(r) /\ saved # "none"

Check(r) ==
  /\ at[r] = "check"
  /\ goal' = [goal EXCEPT ![r] = IF TriesSaved(r) THEN "reuse" ELSE "login"]
  /\ Go(r, "driver")
  /\ UNCHANGED <<fields, open, closing, after, shared, history>>

LaunchFor(r, purpose) ==
  CloseThen(r, FALSE, "driver") /\ goal' = [goal EXCEPT ![r] = purpose]

\* An error while the saved session is tried leads to a login; any other ends
\* the run.
Fails(r) ==
  IF goal[r] = "reuse"
  THEN LaunchFor(r, "login") /\ disturbed' = disturbed \cup {r}
  ELSE ReleaseThen(r, "leave") /\ UNCHANGED <<closing, disturbed>>

\* getPw, Run and setPw when there is none.  The mutant always runs a new one.
AlwaysNeedsDriver(r) == TRUE
NeedsDriver(r) == pw[r] = 0

Driver(r) ==
  /\ at[r] = "driver"
  /\ Go(r, "use")
  /\ IF NeedsDriver(r)
     THEN /\ drivers' = [drivers EXCEPT ![r] = @ \cup {New(r)}]
          /\ pw' = [pw EXCEPT ![r] = New(r)]
     ELSE UNCHANGED <<drivers, pw>>
  /\ UNCHANGED <<goal, win, page, windows, opened, closing, after, shared, history>>

ProfileInUse == \E r \in Runs : \E v \in windows[r] : v.visible

\* getPw() again, and the launch; without a driver there is no error but a nil
\* pointer, and no recover in the goroutine.
Use(r) ==
  /\ at[r] = "use" /\ pw[r] # 0
  /\ \/ /\ goal[r] = "login" => ~ProfileInUse
        /\ windows' = [windows EXCEPT ![r] = @ \cup
             {[id |-> New(r), driver |-> pw[r], visible |-> goal[r] = "login"]}]
        /\ win' = [win EXCEPT ![r] = New(r)] /\ opened' = [opened EXCEPT ![r] = New(r)]
        /\ Go(r, "page")
        /\ UNCHANGED <<goal, closing, after, disturbed>>
     \/ /\ goal[r] = "login" /\ ProfileInUse
        /\ Fails(r)
        /\ UNCHANGED <<windows, win, opened>>
  /\ UNCHANGED <<kind, pw, page, drivers, shared, cancelled, running, panicked, faults>>

Panic(r) ==
  /\ at[r] = "use" /\ pw[r] = 0
  /\ Ends(Process[r])
  /\ panicked' = TRUE
  /\ UNCHANGED <<goal, after, saved, cancelled, faults, disturbed, kind>>

\* NewPage and setPage, on the context just created.
Page(r) ==
  /\ at[r] = "page"
  /\ opened' = [opened EXCEPT ![r] = 0]
  /\ IF Alive(r, opened[r])
     THEN /\ page' = [page EXCEPT ![r] = opened[r]]
          /\ Go(r, IF goal[r] = "login" THEN "await" ELSE "verify")
          /\ UNCHANGED <<goal, closing, after, disturbed>>
     ELSE Fails(r) /\ UNCHANGED page
  /\ UNCHANGED <<kind, pw, win, drivers, windows, shared, cancelled, running, panicked, faults>>

-----------------------------------------------------------------------------
(* ensureSession, once a browser is open *)

\* isAuthenticated: no page is no error.
Verify(r) ==
  /\ at[r] = "verify"
  /\ IF Alive(r, page[r]) /\ saved = "valid"
     THEN ReleaseThen(r, "crawl") /\ UNCHANGED <<closing, disturbed>>
     ELSE IF goal[r] = "relaunch" \/ ~Alive(r, page[r]) THEN Fails(r)
     ELSE LaunchFor(r, "login") /\ UNCHANGED disturbed
  /\ UNCHANGED <<kind, fields, open, shared, cancelled, running, panicked, faults>>

\* waitForLoggedInCourseLink: the user or TU-Fast logs in,
\* and saveState has the driver truncate and write the file ...
LoggedIn(r) ==
  /\ at[r] = "await"
  /\ Alive(r, page[r])
  /\ IF win[r] # 0 THEN Go(r, "saving") /\ saved' = "torn" /\ UNCHANGED <<goal, after>>
     ELSE ReleaseThen(r, "leave") /\ UNCHANGED saved
  /\ UNCHANGED <<fields, open, closing, mutex, syncLock, history>>

\* ... or the page is gone, or the budget used up.
LoginFails(r) ==
  /\ at[r] = "await"
  /\ ReleaseThen(r, "leave")
  /\ UNCHANGED <<fields, open, closing, shared, history>>

\* The command "login" has nothing left to do; anything else goes on headless
\* (shouldRelaunchHeadlessAfterInteractiveLogin).
Relaunches(r) == ~Forced(r)

Saved(r) ==
  /\ at[r] = "saving"
  /\ saved' = "valid"
  /\ IF Relaunches(r)
     THEN LaunchFor(r, "relaunch")
     ELSE ReleaseThen(r, IF Forced(r) THEN "leave" ELSE "crawl") /\ UNCHANGED closing
  /\ UNCHANGED <<fields, open, mutex, syncLock, history>>

\* The crawl and the downloads, on this browser; they end when it is gone.
Crawl(r) ==
  /\ at[r] = "crawl"
  /\ Go(r, "leave")
  /\ UNCHANGED <<goal, fields, open, closing, after, shared, history>>

-----------------------------------------------------------------------------
(* The environment *)

Fault == faults < MaxFaults /\ faults' = faults + 1

Expire ==
  /\ Fault
  /\ saved = "valid"
  /\ saved' = "expired"
  /\ UNCHANGED <<at, goal, fields, open, closing, after, mutex, syncLock, cancelled, running,
                 panicked, disturbed, kind>>

Kill(p) ==
  /\ Fault
  /\ \E r \in Runs : Process[r] = p /\ at[r] \notin {"idle", "over"}
  /\ Ends(p)
  /\ UNCHANGED <<goal, after, saved, cancelled, panicked, disturbed, kind>>

\* A browser crashes or its window is closed by hand.
WindowDies(r) ==
  /\ Fault
  /\ windows[r] # {}
  /\ windows' = [windows EXCEPT ![r] = {}]
  /\ UNCHANGED <<at, goal, fields, drivers, opened, closing, after, shared, cancelled, running,
                 panicked, disturbed, kind>>

RunStep(r) ==
  \/ Leave(r) \/ Exit(r) \/ GivesUp(r) \/ Check(r) \/ Driver(r) \/ Use(r) \/ Panic(r) \/ Page(r)
  \/ Verify(r) \/ LoggedIn(r) \/ LoginFails(r) \/ Saved(r) \/ Crawl(r)
  \/ \E th \in Threads[Process[r]] : Acquire(r, th) \/ Release(r, th)

Next ==
  \/ \E r \in Runs : Start(r) \/ RunStep(r) \/ WindowDies(r)
  \/ \E c \in Closers : CloseStep(c)
  \/ \E c \in Cancels, r \in Runs : Cancel(c, r)
  \/ \E p \in Processes : Kill(p)
  \/ Expire

Spec == Init /\ [][Next]_vars

-----------------------------------------------------------------------------
(* Properties *)

Stages == {"idle", "queue", "closing", "check", "driver", "use", "page", "verify", "await", "saving",
           "release", "crawl", "leave", "exit", "over"}

TypeOK ==
  /\ kind \in [Runs -> {"sync", "list", "login", "lookup"}]
  /\ at \in [Runs -> Stages] /\ after \in [Runs -> Stages]
  /\ goal \in [Runs -> {"reuse", "login", "relaunch"}]
  /\ {pw, win, page, opened} \subseteq [Runs -> Addresses \cup {0}]
  /\ drivers \in [Runs -> SUBSET Addresses]
  /\ windows \in [Runs -> SUBSET [id : Addresses, driver : Addresses, visible : BOOLEAN]]
  /\ closing \in [Closers -> [at : {"none", "page", "drop", "driver", "stop"}, of : Runs \cup {Nobody},
                              got : Addresses \cup {0}, all : BOOLEAN]]
  /\ mutex \in [process : Processes \cup {Nobody}, thread : (UNION {Threads[p] : p \in Processes}) \cup {Nobody},
                    depth : 0..Cardinality(Runs)]
  /\ mutex = Free <=> mutex.depth = 0
  /\ saved \in {"none", "valid", "expired", "torn"}
  /\ syncLock \in Runs \cup {Nobody} /\ running \in Runs \cup {Nobody}
  /\ cancelled \subseteq Runs /\ disturbed \subseteq Runs /\ panicked \in BOOLEAN
  /\ faults \in 0..MaxFaults

\* Between the mutex and its release.
Establishing(r) ==
  \/ at[r] \in {"check", "driver", "use", "page", "verify", "await", "saving", "release"}
  \/ at[r] = "closing" /\ after[r] # "exit"

\* One process at a time checks, renews and writes the saved session, whatever
\* dies, times out or releases on the wrong thread (acquireSessionLock).
PhaseExclusive ==
  \A r, q \in Runs : Establishing(r) /\ Establishing(q) => Process[r] = Process[q]

\* A run that waited for another's login uses what that saved: while the saved
\* session is valid a login window opens only after an error, provided no other
\* run of this process has begun: one that ran on the same thread, to which
\* Windows grants the mutex again, may have saved it since (shouldReuseSavedSession).
OpensLogin(r) == at[r] = "use" /\ goal[r] = "login" /\ at'[r] = "page"

NoNeedlessLogin ==
  [][\A r \in Runs :
       /\ OpensLogin(r) /\ saved = "valid" /\ ~Forced(r)
       /\ \A q \in Runs \ {r} : Process[q] = Process[r] => at[q] = "idle"
       => r \in disturbed]_vars

\* However a run ended and wherever one cancellation met it, nothing of its
\* browser stays behind (Close, closeBrowser).
NothingLeftOpen ==
  \A r \in Runs :
    at[r] = "over" /\ (\A c \in Closers : closing[c].of # r) /\ Cardinality(Cancels) <= 1
      => drivers[r] = {} /\ windows[r] = {}

=============================================================================
