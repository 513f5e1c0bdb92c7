# Verification of opal-downloader

opal-downloader logs into the OPAL learning platform with a browser, crawls the
user's courses and keeps a local folder in step with the files it finds. This
directory holds TLA+ models of its core, the TLC configurations that check them
on small instances, and proofs that TLAPS checks for every value of the
constants. Paths are relative to the repository; line numbers are in
`PROJECT.json` ("map"), which names the code behind every definition.

## 1. The system

### Inventory

| Component | State it keeps | Operations | Hard behaviour | Correct when |
|---|---|---|---|---|
| **Sync run** `internal/syncer/syncer.go` | manifest (per key: size, date, fail count, backoff start, Unverified), files on disk, counters | load, crawl, compare, bulk-ZIP verification, download, verify, record failure, save | kills and cut-off writes; rows without columns; records written from a row older than the bytes; cancellation | a skipped file is current; records claim no more than was fetched; failures are retried; every file is counted once |
| **Migration** `internal/syncer/migrate.go` | the same manifest and files, reports | gate, pairing by base name and by course, re-key, move, sheet sweep | moves precede the save; copies across volumes break off; incomplete crawls trip the gate | no record and no copy lost; nothing foreign believed |
| **Worker pools** `syncer.go` `processRemoteFiles`, `scraper/orchestrator.go` | two unbuffered channels, a wait group, a context | feed, work, close, drain | cancellation against hand-over; close against send | each job settled once; the call returns |
| **Download ladder** `internal/scraper/download*.go`, memos | section HTML memo, fallback page memo, the shared page | plain GET, refreshed link, browser fallback under a mutex | page instances the server evicts; one fetch shared by many; a shared page that moves | a link is looked for where it was found; a neighbour's fetch costs nobody the file |
| **Sync lock** `internal/synclock` | one lock file with PID and start time | acquire (create, write, read, inspect, reclaim), release | overlapping acquires, crashes, recycled PIDs, open files on Windows | runs exclude each other; a stale lock is reclaimed |
| **GUI job, event stream, sync page** `internal/gui/job.go`, `sync.go` | running flag, event log, subscriber channels; the page's buttons and spinner | start, publish, finish, subscribe, stream, leave; load, connect, click, read | publish sends outside its mutex; full channels; frames, answers and reconnections overtake each other | a viewer sees what it is owed; the page shows the run and its end |
| **Session and login** `internal/scraper/session.go`, `session_lock_windows.go` | saved cookies, login profile, a named mutex | reuse, interactive login, relaunch, save state | mutex owned by an OS thread; timeouts; two processes on one profile | one process in the phase; who waited needs no login |
| **Browser lifecycle** `internal/scraper/scraper.go`, `session.go` | driver, browser, context, page, each behind one mutex | launch, close, Close | Close from the cancel handler during a launch; the job finishes before its browser is closed | nothing stays open |
| **Course list and discovery modes** `internal/scraper/discovery.go`, `orchestrator.go` | the shared page, titles, visit records, four modes | read the listing pages, crawl the courses, compare two crawls | failed listings, stray tabs, a dead browser | an account that was not read is not taken for an empty one |
| **Section crawl** `internal/scraper/crawl.go`, `section_pool.go`, `httpdiscovery*.go` | queue, visited set, candidates, tabs | visit a level, merge, follow links | tabs in any order; failed sections; a cap of 500 | the result does not depend on timing; nothing is missing but by a known loss |
| **Scheduled run and its files** `cmd/opal-downloader/root.go`, `statuslog`, `gui/scheduled_status.go` | status, history, last-sync note, dismissal | once-a-day guard, network wait, deferred status, banner, dismiss | several processes, midnight, logon triggers, kills | a day is synced once and not lost; a run always reports |
| **Task registration** `internal/scheduler`, `gui/schedule.go` | one registered task | enable, disable, status, repair on a page view | query and repair are two calls; several copies of the program | on if and only if asked for |
| **Configuration and settings page** `internal/config`, `gui/settings*.go`, `foldersuggest` | config.yaml, its backup, the forms of tabs | load, resolve, edit, suggest folders, save | patterns matched in Go map order; old forms; torn writes | nothing untouched is lost; a torn file is in the backup |
| **Updater** `internal/updater`, `gui/gui.go` | one installer path in the temp folder, the version found | check, download, verify, launch, exit | requests and processes share the path | what is launched was verified |
| **Pacing** `internal/polite` | last slot, backoff level | Wait, Observe | slots claimed before the level changes | spacing holds between any two requests |
| **Other pages, logging, notify, reports, smoke check** | little or none | handlers and single system calls | log rotation by two processes | - |

### How they interact

A sync is started by the CLI (`sync`, by hand or by the Windows task with
`--scheduled`) or by the GUI's job. It takes the sync lock for its whole length,
establishes a session (under the session mutex), reads the listing pages, crawls
the courses on a worker pool (each course crawling its sections on a pool of
tabs), hands the files to the migration and then to the comparison, and
downloads on a second worker pool through the ladder. The manifest in memory is
touched by one goroutine at a time and is written once, at the end. Progress
callbacks feed the GUI job's hub and through it the page. Cancelling in the GUI
cancels the context and closes the browser under whatever is running. The GUI's
list job and its lookup of course names crawl without the sync lock.

## 2. Modules

| Module | Models | Kind |
|---|---|---|
| `Pool` | what a worker pool promises | abstract specification |
| `WorkerPool` | feeder, workers, closer, drain; implements `Pool` | detailed specification |
| `DownloadLadder`, `MCDownloadLadder` | what a download worker does with a job, composed with `WorkerPool` | composition |
| `Manifest` | records, rows, fileChanged, needsContentVerification, the verdict on a file | definitions of the next four |
| `SyncRun` | runs, failures, kills, cancellations, remote changes, deletions | component |
| `BulkVerify`, `MCSyncRun` | the ZIP of a section in front of `SyncRun`'s pool | composition |
| `KeyMigration`, `MCKeyMigration` | migration and sheet sweep between crawl and comparison | component |
| `SyncLock` | every file-system call of Acquire and release | component |
| `JobHub` | the hub and the SSE handler | component |
| `SyncPage` | the page's script and requests over `JobHub` | composition |
| `Session`, `MCSession` | session phase, mutex, browser and cancellation in two processes | component |
| `Discovery`, `MCDiscovery` | listing pages, courses, discovery modes, the shared page | component |
| `SectionPages` | a course's pages and links, and how a page adds to a crawl's result | definitions of the next two |
| `CourseWalk` | a crawl that visits one section at a time | abstract specification |
| `SectionCrawl`, `MCSectionCrawl` | the browser crawl on its tab pool and the HTTP crawl; both implement `CourseWalk` | component |
| `ScheduledSync` | the scheduled run, other syncs, the status files and the banner | component |
| `TaskRegistration` | the task and everyone who writes it | component |
| `FolderSuggest` | the walk and the choice behind "Suggest folders" | pure algorithm |
| `Settings`, `MCSettings` | config.yaml, forms in two tabs, saves, syncs; with `FolderSuggest` | component |
| `Updater`, `MCUpdater` | update requests in two processes | component |
| `PoolProofs` | results, channels, the refinement of `Pool`; the ladder's listing and neighbours | proofs |
| `SyncRunProofs` | records, skips, counters and copies, with the ZIPs too | proofs |
| `KeyMigrationProofs` | no record and no copy lost, nothing foreign believed | proofs |
| `SharedFilesProofs` | lock file, status files, config.yaml: exclusion, one sync a day, nothing untouched lost | proofs |
| `SectionCrawlProofs` | types, tabs, the refinement of `CourseWalk`, nothing is missing but by a known loss | proofs |
| `SessionProofs` | one process in the phase, no needless login, nothing left open | proofs |
| `DiscoveryProofs` | listed courses are answered, the shared page survives | proofs |
| `GuiProofs` | the task is what was asked for, the page tells the truth, what starts was verified, streams show what they owe | proofs |

How they compose. `SyncRun` and `KeyMigration` both EXTEND `Manifest`, so the
verdict on a file is one definition. `SyncRun` uses of the pool only what `Pool`
promises: bounded jobs in flight, each settled once, at most one start after a
cancellation (theorem LateJobsBounded); `DownloadLadder` runs on the detailed
pool instead, whose refinement of `Pool` is checked again with the ladder in it.
`Discovery` takes a course's crawl as one step with the outcomes `SectionCrawl`
has. `SyncPage` runs on `JobHub`. `SyncRun`'s runs follow one another, and
`Session` and `ScheduledSync` take the sync lock as held by one run: that is what
`SyncLock` shows, up to the overlap described in section 5.

### How state and actions correspond to the code

Every module has a type invariant (`TypeOK`, `LadderOK`, `HubTypeOK`,
`PageTypeOK`, `LockTypeOK`, `SettingsTypeOK`, `UpdaterTypeOK`), stated for the reader and for
the proofs. The runs spend their properties on what could
be wrong; where a module has a proof module its type invariant is a theorem.

**WorkerPool.** `feeder`, `wpc` and `main` are the program counters of the
goroutines in `processRemoteFiles` and `collectCourseFilesConcurrently`; a send
on an unbuffered channel is one step of both ends (`Hand`, `Deliver`). The
feeder polls the context and then selects between the send and `ctx.Done()`:
`FeederPoll`, then `Hand` or `FeederAbort`, both possible when both are ready.
`CloseResults` is `workers.Wait(); close(resultCh)`.

**DownloadLadder.** `rung[w]` is where in `DownloadFile` a pool worker is:
`Fetch` and `Lookup` are `refreshCounterURL` over the section pages a link may be
on, through the memo with its single flight; `Click` is the refreshed link;
`Lock` takes the browser mutex, `Direct`, `Open`, `Search`, `Expand`, `Again` and
`Takes` are `downloadFileViaBrowser` on the shared page. The server keeps
`Capacity` page instances and may evict any; a link of an evicted one is dead.
`shown` is what the page shows, `fallback` what the memo believes it shows. A
click by text may hit another link and leave the page (`shown` is `Nowhere`); the
show-all click (`Expand`) is made on whatever is shown then, and when it succeeds
the memo vouches for that page (`markExpanded`), which `Again` searches. `beyond`
says which files are past the first page of their listing. Requests and clicks
fail at once after a cancellation.

**Manifest and SyncRun.** A version of a file stands for its date. Sizes are a
function of the version and may coincide. A record is the manifest's
`FileRecord` with the fail count and date abstracted to whether the backoff is
still running (`resting`; `Elapse` ends it). `Compare` is `LoadManifest`, the
crawl and the decision loop: nobody else looks in between, so it is one step.
Each job then goes through `Start`, and `FetchFails`, `WriteBegin`, `WriteEnd`,
`WriteFails` for a download or `VerifyUnchanged`, `VerifyReplaces`,
`VerifyOverwrites` for a verification, which are the outcomes of `DownloadFile`
and `runVerifyJob`; the bytes are those OPAL has when they are fetched, the
record is that of the row the crawl read. `SaveBegin` truncates the manifest and
`SaveEnd` completes it: a kill between leaves one no run can read.

**BulkVerify.** `asking` holds the sections whose ZIP is still to be asked for,
empty when the flag is not set. `FetchZip` is `DownloadFilesBulk`: any part of
the section's files comes, or none. `ZipUnchanged`, `ZipReplaces`,
`ZipOverwrites`, `ZipCopied` and `ZipFails` are what `runBulkVerifyGroups` makes
of each file that came. The record gets the ZIP entry's date, which no row ever
shows (`ZipDate`). The pool starts when all sections are settled.

**KeyMigration.** A layout is one state of the settings that decide keys and
paths. `Begin` is the gate (`suspectKeySchemeChange`) and the pairing; `Remap*`
are the outcomes of `remapOne` and `relocateFile` for the pairs in their order,
with the copy to another volume in two steps; `Route*` are those of
`relocateSheetRoutedFiles`; `Finish` is the comparison, download and save in one
step; `Kill` may come between any two. The manifest on disk changes in `Finish`
only, the files change at once.

**SyncLock.** One step per file-system call. On Windows a file that somebody has
open cannot be removed, and every caller ignores that refusal; on POSIX a
process may go on writing to a file without a name. A PID has a number of
lives; `Inspect` may or may not notice a recycled one, and never can where the
platform cannot tell a process's start time. `contended` is history: two calls
of `Acquire` have been under way at once.

**JobHub and SyncPage.** `PublishEvent` is the critical section that appends the
event and copies the subscribers; `Send` is one turn of the loop after it.
`Subscribe` registers and copies the log in one critical section. On top of
that, one tab: `Connect`, `ReadState` and `HandleEvent` are its EventSource with
the state frame read some time after it was written, `ClickStart`, `Accept`,
`Refuse` and `StartAnswered` a start request whose answer travels apart from the
stream, `SetRunning` the page's function of that name. `published`, `since`,
`dropped` and `ended` are history.

**Session.** A run owns a scraper, whose fields (`pw`, `win`, `page`) its
goroutine sets and a cancellation's goroutine clears; each read and each write is
a step, because each is a critical section of its own and nothing holds between
them. `drivers` and `windows` are what is really open. `Acquire` and `Release`
choose the OS thread the goroutine happens to be on. `Check` to `Saved` are
`ensureSession`: the saved session is tried headless, else a login window opens
and the session file is truncated and written, then the browser is launched
again. `Ends` is what Windows does when a process is gone.

**Discovery.** `Goto`, `Extract` and their failures read the three listing
pages; cards are read from the scraper's shared page, which follows a new tab
unless a crawl has suspended that (`Follows`). `Take`, `OpenTab`, `ReplaceTab`,
`CourseDone`, `CourseFails` are the courses' workers, `FetchSection` and
`Compare` the second half of the HTTP and verifying modes. Courses are taken in
the order of their titles, those of one title in any order.

**SectionCrawl.** `strategy` says which of the two crawls of a course is meant.
The browser's (`collectCourseFiles`) pops all that is queued as one level
(`Pop`), opens tabs for it (`OpenTab`, `StartLevel`), has its sections visited by
one goroutine for each tab and merges the pages one by one (`Merge`). A worker
`w` is at place `turn[w]` of the level and goes on by the number of tabs; `stage`
is where in `visitSection` it is, and one step of a visit is one call into the
browser. Any of them may fail, and the tab's renderer may die under any of them
(`TabCrashes`); what `recoverFromPageCrash` makes of that depends on the stage
(`AfterReplacement`, `CannotRecover`, `CrashesAgain`). In the HTTP crawl
(`discoverSectionsHTTP`) `FetchRoot` and `FetchSection` are one turn of the loop
each, with an answer for every request in it; nothing runs beside it. A page is
the files and the links the HTML predicates let through. A page is rendered in
stages, rows first and its "show all" control last (`Rendered`), and a wait for
stability may settle on any of them: `ReadsEarly` is a first page read before it
was complete, or complete but without its control, and `Expands` a full list of
which any part was there. `fate` is history: how the visit of a section went.
Nothing says so of the fates in `Unwarned` (read too early, expanded in part, cut
off); every other loss is in a warning.

**ScheduledSync.** Time is a counter of instants, `DayLength` to a day. The task
goes from `Trigger` or `TurnAway` through `Preflight`, `AwaitNetwork`,
`StartSync`, `EndSync` to the deferred writers in their order, `Report`,
`FileHistory`, `NoteSync`. Another process syncs or lists beside it and contends
for the lock. `Torn` is what a kill leaves of the file being written. `done` and
`seen` are history.

**TaskRegistration.** A request is a page view, the form or the command, served
by some copy of the program. `Register` and `Unregister` write the task, `Query`
reads it and decides on a repair, `Repair` writes it in a step of its own.
`Edit` is the user in Task Scheduler's window, `RemoveCopy` takes a copy away.
`wanted` and `raced` are history.

**Settings and FolderSuggest.** `OpenForm`, `SetRow`, `Toggle`, `Ask`, `Answer`
are a tab; `Submit` parses its form over the file as it is now (of what the form
does not show, `hidden` is taken from there and `session`, which is `opal_url` and
`session_state_file`, set back to its default), `ReadOld`,
`Backup`, `Truncate`, `Write` are `config.Save`. `Sync` loads the file at any
moment, inside `os.WriteFile` included (`Empty`), and resolves each course by any
of the rules that match, as a Go map yields them. `Suggest` is the walk below the
download folder and the choice per course over given similarities.

**Updater.** `Create`, `Write`, `FetchSum`, `ReadSum`, `Verify`, `Launch` are the
file-system steps of one update request; the installer's and the checksum's path
are shared by all requests of all processes. `Install` is the installer, which
closes the copies that run; a process in a job object takes its installer along
(`EndOf`).

## 3. Runs

All twelve pass; TLC explores the whole state space of each.

| Run | Instance | States | Shows |
|---|---|---|---|
| `pool` | 3 files of one section, 2 workers, 2 page instances, 1 fault | 1.89 M | results exact, channels closed safely, `Pool` implemented, the call returns; a link is searched on its own listing or on a page vouched for in its name; no worker is driven to the browser by its neighbours |
| `sync` | 2 files of one section, 2 versions of one size, 2 in flight, ZIP on or off, 1 fault, torn writes | 0.48 M | records and skips honest, counters exact, no needless rewrite, files become current again |
| `lock` | 3 processes, both platforms, 1 crash | 0.15 M | exclusion and a truthful lock file until acquires overlap; stale locks reclaimed; Acquire returns |
| `hub` | 2 viewers, a channel of 1, 2 jobs of up to 2 events, 1 press | 1.3 M | a viewer's stream is what it is owed; the page notices a run started elsewhere and its end |
| `section_crawl` | 7 sections in cycles, 2 workers, 3 tabs, a cap of 5, 4 faults, both strategies | 0.16 M | `CourseWalk` implemented; nothing is missing but by a known loss; tabs neither shared nor leaked; it ends |
| `discovery` | 3 courses, 3 listings, 2 workers, 4 tabs, 5 modes, 3 faults, 1 stray tab | 1.1 M | a complete answer answers every listed course; the shared page survives |
| `migrate` | 3 files of one name in 2 courses, 4 layouts, 1 fault | 1.73 M | no record or copy lost, nothing foreign believed |
| `scheduled` | a day of 2 instants, 2 runs, 1 refused, 1 retry, 2 other processes, 1 kill | 0.84 M | a day is synced once and not lost, a run reports, only what was seen is dismissed |
| `session` | a preview of the GUI on 2 threads beside a command of the CLI, 1 cancellation, 1 fault | 1.59 M | one process at a time establishes the session, no needless login, nothing left open |
| `settings` | 2 tabs, 3 rows, 2 courses, 4 folders, 5 files to start from, 1 edit, 2 saves, 1 fault | 0.65 M | what nobody touched is kept but for the two fields every save sets back, a change of layout is announced, a torn file is in the backup |
| `registration` | 3 copies (2 that stay), 2 requests at once of 3, 1 edit, 2 removals | 2.5 M | sync is on if and only if asked for; the page tells the truth |
| `updater` | 2 processes, 2 requests at once of 3, 1 new release, 3 starts, 4 versions, 1 fault | 4.55 M | an installer that starts is the one its checksum is of |

### Bounds and why they are enough

- **pool**: two workers and three files make a worker serve twice and both meet
  in the memo, the single flight and the browser mutex. Each file may be on the
  section's page or on the page instance discovery saw it on; two instances are
  the least at which the third request evicts one. With one fault a fetch or a
  click fails and the rest of the ladder is exercised. The proofs of the pool
  drop its bounds.
- **sync**: two keys are needed for jobs to overlap, for the counters to be able
  to go wrong and for a section to be worth a ZIP (`bulkVerifyMinGroupSize` is
  2); no two keys share anything else, so a third adds interleavings of the same
  kind. Two versions of one size are what a record older than the row, a row
  older than the bytes and a change the size does not show take. A row that shows
  a size but no date is left out: between versions of one size no code could see
  the change. `MaxFaults` counts failures, kills, cancellations, deletions and
  failed saves together. The proofs drop these bounds.
- **lock**: a third process is needed to take the lock between one's read and
  another's removal; one crash makes one stale lock and one recycled PID.
- **hub**: a channel of 1 (64 in the code) makes overflow common; a second viewer
  makes `PublishEvent` send to a set and is the page's reconnection as well; two jobs
  make a log be cleared under a viewer and a late answer meet another run.
- **section_crawl**: two workers are enough for a page to be read out of its
  turn, and with levels of three sections a worker serves twice; a third tab is
  what a replaced one needs. The course has links back and across, an enrolment
  node, a file shown by several sections (so the merge order decides where it is
  filed), a full list behind a first page with files and one behind a first page
  without, embedded prose and a learning group. Six of the sections are crawlable
  and the cap is five, so the cap is reached. Four faults let a tab crash, its
  replacement crash, and another visit fail in the same level; early reads and
  expansions in part are faults too. The proofs drop
  every one of these bounds, the course included.
- **discovery**: three courses let two workers be busy with one waiting; the
  three contents of the listing pages include a course shown on two pages under
  titles of different length, and an account without courses; three faults fail
  every listing page.
- **migrate**: three files of one name are what the pairing needs to be
  ambiguous by name and decidable by course; the gate's quarter is reached with
  two stored keys already. One fault anywhere; two would pair a kill with a
  failed move, which the proved properties cover and the state space does not
  allow.
- **scheduled**: two instants to a day put a run on both sides of midnight; two
  runs, one refusal and two other processes let the lock be taken, a skip
  replace a failure, and a run report between a page's load and its click. The
  proofs drop the bounds.
- **session**: two processes are what the mutex is between; the GUI has two
  threads, so a release may come on the wrong one. One cancellation meets every
  step of a run.
- **settings**: two tabs are enough for one to save under the other's form; the
  files to start from are a missing one, a broken one, one written by hand with a
  pattern, one that syncs all courses and one that names some. Two saves let the second meet what the first, torn, left.
- **registration**: a copy that stays and serves, one that stays and is
  registered, one that does not; two requests at once are a query with another's
  change before its repair.
- **updater**: two processes and two requests at once share the path in every
  order; a third request finds what the others left. The versions include two
  that compare alike and one with a component that is no number.

Symmetry is used for the tabs of `settings` alone. Keys and files have paths and
numbers of their own, and runs with liveness properties do not admit it.

Deadlock checking is off where the system really stops: a pool that has returned
(`pool`), a GUI whose jobs are used up or whose process ended (`hub`), and the
runs whose users and processes have done all that the bounds let them
(`scheduled`, `session`, `settings`, `registration`, `updater`). `sync`, `lock`,
`migrate`, `section_crawl` and `discovery` check for deadlock; a crawl that is
over has a step of its own.

### Fairness and why the code justifies it

- `DownloadLadder`: some goroutine that can take a step takes one
  (`WF_allVars(Step)`): every request and browser wait has a timeout, so a job
  returns. Nothing makes the caller cancel.
- `SyncRun`, `BulkVerify`: runs keep being started without `--force` with a
  crawl that misses nothing (the daily task), a run's own steps are taken, and
  the hours of a backoff pass however many runs start meanwhile. That last one is
  strong fairness: wall-clock time does not depend on whether a run is on, while
  the model lets time pass between runs only. Faults are bounded, so they stop.
  EventuallyCurrent excuses a torn file and an unreadable manifest (section 5).
- `SyncLock`: a call to Acquire goes on, runs end, living processes try again.
  No fairness on crashes and recycling.
- `SyncPage`: the server's goroutines and the browser's event loop are
  scheduled, and an EventSource reconnects. Of the job only the steps that wait
  for nothing are fair (`Prompt`): a crawl may hang, and the properties speak of
  what follows when it does not. The user does nothing fairly.
- `SectionCrawl`: the crawl goes on as long as it can (`WF_vars(Next)`): each
  navigation, click, extraction and request has a timeout or a bound on its
  repetitions. Which worker goes on is left open.
- `ScheduledSync`: the run's own steps (`WF_vars(RunStep)`): the network wait has
  five delays, the crawl and downloads time limits of their own. Task Scheduler,
  the other process and the user owe nothing.

## 4. Proofs

TLAPS checks every proof to its leaves. The theorems hold for every value of the
constants that the modules' named assumptions admit; TLC evaluates those
assumptions in the runs. Each proof module has one invariant (`IInv` or a name of
its own) with `Init => Inv` and `Inv /\ [Next]_vars => Inv'`; TLC has checked each
of them on the run's instance.

- **PoolProofs.** Of the pool: TypeOK, ExactlyOnce, NoSendOnClosedChannel, one
  late job at most, and `Spec => Promise!Spec`. The properties are not inductive:
  they say what holds at the end. `IInv` adds where every handed-out job is
  (Accounted: with exactly one worker until drained), in which order things are
  closed (ClosedInOrder), and what the feeder can still do after a cancellation
  (CancelCloses). The refinement maps a job that was handed out and not yet
  drained to "started" and uses the same invariant for `Return`. Of the ladder on
  it: LadderSpec implies the pool's Spec (each rung is a stutter of the pool), so
  that all of this carries over; LadderOK; SearchesItsListing, because one worker
  at a time is at the shared page and the memo says what the page shows, nothing
  when a navigation failed halfway, and what is not so only of a stray page that
  a show-all click vouched for (BrowserInv); and
  NoWorkerOutrunByNeighbours (MemoInv): while nothing goes wrong each page is
  fetched at most once, so the instances alive are at most those of the pages
  fetched, and with room for one of each page none is ever evicted.
- **SyncRunProofs.** TypeOK, RecordNotAheadOfFile and NeverSilentlyOlder, for
  every assignment of paths to keys. Two keys may share a path: the code compares
  keys where its comment speaks of paths (`syncer.go:959`). Nothing is claimed of
  a file they share; the properties speak of the keys in Unshared, and what the
  others do to their files does not disturb them. `IInv` ties, per key, the record (on disk and in memory), the row of
  this run, the job and the bytes: a record is dated no later than OPAL's file
  and than bytes it vouches for, a row no later than OPAL's file, and a
  half-written file is at least as new as the row and the record on disk. The
  last part is what a kill needs: it leaves the record on disk beside the file.
  All of it is proved again with the ZIP phase in front (`BulkSpec`), and there
  StatsAccounted and NoNeedlessRewrite as well. `BulkInv` adds the order of the
  two phases (InOrder: nothing is in the pool while a section is still asked
  for), that the counters say how many of the listed files are settled (Counted),
  and that a copy which is current stays with its record (RewriteInv).
- **KeyMigrationProofs.** TypeOK, HistoryKept and NothingLost for all layouts;
  NeverSilentlyForeign for those that are Steady. `IInv` = TypeOK, TodoSound (the
  pairs left match stored keys with free keys one to one), MovingSound (a copy
  under way goes to a path that holds only its own torn part), SeenSound (what
  the crawl reported OPAL has), HistoryKept. That re-keying is one to one is a lemma on the pairing
  (PairsOneToOne), for names treated one after the other and keys of one name.
  NeverSilentlyForeign needs more of the layouts the settings pass through
  (Steady, the hypothesis of NothingForeignIsBelieved; the run's first two
  layouts satisfy it, `ASSUME SteadyLayouts` in `MCKeyMigration`): none routes to
  sheet folders, a path belongs to one file, a key says where its file lies
  whichever of the layouts it comes from, its old path (`download_path` joined
  with the key) is that place or one nobody uses, no other file of one name
  and one course prefix gets between two keys that say one place, and date and
  size together tell files apart. Under it `BelievedInv` is inductive. Every
  record, saved or in memory, is truthful (undated, or with date and size of a
  version OPAL has had of some file) and justified by what lies where its key
  says: it is flagged, or the bytes there are no older than it says, and another
  file's only if the two are easily confused (BelievedIn). Copies are of versions
  OPAL has had and lie under their file's name (CopiesKnown); nothing comes to lie
  at an old path that is nobody's (NobodysStayFree); the crawl reads both columns
  as OPAL has them, or none (SeenTrue); no copy is about to be carried to where a
  stored key says its own file lies (TargetsFree), and the copy under way is that
  of the pair being treated (MovesOwnPair). Wrong pairings by name are allowed for
  throughout: a record moves together with its copy or is flagged when another
  file is there, and without a flag it is believed only if date and size are
  those of the row. The theorem covers what the run
  checks but for the layout with sheet folders.
- **SharedFilesProofs**: the files that several processes write.
  *The lock file*: LockTypeOK, HolderNamed, ExclusiveUncontended. `LockInv` adds
  what the one process inside Acquire knows: a file it created is still its own,
  one it read is the holder's, and it removes one only when nobody holds the lock.
  *The status files*: TypeOK, OneSyncADay, TurnedAwayOnlyIfDone and
  DismissedWasSeen, for any length of a day and wherever midnight falls. The
  invariant (Dated) says that a run which has yet to report began on a later day
  than any that is done (BeganAfterwards), and that the last status on file tells
  of today, and of the day of a success, whether it is done (OnFile): the second
  is what the guard at the next trigger rests on, the first what keeps a run over
  midnight, or a torn status, from breaking it. That later instants are on the
  same or a later day (DayMonotone) is the only arithmetic. DismissedWasSeen
  holds because a click carries the run it was compared with (Seen).
  *config.yaml*: SettingsTypeOK, TornIsRecoverable, UntouchedKept and
  LayoutChangeIsAnnounced. UntouchedKept claims nothing of `opal_url` and
  `session_state_file`, which every save sets back (section 5). `Consistent` says that a row nobody touched stands for
  what its form was opened with (FormsOK), that a form under a save stays what
  was submitted (PostsOK), and, while no two saves overlapped, how far the one
  that writes has come: the file is empty only between its truncation and its
  write, what it read is on disk or, from the backup on, in the backup (FilesOK),
  and what it writes was computed from the content it replaces (BaseOK).
- **SectionCrawlProofs.** TypeOK, TabsOwned, OnlyKnownLosses and
  `Spec => ImplementsCourseWalk`, for every course (any sections, links, files,
  full lists and prose), any cap, number of workers and tabs, and any faults.
  TabsOwned is inductive with the types of the tabs (TabInv). For the types and
  the walk `IInv` adds: nothing is queued twice or after it was visited (QueueSound), a
  level consists of visited sections, each once (LevelTaken), when there is a
  level at all (InPhase), the cap (CapKept), and that each result is a reading of
  the section at its own place in the level (PagesRead). The walk's queue is the
  part of the level not merged yet, followed by the crawl's queue: so popping a
  level and visiting it are no steps of the walk, and each merge is one visit.
  OnlyKnownLosses needs `ReportInv`: each place of a level is done or still
  ahead of a worker, and nothing is merged before all of it is (LevelCovered), so
  what a section's fate says is that of the visit that is merged; a visit's fate
  determines what it owes (`Owes`): all of the section, its first page, the rows
  of its first page and one more, or nothing; of a merged section the files owed
  are listed and the links owed queued, visited or known to hold none
  (SectionsSettled, TreeSettled); and nothing that was queued is forgotten
  (QueueKept). That an expansion which is not warned about has gained a row
  (ExpansionIsHonest) is where the comparison in `expandShowAllInSection` counts.
  Induction is stated for sets of numbers, which the provers can instantiate,
  where the library states it for an operator, which they cannot.
- **SessionProofs.** TypeOK, PhaseExclusive, NoNeedlessLogin and NothingLeftOpen,
  for any processes, threads, runs, crashes and faults. PhaseExclusive needs the
  depth of the mutex: Windows lets a thread that owns it take it again, so
  `MutexInv` counts (the runs in the phase are at most its depth, the depth at
  most the runs begun). NoNeedlessLogin speaks of a run that is alone in its
  process, for the same reason. NothingLeftOpen holds with at most one
  cancellation (DriverInv: the scraper knows the one driver there is, every
  window hangs on it, and whoever is about to stop a driver means that one); with
  two it is false, as section 5 says.
- **DiscoveryProofs.** TypeOK, ListedIsAnswered and SharedPageSurvives, for any
  courses and listing pages, workers, tabs and modes, with a cancellation, a dead
  browser and stray tabs. Every listed course waits, is in the hands of a worker,
  or has its answer (CoverOK); a worker's tab is nobody else's and never the
  shared page (TabsOK); what was read of the titles is the longest shown
  (TitlesOK).
- **GuiProofs.** *The task*: TypeOK, PageIsTrue and AskedIsRegistered.
  The first two need what a request about to repair has read (Poised): a doomed
  task, by a copy that will stay. For the last, Obedient adds that such a request
  still holds the task as it is, unless a change raced it, and that a trigger
  which cannot be read counts as the default time. *The updater*: UpdaterTypeOK
  and LaunchedIsVerified. `Verified` says that, until two requests overlapped, one
  request relies on the installer's file, and one that launches with a checksum
  at hand has seen the whole file (SoleInv). *The sync page and its streams*:
  PageTypeOK and StreamIsOwed, for any viewers, capacity of their channels, jobs
  and events. Each step of the page is a step of the hub or none (PageIsHub), and
  `HubInv` says when a send can be pending (JobInPhase), that the log numbers the
  events of its job and is what was published last (LogNumbered, LogIsLatest),
  and that a viewer not there yet is owed nothing (ViewsKept). So an event that
  is published is later than all before it, and no stream can have it already.
  StreamIsOwed compares a stream with what is owed by order and membership: an
  equation with a filter of the log would need induction over data.

The assumptions on the constants are what the code justifies. Most are types and
bounds. The others: within one layout a key belongs to one file (ApartAssumption
of `KeyMigration`; of several files with one key the run keeps the first,
`syncer.go:959`; no proof needs it); key and path of a file end in its name,
whatever the layout (NamesAssumption; `resolveRemoteTargetPath` joins both with
`remoteFile.Name`, and the old path is joined with the key); the defaults map no folder (SettingsAssumption of
`Settings`: `config.Defaults()` is `fromRaw` of an empty `rawConfig`,
`config.go:634`); nobody starts with a cut-off configuration, and one emptied by
hand is a file that sets nothing; `None`, `Absent`, `Missing` and the like are no
values of the sets they are added to.

Only model-checked:

- liveness under fairness (Termination, EventuallyCurrent, AcquireReturns,
  StaleLockReclaimed, EndReachesPage, RunIsNoticed, EveryRunReports), which is out
  of the prover's reach, as are recursive definitions over data;
- NeverSilentlyForeign where the layouts are not Steady: the run checks it for the
  introduction of sheet folders too. It is not true of all layouts: a switch back
  to a path that a copy was left at, under an unchanged key, breaks it
  (section 5). The code excludes no such switch, which is why Steady is a
  hypothesis of the theorem and not an assumption of the module. Variants of the
  instance that break one part of Steady at a time tell which parts are needed:
  without columns that tell files apart, or with a key that says two places, TLC
  finds the property violated after one fault; with an old path at which another
  file lies, or one filed by hand, after three. Of a path with two files in one
  layout, and of two keys that say one place while a file of that name lies
  elsewhere, it finds none with three faults: these two parts serve the proof.

The runs keep the proved properties too: they show on an instance what the
theorem says for all.

Every property of a run has a mutant in `PROJECT.json`: a mapped definition
replaced by a plausible mistake, under which TLC finds the property violated. The
mutant's definition stands before the one it replaces.

## 5. What the checks do not show

### Behaviour of the code that the models have and no property forbids

Where a promise of the repository and the code disagree, the model follows the
code; the properties are stated so that they hold beside it. These are the
disagreements and other traces met.

Sync and files:

- **A torn file may stay.** A forced re-download that is killed leaves a cut-off
  file; when its old record still matches OPAL's row every later sync skips it
  (`syncer.go:1003`; `docs/BACKLOG.md:225-227`). A manifest cut off by a kill
  (`syncer.go:362`) is refused by `LoadManifest` from then on. EventuallyCurrent
  and NeverSilentlyOlder excuse both.
- Two keys with one local path: what looks for it compares keys
  (`syncer.go:959`). Nothing is claimed of such a file; see Unshared.
- A file OPAL replaces without a new date and size is invisible to the code.
- Bulk ZIP: the record gets the ZIP entry's date as RFC 3339, the table shows
  German text, so the two never match: as soon as OPAL shows a date for such a
  file it counts as changed and is downloaded again, against the hope in the
  comment above it (`syncer.go:645-655`). Answers are keyed by base name, so two
  jobs of one section with one base name collide; `DownloadFilesBulk` takes no
  context.
- Cancelling in the GUI closes the browser, so downloads in flight fail and are
  recorded as OPAL's failures with a backoff (`gui/sync.go:88`,
  `syncer.go:853-855`). Callers of the limiter pass `context.Background()`, so a
  cancellation does not interrupt a wait of its backoff.
- Ladder: NoWorkerOutrunByNeighbours is claimed while nothing has gone wrong,
  every file is on the first page of its listing, and the server keeps as many
  page instances as there are pages. A show-all click whose effect is lost is still recorded as an
  expansion (`download.go:411` against `fallback_page_memo.go:44-54`), and files
  after it are searched on the collapsed listing. A failed fetch stays memoized
  for the others, who retry once. A match by text can hit a look-alike link,
  which is below the model's level.
- **A page nobody asked for may be searched as a listing.** When such a click has
  left the page and the page it led to takes the show-all click, `markExpanded`
  records that page's URL under the listing's name (`download.go:406-412`,
  `fallback_page_memo.go:78-84`): it is searched at once, and the next file of that
  listing finds it "on screen" (`canReuse`) without navigating, against
  `fallback_page_memo.go:44-48`. SearchesItsListing excepts exactly this page.

Migration:

- A narrowed run (another choice of courses) opens the gate without any change
  of layout (`migrate.go:144` against 137-140, 151): history and copies of one
  course are given to another and its copy is replaced.
- A copy left behind and reported, followed by a switch that makes its path
  current again under the same key, is adopted under a newer record. The
  instance leaves such switches out, so NeverSilentlyForeign is claimed without
  them.
- **A wrong pairing may be vouched for.** A record paired by name with another
  file's key is flagged when a file is there already. When OPAL shows no columns for that file, a verification
  that finds the bytes identical clears the flag and keeps the record's date and
  size: "that entry's size/date are now known to describe the file actually
  sitting at this path" (`syncer.go:1092-1098`), which they are not, as they are
  still the other file's. The next sync with columns sees the difference; but if a
  second pairing first carries record and copy to the other file's key, date and
  size match there and one file's bytes are believed to be the other's. It
  was met with three faults, beyond the bound of `migrate`, while looking for the
  inductive invariant. NeverSilentlyForeign excepts files of one name without columns
  (Untabled), and those whose path is another key's too, where a record left
  under one key says nothing of what was downloaded under the other (Confusable).
- The sheet sweep does not flag a record after its copy broke off, as
  `remapOne` does (`migrate.go:372` against 467). A file the user put into a
  sheet folder himself is adopted when the flat copy is gone, as
  `migrate.go:346-349` says; the property excludes it.

Lock and session:

- **Two overlapping calls of Acquire can both hold the lock**: one reads a stale
  file, the other reclaims and takes it, the first removes the new file
  (`synclock.go:133` against `syncer.go:24-32`). The properties stop at the first
  overlap.
- Windows may refuse the removal of the lock file at release while somebody
  reads it (`synclock.go:121`): the file stays, naming a living process, until
  that process ends.
- The session mutex belongs to an OS thread and the goroutine to none: released
  on another thread `ReleaseMutex` fails unnoticed, and other processes wait in
  vain for six minutes until the GUI ends (against the comment at
  `session_lock_windows.go:33-40`); on the same thread two goroutines of the GUI
  get it together.
- A `Close` between launchBrowser's check of the driver and its use ends the
  process with a nil pointer (`session.go:44`; `gui/sync.go:83-88` says
  otherwise). Two overlapping cancellations can orphan a driver. A cancellation
  while the saved session is checked leads to a visible login window. A login
  window closed by hand leaves the wait spinning until its 300 s are over. The
  job is finished before its browser is closed. The GUI's list job and lookup
  take no sync lock, so their crawls overlap with a sync of another process.

Crawl and discovery:

- **Files can be missing without a word.** Four losses of `SectionCrawl` are in no
  warning: a read that settles before the table or its control is rendered
  (`ReadsEarly`; `crawl.go:563-570`, 764-775, 973-989 and 1092-1126 tell of runs
  that lost 2 to 160 of some 340 files so); an expansion that brings some rows and
  not all (`Expands`), since `crawl.go:675` warns only when there are no more files
  than before, and so not at all on a first page without files; a tab that
  crashes while a full list is expanded, for which the first page stands; and the
  login page that an expired session answers the HTTP crawl with, status 200. So
  `config.go:345-347`, by which a truncated section is warned about "instead of"
  returned "in silence", is true of an expansion that brings nothing only.
  OnlyKnownLosses says that there are no others, and what the first page's rows
  are owed in each. Extractions that fail count as an empty page (`navigation.go:653` against
  `crawl.go:60-63`), so a course nobody could read is reported as an empty one.
- Cards are read from the shared page while navigation uses the page captured at
  the start (`discovery.go:15` against 137): a tab opened meanwhile makes a
  listing page read as empty. A listing page that renders slowly counts as read.
  A failed course or listing page only warns, and a run in which every course
  failed returns no error. A course's title is the longest shown, so a failed
  listing page can change it, and with it the paths of its files. The hybrid
  mode's HTTP phase never looks at its context. `fetchSectionFilesHTTP` returns
  the first page when the full list fails.
- `collectCourseFiles` skips a popped section that was visited
  (`crawl.go:133-135`); the proof shows (QueueSound) that it never meets one.

GUI:

- **A viewer that leaves between publish's snapshot and its send ends the
  process**: the channel is closed and the send panics (`job.go:145` against the
  promise at `job.go:43-45`).
- An answer to a start request that comes after the job's last event leaves Sync
  disabled until the page is loaded again (`sync.go:1005`). The page's counts are
  not reset by a start or a replay, a replay repeats its rows, a click right at
  "Done" is refused because `finish` follows the event, and a run started
  elsewhere never enables Cancel here.
- Settings: every save sets `opal_url` and `session_state_file` back
  (`settings.go:294-295`), though the form does not show them and the rest of what
  it does not show is kept. That is by design (`settings.go:45-56`, 190-192,
  `config.go:511-517`, `settings_test.go:482-488`), but a user who edited one of
  them by hand, as the first comment suggests, loses it with the next save. A
  save with "sync all" on keeps no list of courses, so that a course without a
  folder is gone when the switch is turned off again, against "never silently
  drops data" (`settings.go:113-115`), and a row that had only a folder then
  becomes a listed course. Deselecting all courses saves an empty list, which loads as all of
  them; a second save after a torn one copies the torn file over the backup; a
  sync that reads config.yaml inside `os.WriteFile` runs with the defaults; of
  two rules that match a course the one a Go map yields first decides
  (`config.go:727`), where `README.md:225` promises the first match.

Scheduled run, task and updater:

- `list` and `login` hold the sync lock as well, so "another sync is running" is
  not always true and that trigger's sync is skipped. A skip or success replaces
  an undismissed failure. The last-sync note is written after the lock is given
  back, so an earlier run's may overwrite a later one's (`statuslog.go:139`). The
  history is rewritten in place at every append, against
  `statuslog.go:110-115`.
- A page view's query and repair are two calls: turning the schedule off in
  between is undone, against `schedule.go:115-117`. AskedIsRegistered stops
  there (`raced`). A trigger that cannot be read is repaired to the default time
  although the notice says nothing else changed. A task whose program cannot be
  read is neither repaired nor warned about. `SuggestedTime` is never called,
  though `docs/server-load.md:127-136` and `schedule_page.go:96-100` speak of it.
- **The installer may be killed with the GUI that started it**: `root.go:151`
  puts the process into a job object that ends its children, the installer is
  such a child, and the GUI exits 500 ms after the launch; `gui.go:987-993` and
  `docs/BACKLOG.md:215-232` say that it must keep running. Two requests at once
  can exchange the verified file before it is launched (`overlapped`). A release
  without a checksum is installed unverified, while the page says "downloaded and
  verified". An update ends a running sync of the GUI.

### Limits of the models

- What a browser's read returns early is a beginning of the page's rows and of
  its links; that an expansion brings other rows than the section has, or rows out
  of their order, is not modelled. The HTTP crawl's answers are whole.
- A course's learning groups are one place in the model (`Group`); several are
  read one after the other, each as this one.
- `Discovery` compares names as sets per course title, as the code does.
- A status dismissed by a request without a body, or with one that cannot be read
  (`scheduled_status.go:101-104`), a panic of the scheduled run, whose deferred
  writer may find the outcome of a success (`root.go:864-885`), a manifest that
  cannot be read when the layout is compared (`settings.go:321-332`) and a task
  disabled in Task Scheduler are not modelled.
- Task Scheduler and GitHub are modelled from how the code calls them.

### Not modelled

The components marked so in `PROJECT.json`, with the reasons: request pacing
(a limiter of wall-clock times, which delays steps and never decides which are
taken), the visit log and the diagnostics, TU-Fast's setup, the pages for logs
and feedback, the window, logging, the smoke check and reports, the installer
script and CI. HTML parsing, the similarity of folder names and page text are
pure and have unit tests.

## 6. Plan

Every safety property of the runs is a theorem. What could still be
done: `KeyMigration`: NothingForeignIsBelieved with sheet folders. Records
are then justified by what lies at the flat path or, once that is free, at the
routed one, and the sweep needs a part of the invariant of its own.
