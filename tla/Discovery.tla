----------------------------- MODULE Discovery -----------------------------
(***************************************************************************)
(* How a run finds out which files there are (internal/scraper,            *)
(* discovery.go and orchestrator.go): the listing pages of OPAL are read   *)
(* in the scraper's one shared page, the courses they name are crawled by  *)
(* a few workers, each in a tab of its own, and the result is put          *)
(* together.  OPAL_HTTP_DISCOVERY chooses between four ways of doing the   *)
(* second half.  All the while the browser tells the scraper of every tab  *)
(* that opens, the user can cancel the run and the browser can die.        *)
(*                                                                         *)
(* What one course's crawl does is the subject of SectionCrawl, the pool   *)
(* of workers that of WorkerPool; here a crawl is its tab and its outcome. *)
(***************************************************************************)
EXTENDS Naturals, Sequences, SequencesExt, FiniteSets

CONSTANTS
  Modes,      \* the values of OPAL_HTTP_DISCOVERY: "0", "1", "verify", "2",
              \* and "names" for the lookup that only wants the courses
  Listings,   \* what the listing pages may show: for each, a set of cards
  Wanted,     \* the titles the configuration asks for
  SectionsOf, \* the sections of each course
  RowsOf,     \* the names of a section's files, first page and the whole
  Workers,    \* course_concurrency
  PageIds,    \* identities of tabs, the shared page's among them
  Shared,     \* the page the session was established in
  None,       \* no page
  MaxFaults,  \* bound on the faults of network, server and browser
  MaxStrays   \* bound on tabs the site, an extension or the user opens

Sources == 1 .. 3
EveryWorker == 1 .. Workers
Courses == DOMAIN SectionsOf

ASSUME ListingAssumption ==
  /\ IsFiniteSet(Courses)
  /\ Wanted \subseteq Nat /\ IsFiniteSet(Wanted)
  /\ Listings \subseteq [Sources -> SUBSET [course : Courses, title : Nat]]
  /\ Shared \in PageIds /\ None \notin PageIds
  /\ Workers \in Nat /\ MaxFaults \in Nat /\ MaxStrays \in Nat

VARIABLES
  mode, listing,
  pc,         \* where the run is
  cancelled,  \* the caller's context is cancelled
  context,    \* s.context is set
  open,       \* the tabs that are open
  page,       \* s.page
  suspended,  \* pageTrackingSuspended
  held,       \* the page discoverCourseLinks works with
  source,     \* the listing page it is at, and
  failed,     \* how many could not be read
  seen,       \* those whose cards were read, and
  unseen,     \* those that loaded, but whose cards were not
  titles,     \* discovered: the title of each course
  queue,      \* the courses that no worker has taken
  late,       \* the feeder handed over a course after the cancellation
  work,       \* for each worker the step, the course and the tab
  answers,    \* what was made of each course
  visits,     \* visitRecords
  files,      \* the browser's (or the only) result
  toFetch,    \* the sections the second phase has still to ask for
  http,       \* and what it has found
  answer,     \* what the caller is told
  result,     \* and given
  faults, strays

run == <<mode, listing, cancelled>>
tabs == <<open, page, suspended>>
reading == <<held, source, failed, seen, unseen, titles>>
crawling == <<queue, late, work, answers, visits, files>>
second == <<toFetch, http>>
told == <<answer, result>>
vars == <<run, pc, context, tabs, reading, crawling, second, told, faults,
          strays>>

Idle == [step |-> "idle", course |-> None, tab |-> None]

Init ==
  /\ mode \in Modes /\ listing \in Listings
  /\ pc = "begin"
  /\ cancelled = FALSE
  /\ context = TRUE /\ open = {Shared} /\ page = Shared /\ suspended = FALSE
  /\ held = None /\ source = 1 /\ failed = 0 /\ seen = {} /\ unseen = {}
  /\ titles = <<>>
  /\ queue = <<>> /\ late = FALSE
  /\ work = [w \in EveryWorker |-> Idle]
  /\ answers = <<>> /\ visits = {} /\ files = {}
  /\ toFetch = {} /\ http = {}
  /\ answer = "none" /\ result = {}
  /\ faults = 0 /\ strays = 0

Fault == faults < MaxFaults /\ faults' = faults + 1

(* What goes wrong by itself is counted; what follows from it is not.      *)
Costs(counted) == IF counted THEN Fault ELSE UNCHANGED faults

Answers(kind, given) ==
  /\ pc' = "done"
  /\ answer' = kind
  /\ result' = given
-----------------------------------------------------------------------------
(* The tabs.                                                               *)

Unused == PageIds \ (open \cup {page, held} \cup {work[w].tab : w \in EveryWorker})

(* handleContextPageOpened.  The mutant follows every tab.                 *)
FollowsEveryTab(p) == page' = p
Follows(p) == page' = IF suspended THEN page ELSE p

(* A tab opens, in place of another if the one crashed.                    *)
Opens(p, insteadOf) ==
  /\ context /\ open # {}
  /\ p \in Unused
  /\ open' = (open \ {insteadOf}) \cup {p}
  /\ Follows(p)
  /\ UNCHANGED suspended

(* The site, an extension or the user opens a tab.                         *)
StrayTab ==
  /\ pc # "done"
  /\ strays < MaxStrays /\ strays' = strays + 1
  /\ Unused # {}
  /\ Opens(CHOOSE p \in Unused : TRUE, None)
  /\ UNCHANGED <<run, pc, context, reading, crawling, second, told, faults>>

(* The browser's process ends, or its window is closed.                    *)
BrowserDies ==
  /\ pc # "done" /\ open # {}
  /\ Fault
  /\ open' = {}
  /\ UNCHANGED <<run, pc, context, page, suspended, reading, crawling, second,
                 told, strays>>

(* The user's cancellation, and the teardown that follows it.              *)
Cancel ==
  /\ pc # "done" /\ ~cancelled
  /\ cancelled' = TRUE
  /\ UNCHANGED <<mode, listing, pc, context, tabs, reading, crawling, second,
                 told, faults, strays>>

TearDown ==
  /\ cancelled /\ context
  /\ context' = FALSE /\ open' = {} /\ page' = None
  /\ UNCHANGED <<run, pc, suspended, reading, crawling, second, told, faults,
                 strays>>
-----------------------------------------------------------------------------
(* The list of courses.                                                    *)

(* preferCancellation: a cancelled run is told so, whatever failed first.  *)
(* The lookup of names passes the error on as it is.                       *)
AfterError == IF cancelled /\ mode # "names" THEN "cancelled" ELSE "failed"

(* What comes before the listing pages: a page and a context that is not   *)
(* cancelled; the lookup of names asks for the page later.                 *)
Begin ==
  /\ pc = "begin"
  /\ \/ mode # "names" /\ page = None /\ Answers("failed", {})
     \/ cancelled /\ (mode = "names" \/ page # None) /\ Answers("cancelled", {})
     \/ ~cancelled /\ (mode = "names" \/ page # None)
        /\ pc' = "hold" /\ UNCHANGED told
  /\ UNCHANGED <<run, context, tabs, reading, crawling, second, faults, strays>>

Hold ==
  /\ pc = "hold"
  /\ \/ page # None /\ pc' = "goto" /\ held' = page /\ UNCHANGED told
     \/ page = None /\ Answers(AfterError, {}) /\ UNCHANGED held
  /\ UNCHANGED <<run, context, tabs, source, failed, seen, unseen, titles,
                 crawling, second, faults, strays>>

(* A listing page is loaded, at the second attempt if need be.             *)
Goto ==
  /\ pc \in {"goto", "again"}
  /\ held \in open
  /\ pc' = "extract"
  /\ UNCHANGED <<run, context, tabs, reading, crawling, second, told, faults,
                 strays>>

GotoFails ==
  /\ pc = "goto"
  /\ Costs(held \in open)
  /\ pc' = "again"
  /\ UNCHANGED <<run, context, tabs, reading, crawling, second, told, strays>>

NextSource ==
  /\ source' = source + 1
  /\ pc' = IF source + 1 \in Sources THEN "goto" ELSE "listed"

SourceFails ==
  /\ \/ pc = "again" /\ Costs(held \in open)
     \/ pc = "extract" /\ Costs(page \in open)
  /\ failed' = failed + 1
  /\ NextSource
  /\ UNCHANGED <<run, context, tabs, held, seen, unseen, titles, crawling,
                 second, told, strays>>

(* appendDiscoveredCourses: of a course's titles the longest that the      *)
(* configuration asks for.  A title is its length.                         *)
Accepted(cards) == {card \in cards : card.title \in Wanted}

LongestTitles(known, cards) ==
  LET all(c) == {card.title : card \in {d \in cards : d.course = c}}
                \cup {known[d] : d \in DOMAIN known \cap {c}}
  IN  [c \in DOMAIN known \cup {card.course : card \in cards} |->
         CHOOSE t \in all(c) : \A u \in all(c) : u <= t]

(* The cards are read from s.page, which by now may be another tab than    *)
(* the one that was sent to the listing page.                              *)
Extract ==
  /\ pc = "extract" /\ page \in open /\ page = held
  /\ titles' = LongestTitles(titles, Accepted(listing[source]))
  /\ seen' = seen \cup {source}
  /\ NextSource
  /\ UNCHANGED <<run, context, tabs, held, failed, unseen, crawling, second,
                 told, faults, strays>>

(* The other tab shows no cards; nor does a listing page that has not been *)
(* rendered when the wait for it is over.                                  *)
ExtractNothing ==
  /\ pc = "extract" /\ page \in open
  /\ Costs(page = held)
  /\ unseen' = unseen \cup {source}
  /\ NextSource
  /\ UNCHANGED <<run, context, tabs, held, failed, seen, titles, crawling,
                 second, told, strays>>

(* allCourseSourcesFailed                                                  *)
AllSourcesFailed == failed = 3

(* sort.Slice over what a map held: courses of one title come in any order.*)
InTitleOrder(cs) ==
  {q \in [1 .. Cardinality(cs) -> cs] :
     /\ ToSet(q) = cs
     /\ \A i, j \in DOMAIN q : i < j => titles[q[i]] <= titles[q[j]]}

(* The list is read: an error, the names, or the crawl.                    *)
Listed ==
  /\ pc = "listed"
  /\ \/ AllSourcesFailed /\ Answers(AfterError, {})
     \/ ~AllSourcesFailed /\ mode = "names" /\ Answers("ok", {})
     \/ ~AllSourcesFailed /\ mode = "2" /\ ~context /\ Answers("failed", {})
  /\ UNCHANGED <<run, context, tabs, reading, crawling, second, faults, strays>>

StartCrawl ==
  /\ pc = "listed"
  /\ ~AllSourcesFailed /\ mode # "names" /\ (mode = "2" => context)
  /\ pc' = "crawling"
  /\ queue' \in InTitleOrder(DOMAIN titles)
  /\ suspended' = (mode # "2")
  /\ UNCHANGED <<run, context, open, page, reading, late, work, answers,
                 visits, files, second, told, faults, strays>>
-----------------------------------------------------------------------------
(* The crawl of the courses.                                               *)

Set(w, step, tab) == work' = [work EXCEPT ![w].step = step, ![w].tab = tab]
At(w, step) == pc = "crawling" /\ work[w].step = step

(* The feeder hands the next course to a worker.  One that is already on   *)
(* its way when the context is cancelled may still arrive.                 *)
Take(w) ==
  /\ At(w, "idle")
  /\ queue # <<>>
  /\ ~late /\ late' = cancelled
  /\ work' = [work EXCEPT ![w] = [step |-> IF mode = "2" THEN "http" ELSE "tab",
                                  course |-> Head(queue), tab |-> None]]
  /\ queue' = Tail(queue)
  /\ UNCHANGED <<run, pc, context, tabs, reading, answers, visits, files,
                 second, told, faults, strays>>

(* The worker's tab, with a second attempt under the same lock.            *)
OpenTab(w) ==
  /\ At(w, "tab") \/ At(w, "retab")
  /\ \A v \in EveryWorker \ {w} : work[v].step # "retab"
  /\ \E p \in Unused : p = (CHOOSE q \in Unused : TRUE) /\ Opens(p, None)
                       /\ Set(w, "crawl", p)
  /\ UNCHANGED <<run, pc, context, reading, queue, late, answers, visits,
                 files, second, told, faults, strays>>

NoTab(w) ==
  /\ At(w, "tab") /\ context
  /\ \A v \in EveryWorker \ {w} : work[v].step # "retab"
  /\ Costs(open # {})
  /\ Set(w, "retab", None)
  /\ UNCHANGED <<run, pc, context, tabs, reading, queue, late, answers, visits,
                 files, second, told, strays>>

(* A crash under the crawl, and the tab it goes on in.                     *)
ReplaceTab(w) ==
  /\ At(w, "crawl")
  /\ work[w].tab \in open
  /\ Fault
  /\ \E p \in Unused : p = (CHOOSE q \in Unused : TRUE)
                       /\ Opens(p, work[w].tab) /\ Set(w, "crawl", p)
  /\ UNCHANGED <<run, pc, context, reading, queue, late, answers, visits,
                 files, second, told, strays>>

(* The rows of some sections, a section in cut giving its first page only. *)
Rows(title, sections, cut) ==
  UNION {{[title |-> title, section |-> s, name |-> n] :
            n \in IF s \in cut THEN RowsOf[s].first ELSE RowsOf[s].all}
         : s \in sections}

Put(f, c, v) == [d \in DOMAIN f \cup {c} |-> IF d = c THEN v ELSE f[d]]

(* The crawl ends; the tab it ended in is closed.                          *)
ClosesTab(w, ok) == open' = open \ {work[w].tab}

CourseFails(w) ==
  /\ \/ At(w, "tab") /\ ~context /\ UNCHANGED faults
     \/ At(w, "retab") /\ Costs(context /\ open # {})
     \/ At(w, "crawl") /\ Costs(work[w].tab \in open)
     \/ At(w, "http") /\ Costs(context /\ open # {})
  /\ ClosesTab(w, FALSE)
  /\ answers' = Put(answers, work[w].course, "warned")
  /\ work' = [work EXCEPT ![w] = Idle]
  /\ UNCHANGED <<run, pc, context, page, suspended, reading, queue, late,
                 visits, files, second, told, strays>>

CourseDone(w) ==
  /\ At(w, "crawl") \/ At(w, "http")
  /\ LET c == work[w].course
         whole == SectionsOf[c]
         works == IF mode = "2" THEN context /\ open # {} ELSE work[w].tab \in open
     IN  \E sections \in (SUBSET whole) \ {{}} : \E cut \in SUBSET sections :
           /\ \A s \in cut : RowsOf[s].first # RowsOf[s].all
           /\ Costs(works /\ (sections # whole \/ cut # {}))
           /\ files' = files \cup Rows(titles[c], sections, cut)
           /\ visits' = visits \cup {[title |-> titles[c], section |-> s] :
                                       s \in sections}
           /\ answers' = Put(answers, c, "crawled")
  /\ ClosesTab(w, TRUE)
  /\ work' = [work EXCEPT ![w] = Idle]
  /\ UNCHANGED <<run, pc, context, page, suspended, reading, queue, late,
                 second, told, strays>>

(* The last worker is done, and the tabs are followed again.               *)
Crawled ==
  /\ pc = "crawling"
  /\ \A w \in EveryWorker : work[w] = Idle
  /\ queue = <<>> \/ cancelled
  /\ pc' = "crawled"
  /\ suspended' = FALSE
  /\ UNCHANGED <<run, context, open, page, reading, crawling, second, told,
                 faults, strays>>

(* What the crawl hands back: with the cancellation, if there was one.     *)
(* The mutant hands it back as a finished one.                             *)
NeverStopped == FALSE
StoppedEarly == cancelled

AfterCrawl ==
  /\ pc = "crawled"
  /\ \/ StoppedEarly
        /\ Answers("cancelled", IF mode \in {"0", "2"} THEN files ELSE {})
     \/ ~StoppedEarly /\ mode \in {"0", "2"} /\ Answers("ok", files)
     \/ ~StoppedEarly /\ mode \in {"1", "verify"}
        /\ pc' = "browsed" /\ UNCHANGED told
  /\ UNCHANGED <<run, context, tabs, reading, crawling, second, faults, strays>>
-----------------------------------------------------------------------------
(* The second phase of "verify" and "1": every section the browser visited *)
(* is asked for over HTTP.  The cancellation is not looked at any more.    *)

Browsed ==
  /\ pc = "browsed"
  /\ \/ ~context /\ Answers("ok", files) /\ UNCHANGED toFetch
     \/ context /\ pc' = "second" /\ toFetch' = visits /\ UNCHANGED told
  /\ UNCHANGED <<run, context, tabs, reading, crawling, http, faults, strays>>

FetchSection ==
  /\ pc = "second"
  /\ \E v \in toFetch :
       /\ toFetch' = toFetch \ {v}
       /\ \/ /\ open # {}
             /\ \E cut \in SUBSET {v.section} :
                  /\ Costs(cut # {})
                  /\ http' = http \cup Rows(v.title, {v.section}, cut)
          \/ Costs(open # {}) /\ UNCHANGED http
  /\ UNCHANGED <<run, pc, context, tabs, reading, crawling, told, strays>>

(* The two results are compared by the names of each course.               *)
Names(fs) == {<<f.title, f.name>> : f \in fs}
Missing == Names(files) \ Names(http)

Compare ==
  /\ pc = "second" /\ toFetch = {}
  /\ Answers("ok", IF mode = "1" /\ Missing = {} THEN http ELSE files)
  /\ UNCHANGED <<run, context, tabs, reading, crawling, second, faults, strays>>
-----------------------------------------------------------------------------
(* What the run does, and what happens to it.                              *)
Step ==
  \/ Begin \/ Hold \/ Goto \/ GotoFails \/ SourceFails \/ Extract \/ ExtractNothing
  \/ Listed \/ StartCrawl \/ Crawled \/ AfterCrawl \/ Browsed \/ FetchSection \/ Compare
  \/ \E w \in EveryWorker :
       Take(w) \/ OpenTab(w) \/ NoTab(w) \/ ReplaceTab(w) \/ CourseFails(w)
       \/ CourseDone(w)

Surroundings == StrayTab \/ BrowserDies \/ Cancel \/ TearDown

Finished == pc = "done" /\ UNCHANGED vars

Next == Step \/ Surroundings \/ Finished

Spec == Init /\ [][Next]_vars
-----------------------------------------------------------------------------
TypeOK ==
  /\ mode \in Modes /\ listing \in Listings
  /\ pc \in {"begin", "hold", "goto", "again", "extract", "listed", "crawling",
             "crawled", "browsed", "second", "done"}
  /\ open \subseteq PageIds
  /\ page \in PageIds \cup {None} /\ held \in PageIds \cup {None}
  /\ source \in 1 .. 4 /\ failed \in 0 .. 3
  /\ seen \subseteq Sources /\ unseen \subseteq Sources
  /\ DOMAIN titles \subseteq Courses
  /\ ToSet(queue) \subseteq Courses
  /\ DOMAIN answers \subseteq Courses
  /\ answer \in {"none", "ok", "cancelled", "failed"}

(* What a source that was read shows of a course, under a wanted title.    *)
ShownTitles(c) ==
  {card.title : card \in {d \in UNION {listing[s] : s \in seen} :
                            d.course = c /\ d.title \in Wanted}}

(* A run that is reported as complete has got hold of a listing page, and  *)
(* every course that the ones it read show under a title the               *)
(* configuration asks for has been crawled, or warned about: neither a     *)
(* cancellation nor a dead browser, at whatever moment they come, makes    *)
(* an unread account look like an empty one.  Each course goes by its      *)
(* fullest title, which the paths of its files begin with.  And the modes  *)
(* that compare hand back no result in which a course lacks a file name    *)
(* that the browser has found, however many fetches fail or stop at a      *)
(* section's first page.  (discoverCourseLinks,                            *)
(* collectCourseFilesConcurrently, scrapeCoursesHybrid)                    *)
ListedIsAnswered ==
  answer = "ok" =>
    /\ seen \cup unseen # {}
    /\ \A c \in Courses : ShownTitles(c) # {} =>
         /\ c \in DOMAIN titles
         /\ \A t \in ShownTitles(c) : t <= titles[c]
         /\ mode = "names" \/ c \in DOMAIN answers
    /\ mode \in {"1", "verify"} =>
         \A f \in files : \E g \in result : g.title = f.title /\ g.name = f.name

(* When a run is over, and the browser still there, none of the tabs it    *)
(* opened for a course is left, and the page that the downloads are going  *)
(* to use is open: not the tab of a course, whatever order the tabs were   *)
(* opened, replaced and closed in.                                         *)
(* (suspendPageTracking, newCourseFileCollector, recoverFromPageCrash)     *)
SharedPageSurvives ==
  (pc = "done" /\ open # {}) => (page \in open /\ Cardinality(open) <= 1 + strays)

=============================================================================
