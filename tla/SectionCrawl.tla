---------------------------- MODULE SectionCrawl ----------------------------
(***************************************************************************)
(* The two crawls of a course (internal/scraper).                          *)
(*                                                                         *)
(* The browser crawl (collectCourseFiles) takes everything queued as one   *)
(* level, visits its sections on several tabs at once (sectionTabPool) and *)
(* then merges the pages in the level's order.  A tab can crash under any  *)
(* visit, and is replaced; a page can fail to load, to be read, or to      *)
(* expand to its full list.  The HTTP crawl (discoverSectionsHTTP) fetches *)
(* the sections one by one, starting from the course tree.                 *)
(*                                                                         *)
(* Both are to come out as a CourseWalk.                                   *)
(***************************************************************************)
EXTENDS SectionPages, Integers

CONSTANTS
  MaxPages,    \* maxPages, the browser crawl's cap
  Workers,     \* section_concurrency
  TabIds,      \* the tabs of the browser
  MaxFaults    \* bound on the faults of the network and the browser

ASSUME BoundsAssumption ==
  MaxPages \in Nat \ {0} /\ Workers \in Nat \ {0} /\ MaxFaults \in Nat

VARIABLES
  strategy,   \* "browser" or "http"
  phase,      \* "start", "pop", "visiting", "done" or "error"
  queue,      \* URLs to visit
  queued,     \* their keys, and those of the sections left out
  visited,
  found,      \* the files, with the section each is filed under
  level,      \* the sections popped together
  results,    \* what was read of each of them
  merged,     \* how many of them are merged
  tabs,       \* the tab of each worker; the first is the caller's
  open,       \* the tabs open in the browser
  crashed,    \* those whose renderer died
  turn,       \* the place in level each worker is at
  stage,      \* where in visitSection it is
  fate,       \* how the visit of each section, or of the group, went
  faults

walk == <<queue, queued, visited, found>>
pool == <<tabs, open, crashed>>
visits == <<level, results, merged, turn, stage>>
vars == <<strategy, phase, walk, visits, pool, fate, faults>>

(* A visit that did not read all of its page warns of it, or does not: the *)
(* poll that settled before the page was rendered ("early") and the list   *)
(* that was expanded in part ("partial") look like any other page, and     *)
(* what a crash in the expansion or an expired session took ("cut") is     *)
(* unsaid.                                                                 *)
Warned == {"failed", "unread", "truncated"}
Unwarned == {"early", "partial", "cut"}
Fates == {"unseen", "read"} \cup Warned \cup Unwarned
Stages == {"goto", "regoto", "read", "reload", "reread", "expand"}
EveryWorker == 1 .. Workers

Init ==
  /\ strategy \in {"browser", "http"}
  /\ phase = "start"
  /\ queue = <<>> /\ queued = {} /\ visited = {} /\ found = <<>>
  /\ level = <<>> /\ results = <<>> /\ merged = 0
  /\ tabs = <<>> /\ open = {} /\ crashed = {}
  /\ turn = [w \in EveryWorker |-> w]
  /\ stage = [w \in EveryWorker |-> "goto"]
  /\ fate = [s \in Places |-> "unseen"]
  /\ faults = 0

Fault == faults < MaxFaults /\ faults' = faults + 1

(* A tab that is not in use; the name of a closed one may be used again.   *)
Unused == TabIds \ (open \cup crashed \cup ToSet(tabs))
NewTab == CHOOSE t \in Unused : TRUE

-----------------------------------------------------------------------------
(* Adding a page to the crawl's result, in both crawls: its files, then    *)
(* the sections it links to.                                               *)
Absorb(s, page, rest) ==
  LET targets == NewTargets(visited \cup queued, s, page.links)
  IN  /\ found' = AppendFiles(found, s, page.files)
      /\ queue' = rest \o Crawlable(targets, page.links)
      /\ queued' = queued \cup targets

(* The loop's condition; only the browser crawl has the cap.               *)
MoreToPop == queue # <<>> /\ Cardinality(visited) < MaxPages

-----------------------------------------------------------------------------
(* The browser crawl.                                                      *)

(* newCourseFileCollector opens the course's tab, trying twice.            *)
OpenCourseTab ==
  /\ strategy = "browser" /\ phase = "start"
  /\ Unused # {}
  /\ phase' = "pop"
  /\ tabs' = <<NewTab>> /\ open' = {NewTab}
  /\ queue' = <<Root>> /\ queued' = {Root}
  /\ UNCHANGED <<strategy, visited, found, visits, crashed, fate, faults>>

NoCourseTab ==
  /\ strategy = "browser" /\ phase = "start"
  /\ Fault
  /\ phase' = "error"
  /\ UNCHANGED <<strategy, walk, visits, pool, fate>>

(* One turn of the loop that pops a level.  The mutant does not remember   *)
(* which sections were visited.                                            *)
PopUnmarked ==
  /\ strategy = "browser" /\ phase = "pop"
  /\ MoreToPop
  /\ queue' = Tail(queue)
  /\ queued' = queued \ {Head(queue)}
  /\ level' = Append(level, Head(queue))
  /\ UNCHANGED <<strategy, phase, visited, found, results, merged, turn, stage,
                 pool, fate, faults>>

Pop ==
  /\ strategy = "browser" /\ phase = "pop"
  /\ MoreToPop
  /\ queue' = Tail(queue)
  /\ queued' = queued \ {Head(queue)}
  /\ visited' = visited \cup {Head(queue)}
  /\ level' = IF Head(queue) \in visited THEN level
              ELSE Append(level, Head(queue))
  /\ UNCHANGED <<strategy, phase, found, results, merged, turn, stage,
                 pool, fate, faults>>

(* ensure: before a level is visited, tabs are opened up to one for each   *)
(* section of it, as far as the browser will; they stay open for the next. *)
LevelPopped ==
  strategy = "browser" /\ phase = "pop" /\ level # <<>> /\ ~MoreToPop
WantsTab == Len(tabs) < Len(level) /\ Len(tabs) < Workers

OpenTab ==
  /\ LevelPopped /\ WantsTab
  /\ Unused # {}
  /\ tabs' = Append(tabs, NewTab)
  /\ open' = open \cup {NewTab}
  /\ UNCHANGED <<strategy, phase, walk, visits, crashed, fate, faults>>

(* visitAll: the level's sections go to the tabs there are.                *)
StartLevel ==
  /\ LevelPopped
  /\ IF WantsTab THEN Fault ELSE UNCHANGED faults
  /\ phase' = "visiting"
  /\ results' = [i \in DOMAIN level |-> Blank]
  /\ turn' = [w \in EveryWorker |-> w]
  /\ UNCHANGED <<strategy, walk, level, merged, stage, pool, fate>>

(* A worker with a section of its own: they take the level's sections in   *)
(* turn, and each keeps to its tab.                                        *)
Visiting(w) ==
  phase = "visiting" /\ w \in DOMAIN tabs /\ turn[w] \in DOMAIN level
Section(w) == level[turn[w]]
Alive(w) == tabs[w] \notin crashed
At(w, stages) == Visiting(w) /\ Alive(w) /\ stage[w] \in stages

(* The visit is over: the page, the warning, and on to the next section.   *)
(* The mutant keeps one result for each worker, not for each section.      *)
EndVisitByWorker(w, page, outcome) ==
  /\ results' = [results EXCEPT ![w] = page]
  /\ fate' = [fate EXCEPT ![Section(w)] = outcome]
  /\ turn' = [turn EXCEPT ![w] = @ + Len(tabs)]
  /\ stage' = [stage EXCEPT ![w] = "goto"]

EndVisit(w, page, outcome) ==
  /\ results' = [results EXCEPT ![turn[w]] = page]
  /\ fate' = [fate EXCEPT ![Section(w)] = outcome]
  /\ turn' = [turn EXCEPT ![w] = @ + Len(tabs)]
  /\ stage' = [stage EXCEPT ![w] = "goto"]

GoOn(w, to) ==
  /\ stage' = [stage EXCEPT ![w] = to]
  /\ UNCHANGED <<results, turn, fate>>

VisitStep == UNCHANGED <<strategy, phase, walk, level, merged>>

Navigates(w) ==
  /\ At(w, {"goto", "regoto", "reload"})
  /\ GoOn(w, IF stage[w] = "reload" THEN "reread" ELSE "read")
  /\ VisitStep /\ UNCHANGED <<pool, faults>>

(* A failed navigation is tried once more; after a recovery it is not.     *)
NavigationFails(w) ==
  /\ At(w, {"goto", "regoto", "reload"})
  /\ Fault
  /\ IF stage[w] = "goto" THEN GoOn(w, "regoto")
     ELSE EndVisit(w, Blank, "failed")
  /\ VisitStep /\ UNCHANGED pool

(* waitForStableSectionContent settles on what the page shows.  A page     *)
(* with a "show all" control goes on to be expanded.                       *)
Reads(w) ==
  /\ At(w, {"read", "reread"})
  /\ IF Paginated(Section(w)) THEN GoOn(w, "expand")
     ELSE EndVisit(w, First[Section(w)], "read")
  /\ VisitStep /\ UNCHANGED <<pool, faults>>

(* It settles on a plateau, with the table or the rest of its rows still   *)
(* to come, or with all rows there and no control yet, so that nothing is  *)
(* expanded.  Other links on the page keep the read from being empty.      *)
ReadsEarly(w) ==
  /\ At(w, {"read", "reread"})
  /\ Fault
  /\ \E page \in Rendered(First[Section(w)]) :
       /\ page # Whole(Section(w))
       /\ EndVisit(w, page, "early")
  /\ VisitStep /\ UNCHANGED pool

(* Every extraction fails without a crash: candidateStabilityPoll takes    *)
(* that for no progress and returns no candidates and no error.            *)
ReadsNothing(w) ==
  /\ At(w, {"read", "reread"})
  /\ Fault
  /\ EndVisit(w, Blank, "unread")
  /\ VisitStep /\ UNCHANGED pool

(* waitForStableExpandedCandidates settles on the full list or, when the   *)
(* click's answer was lost or is still being rendered, on a part of it;    *)
(* that replaces what was read before.  The number of files tells the one  *)
(* loss that is warned about: there were some, and now there are no more.  *)
ExpandedFate(s, page) ==
  IF First[s].files # <<>> /\ Len(page.files) <= Len(First[s].files)
  THEN "truncated"
  ELSE IF page = Whole(s) THEN "read" ELSE "partial"

Expands(w) ==
  /\ At(w, {"expand"})
  /\ \E page \in Rendered(Whole(Section(w))) :
       /\ IF page = Whole(Section(w)) THEN UNCHANGED faults ELSE Fault
       /\ EndVisit(w, page, ExpandedFate(Section(w), page))
  /\ VisitStep /\ UNCHANGED pool

(* The control cannot be clicked, or no expanded list can be read.         *)
ExpansionFails(w) ==
  /\ At(w, {"expand"})
  /\ Fault
  /\ EndVisit(w, First[Section(w)], "truncated")
  /\ VisitStep /\ UNCHANGED pool

TabCrashes(w) ==
  /\ Visiting(w) /\ Alive(w)
  /\ Fault
  /\ crashed' = crashed \cup {tabs[w]}
  /\ VisitStep /\ UNCHANGED <<tabs, open, results, turn, stage, fate>>

(* recoverFromPageCrash: a new tab, and the crashed one is closed.  The    *)
(* mutant leaves it open.                                                  *)
ReplaceTabOnly(w) ==
  /\ tabs' = [tabs EXCEPT ![w] = NewTab]
  /\ open' = open \cup {NewTab}
  /\ crashed' = crashed \ {tabs[w]}

ReplaceTab(w) ==
  /\ tabs' = [tabs EXCEPT ![w] = NewTab]
  /\ open' = (open \ {tabs[w]}) \cup {NewTab}
  /\ crashed' = crashed \ {tabs[w]}

(* How a visit goes on once its tab is replaced: the navigation that       *)
(* failed is repeated, the page that could not be read is loaded again,    *)
(* and an expansion is given up for the page already read, unsaid.         *)
AfterReplacement(w) ==
  CASE stage[w] = "goto" -> GoOn(w, "regoto")
    [] stage[w] = "read" -> GoOn(w, "reload")
    [] OTHER -> EndVisit(w, First[Section(w)], "cut")

Dead(w, stages) == Visiting(w) /\ ~Alive(w) /\ stage[w] \in stages

RecoversTab(w) ==
  /\ Dead(w, {"goto", "read", "expand"})
  /\ Unused # {}
  /\ ReplaceTab(w)
  /\ AfterReplacement(w)
  /\ VisitStep /\ UNCHANGED faults

CannotRecover(w) ==
  /\ Dead(w, {"goto", "read", "expand"})
  /\ Fault
  /\ IF stage[w] = "expand" THEN EndVisit(w, First[Section(w)], "cut")
     ELSE EndVisit(w, Blank, "failed")
  /\ VisitStep /\ UNCHANGED pool

(* A tab that crashes again in the same visit ends it: the next visit on   *)
(* it will replace it.                                                     *)
CrashesAgain(w) ==
  /\ Dead(w, {"regoto", "reload", "reread"})
  /\ EndVisit(w, Blank, "failed")
  /\ VisitStep /\ UNCHANGED <<pool, faults>>

(* After wg.Wait() the pages are merged one after the other, in the order  *)
(* in which their sections were popped.  The mutant merges the last page   *)
(* first.                                                                  *)
AllVisited == \A w \in DOMAIN tabs : turn[w] > Len(level)

MergesReversed(i) ==
  LET j == Len(level) + 1 - i IN Absorb(level[j], results[j], queue)
Merges(i) == Absorb(level[i], results[i], queue)

LevelEnds == level' = <<>> /\ results' = <<>> /\ phase' = "pop" /\ merged' = 0

Merge ==
  /\ phase = "visiting" /\ AllVisited
  /\ Merges(merged + 1)
  /\ IF merged + 1 < Len(level)
     THEN merged' = merged + 1 /\ UNCHANGED <<phase, level, results>>
     ELSE LevelEnds
  /\ UNCHANGED <<strategy, visited, turn, stage, pool, fate, faults>>

(* No section that did not fail, and one that did: the course is dropped   *)
(* as an error.  The pool closes its tabs, the caller the first one.       *)
Failed(s) == fate[s] = "failed"
NothingVisited == visited # {} /\ \A s \in visited : Failed(s)

Finish ==
  /\ strategy = "browser" /\ phase = "pop"
  /\ level = <<>> /\ ~MoreToPop
  /\ phase' = IF NothingVisited THEN "error" ELSE "done"
  /\ open' = open \ ToSet(tabs)
  /\ UNCHANGED <<strategy, walk, visits, tabs, crashed, fate, faults>>

-----------------------------------------------------------------------------
(* The HTTP crawl.  An answer is the page, an error, or - when the session *)
(* has expired - the login page, whose status is 200 too.                  *)
Answers == {"page", "error", "login"}
Bad(answers) == \E a \in answers : a # "page"
Suffers(answers) == IF Bad(answers) THEN Fault ELSE UNCHANGED faults

(* What a section's visit says of itself: an error is reported, a login    *)
(* page is not noticed.                                                    *)
FateOf(answers) ==
  IF "login" \in answers THEN "cut"
  ELSE IF "error" \in answers THEN "truncated" ELSE "read"

(* The root page, which everything else is found from; then the folder of  *)
(* the learning group and its full list, which may fail by themselves.     *)
PartsOf(s, body, rest, prose) ==
  {body} \cup (IF Paginated(s) THEN {rest} ELSE {})
         \cup (IF Prose[s] # <<>> THEN {prose} ELSE {})

(* Nothing more is asked of a page that is not there.                      *)
AskedInTurn(body, later) == body # "page" => later \subseteq {"page"}

PageOf(s, body, rest, prose) ==
  IF body # "page" THEN Blank
  ELSE Shown(s, IF rest = "page" THEN More[s] ELSE Blank,
                IF prose = "page" THEN Prose[s] ELSE <<>>)

FetchRoot(root, group, rest) ==
  /\ strategy = "http" /\ phase = "start"
  /\ AskedInTurn(root, {group, rest}) /\ AskedInTurn(group, {rest})
  /\ Suffers({root} \cup PartsOf(Group, group, rest, "page"))
  /\ IF root = "error"
     THEN /\ phase' = "error"
          /\ UNCHANGED <<walk, fate>>
     ELSE /\ phase' = "pop"
          /\ LET folder == PartsOf(Group, group, rest, "page")
             IN  fate' = [fate EXCEPT ![Root] = FateOf({root}),
                                      ![Group] = FateOf({root} \cup folder)]
          /\ queue' = IF root = "page" THEN TreeQueue ELSE <<Root>>
          /\ queued' = IF root = "page" THEN TreeQueued ELSE {Root}
          /\ found' = IF root = "page"
                      THEN AppendFiles(<<>>, Group,
                                       PageOf(Group, group, rest, "page").files)
                      ELSE <<>>
          /\ UNCHANGED visited
  /\ UNCHANGED <<strategy, visits, pool>>

(* One turn of the loop: the section's page, unless it is the root's,      *)
(* which is at hand; its full list, and the prose embedded in it.          *)
Worse(old, new) == IF old \in {"unseen", "read"} THEN new ELSE old

FetchSection(body, rest, prose) ==
  /\ strategy = "http" /\ phase = "pop"
  /\ queue # <<>>
  /\ AskedInTurn(body, {rest, prose})
  /\ LET s == Head(queue)
         fetched == PartsOf(s, body, rest, prose)
         now == visited \cup {s}
         left == queued \ {s}
         page == PageOf(s, body, rest, prose)
         targets == NewTargets(now \cup left, s, page.links)
     IN  /\ s = Root => body = IF fate[Root] = "cut" THEN "login" ELSE "page"
         /\ Suffers(IF s = Root THEN fetched \ {body} ELSE fetched)
         /\ visited' = now
         /\ found' = AppendFiles(found, s, page.files)
         /\ queue' = Tail(queue) \o Crawlable(targets, page.links)
         /\ queued' = left \cup targets
         /\ fate' = [fate EXCEPT ![s] =
              Worse(@, IF body = "error" THEN "failed" ELSE FateOf(fetched))]
  /\ UNCHANGED <<strategy, phase, visits, pool>>

HttpFinish ==
  /\ strategy = "http" /\ phase = "pop"
  /\ queue = <<>>
  /\ phase' = "done"
  /\ UNCHANGED <<strategy, walk, visits, pool, fate, faults>>

-----------------------------------------------------------------------------

VisitAction(w) ==
  \/ Navigates(w) \/ NavigationFails(w)
  \/ Reads(w) \/ ReadsEarly(w) \/ ReadsNothing(w)
  \/ Expands(w) \/ ExpansionFails(w)
  \/ TabCrashes(w) \/ RecoversTab(w) \/ CannotRecover(w) \/ CrashesAgain(w)

Over == phase \in {"done", "error"}
Stay == Over /\ UNCHANGED vars

Next ==
  \/ OpenCourseTab \/ NoCourseTab
  \/ Pop \/ OpenTab \/ StartLevel \/ Merge \/ Finish
  \/ \E w \in EveryWorker : VisitAction(w)
  \/ \E root, group, rest \in Answers : FetchRoot(root, group, rest)
  \/ \E body, rest, prose \in Answers : FetchSection(body, rest, prose)
  \/ HttpFinish
  \/ Stay

Spec == Init /\ [][Next]_vars

(* The goroutines keep running, and every navigation, click, extraction    *)
(* and request behind a step has a timeout or a bound on its repetitions.  *)
FairSpec == Spec /\ WF_vars(Next)

-----------------------------------------------------------------------------

TypeOK ==
  /\ strategy \in {"browser", "http"}
  /\ phase \in {"start", "pop", "visiting", "done", "error"}
  /\ queue \in Seq(Sections) /\ level \in Seq(Sections)
  /\ queued \subseteq Sections /\ visited \subseteq Sections
  /\ found \in Seq([file : Files, section : Places])
  /\ merged \in 0 .. Len(level)
  /\ results \in Seq(Pages)
  /\ phase = "visiting" => Len(results) = Len(level)
  /\ tabs \in Seq(TabIds) /\ open \subseteq TabIds /\ crashed \subseteq TabIds
  /\ turn \in [EveryWorker -> Nat]
  /\ stage \in [EveryWorker -> Stages]
  /\ fate \in [Places -> Fates]
  /\ faults \in 0 .. MaxFaults

(* Whatever the order in which the tabs finish, and whatever fails, the    *)
(* crawl comes out as one that visits a section at a time: the sections of *)
(* a level that are not merged yet are, for it, still in the queue.        *)
Unmerged == SubSeq(level, merged + 1, Len(level))

Walk == INSTANCE CourseWalk WITH
  status <- IF phase = "start" THEN "starting"
            ELSE IF Over THEN "over" ELSE "crawling",
  capped <- strategy = "browser",
  queue <- Unmerged \o queue,
  queued <- queued \cup ToSet(Unmerged),
  visited <- visited \ ToSet(Unmerged)

ImplementsCourseWalk == Walk!Spec

(* What is read is what is listed, whichever tab read it and whatever      *)
(* failed on the others: of a section whose visit was not one of the       *)
(* losses, every file is in the listing and every section it links to was  *)
(* visited, is known to hold none, or is counted in the warning about the  *)
(* cap; and so is all of the course tree.  Two losses are unwarned but     *)
(* have a limit: a crash in the expansion leaves the first page's rows,    *)
(* and a list that had a file and was expanded in part without a warning   *)
(* has kept these and gained at least one, so that no section stays at its *)
(* first page in silence once its control was found.                       *)
Content(s) ==
  IF strategy = "http" THEN [Whole(s) EXCEPT !.files = @ \o Prose[s]]
  ELSE Whole(s)

Accounted == visited \cup NonFile \cup ToSet(queue)

BringsBack(page) ==
  /\ ToSet(page.files) \subseteq Listed(found)
  /\ ToSet(page.links) \subseteq Accounted

KeptOfVisit(s) ==
  /\ fate[s] # "unseen"
  /\ fate[s] = "read" => BringsBack(Content(s))
  /\ strategy = "browser" =>
       /\ fate[s] = "cut" => BringsBack(First[s])
       /\ fate[s] = "partial" /\ First[s].files # <<>> =>
            ToSet(First[s].files) \cup {Head(More[s].files)}
              \subseteq Listed(found)

OnlyKnownLosses ==
  phase = "done" =>
    /\ Root \in visited
    /\ \A s \in visited : KeptOfVisit(s)
    /\ strategy = "http" =>
         /\ queue = <<>>
         /\ fate[Root] \in {"read", "truncated"} =>
              ToSet(Seed) \subseteq Accounted
         /\ fate[Group] = "read" =>
              ToSet(Content(Group).files) \subseteq Listed(found)

(* However tabs crash and are replaced, each worker drives a tab that is   *)
(* open and no other worker's, no replaced tab stays open, and none is     *)
(* left when the course is done: tabs would pile up over a run.            *)
TabsOwned ==
  IF phase \in {"pop", "visiting"} /\ strategy = "browser"
  THEN open = ToSet(tabs) /\ IsInjective(tabs)
  ELSE open = {}

(* The crawl ends, however the sections link to each other.                *)
Termination == <>Over

=============================================================================
