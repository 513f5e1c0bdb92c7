--------------------------- MODULE DownloadLadder ---------------------------
(***************************************************************************)
(* What a download worker does between taking a job and reporting it       *)
(* (scraper/download.go, download_refresh.go, sectionhtmlmemo.go,          *)
(* fallback_page_memo.go), composed with the pool it runs in: a plain GET, *)
(* a refreshed link taken from the HTML of the file's section, and at last *)
(* the shared browser page, one worker at a time.  The workers share two   *)
(* memos: each section's HTML, fetched once for all of them, and what the  *)
(* browser page shows.                                                     *)
(***************************************************************************)
EXTENDS WorkerPool, FiniteSets, Sequences

CONSTANTS
  Pages,      \* URLs of section pages
  PagesOf,    \* job -> the distinct pages its link may be on, in the order of the search;
              \* none when discovery recorded no candidate
  ViaClick,   \* jobs discovery found only by clicking "Alle anzeigen"
  Beyond,     \* sets of jobs that may be past the first page of their listing
  Expanded,   \* pages that were addressed after that click
  Capacity,   \* page instances the server keeps for a session
  MaxFaults   \* requests and clicks that go wrong before a cancellation

ASSUME LadderAssumption ==
  /\ IsFiniteSet(Pages) /\ PagesOf \in [Jobs -> Seq(Pages)] /\ ViaClick \subseteq Jobs
  /\ Beyond \subseteq SUBSET Jobs /\ Expanded \subseteq Pages
  /\ Capacity \in Nat \ {0} /\ MaxFaults \in Nat

VARIABLES
  beyond,    \* the jobs that are past the first page
  kept,      \* the server still knows the instances behind Expanded
  rung,      \* where each worker is on the ladder
  try,       \* the page of PagesOf it is at, and its pass over them
  html,      \* the page instance its HTML came from; Failed, Dead
  usedMemo,  \* its refresh read HTML that another worker fetched
  plainHTML, \* its plain GET answered with a page
  memo,      \* sectionHTMLMemo
  waits,     \* the worker whose fetch it waits for
  alive,     \* the server's page instances
  shown,     \* the shared browser page
  fallback,  \* fallbackPageMemo; here: the page's URL is still the recorded one
  reused,    \* the worker at the browser did not navigate
  faults

refresh == <<html, usedMemo, memo, waits, alive>>
browser == <<shown, fallback, reused>>
server == <<beyond, kept>>
ladderVars == <<beyond, kept, rung, try, html, usedMemo, plainHTML, memo, waits, alive, shown,
                fallback, reused, faults>>

Failed == 0
Dead == Capacity + 1
Instances == 1..Capacity
NoWorker == 0
Absent == [by |-> NoWorker, inst |-> Failed, present |-> FALSE]
Nowhere == [page |-> "elsewhere", expanded |-> FALSE]
Forgotten == [page |-> "none", here |-> FALSE, expanded |-> FALSE]
FirstTry == [at |-> 1, pass |-> 1]

LadderInit ==
  /\ Init
  /\ beyond \in Beyond /\ kept \in BOOLEAN /\ (beyond = {} => kept)
  /\ rung = [w \in Workers |-> "idle"] /\ try = [w \in Workers |-> FirstTry]
  /\ html = [w \in Workers |-> Failed] /\ usedMemo = [w \in Workers |-> FALSE]
  /\ plainHTML = [w \in Workers |-> FALSE]
  /\ memo = [p \in Pages |-> Absent] /\ waits = [w \in Workers |-> NoWorker]
  /\ alive = {}
  /\ shown = Nowhere /\ fallback = Forgotten /\ reused = FALSE
  /\ faults = 0

\* A request is answered or goes wrong; once Close has taken the browser away,
\* which a cancellation does at once, all of them go wrong.
Answered == ~ctxDone /\ UNCHANGED faults
GoesWrong == \/ ctxDone /\ UNCHANGED faults
             \/ ~ctxDone /\ faults < MaxFaults /\ faults' = faults + 1

Climb(w, r) == rung' = [rung EXCEPT ![w] = r]
Here(w) == PagesOf[wjob[w]][try[w].at]
HasCandidate(w) == PagesOf[wjob[w]] # <<>>

\* The variables of a call that is over.
StartsAfresh(w) ==
  /\ try' = [try EXCEPT ![w] = FirstTry]
  /\ usedMemo' = [usedMemo EXCEPT ![w] = FALSE]
  /\ plainHTML' = [plainHTML EXCEPT ![w] = FALSE]

\* What a request for p, or a visit to it, lists without a click.
Lists(p, j) == j \notin beyond \/ (p \in Expanded /\ kept)

-----------------------------------------------------------------------------
(* refreshCounterURL over sectionHTMLMemo *)

\* Which entries there is no need to fetch.  The mutant has no memo.
NoMemo(p) == FALSE
Memoized(p) == memo[p].present

\* get: the first to ask fetches, everyone else waits for that fetch.
Lookup(w) ==
  LET p == Here(w) IN
  /\ rung[w] = "lookup"
  /\ IF Memoized(p)
     THEN /\ usedMemo' = [usedMemo EXCEPT ![w] = TRUE]
          /\ IF memo[p].by # NoWorker
             THEN Climb(w, "wait") /\ waits' = [waits EXCEPT ![w] = memo[p].by] /\ UNCHANGED html
             ELSE Climb(w, "click") /\ html' = [html EXCEPT ![w] = memo[p].inst] /\ UNCHANGED waits
          /\ UNCHANGED memo
     ELSE /\ memo' = [memo EXCEPT ![p] = [Absent EXCEPT !.by = w, !.present = TRUE]]
          /\ Climb(w, "fetch")
          /\ UNCHANGED <<usedMemo, html, waits>>
  /\ UNCHANGED <<vars, server, try, plainHTML, alive, browser, faults>>

\* The page comes, as a new instance that may push out any other, or it does
\* not.  Either way the entry is ready for those who wait for it.
Fetched(w, ok, n, lost) ==
  LET now(i) == IF i = lost THEN Dead ELSE i
      inst == IF ok THEN n ELSE Failed
      served(v) == waits[v] = w
  IN  /\ memo' = [p \in Pages |->
           IF memo[p].by = w THEN [memo[p] EXCEPT !.by = NoWorker, !.inst = inst]
           ELSE [memo[p] EXCEPT !.inst = now(@)]]
      /\ html' = [v \in Workers |-> IF v = w \/ served(v) THEN inst ELSE now(html[v])]
      /\ rung' = [v \in Workers |-> IF v = w \/ served(v) THEN "click" ELSE rung[v]]
      /\ waits' = [v \in Workers |-> IF served(v) THEN NoWorker ELSE waits[v]]
      /\ alive' = IF ok THEN (alive \ {lost}) \cup {n} ELSE alive

Fetch(w) ==
  /\ rung[w] = "fetch"
  /\ \/ /\ Answered
        /\ IF Cardinality(alive) < Capacity
           THEN Fetched(w, TRUE, CHOOSE n \in Instances : n \notin alive, Dead)
           ELSE \E n \in alive : Fetched(w, TRUE, n, n)
     \/ GoesWrong /\ Fetched(w, FALSE, Failed, Dead)
  /\ UNCHANGED <<vars, server, try, usedMemo, plainHTML, browser>>

\* A refresh that failed on memoized HTML drops its pages and is tried once more.
Drops(w) == {PagesOf[wjob[w]][i] : i \in DOMAIN PagesOf[wjob[w]]}

\* tryCandidatePagesInOrder.
MorePages(w) == try[w].at < Len(PagesOf[wjob[w]])

Misses(w) ==
  IF MorePages(w)
  THEN /\ try' = [try EXCEPT ![w].at = @ + 1]
       /\ Climb(w, "lookup")
       /\ UNCHANGED <<memo, usedMemo, html>>
  ELSE /\ html' = [html EXCEPT ![w] = Failed]
       /\ IF try[w].pass = 1 /\ usedMemo[w]
          THEN /\ memo' = [p \in Pages |-> IF p \in Drops(w) THEN Absent ELSE memo[p]]
               /\ try' = [try EXCEPT ![w] = [at |-> 1, pass |-> 2]]
               /\ Climb(w, "lookup") /\ UNCHANGED usedMemo
          ELSE Climb(w, "lock") /\ UNCHANGED <<memo, try, usedMemo>>

\* The file's click behaviour is bound to the instance its HTML came from.  It
\* answers with a link that serves the file, which attemptDirectDownload gets
\* and writes without another try.
Click(w) ==
  LET shows == html[w] # Failed /\ Lists(Here(w), wjob[w]) IN
  /\ rung[w] = "click"
  /\ \/ /\ shows /\ html[w] # Dead
        /\ html' = [html EXCEPT ![w] = Failed]
        /\ \/ Answered /\ Climb(w, "over")
           \/ GoesWrong /\ \E r \in {"over", "lock"} : Climb(w, r)
        /\ UNCHANGED <<memo, try, usedMemo>>
     \/ ~shows /\ UNCHANGED faults /\ Misses(w)
     \/ shows /\ html[w] = Dead /\ Answered /\ Misses(w)
     \/ shows /\ GoesWrong /\ Misses(w)
  /\ UNCHANGED <<vars, server, plainHTML, waits, alive, browser>>

-----------------------------------------------------------------------------
(* downloadFileViaBrowser, under browserDownloadMu *)

AtBrowser == {"direct", "open", "search", "expand", "again"}

Lock(w) ==
  /\ rung[w] = "lock"
  /\ \A v \in Workers : rung[v] \notin AtBrowser
  /\ Climb(w, IF ~HasCandidate(w) \/ ~plainHTML[w] THEN "direct" ELSE "open")
  /\ StartsAfresh(w)
  /\ UNCHANGED <<vars, server, html, memo, waits, alive, browser, faults>>

\* Navigate and hope that a download starts.
Direct(w) ==
  /\ rung[w] = "direct"
  /\ fallback' = Forgotten /\ shown' = Nowhere
  /\ \E r \in {"over", IF HasCandidate(w) THEN "open" ELSE "over"} : Climb(w, r)
  /\ UNCHANGED <<vars, server, try, refresh, plainHTML, reused, faults>>

\* The page is on screen already.  The mutant compares the request alone.
SameRequest(p) == fallback.page = p
CanReuse(p) == fallback.page = p /\ fallback.here

NextPage(w) ==
  LET last == ~MorePages(w) IN
  /\ Climb(w, IF last /\ try[w].pass = 2 THEN "over" ELSE "open")
  /\ try' = IF ~last THEN [try EXCEPT ![w].at = @ + 1]
            ELSE IF try[w].pass = 1 THEN [try EXCEPT ![w] = [at |-> 1, pass |-> 2]] ELSE try
  /\ reused' = FALSE

Open(w) ==
  /\ rung[w] = "open"
  /\ \/ /\ CanReuse(Here(w))
        /\ Climb(w, "search") /\ reused' = TRUE
        /\ UNCHANGED <<shown, fallback, try, faults>>
     \/ /\ ~CanReuse(Here(w)) /\ Answered
        /\ shown' = [page |-> Here(w), expanded |-> FALSE]
        /\ fallback' = [page |-> Here(w), here |-> TRUE, expanded |-> FALSE]
        /\ Climb(w, "search") /\ reused' = FALSE
        /\ UNCHANGED try
     \/ /\ ~CanReuse(Here(w)) /\ GoesWrong
        /\ shown' = Nowhere /\ fallback' = Forgotten
        /\ NextPage(w)
  /\ UNCHANGED <<vars, server, refresh, plainHTML>>

\* The file's link is on the page that is on screen.
Visible(j) == shown.page # "elsewhere" /\ (shown.expanded \/ Lists(shown.page, j))

\* tryClickDownloadSelectors.
Finds(w) ==
  /\ Visible(wjob[w]) /\ Answered
  /\ Climb(w, "over") /\ reused' = FALSE /\ UNCHANGED <<shown, fallback, try>>

\* A click that hits another link with the same text can leave the page.
FindsNothing(w) ==
  \/ ~Visible(wjob[w]) /\ UNCHANGED <<shown, fallback, faults>>
  \/ GoesWrong /\ \/ UNCHANGED <<shown, fallback>>
                  \/ shown' = Nowhere /\ fallback' = [fallback EXCEPT !.here = FALSE]

Search(w) ==
  LET mayExpand == wjob[w] \in ViaClick /\ ~(fallback.expanded /\ reused) IN
  /\ rung[w] = "search"
  /\ \/ Finds(w)
     \/ /\ FindsNothing(w)
        /\ IF mayExpand THEN Climb(w, "expand") /\ UNCHANGED <<try, reused>> ELSE NextPage(w)
  /\ UNCHANGED <<vars, server, refresh, plainHTML>>

\* The show-all click is made on whatever page is on screen now, and a click that
\* succeeds vouches for that page (markExpanded), whether it opened the listing,
\* was lost on a page not ready for it, or hit another link and left the page.
\* Without such a control, or when the click goes wrong, it fails.
Expand(w) ==
  /\ rung[w] = "expand"
  /\ \/ /\ \/ Answered /\ shown' = [shown EXCEPT !.expanded = TRUE]
           \/ GoesWrong /\ shown' \in {shown, Nowhere}
        /\ fallback' = [fallback EXCEPT !.expanded = TRUE, !.here = TRUE]
        /\ Climb(w, "again") /\ UNCHANGED <<try, reused>>
     \/ /\ (shown.page = "elsewhere" /\ UNCHANGED faults) \/ GoesWrong
        /\ NextPage(w) /\ UNCHANGED <<shown, fallback>>
  /\ UNCHANGED <<vars, server, refresh, plainHTML>>

\* The second search, on that same page.
Again(w) ==
  /\ rung[w] = "again"
  /\ Finds(w) \/ (FindsNothing(w) /\ NextPage(w))
  /\ UNCHANGED <<vars, server, refresh, plainHTML>>

-----------------------------------------------------------------------------
(* The pool around it *)

\* The plain GET of the URL discovery recorded brings the file or, which is how
\* OPAL is, a page.
Takes(w) ==
  /\ Hand(w)
  /\ \/ Answered /\ Climb(w, "over") /\ UNCHANGED plainHTML
     \/ /\ \/ Answered /\ plainHTML' = [plainHTML EXCEPT ![w] = TRUE]
           \/ GoesWrong /\ UNCHANGED plainHTML
        /\ Climb(w, IF PagesOf[next] # <<>> THEN "lookup" ELSE "lock")
  /\ UNCHANGED <<server, try, html, usedMemo, memo, waits, alive, browser>>

\* Whether the download succeeded is all the pool is told.
Reports(w) ==
  /\ rung[w] = "over"
  /\ Finish(w)
  /\ Climb(w, "idle")
  /\ StartsAfresh(w)
  /\ UNCHANGED <<server, html, memo, waits, alive, browser, faults>>

Rung(w) ==
  \/ Lookup(w) \/ Fetch(w) \/ Click(w)
  \/ Lock(w) \/ Direct(w) \/ Open(w) \/ Search(w) \/ Expand(w) \/ Again(w)

PoolStep == FeederPoll \/ FeederAbort \/ (\E w \in Workers : Deliver(w) \/ Exit(w))
            \/ CloseResults \/ DrainEnd

allVars == <<vars, ladderVars>>

Step == \/ PoolStep /\ UNCHANGED ladderVars
        \/ \E w \in Workers : Takes(w) \/ Rung(w) \/ Reports(w)

LadderNext == Step \/ (Cancel /\ UNCHANGED ladderVars)

\* Every request and every browser wait has a timeout; that some goroutine that
\* can run does is enough, since no goroutine spins.
LadderSpec == LadderInit /\ [][LadderNext]_allVars /\ WF_allVars(Step)

-----------------------------------------------------------------------------
(* Properties *)

\* Where a worker has a page of PagesOf before it.
Looking == {"lookup", "fetch", "wait", "click", "open", "search", "expand", "again"}

LadderTypes ==
  /\ beyond \in Beyond /\ kept \in BOOLEAN
  /\ rung \in [Workers -> Looking \cup {"idle", "lock", "direct", "over"}]
  /\ try \in [Workers -> [at : Nat \ {0}, pass : 1..2]]
  /\ usedMemo \in [Workers -> BOOLEAN] /\ plainHTML \in [Workers -> BOOLEAN]
  /\ memo \in [Pages -> [by : Workers \cup {NoWorker}, inst : Instances \cup {Failed, Dead},
                         present : BOOLEAN]]
  /\ waits \in [Workers -> Workers \cup {NoWorker}]
  /\ html \in [Workers -> Instances \cup {Failed, Dead}] /\ alive \subseteq Instances
  /\ shown \in [page : Pages \cup {"elsewhere"}, expanded : BOOLEAN]
  /\ fallback \in [page : Pages \cup {"none"}, here : BOOLEAN, expanded : BOOLEAN]
  /\ reused \in BOOLEAN
  /\ faults \in 0..MaxFaults

\* A worker climbs while it is busy, with a page of its job's list before it.
PlacesOK ==
  \A w \in Workers :
    /\ rung[w] # "idle" <=> wpc[w] = "busy"
    /\ rung[w] \in Looking => try[w].at \in DOMAIN PagesOf[wjob[w]]
    /\ rung[w] \in {"idle", "direct"} => try[w].at = 1

\* Who fetches, and who waits for it.
FetchesOK ==
  /\ \A p \in Pages : memo[p].by # NoWorker => memo[p].present /\ rung[memo[p].by] = "fetch"
  /\ \A w \in Workers : waits[w] # NoWorker => rung[w] = "wait" /\ rung[waits[w]] = "fetch"

\* An instance anybody counts on is one the server knows.
InstancesOK ==
  /\ \A w \in Workers : html[w] \in alive \cup {Failed, Dead}
  /\ \A p \in Pages : memo[p].inst \in alive \cup {Failed, Dead}

LadderOK == LadderTypes /\ PlacesOK /\ FetchesOK /\ InstancesOK

\* Whoever looks for a file's link looks at the listing it asked for, whether it
\* navigated or found the page on screen (fallbackPageMemo, canReuse), with one
\* exception: a page that a misdirected click led to and on which a show-all click
\* then succeeded is vouched for in the listing's name.  It is searched at once, and
\* by whoever asks for that listing next; nobody who navigated searches it first.
SearchesItsListing ==
  \A w \in Workers : rung[w] \in {"search", "again"} =>
    \/ shown.page = Here(w)
    \/ /\ shown.page = "elsewhere" /\ fallback.page = Here(w)
       /\ fallback.here /\ fallback.expanded
       /\ rung[w] = "search" => reused

\* Files that share a section share one page instance of it: while nothing goes
\* wrong and every link is where discovery found it, no worker is driven to the
\* browser by what its neighbours fetch (sectionHTMLMemo).
NoWorkerOutrunByNeighbours ==
  faults = 0 /\ ~ctxDone /\ beyond = {} /\ Cardinality(Pages) <= Capacity
    => \A w \in Workers : rung[w] = "lock" => ~HasCandidate(w)
=============================================================================
