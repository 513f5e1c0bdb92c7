--------------------------- MODULE DiscoveryProofs ---------------------------
(***************************************************************************)
(* Proofs about how a run finds out which files there are, for any courses *)
(* and listing pages, any number of workers and tabs, in every mode, and   *)
(* with a cancellation, a dead browser, stray tabs and any faults.         *)
(***************************************************************************)
EXTENDS Discovery, WellFoundedInduction, FiniteSetTheorems, TLAPS

-----------------------------------------------------------------------------
(* The inductive invariant, in parts.                                      *)

ReadingPcs == {"begin", "hold", "goto", "again", "extract"}
CrawlPcs == {"crawling", "crawled", "browsed", "second"}

(* Where the run is among the listing pages.  One that is not counted as   *)
(* failed was read, or at least loaded.                                    *)
ReadingOK ==
  /\ pc \in ReadingPcs \cup CrawlPcs \cup {"listed", "done"}
  /\ source \in 1 .. 4 /\ failed \in 0 .. source - 1
  /\ seen \subseteq Sources /\ unseen \subseteq Sources
  /\ pc \in ReadingPcs => source \in Sources
  /\ pc = "listed" => source = 4
  /\ seen \cup unseen = {} => failed = source - 1
  /\ pc \in CrawlPcs => seen \cup unseen # {}

(* What is known of the courses' titles.                                   *)
TitlesOK ==
  /\ mode \in Modes /\ listing \in Listings
  /\ DOMAIN titles \subseteq Courses
  /\ \A c \in DOMAIN titles : titles[c] \in Wanted
  /\ \A c \in Courses : \A t \in ShownTitles(c) :
       c \in DOMAIN titles /\ t <= titles[c]

(* The workers, and who follows the tabs.                                  *)
WorkOK ==
  /\ work \in [EveryWorker ->
       [step : {"idle", "tab", "retab", "crawl", "http"},
        course : Courses \cup {None}, tab : PageIds \cup {None}]]
  /\ \A w \in EveryWorker :
       /\ work[w].step # "crawl" => work[w].tab = None
       /\ work[w].step # "idle" => work[w].course \in Courses
       /\ mode = "2" => work[w].step \in {"idle", "http"}
  /\ pc # "crawling" => \A w \in EveryWorker : work[w] = Idle
  /\ pc = "crawling" /\ mode # "2" => suspended

(* A course that was listed waits, is being crawled or has its answer.     *)
InHand(c) ==
  \/ c \in ToSet(queue)
  \/ c \in DOMAIN answers
  \/ \E w \in EveryWorker : work[w].step # "idle" /\ work[w].course = c

CoverOK ==
  /\ queue \in Seq(Courses)
  /\ DOMAIN answers \subseteq Courses
  /\ pc \in CrawlPcs => \A c \in DOMAIN titles : InHand(c)
  /\ pc = "crawled" => queue = <<>> \/ cancelled
  /\ pc \in {"browsed", "second"} => queue = <<>>

(* What the caller was told.                                               *)
AnswerOK ==
  /\ answer \in {"none", "ok", "cancelled", "failed"}
  /\ answer # "none" => pc = "done"
  /\ answer = "ok" =>
       /\ seen \cup unseen # {}
       /\ mode = "names" \/ DOMAIN titles \subseteq DOMAIN answers
       /\ mode \in {"1", "verify"} =>
            \A f \in files : \E g \in result : g.title = f.title /\ g.name = f.name

(* While the browser is there, the shared page is open and no worker's,    *)
(* and what is open besides belongs to a worker or came by itself.         *)
WorkTabs == {work[w].tab : w \in EveryWorker}
TabsOK ==
  /\ open \subseteq PageIds /\ IsFiniteSet(open)
  /\ page \in PageIds \cup {None} /\ held \in PageIds \cup {None}
  /\ strays \in Nat
  /\ open # {} =>
       /\ page \in open \ WorkTabs
       /\ Cardinality(open \ WorkTabs) <= 1 + strays

IInv == ReadingOK /\ TitlesOK /\ WorkOK /\ CoverOK /\ AnswerOK /\ TabsOK

-----------------------------------------------------------------------------
(* Numbers.                                                                *)

(* A set of natural numbers that is not empty has a least element.         *)
LEMMA LeastNatural ==
  ASSUME NEW T, T \subseteq Nat, T # {}
  PROVE  \E n \in T : \A m \in T : n <= m
<1> DEFINE R == OpToRel(<, Nat)
<1>1. IsWellFoundedOn(R, Nat)
  BY NatLessThanWellFounded
<1>2. PICK n \in T : \A m \in T : ~(<<m, n>> \in R)
  <2> HIDE DEF R
  <2> QED
    BY <1>1, WFMin
<1>3. \A m \in T : ~(m < n)
  BY <1>2 DEF OpToRel
<1> HIDE DEF R
<1>4. \A m \in T : n <= m
  <2> TAKE m \in T
  <2>1. ~(m < n)
    BY <1>3
  <2>2. m \in Nat /\ n \in Nat
    OBVIOUS
  <2> QED
    BY <2>1, <2>2
<1> QED
  BY <1>4

-----------------------------------------------------------------------------
(* What the steps leave alone.                                             *)

LEMMA Reading ==
  ASSUME Next
  PROVE  \/ SourceFails \/ Extract \/ ExtractNothing
         \/ UNCHANGED <<source, failed, seen, unseen, titles>>
BY DEF Next, Step, Surroundings, Finished, Begin, Hold, Goto, GotoFails, Listed, StartCrawl,
       Crawled, AfterCrawl, Browsed, FetchSection, Compare, Take, OpenTab, NoTab, ReplaceTab,
       CourseFails, CourseDone, StrayTab, BrowserDies, Cancel, TearDown, vars, reading

LEMMA Questions ==
  ASSUME Next
  PROVE  UNCHANGED <<mode, listing>> /\ (cancelled => cancelled')
<1>1. CASE Cancel
  BY <1>1 DEF Cancel
<1>2. Cancel \/ UNCHANGED run
  BY DEF Next, Step, Surroundings, Finished, Begin, Hold, Goto, GotoFails, Listed, StartCrawl,
         Crawled, AfterCrawl, Browsed, FetchSection, Compare, Take, OpenTab, NoTab, ReplaceTab,
         CourseFails, CourseDone, StrayTab, BrowserDies, TearDown, vars, run,
         SourceFails, Extract, ExtractNothing
<1> QED BY <1>1, <1>2 DEF run

LEMMA Places ==
  ASSUME Next
  PROVE  \/ SourceFails \/ Extract \/ ExtractNothing
         \/ /\ pc \in {"begin", "hold", "again", "goto"}
            /\ pc' \in {"hold", "goto", "again", "extract", "done"}
         \/ pc = "listed" /\ pc' = "done"
         \/ StartCrawl
         \/ pc \in CrawlPcs /\ pc' \in CrawlPcs \cup {"done"} /\ pc' # "crawling"
         \/ pc' = pc
BY DEF Next, Step, Surroundings, Finished, Begin, Hold, Goto, GotoFails, Listed, StartCrawl,
       Crawled, AfterCrawl, Browsed, FetchSection, Compare, Take, OpenTab, NoTab, ReplaceTab,
       CourseFails, CourseDone, StrayTab, BrowserDies, Cancel, TearDown, vars, Answers, CrawlPcs

-----------------------------------------------------------------------------
(* The listing pages.                                                      *)

LEMMA ReadingStep ==
  ASSUME ReadingOK, [Next]_vars
  PROVE  ReadingOK'
<1>1. CASE UNCHANGED vars
  BY <1>1 DEF ReadingOK, vars, reading
<1>2. CASE SourceFails
  BY <1>2 DEF SourceFails, NextSource, ReadingOK, ReadingPcs, CrawlPcs, Sources
<1>3. CASE Extract
  BY <1>3 DEF Extract, NextSource, ReadingOK, ReadingPcs, CrawlPcs, Sources
<1>4. CASE ExtractNothing
  BY <1>4 DEF ExtractNothing, NextSource, ReadingOK, ReadingPcs, CrawlPcs, Sources
<1>5. CASE Next /\ UNCHANGED <<source, failed, seen, unseen, titles>>
  <2>1. CASE StartCrawl
    BY <1>5, <2>1 DEF StartCrawl, AllSourcesFailed, ReadingOK, ReadingPcs, CrawlPcs, Sources
  <2>2. CASE SourceFails \/ Extract \/ ExtractNothing
    BY <1>2, <1>3, <1>4, <2>2
  <2> QED BY <1>5, <2>1, <2>2, Places DEF ReadingOK, ReadingPcs, CrawlPcs
<1> QED BY <1>1, <1>2, <1>3, <1>4, <1>5, Reading

-----------------------------------------------------------------------------
(* The titles.                                                             *)

(* A finite set of numbers has a greatest one.                             *)
LEMMA Greatest ==
  ASSUME NEW S, S \subseteq Nat, IsFiniteSet(S), S # {}
  PROVE  \E m \in S : \A n \in S : n <= m
<1> DEFINE HasGreatest(R) == \E m \in R : \A n \in R : n <= m
           Bad == {R \in SUBSET Nat : IsFiniteSet(R) /\ R # {} /\ ~HasGreatest(R)}
           Sizes == {n \in Nat : \E R \in Bad : Cardinality(R) = n}
<1> SUFFICES ASSUME S \in Bad PROVE FALSE
  OBVIOUS
<1>1. Cardinality(S) \in Sizes
  BY FS_CardinalityType
<1>2. PICK n \in Sizes : \A m \in Sizes : n <= m
  <2> HIDE DEF Sizes
  <2>1. Sizes \subseteq Nat
    BY DEF Sizes
  <2> QED BY <1>1, <2>1, LeastNatural
<1>3. PICK R \in Bad : Cardinality(R) = n
  BY <1>2
<1>4. PICK x \in R : TRUE
  BY <1>3
<1>5. /\ IsFiniteSet(R \ {x}) /\ Cardinality(R \ {x}) = n - 1
      /\ R \ {x} \in SUBSET Nat
  BY <1>3, <1>4, FS_RemoveElement
<1>6. R \ {x} # {}
  <2> SUFFICES ASSUME R = {x} PROVE FALSE
    BY <1>4
  <2>1. HasGreatest(R)
    BY <1>3, <1>4
  <2> QED BY <1>3, <2>1
<1>7. HasGreatest(R \ {x})
  <2> SUFFICES ASSUME R \ {x} \in Bad PROVE FALSE
    BY <1>5, <1>6
  <2>1. n - 1 \in Nat
    BY <1>5, FS_CardinalityType
  <2>2. n - 1 \in Sizes
    BY <1>5, <2>1
  <2> QED BY <1>2, <2>1, <2>2
<1>8. PICK m \in R \ {x} : \A k \in R \ {x} : k <= m
  BY <1>7
<1>9. R \subseteq Nat /\ ~HasGreatest(R)
  BY <1>3
<1>10. m \in Nat /\ x \in Nat /\ (m <= x \/ x <= m)
  BY <1>4, <1>8, <1>9
<1>11. HasGreatest(R)
  <2>1. CASE m <= x
    <3>1. \A k \in R : k <= x
      BY <1>8, <1>9, <1>10, <2>1
    <3> QED BY <1>4, <3>1
  <2>2. CASE x <= m
    <3>1. \A k \in R : k <= m
      BY <1>8, <1>9, <1>10, <2>2
    <3> QED BY <1>8, <3>1
  <2> QED BY <1>10, <2>1, <2>2
<1> QED BY <1>9, <1>11

(* The titles a listing page adds, of a course that is on it or was known. *)
TitlesOf(c, cards) ==
  {card.title : card \in {d \in cards : d.course = c}} \cup {titles[d] : d \in DOMAIN titles \cap {c}}

(* The longest of them is kept.                                            *)
LEMMA LongestKept ==
  ASSUME DOMAIN titles \subseteq Courses, \A c \in DOMAIN titles : titles[c] \in Wanted,
         NEW cards \in SUBSET [course : Courses, title : Nat],
         \A card \in cards : card.title \in Wanted
  PROVE  LET kept == LongestTitles(titles, cards) IN
         /\ DOMAIN kept \subseteq Courses
         /\ DOMAIN titles \subseteq DOMAIN kept
         /\ \A card \in cards : card.course \in DOMAIN kept
         /\ \A c \in DOMAIN kept :
              kept[c] \in Wanted /\ \A t \in TitlesOf(c, cards) : t <= kept[c]
<1> DEFINE kept == LongestTitles(titles, cards)
           Known == DOMAIN titles \cup {card.course : card \in cards}
<1>1. kept = [c \in Known |->
                CHOOSE t \in TitlesOf(c, cards) : \A u \in TitlesOf(c, cards) : u <= t]
  BY DEF LongestTitles, TitlesOf
<1>2. DOMAIN kept = Known
  BY <1>1
<1>3. Known \subseteq Courses /\ DOMAIN titles \subseteq Known
      /\ \A card \in cards : card.course \in Known
  OBVIOUS
<1>4. ASSUME NEW c \in Known
      PROVE  kept[c] \in Wanted /\ \A t \in TitlesOf(c, cards) : t <= kept[c]
  <2>1. TitlesOf(c, cards) \subseteq Wanted
    BY DEF TitlesOf
  <2>2. TitlesOf(c, cards) # {}
    <3>1. CASE c \in DOMAIN titles
      BY <3>1 DEF TitlesOf
    <3>2. CASE \E card \in cards : card.course = c
      BY <3>2 DEF TitlesOf
    <3> QED BY <3>1, <3>2
  <2>3. TitlesOf(c, cards) \subseteq Nat /\ IsFiniteSet(TitlesOf(c, cards))
    BY <2>1, ListingAssumption, FS_Subset
  <2>4. \E t \in TitlesOf(c, cards) : \A u \in TitlesOf(c, cards) : u <= t
    BY <2>2, <2>3, Greatest
  <2>5. kept[c] = CHOOSE t \in TitlesOf(c, cards) : \A u \in TitlesOf(c, cards) : u <= t
    BY <1>1
  <2> HIDE DEF kept
  <2> QED BY <2>1, <2>4, <2>5
<1> HIDE DEF kept, Known
<1> QED BY <1>2, <1>3, <1>4 DEF kept

LEMMA TitlesStep ==
  ASSUME ReadingOK, TitlesOK, [Next]_vars
  PROVE  TitlesOK'
<1>1. CASE UNCHANGED vars
  BY <1>1 DEF TitlesOK, ShownTitles, vars, run, reading
<1>2. CASE Next /\ UNCHANGED <<titles, seen>>
  BY <1>2, Questions DEF TitlesOK, ShownTitles
<1>3. CASE Extract
  <2> DEFINE cards == Accepted(listing[source])
  <2>1. source \in Sources /\ listing \in [Sources -> SUBSET [course : Courses, title : Nat]]
    BY <1>3, ListingAssumption DEF Extract, ReadingOK, ReadingPcs, TitlesOK
  <2>2. cards \in SUBSET [course : Courses, title : Nat] /\ \A card \in cards : card.title \in Wanted
    BY <2>1 DEF Accepted
  <2>3. titles' = LongestTitles(titles, cards) /\ seen' = seen \cup {source}
        /\ UNCHANGED <<mode, listing>>
    BY <1>3 DEF Extract, run
  <2>4. /\ DOMAIN titles' \subseteq Courses
        /\ DOMAIN titles \subseteq DOMAIN titles'
        /\ \A card \in cards : card.course \in DOMAIN titles'
        /\ \A c \in DOMAIN titles' :
             titles'[c] \in Wanted /\ \A t \in TitlesOf(c, cards) : t <= titles'[c]
    BY <2>2, <2>3, LongestKept DEF TitlesOK
  <2>5. ASSUME NEW c \in Courses, NEW t \in ShownTitles(c)'
        PROVE  c \in DOMAIN titles' /\ t <= titles'[c]
    <3>0. PICK s \in seen' : \E card \in listing[s] :
            card.course = c /\ card.title = t /\ t \in Wanted
      BY <2>3 DEF ShownTitles
    <3>1. PICK card \in listing[s] : card.course = c /\ card.title = t /\ t \in Wanted
      BY <3>0
    <3>2. CASE s = source
      <4>1. card \in cards
        BY <3>1, <3>2 DEF Accepted
      <4>2. t \in TitlesOf(c, cards)
        BY <3>1, <4>1 DEF TitlesOf
      <4> QED BY <2>4, <3>1, <4>1, <4>2
    <3>3. CASE s \in seen
      <4>1. t \in ShownTitles(c)
        BY <3>1, <3>3 DEF ShownTitles
      <4>2. c \in DOMAIN titles /\ t <= titles[c] /\ titles[c] \in Wanted /\ t \in Nat
        BY <3>1, <4>1, ListingAssumption DEF TitlesOK
      <4>3. titles[c] \in TitlesOf(c, cards)
        BY <4>2 DEF TitlesOf
      <4>4. c \in DOMAIN titles' /\ titles'[c] \in Wanted /\ titles[c] <= titles'[c]
        BY <2>4, <4>2, <4>3
      <4>5. titles[c] \in Nat /\ titles'[c] \in Nat
        BY <4>2, <4>4, ListingAssumption
      <4> QED BY <4>2, <4>4, <4>5
    <3> QED BY <2>3, <3>1, <3>2, <3>3
  <2> QED BY <2>3, <2>4, <2>5 DEF TitlesOK
<1> QED BY <1>1, <1>2, <1>3, Reading DEF SourceFails, ExtractNothing

-----------------------------------------------------------------------------
(* The workers.                                                            *)

LEMMA Working ==
  ASSUME Next
  PROVE  \/ \E w \in EveryWorker :
              Take(w) \/ OpenTab(w) \/ NoTab(w) \/ ReplaceTab(w) \/ CourseFails(w) \/ CourseDone(w)
         \/ StartCrawl \/ Crawled
         \/ /\ UNCHANGED <<work, suspended, queue, answers>>
            /\ pc' = "crawling" <=> pc = "crawling"
BY DEF Next, Step, Surroundings, Finished, Begin, Hold, Goto, GotoFails, Listed,
       AfterCrawl, Browsed, FetchSection, Compare, SourceFails, Extract, ExtractNothing, NextSource,
       StrayTab, Opens, BrowserDies, Cancel, TearDown, vars, Answers, crawling, tabs

LEMMA WorkStep ==
  ASSUME TitlesOK, WorkOK, CoverOK, [Next]_vars
  PROVE  WorkOK'
<1> DEFINE Entry == [step : {"idle", "tab", "retab", "crawl", "http"},
                     course : Courses \cup {None}, tab : PageIds \cup {None}]
<1>1. CASE UNCHANGED vars
  BY <1>1 DEF WorkOK, vars, run, tabs, crawling
<1>2. CASE Next /\ UNCHANGED <<work, suspended>> /\ (pc' = "crawling" <=> pc = "crawling")
  BY <1>2, Questions DEF WorkOK
<1>3. CASE StartCrawl
  BY <1>3 DEF StartCrawl, WorkOK, run, Idle
<1>4. CASE Crawled
  BY <1>4 DEF Crawled, WorkOK, run, crawling
<1>5. ASSUME NEW w \in EveryWorker, pc = "crawling", UNCHANGED <<pc, mode, suspended>>,
             NEW e \in Entry, work' = [work EXCEPT ![w] = e],
             e.step # "crawl" => e.tab = None,
             e.step # "idle" => e.course \in Courses,
             mode = "2" => e.step \in {"idle", "http"}
      PROVE  WorkOK'
  <2>1. \A v \in EveryWorker : work'[v] = IF v = w THEN e ELSE work[v]
    BY <1>5 DEF WorkOK
  <2> QED BY <1>5, <2>1 DEF WorkOK
<1>6. ASSUME NEW w \in EveryWorker, Take(w) PROVE WorkOK'
  <2>1. Head(queue) \in Courses
    BY <1>6 DEF Take, CoverOK
  <2> DEFINE e == [step |-> IF mode = "2" THEN "http" ELSE "tab", course |-> Head(queue), tab |-> None]
  <2>2. e \in Entry /\ e.step \in {"http", "tab"} /\ (mode = "2" => e.step = "http")
        /\ e.tab = None /\ e.course \in Courses
    BY <2>1
  <2>3. work' = [work EXCEPT ![w] = e] /\ pc = "crawling" /\ UNCHANGED <<pc, mode, suspended>>
    BY <1>6 DEF Take, At, run, tabs
  <2> HIDE DEF e
  <2> QED BY <1>5, <2>2, <2>3
<1>7. ASSUME NEW w \in EveryWorker, OpenTab(w) \/ NoTab(w) \/ ReplaceTab(w) PROVE WorkOK'
  <2>1. /\ pc = "crawling" /\ UNCHANGED <<pc, mode, suspended>>
        /\ work[w].step \in {"tab", "retab", "crawl"}
        /\ \E step \in {"crawl", "retab"}, tab \in PageIds \cup {None} :
             Set(w, step, tab) /\ (step # "crawl" => tab = None)
    BY <1>7 DEF OpenTab, NoTab, ReplaceTab, At, Opens, Unused, run, tabs
  <2>2. PICK step \in {"crawl", "retab"}, tab \in PageIds \cup {None} :
          Set(w, step, tab) /\ (step # "crawl" => tab = None)
    BY <2>1
  <2> DEFINE e == [work[w] EXCEPT !.step = step, !.tab = tab]
  <2>3. work' = [work EXCEPT ![w] = e]
    BY <2>2 DEF Set, WorkOK
  <2>4. e \in Entry /\ e.step = step /\ e.tab = tab /\ e.course = work[w].course
    BY DEF WorkOK
  <2>5. work[w].course \in Courses /\ mode # "2"
    BY <2>1 DEF WorkOK
  <2> HIDE DEF e
  <2> QED BY <1>5, <2>1, <2>2, <2>3, <2>4, <2>5
<1>8. ASSUME NEW w \in EveryWorker, CourseFails(w) \/ CourseDone(w) PROVE WorkOK'
  <2>1. work' = [work EXCEPT ![w] = Idle] /\ pc = "crawling" /\ UNCHANGED <<pc, mode, suspended>>
    BY <1>8 DEF CourseFails, CourseDone, At, run, tabs
  <2>2. Idle \in Entry /\ Idle.step = "idle" /\ Idle.tab = None
    BY DEF Idle
  <2> QED BY <1>5, <2>1, <2>2
<1> QED BY <1>1, <1>2, <1>3, <1>4, <1>6, <1>7, <1>8, Working

-----------------------------------------------------------------------------
(* The courses.                                                            *)

LEMMA Arrivals ==
  ASSUME Next
  PROVE  \/ StartCrawl \/ Crawled \/ AfterCrawl \/ Browsed
         \/ pc' = pc
         \/ pc' \notin CrawlPcs
BY DEF Next, Step, Surroundings, Finished, Begin, Hold, Goto, GotoFails, Listed,
       FetchSection, Compare, SourceFails, Extract, ExtractNothing, NextSource,
       Take, OpenTab, NoTab, ReplaceTab, CourseFails, CourseDone,
       StrayTab, BrowserDies, Cancel, TearDown, vars, Answers, CrawlPcs

LEMMA TakenStays ==
  ASSUME WorkOK, queue \in Seq(Courses), NEW c \in Courses, InHand(c),
         NEW w \in EveryWorker, Take(w)
  PROVE  InHand(c)'
<1>1. /\ queue # <<>> /\ queue' = Tail(queue) /\ work[w].step = "idle" /\ answers' = answers
      /\ \A v \in EveryWorker : work'[v] =
           IF v = w THEN [step |-> IF mode = "2" THEN "http" ELSE "tab",
                          course |-> Head(queue), tab |-> None] ELSE work[v]
  BY DEF Take, At, WorkOK
<1>2. work'[w].step # "idle" /\ work'[w].course = Head(queue)
  BY <1>1
<1>3. CASE c \in ToSet(queue)
  <2>1. PICK i \in 1 .. Len(queue) : queue[i] = c
    BY <1>3 DEF ToSet
  <2>2. CASE i = 1
    BY <1>2, <2>1, <2>2 DEF InHand
  <2>3. CASE i # 1
    <3>1. i - 1 \in 1 .. Len(queue') /\ queue'[i - 1] = c
      BY <1>1, <2>1, <2>3
    <3>2. queue' \in Seq(Courses)
      BY <1>1
    <3>3. c \in ToSet(queue')
      BY <3>1, <3>2 DEF ToSet
    <3> QED BY <3>3 DEF InHand
  <2> QED BY <2>2, <2>3
<1>4. CASE c \in DOMAIN answers
  BY <1>1, <1>4 DEF InHand
<1>5. CASE \E v \in EveryWorker : work[v].step # "idle" /\ work[v].course = c
  BY <1>1, <1>5 DEF InHand
<1> QED BY <1>3, <1>4, <1>5 DEF InHand

LEMMA CoverStep ==
  ASSUME TitlesOK, WorkOK, CoverOK, [Next]_vars
  PROVE  CoverOK'
<1>1. CASE UNCHANGED vars
  BY <1>1 DEF CoverOK, InHand, vars, run, reading, crawling
<1>2. CASE StartCrawl
  <2>1. IsFiniteSet(DOMAIN titles) /\ Cardinality(DOMAIN titles) \in Nat
    BY ListingAssumption, FS_Subset, FS_CardinalityType DEF TitlesOK
  <2>2. /\ queue' \in [1 .. Cardinality(DOMAIN titles) -> DOMAIN titles]
        /\ ToSet(queue') = DOMAIN titles
        /\ UNCHANGED <<titles, answers>> /\ pc' = "crawling"
    BY <1>2 DEF StartCrawl, InTitleOrder, reading
  <2>3. queue' \in Seq(Courses)
    BY <2>1, <2>2 DEF TitlesOK
  <2> QED BY <2>2, <2>3 DEF CoverOK, InHand
<1>3. CASE Crawled
  BY <1>3 DEF Crawled, CoverOK, InHand, run, reading, crawling, CrawlPcs
<1>4. CASE AfterCrawl
  BY <1>4 DEF AfterCrawl, StoppedEarly, Answers, CoverOK, InHand, run, reading, crawling, CrawlPcs
<1>5. CASE Browsed
  BY <1>5 DEF Browsed, Answers, CoverOK, InHand, run, reading, crawling, CrawlPcs
<1>6. ASSUME NEW w \in EveryWorker, Take(w) PROVE CoverOK'
  <2>1. UNCHANGED <<pc, titles, answers>> /\ pc = "crawling" /\ queue' \in Seq(Courses)
    BY <1>6 DEF Take, At, reading, CoverOK
  <2>2. \A c \in DOMAIN titles : InHand(c)'
    BY <1>6, <2>1, TakenStays DEF CoverOK, CrawlPcs, TitlesOK
  <2> QED BY <2>1, <2>2 DEF CoverOK
<1>7. ASSUME NEW w \in EveryWorker, OpenTab(w) \/ NoTab(w) \/ ReplaceTab(w) PROVE CoverOK'
  <2>1. UNCHANGED <<pc, titles, answers, queue>> /\ pc = "crawling"
    BY <1>7 DEF OpenTab, NoTab, ReplaceTab, At, reading, CoverOK
  <2>2. \E step \in {"crawl", "retab"}, tab \in PageIds \cup {None} : Set(w, step, tab)
    BY <1>7 DEF OpenTab, NoTab, ReplaceTab, Unused
  <2>3. PICK step \in {"crawl", "retab"}, tab \in PageIds \cup {None} : Set(w, step, tab)
    BY <2>2
  <2>4. /\ \A v \in EveryWorker \ {w} : work'[v] = work[v]
        /\ work'[w].step # "idle" /\ work'[w].course = work[w].course
    BY <2>3 DEF Set, WorkOK
  <2>5. \A c \in DOMAIN titles : InHand(c)'
    BY <2>1, <2>4 DEF InHand, CoverOK, CrawlPcs, TitlesOK
  <2> QED BY <2>1, <2>5 DEF CoverOK
<1>8. ASSUME NEW w \in EveryWorker, CourseFails(w) \/ CourseDone(w) PROVE CoverOK'
  <2>1. UNCHANGED <<pc, titles, queue>> /\ pc = "crawling" /\ work[w].step # "idle"
    BY <1>8 DEF CourseFails, CourseDone, At, reading
  <2>2. \E v \in {"warned", "crawled"} : answers' = Put(answers, work[w].course, v)
    BY <1>8 DEF CourseFails, CourseDone
  <2>3. DOMAIN answers' = DOMAIN answers \cup {work[w].course}
    BY <2>2 DEF Put
  <2>4. \A v \in EveryWorker \ {w} : work'[v] = work[v]
    BY <1>8 DEF CourseFails, CourseDone, WorkOK
  <2>5. ASSUME NEW c \in DOMAIN titles PROVE InHand(c)'
    <3>1. c \in Courses /\ InHand(c)
      BY <2>1 DEF CoverOK, CrawlPcs, TitlesOK
    <3>2. DOMAIN answers \subseteq DOMAIN answers' /\ work[w].course \in DOMAIN answers'
      BY <2>3
    <3> QED BY <2>1, <2>4, <3>1, <3>2 DEF InHand
  <2>6. DOMAIN answers' \subseteq Courses
    BY <2>1, <2>3 DEF CoverOK, WorkOK
  <2> QED BY <2>1, <2>5, <2>6 DEF CoverOK
<1>9. CASE /\ Next /\ UNCHANGED <<work, queue, answers>> /\ pc' = pc
           /\ UNCHANGED titles \/ pc \notin CrawlPcs
  BY <1>9, Questions DEF CoverOK, InHand, CrawlPcs
<1>10. CASE Next /\ UNCHANGED <<work, queue, answers>> /\ pc' \notin CrawlPcs
  BY <1>10 DEF CoverOK, InHand, CrawlPcs
<1>11. CASE SourceFails \/ Extract \/ ExtractNothing
  BY <1>11 DEF SourceFails, Extract, ExtractNothing, NextSource, crawling, CrawlPcs, CoverOK
<1>12. CASE Next /\ UNCHANGED <<source, failed, seen, unseen, titles>>
  BY <1>2, <1>3, <1>4, <1>5, <1>6, <1>7, <1>8, <1>9, <1>10, <1>12, Working, Arrivals
<1> QED BY <1>1, <1>11, <1>12, Reading

-----------------------------------------------------------------------------
(* The answer.                                                             *)

LEMMA Answering ==
  ASSUME Next, pc # "done"
  PROVE  \/ Begin \/ Hold \/ Listed \/ AfterCrawl \/ Browsed \/ Compare
         \/ UNCHANGED told /\ pc' # "done"
BY DEF Next, Step, Surroundings, Finished, Goto, GotoFails, SourceFails, Extract, ExtractNothing,
       NextSource, StartCrawl, Crawled, FetchSection, Take, OpenTab, NoTab, ReplaceTab, CourseFails,
       CourseDone, StrayTab, BrowserDies, Cancel, TearDown, vars, At

LEMMA Over ==
  ASSUME Next, pc = "done"
  PROVE  UNCHANGED <<pc, mode, reading, crawling, told>>
BY DEF Next, Step, Surroundings, Finished, Begin, Hold, Goto, GotoFails, SourceFails, Extract,
       ExtractNothing, Listed, StartCrawl, Crawled, AfterCrawl, Browsed, FetchSection, Compare, Take,
       OpenTab, NoTab, ReplaceTab, CourseFails, CourseDone, StrayTab, BrowserDies, Cancel, TearDown,
       vars, At, run

(* At the end of the crawl nobody has a course in hand any more.           *)
LEMMA AllAnswered ==
  ASSUME WorkOK, CoverOK, pc \in CrawlPcs \ {"crawling"}, queue = <<>>
  PROVE  DOMAIN titles \subseteq DOMAIN answers
<1>1. \A w \in EveryWorker : work[w].step = "idle"
  BY DEF WorkOK, Idle, CrawlPcs
<1>2. ToSet(queue) = {}
  BY DEF ToSet
<1> QED BY <1>1, <1>2 DEF CoverOK, InHand

LEMMA AnswerStep ==
  ASSUME ReadingOK, WorkOK, CoverOK, AnswerOK, [Next]_vars
  PROVE  AnswerOK'
<1>1. CASE UNCHANGED vars
  BY <1>1 DEF AnswerOK, vars, run, reading, crawling, told
<1>2. CASE Next /\ pc = "done"
  BY <1>2, Over DEF AnswerOK, reading, crawling, told
<1>3. answer = "none" \/ pc = "done"
  BY DEF AnswerOK
<1>4. CASE Begin
  BY <1>3, <1>4 DEF Begin, Answers, AnswerOK, told
<1>5. CASE Hold
  BY <1>3, <1>5 DEF Hold, Answers, AfterError, AnswerOK, told
<1>6. CASE Listed
  <2>1. ~AllSourcesFailed => seen \cup unseen # {}
    BY <1>6 DEF Listed, ReadingOK, AllSourcesFailed
  <2> QED BY <1>3, <1>6, <2>1 DEF Listed, Answers, AfterError, AnswerOK, told, run, reading, crawling
<1>7. CASE AfterCrawl
  <2>1. seen \cup unseen # {} /\ (~cancelled => DOMAIN titles \subseteq DOMAIN answers)
    BY <1>7, AllAnswered DEF AfterCrawl, ReadingOK, CoverOK, CrawlPcs
  <2> QED BY <1>3, <1>7, <2>1
      DEF AfterCrawl, StoppedEarly, Answers, AnswerOK, told, run, reading, crawling
<1>8. CASE Browsed
  <2>1. seen \cup unseen # {} /\ DOMAIN titles \subseteq DOMAIN answers
    BY <1>8, AllAnswered DEF Browsed, ReadingOK, CoverOK, CrawlPcs
  <2> QED BY <1>3, <1>8, <2>1 DEF Browsed, Answers, AnswerOK, told, run, reading, crawling
<1>9. CASE Compare
  <2>1. seen \cup unseen # {} /\ DOMAIN titles \subseteq DOMAIN answers
    BY <1>9, AllAnswered DEF Compare, ReadingOK, CoverOK, CrawlPcs
  <2>2. \A f \in files : \E g \in result' : g.title = f.title /\ g.name = f.name
    <3>1. CASE result' = files
      BY <3>1
    <3>2. CASE Missing = {} /\ result' = http
      <4> SUFFICES ASSUME NEW f \in files
                   PROVE  \E g \in http : g.title = f.title /\ g.name = f.name
        BY <3>2
      <4>1. <<f.title, f.name>> \in Names(http)
        BY <3>2 DEF Missing, Names
      <4> QED BY <4>1 DEF Names
    <3> QED BY <1>9, <3>1, <3>2 DEF Compare, Answers
  <2> QED BY <1>3, <1>9, <2>1, <2>2 DEF Compare, Answers, AnswerOK, run, reading, crawling
<1>10. CASE UNCHANGED told /\ pc # "done"
  BY <1>3, <1>10 DEF AnswerOK, told
<1> QED BY <1>1, <1>2, <1>4, <1>5, <1>6, <1>7, <1>8, <1>9, <1>10, Answering

-----------------------------------------------------------------------------
(* The tabs.                                                               *)

LEMMA Tabs ==
  ASSUME Next
  PROVE  \/ StrayTab \/ BrowserDies \/ TearDown \/ Hold
         \/ \E w \in EveryWorker : Take(w) \/ OpenTab(w) \/ NoTab(w) \/ ReplaceTab(w)
                                   \/ CourseFails(w) \/ CourseDone(w)
         \/ UNCHANGED <<open, page, held, work, strays>>
BY DEF Next, Step, Finished, Begin, Goto, GotoFails, SourceFails, Extract, Surroundings,
       ExtractNothing, Listed, StartCrawl, Crawled, AfterCrawl, Browsed, FetchSection, Compare, Cancel,
       vars, tabs, reading, crawling

(* Only whoever crawls has a tab.                                          *)
LEMMA WorkTabsTyped ==
  ASSUME WorkOK
  PROVE  WorkTabs \subseteq PageIds \cup {None}
BY DEF WorkOK, WorkTabs

(* Nothing opens that neither a worker asked for nor is counted.           *)
LEMMA NothingMore ==
  ASSUME TabsOK, open' \subseteq PageIds, UNCHANGED <<page, strays>>, held' = held,
         open' # {} => open # {},
         open' \ WorkTabs' \subseteq open \ WorkTabs,
         open' # {} => page \in open' \ WorkTabs'
  PROVE  (/\ open \subseteq PageIds
          /\ page \in PageIds \cup {None} /\ held \in PageIds \cup {None}
          /\ strays \in Nat
          /\ open # {} =>
               /\ page \in open \ WorkTabs
               /\ Cardinality(open \ WorkTabs) <= 1 + strays)'
<1>1. IsFiniteSet(open \ WorkTabs)
  BY FS_Subset DEF TabsOK
<1>2. /\ IsFiniteSet(open' \ WorkTabs')
      /\ Cardinality(open' \ WorkTabs') <= Cardinality(open \ WorkTabs)
  BY <1>1, FS_Subset
<1>3. Cardinality(open' \ WorkTabs') \in Nat /\ Cardinality(open \ WorkTabs) \in Nat
  BY <1>1, <1>2, FS_CardinalityType
<1> QED BY <1>2, <1>3 DEF TabsOK

LEMMA TabsStep ==
  ASSUME WorkOK, TabsOK, [Next]_vars
  PROVE  TabsOK'
<1>1. CASE UNCHANGED <<open, page, held, work, strays>>
  BY <1>1 DEF TabsOK, WorkTabs
<1>2. CASE StrayTab
  <2>1. PICK p \in Unused : open' = (open \ {None}) \cup {p} /\ Follows(p) /\ open # {}
    BY <1>2 DEF StrayTab, Opens
  <2>2. /\ p \in PageIds \ open /\ p \notin WorkTabs /\ None \notin PageIds
        /\ UNCHANGED <<work, held>> /\ strays' = strays + 1
    BY <1>2, <2>1, ListingAssumption DEF StrayTab, Unused, WorkTabs, crawling, reading
  <2>3. open' = open \cup {p} /\ WorkTabs' = WorkTabs /\ page' \in {page, p}
    BY <2>1, <2>2 DEF TabsOK, WorkTabs, Follows
  <2>4. open' \ WorkTabs' = (open \ WorkTabs) \cup {p}
    BY <2>2, <2>3
  <2>5. IsFiniteSet(open \ WorkTabs) /\ IsFiniteSet(open')
    BY <2>3, FS_Subset, FS_AddElement DEF TabsOK
  <2>6. Cardinality(open' \ WorkTabs') = Cardinality(open \ WorkTabs) + 1
        /\ Cardinality(open \ WorkTabs) \in Nat
    <3>1. p \notin open \ WorkTabs
      BY <2>2
    <3>2. Cardinality((open \ WorkTabs) \cup {p}) = Cardinality(open \ WorkTabs) + 1
      BY <2>5, <3>1, FS_AddElement
    <3> QED BY <2>4, <2>5, <3>2, FS_CardinalityType
  <2> QED BY <2>1, <2>2, <2>3, <2>4, <2>5, <2>6 DEF TabsOK
<1>3. CASE BrowserDies
  BY <1>3, FS_EmptySet DEF BrowserDies, TabsOK, reading
<1>4. CASE TearDown
  BY <1>4, FS_EmptySet DEF TearDown, TabsOK, reading
<1>5. CASE Hold
  BY <1>5 DEF Hold, TabsOK, tabs, crawling, WorkTabs
<1>6. ASSUME NEW w \in EveryWorker, Take(w) PROVE TabsOK'
  <2>1. /\ UNCHANGED <<open, page, held, strays>> /\ work[w].step = "idle"
        /\ \A v \in EveryWorker : work'[v].tab = IF v = w THEN None ELSE work[v].tab
    BY <1>6 DEF Take, At, tabs, reading, WorkOK
  <2>2. WorkTabs' = WorkTabs
    BY <2>1 DEF WorkTabs, WorkOK
  <2> QED BY <2>1, <2>2 DEF TabsOK
<1>7. ASSUME NEW w \in EveryWorker, NoTab(w) PROVE TabsOK'
  <2>1. /\ UNCHANGED <<open, page, held, strays>> /\ work[w].step = "tab"
        /\ \A v \in EveryWorker : work'[v].tab = IF v = w THEN None ELSE work[v].tab
    BY <1>7 DEF NoTab, At, Set, tabs, reading, WorkOK
  <2>2. WorkTabs' = WorkTabs
    BY <2>1 DEF WorkTabs, WorkOK
  <2> QED BY <2>1, <2>2 DEF TabsOK
<1>8. ASSUME NEW w \in EveryWorker, OpenTab(w) \/ ReplaceTab(w) PROVE TabsOK'
  <2>1. /\ pc = "crawling" /\ mode # "2" /\ open # {}
        /\ UNCHANGED <<held, strays>>
    BY <1>8 DEF OpenTab, ReplaceTab, Opens, At, reading, WorkOK
  <2>2. PICK p \in Unused :
          /\ Set(w, "crawl", p) /\ Follows(p)
          /\ open' = (open \ {work[w].tab}) \cup {p}
    <3>1. CASE OpenTab(w)
      <4>1. work[w].tab = None
        BY <3>1 DEF OpenTab, At, WorkOK
      <4> QED BY <3>1, <4>1 DEF OpenTab, Opens
    <3>2. CASE ReplaceTab(w)
      BY <3>2 DEF ReplaceTab, Opens
    <3> QED BY <1>8, <3>1, <3>2
  <2>3. suspended /\ page' = page
    BY <2>1, <2>2 DEF WorkOK, Follows
  <2>4. p \in PageIds /\ p \notin open /\ p # page /\ p \notin WorkTabs
    BY <2>2 DEF Unused, WorkTabs
  <2>5. \A v \in EveryWorker : work'[v].tab = IF v = w THEN p ELSE work[v].tab
    BY <2>2 DEF Set, WorkOK
  <2>6. WorkTabs' \cup {work[w].tab} = WorkTabs \cup {p}
    BY <2>5 DEF WorkTabs
  <2>7. work[w].tab \in WorkTabs /\ p \in WorkTabs' /\ WorkTabs' \subseteq WorkTabs \cup {p}
    BY <2>5 DEF WorkTabs
  <2>8. open' \ WorkTabs' \subseteq open \ WorkTabs
    BY <2>2, <2>6, <2>7
  <2>9. page \in open' \ WorkTabs'
    BY <2>1, <2>2, <2>4, <2>7 DEF TabsOK
  <2>10. open' \subseteq PageIds /\ IsFiniteSet(open')
    BY <2>2, <2>4, FS_RemoveElement, FS_AddElement DEF TabsOK
  <2> QED BY <2>1, <2>3, <2>8, <2>9, <2>10, NothingMore DEF TabsOK
<1>9. ASSUME NEW w \in EveryWorker, CourseFails(w) \/ CourseDone(w) PROVE TabsOK'
  <2>1. /\ open' = open \ {work[w].tab}
        /\ UNCHANGED <<page, held, strays>>
        /\ \A v \in EveryWorker : work'[v].tab = IF v = w THEN None ELSE work[v].tab
    BY <1>9 DEF CourseFails, CourseDone, ClosesTab, reading, WorkOK, Idle
  <2>2. WorkTabs \subseteq WorkTabs' \cup {work[w].tab}
    <3> SUFFICES ASSUME NEW v \in EveryWorker, v # w PROVE work[v].tab \in WorkTabs'
      BY DEF WorkTabs
    <3>1. work'[v].tab = work[v].tab
      BY <2>1
    <3> QED BY <3>1 DEF WorkTabs
  <2>3. work[w].tab \in WorkTabs /\ WorkTabs' \subseteq WorkTabs \cup {None}
    BY <2>1 DEF WorkTabs
  <2>4. open' \subseteq PageIds /\ IsFiniteSet(open') /\ None \notin open
    BY <2>1, ListingAssumption, FS_RemoveElement DEF TabsOK
  <2>5. open' \ WorkTabs' \subseteq open \ WorkTabs
    <3> SUFFICES ASSUME NEW x \in open', x \notin WorkTabs' PROVE x \in open \ WorkTabs
      OBVIOUS
    <3>1. x \in open /\ x # work[w].tab
      BY <2>1
    <3> QED BY <2>2, <3>1
  <2>6. open # {} => page \in open' \ WorkTabs'
    BY <2>1, <2>3, <2>4 DEF TabsOK
  <2> QED BY <2>1, <2>4, <2>5, <2>6, NothingMore DEF TabsOK
<1> QED BY <1>1, <1>2, <1>3, <1>4, <1>5, <1>6, <1>7, <1>8, <1>9, Tabs
        DEF vars, tabs, reading, crawling

-----------------------------------------------------------------------------
(* The theorems.                                                           *)

LEMMA Initially == Init => IInv
<1> SUFFICES ASSUME Init PROVE IInv
  OBVIOUS
<1>1. ReadingOK
  BY DEF Init, ReadingOK, ReadingPcs, CrawlPcs, Sources
<1>2. TitlesOK
  BY DEF Init, TitlesOK, ShownTitles
<1>3. WorkOK
  BY DEF Init, WorkOK, Idle
<1>4. CoverOK
  BY DEF Init, CoverOK, CrawlPcs
<1>5. AnswerOK
  BY DEF Init, AnswerOK
<1>6. TabsOK
  <2>1. WorkTabs \subseteq {None}
    BY DEF Init, WorkTabs, Idle
  <2>2. open = {Shared} /\ open \ WorkTabs = {Shared}
    BY <2>1, ListingAssumption DEF Init
  <2>3. IsFiniteSet(open) /\ Cardinality(open \ WorkTabs) = 1
    BY <2>2, FS_Singleton
  <2> QED BY <2>2, <2>3, ListingAssumption DEF Init, TabsOK
<1> QED BY <1>1, <1>2, <1>3, <1>4, <1>5, <1>6 DEF IInv

LEMMA Invariant == Spec => []IInv
<1>1. IInv /\ [Next]_vars => IInv'
  BY ReadingStep, TitlesStep, WorkStep, CoverStep, AnswerStep, TabsStep DEF IInv
<1> QED BY Initially, <1>1, PTL DEF Spec

(* Every variable that the run's course depends on keeps its type, for any *)
(* courses, listing pages and number of workers (discoverCourseLinks,      *)
(* collectCourseFilesConcurrently).                                        *)
THEOREM TypeCorrect == Spec => []TypeOK
<1>1. IInv => TypeOK
  <2> SUFFICES ASSUME IInv PROVE TypeOK
    OBVIOUS
  <2>1. ToSet(queue) \subseteq Courses
    BY DEF IInv, CoverOK, ToSet
  <2>2. pc \in ReadingPcs \cup CrawlPcs \cup {"listed", "done"} /\ failed \in 0 .. 3
    BY DEF IInv, ReadingOK
  <2>3. pc \in {"begin", "hold", "goto", "again", "extract", "listed", "crawling",
                "crawled", "browsed", "second", "done"}
    BY <2>2 DEF ReadingPcs, CrawlPcs
  <2> QED BY <2>1, <2>2, <2>3 DEF TypeOK, IInv, ReadingOK, TitlesOK, CoverOK, AnswerOK, TabsOK
<1> QED BY <1>1, Invariant, PTL

(* A run that is reported as complete has got hold of a listing page and   *)
(* has answered every course that those it read show, whatever failed and  *)
(* whenever it was cancelled or its browser died; and the modes that       *)
(* compare hand back every name that the browser found                     *)
(* (discoverCourseLinks, collectCourseFilesConcurrently,                   *)
(* scrapeCoursesHybrid).                                                   *)
THEOREM ListedAreAnswered == Spec => []ListedIsAnswered
<1>1. IInv => ListedIsAnswered
  <2> SUFFICES ASSUME IInv, answer = "ok" PROVE ListedIsAnswered
    BY DEF ListedIsAnswered
  <2>1. \A c \in Courses : ShownTitles(c) # {} =>
          c \in DOMAIN titles /\ \A t \in ShownTitles(c) : t <= titles[c]
    BY DEF IInv, TitlesOK
  <2> QED BY <2>1 DEF ListedIsAnswered, IInv, AnswerOK
<1> QED BY <1>1, Invariant, PTL

(* The downloads that follow find the shared page open, and of the tabs    *)
(* opened for courses none is left, whatever order tabs were opened,       *)
(* replaced and closed in and however many came by themselves              *)
(* (suspendPageTracking, newCourseFileCollector, recoverFromPageCrash).    *)
THEOREM PageSurvives == Spec => []SharedPageSurvives
<1>1. IInv => SharedPageSurvives
  <2> SUFFICES ASSUME IInv, pc = "done", open # {} PROVE SharedPageSurvives
    BY DEF SharedPageSurvives
  <2>1. WorkTabs \subseteq {None}
    BY DEF IInv, WorkOK, WorkTabs, Idle
  <2>2. open \ WorkTabs = open
    BY <2>1, ListingAssumption DEF IInv, TabsOK
  <2> QED BY <2>2 DEF IInv, TabsOK, SharedPageSurvives
<1> QED BY <1>1, Invariant, PTL

=============================================================================
