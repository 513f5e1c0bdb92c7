----------------------------- MODULE CourseWalk -----------------------------
(***************************************************************************)
(* What the crawl of one course promises: the sections one at a time, in   *)
(* the order in which they were linked to, each at most once, and every    *)
(* page added to the result before the next is looked at.  What the files  *)
(* are filed under follows from this order, so a crawl that reads several  *)
(* pages at once has to come out as if it did not.                         *)
(***************************************************************************)
EXTENDS SectionPages

CONSTANT MaxPages   \* maxPages

VARIABLES
  status,    \* "starting", "crawling" or "over"
  capped,    \* this crawl stops at MaxPages sections
  queue,     \* the sections still to visit
  queued,    \* those, and the ones found and left out
  visited,   \* the sections visited
  found      \* the files, each with the section it is filed under

vars == <<status, capped, queue, queued, visited, found>>

Init ==
  /\ status = "starting"
  /\ capped \in BOOLEAN
  /\ queue = <<>>
  /\ queued = {}
  /\ visited = {}
  /\ found = <<>>

(* The crawl starts at the root alone, or at the root, its tree and the    *)
(* learning groups; or it cannot start.                                    *)
BeginAtRoot ==
  /\ status = "starting"
  /\ status' = "crawling"
  /\ queue' = <<Root>>
  /\ queued' = {Root}
  /\ UNCHANGED <<capped, visited, found>>

BeginWithTree ==
  /\ status = "starting"
  /\ status' = "crawling"
  /\ queue' = TreeQueue
  /\ queued' = TreeQueued
  /\ \E page \in Readings(Group) :
       found' = AppendFiles(<<>>, Group, page.files)
  /\ UNCHANGED <<capped, visited>>

CannotBegin ==
  /\ status = "starting"
  /\ status' = "over"
  /\ UNCHANGED <<capped, queue, queued, visited, found>>

Enough == queue = <<>> \/ (capped /\ Cardinality(visited) >= MaxPages)

Visit ==
  /\ status = "crawling"
  /\ ~Enough
  /\ LET s == Head(queue)
         now == visited \cup {s}
         rest == queued \ {s}
     IN  \E page \in Readings(s) :
           LET targets == NewTargets(now \cup rest, s, page.links)
           IN  /\ visited' = now
               /\ queue' = Tail(queue) \o Crawlable(targets, page.links)
               /\ queued' = rest \cup targets
               /\ found' = AppendFiles(found, s, page.files)
  /\ UNCHANGED <<status, capped>>

Return ==
  /\ status = "crawling"
  /\ Enough
  /\ status' = "over"
  /\ UNCHANGED <<capped, queue, queued, visited, found>>

Next == BeginAtRoot \/ BeginWithTree \/ CannotBegin \/ Visit \/ Return

Spec == Init /\ [][Next]_vars

=============================================================================
