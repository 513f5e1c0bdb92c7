---------------------------- MODULE FolderSuggest ----------------------------
(***************************************************************************)
(* The folders the settings page proposes for courses that have none       *)
(* (internal/foldersuggest and gui/suggest_folders.go): a bounded walk     *)
(* below the download folder, then a choice per course that withholds what *)
(* is not clearly ahead.  How well a folder's name abbreviates a course's  *)
(* (match.go) is the table Score.                                          *)
(***************************************************************************)
EXTENDS Naturals, FiniteSets

CONSTANTS
  Names,      \* course names, as they stand in the rows of the form
  Rank,       \* their alphabetical order
  DirCount,   \* the folders below the root, numbered as the walk meets them
  Parent,     \* the folder a folder lies in, or Root
  Generic,    \* folders named for their role ("Downloads")
  Skipped,    \* folders the walk never enters (".git", "node_modules")
  Unreadable, \* folders that cannot be listed
  Modified,   \* day of a folder's last change, 0 when it is not known
  Score,      \* how well a folder's name reads as a course's, in percent
  MaxDepth, MaxDirs, MinScore, MinMargin, TieBand, MinAgeGap

Dirs == 1..DirCount
Root == 0
NoDir == DirCount + 1

ASSUME FolderAssumption ==
  /\ DirCount \in Nat
  /\ Parent \in [Dirs -> Dirs \cup {Root}] /\ \A d \in Dirs : Parent[d] < d
  /\ Rank \in [Names -> Nat] /\ \A m, n \in Names : Rank[m] = Rank[n] => m = n
  /\ Modified \in [Dirs -> Nat]
  /\ Score \in [Names -> [Dirs -> Nat]]
  /\ {MaxDepth, MaxDirs, MinScore, MinMargin, TieBand} \subseteq Nat /\ MinAgeGap \in Nat \ {0}

-----------------------------------------------------------------------------
(* The walk: scan *)

Depth[d \in Dirs] == IF Parent[d] = Root THEN 1 ELSE Depth[Parent[d]] + 1

\* The folders an unbounded walk would count, given those left out as ignored.
Reachable(ignored) ==
  LET Open[d \in Dirs] == /\ d \notin Skipped \cup ignored
                          /\ Depth[d] <= MaxDepth
                          /\ \/ Parent[d] = Root
                             \/ Open[Parent[d]] /\ Parent[d] \notin Unreadable
  IN  {d \in Dirs : Open[d]}

\* The budget ends the walk wherever it happens to be.
Scanned(ignored, budget) ==
  LET reachable == Reachable(ignored)
  IN  {d \in reachable : Cardinality({e \in reachable : e < d}) < budget}

\* The folder whose name identifies d: a generic one goes by the name above it.
MatchName[d \in Dirs] ==
  IF d \notin Generic THEN d
  ELSE IF Parent[d] = Root THEN NoDir ELSE MatchName[Parent[d]]

DownloadsLeaf(d) == d \in Generic /\ MatchName[d] # NoDir

Candidates(scanned) ==
  {d \in scanned : /\ MatchName[d] # NoDir
                   /\ ~ \E e \in scanned : Parent[e] = d /\ DownloadsLeaf(e)}

-----------------------------------------------------------------------------
(* The choice: bestCandidate and Suggest *)

ScoreOf(course, d) == Score[course][MatchName[d]]

\* Among folders the name does not tell apart: the "Downloads" leaves, if only
\* some are, and of those the one that is newer than all others by MinAgeGap.
Leaves(contenders) ==
  LET leaves == {d \in contenders : DownloadsLeaf(d)}
  IN  IF leaves # {} THEN leaves ELSE contenders

Freshest(contenders) ==
  {d \in contenders : \/ contenders = {d}
                      \/ /\ Modified[d] # 0
                         /\ \A e \in contenders \ {d} : Modified[d] >= Modified[e] + MinAgeGap}

BestCandidate(course, candidates, taken) ==
  LET pool == {d \in candidates \ taken : ScoreOf(course, d) >= MinScore}
      Leads(d) == \A e \in pool : ScoreOf(course, e) <= ScoreOf(course, d) + TieBand
      winners == {d \in Freshest(Leaves({c \in pool : Leads(c)})) :
                    \A e \in pool : \/ Leads(e)
                                    \/ ScoreOf(course, d) >= ScoreOf(course, e) + MinMargin}
  IN  IF winners = {} THEN NoDir ELSE CHOOSE d \in winners : TRUE

\* A folder two courses want goes to the better match, then to the first by name.
Suggest(courses, candidates, taken) ==
  LET best == [c \in courses |-> BestCandidate(c, candidates, taken)]
      Beats(c, other) == \/ ScoreOf(c, best[c]) > ScoreOf(other, best[c])
                         \/ /\ ScoreOf(c, best[c]) = ScoreOf(other, best[c])
                            /\ Rank[c] <= Rank[other]
  IN  [c \in courses |->
         IF best[c] # NoDir /\ \A other \in courses : best[other] = best[c] => Beats(c, other)
         THEN best[c] ELSE NoDir]

\* handleSuggestFolders: rows with a folder take it off the table, the default
\* folder is not walked.
Proposal(wanted, taken, default) ==
  Suggest(wanted, Candidates(Scanned({default}, MaxDirs)), taken)
=============================================================================
