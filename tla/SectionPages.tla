---------------------------- MODULE SectionPages ----------------------------
(***************************************************************************)
(* What the pages of one course hold, and how a crawl adds what it read on *)
(* one of them to what it has (internal/scraper): the part the browser     *)
(* crawl and the HTTP crawl share.                                         *)
(*                                                                         *)
(* A section is known by its sectionKey, so two links to it are one link.  *)
(* Which link of a page leads to a section and which to a file, and the    *)
(* title each goes by, is the business of predicates on HTML that are not  *)
(* modelled: a page is the files and the sections they let through.        *)
(***************************************************************************)
EXTENDS Naturals, FiniteSets, SequencesExt

CONSTANTS
  Sections,    \* the section keys of the course
  Root,        \* the course's own page
  NonFile,     \* sections marked node-en: they can hold no file
  Files,       \* the files of the course
  First,       \* the files and links on the first page of each place
  More,        \* those that only "show all" adds
  Prose,       \* the files linked from the prose embedded in it
  Seed         \* the sections of the course tree on the root page

(* The folder of a learning group has pages like a section, and its files  *)
(* are filed under the group; what the tree calls a group is no course     *)
(* node, so the crawl never queues it.                                     *)
Group == "group"
Places == Sections \cup {Group}

Pages == [files : Seq(Files), links : Seq(Sections)]

ASSUME SectionsAssumption ==
  /\ IsFiniteSet(Sections) /\ Group \notin Sections
  /\ Root \in Sections \ NonFile
ASSUME PagesAssumption ==
  /\ First \in [Places -> Pages] /\ More \in [Places -> Pages]
  /\ Prose \in [Places -> Seq(Files)]
  /\ Seed \in Seq(Sections)

Blank == [files |-> <<>>, links |-> <<>>]
Join(p, q) == [files |-> p.files \o q.files, links |-> p.links \o q.links]

Paginated(s) == More[s] # Blank

Whole(s) == Join(First[s], More[s])

(* A page is rendered in stages: its rows appear in their order, and its   *)
(* "show all" control after them.  What of it can be read on the way:      *)
Rendered(page) ==
  {[files |-> SubSeq(page.files, 1, i), links |-> SubSeq(page.links, 1, j)] :
     i \in 0 .. Len(page.files), j \in 0 .. Len(page.links)}

(* What a visit of place s may read: in the browser what is rendered of    *)
(* its full list, over HTTP nothing, the first page or all of it, with or  *)
(* without the embedded prose.                                             *)
Shown(s, rest, prose) == [Join(First[s], rest) EXCEPT !.files = @ \o prose]
Readings(s) ==
  {Blank} \cup Rendered(Whole(s))
          \cup {Shown(s, rest, prose) :
                   rest \in {Blank, More[s]}, prose \in {<<>>, Prose[s]}}

-----------------------------------------------------------------------------

(* What of a set a list names, in its order and each once.                 *)
InOrder(S, list) ==
  LET kept[i \in 0 .. Len(list)] ==
        IF i = 0 THEN <<>>
        ELSE IF list[i] \in S \ ToSet(kept[i - 1])
             THEN Append(kept[i - 1], list[i])
             ELSE kept[i - 1]
  IN  kept[Len(list)]

(* appendSectionFiles: a file goes into the listing once, under the first  *)
(* section that shows it, which decides where it is filed on disk.         *)
Listed(found) == {found[i].file : i \in DOMAIN found}

FiledUnder(s, files) ==
  [i \in DOMAIN files |-> [file |-> files[i], section |-> s]]

AppendFiles(found, s, files) ==
  found \o FiledUnder(s, InOrder(ToSet(files) \ Listed(found), files))

(* appendSectionFolderTargets: the sections a page links to that are       *)
(* neither known (queued or visited) nor the page itself nor the root are  *)
(* from now on known as queued, and those that can hold a file are queued. *)
NewTargets(known, s, links) == ToSet(links) \ (known \cup {s, Root})
Crawlable(targets, links) == InOrder(targets \ NonFile, links)

(* The queue a crawl of the course's tree starts from: the root, then the  *)
(* nodes of its tree.                                                      *)
TreeTargets == NewTargets({}, Root, Seed)
TreeQueue == <<Root>> \o Crawlable(TreeTargets, Seed)
TreeQueued == {Root} \cup TreeTargets

=============================================================================
