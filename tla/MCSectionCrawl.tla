--------------------------- MODULE MCSectionCrawl ---------------------------
(***************************************************************************)
(* An instance of SectionCrawl for TLC: a course of seven sections whose   *)
(* links form cycles, with two paginated sections (of one the first page   *)
(* shows files, of the other none), an enrolment node, a section with      *)
(* embedded prose, a learning group, and files that several places show.   *)
(***************************************************************************)
EXTENDS SectionCrawl

CONSTANTS r, a, b, c, d, e, g

AllFiles == {"intro", "sheet", "solution", "script", "exam", "link", "notes"}

Page(files, links) == [files |-> files, links |-> links]
NoPage == [s \in {r, a, b, c, d, e, g, "group"} |-> Blank]

FirstPages ==
  [NoPage EXCEPT ![r] = Page(<<"intro">>, <<a, e, b, r, g>>),
                 ![a] = Page(<<"sheet">>, <<b>>),
                 ![b] = Page(<<"sheet">>, <<a, r>>),
                 ![c] = Page(<<>>, <<d>>),
                 ![d] = Page(<<"exam">>, <<c>>),
                 ![g] = Page(<<"sheet", "exam">>, <<b>>),
                 !["group"] = Page(<<"intro">>, <<>>)]

RestPages ==
  [NoPage EXCEPT ![a] = Page(<<"solution">>, <<c>>),
                 ![c] = Page(<<"script">>, <<>>),
                 !["group"] = Page(<<"notes">>, <<>>)]

ProsePages ==
  [s \in {r, a, b, c, d, e, g, "group"} |->
     IF s = b THEN <<"exam", "link">> ELSE <<>>]

Tree == <<b, e, c>>

=============================================================================
