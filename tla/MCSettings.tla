------------------------------ MODULE MCSettings ------------------------------
(***************************************************************************)
(* Settings for TLC: a course with a rule of its own, one without, a       *)
(* pattern that matches both; a tree with a "Downloads" folder, two        *)
(* folders of one name and a budget that cuts the walk off.                *)
(***************************************************************************)
EXTENDS Settings, TLC

CONSTANTS t1, t2, analysis, algebra

MCTabs == {t1, t2}
TabSymmetry == Permutations(MCTabs)
MCNames == {"Ana", "Alg", "A*"}
MCCourses == {analysis, algebra}
MCMatches == ("Ana" :> {analysis}) @@ ("Alg" :> {algebra}) @@ ("A*" :> {analysis, algebra})
MCRank == ("Ana" :> 2) @@ ("Alg" :> 1) @@ ("A*" :> 0)

\* 1 Analysis, 2 Analysis/Downloads, 3 Algebra, 4 an older Algebra
MCParent == <<0, 1, 0, 0>>
MCGeneric == {2}
MCModified == <<40, 40, 60, 60>>
MCScore == ("Ana" :> <<90, 0, 30, 30>>) @@ ("Alg" :> <<20, 0, 90, 85>>)
           @@ ("A*" :> <<80, 0, 80, 80>>)

NoFolders == [n \in MCNames |-> Unset]
MCDefaults == [path |-> "downloads", every |-> TRUE, courses |-> {}, folders |-> NoFolders,
               default |-> Unset, sections |-> FALSE, hidden |-> 3, session |-> 0]

ByHand == [path |-> "D:", every |-> FALSE, courses |-> {"Ana"},
           folders |-> [NoFolders EXCEPT !["A*"] = 4], default |-> 3,
           sections |-> TRUE, hidden |-> 1, session |-> 1]

Everything == [MCDefaults EXCEPT !.folders["Ana"] = 2, !.hidden = Unset, !.session = Unset]

Bare == [MCDefaults EXCEPT !.every = FALSE, !.courses = {"Ana", "A*"}]

MCInitialFiles == {Missing, Broken, ByHand, Everything, Bare}
=============================================================================
