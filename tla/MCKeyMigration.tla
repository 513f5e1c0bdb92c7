--------------------------- MODULE MCKeyMigration ---------------------------
(***************************************************************************)
(* An instance of KeyMigration for TLC: files of one name in two courses,  *)
(* the first course having up to two of them in different sections, under  *)
(* four layouts.                                                           *)
(*   "relative": keys and paths <folder>/<section>/<name>;                 *)
(*   "absolute": absolute course folders, whose keys start with the title  *)
(*               of the course; that of the second course is the folder it *)
(*               already had, spelled out;                                 *)
(*   "plain":    keys and paths of "relative", to be followed by           *)
(*   "sheets":   the same keys, and a sheet folder of its own per file.    *)
(***************************************************************************)
EXTENDS KeyMigration

CONSTANTS a1, a2, b1, CourseA, CourseB

Number == [f \in {a1, a2, b1} |-> CASE f = a1 -> 1 [] f = a2 -> 2 [] f = b1 -> 3]
AllLayouts == {"relative", "absolute", "plain", "sheets"}
KeyTable == [l \in AllLayouts |-> [f \in Files |->
               IF l = "absolute" THEN Number[f] + 3 ELSE Number[f]]]
AllKeys == {KeyTable[l][f] : l \in AllLayouts, f \in Files}

(* A path is named by a folder and the number of its file; nothing is ever *)
(* at "nowhere".                                                           *)
Nowhere == <<"nowhere", 0>>
PathIn(folder) == [f \in Files |-> <<folder, Number[f]>>]
PathTable == [relative |-> PathIn("inside"),
              absolute |-> [PathIn("outside") EXCEPT ![b1] = <<"inside", Number[b1]>>],
              plain    |-> PathIn("inside"),
              sheets   |-> PathIn("sheets")]
UnroutedTable == [PathTable EXCEPT !["sheets"] = PathIn("inside")]
AllPaths == {Nowhere} \cup {PathTable[l][f] : l \in AllLayouts, f \in Files}
OldPathTable == [k \in AllKeys |-> IF k <= 3 THEN <<"inside", k>> ELSE Nowhere]

OneName == [k \in AllKeys |-> "U01.pdf"]
CourseTable == [f \in Files |-> IF f = b1 THEN CourseB ELSE CourseA]
(* course_folders only claims keys that start with a configured folder.    *)
KeyCourseTable ==
  [k \in AllKeys |-> CASE k \in {1, 2} -> CourseA [] k = 3 -> CourseB [] OTHER -> NoCourse]

SizeTable == [f \in Files |-> [v \in Versions |-> 10 * Number[f] + v]]

(* Every switch changes the keys or is the introduction of "/{blatt}".     *)
(* Nothing leads back to earlier paths under unchanged keys: a copy left   *)
(* there would be taken for the one the record describes.                  *)
SwitchTable ==
  {<<"relative", "absolute">>, <<"absolute", "relative">>, <<"plain", "sheets">>}
FiledPaths == {<<"outside", 1>>, <<"sheets", 1>>}

(* The first two layouts are of the kind the theorem is about.             *)
ASSUME SteadyLayouts == Steady({"relative", "absolute"})

=============================================================================
