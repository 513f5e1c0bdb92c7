---------------------------- MODULE KeyMigration ----------------------------
(***************************************************************************)
(* What a run does between its crawl and its comparison when the user has  *)
(* changed the folder settings (internal/syncer/migrate.go): history is    *)
(* re-keyed to the keys the current settings produce, and the copies on    *)
(* disk are carried to the paths they produce.                             *)
(*                                                                         *)
(* A "layout" is one state of the settings that decide keys and paths      *)
(* (course_folders, use_section_subfolders, subfolder_destinations).  Two  *)
(* layouts may give a file different keys, or the same key and different   *)
(* paths ("/{blatt}" routing).  Downloads are one step here, and neither   *)
(* fail nor back off: SyncRun is about them.  What matters here is that    *)
(* the manifest is only saved after the files were moved, and that a run   *)
(* can be killed at any point in between.                                  *)
(***************************************************************************)
EXTENDS Manifest, FiniteSets, FiniteSetsExt

CONSTANTS
  Files,          \* the files OPAL may list
  Keys,           \* manifest keys, numbered in the order remapOne treats
                  \* them: by base name, then as strings
  Paths,          \* local paths
  Names,          \* base names
  Courses,
  Layouts,
  Switches,       \* the changes of layout considered, as pairs
  KeyOf,          \* the key of each file, by layout
  PathOf,         \* the path of each file, by layout
  UnroutedOf,     \* its path were there no "/{blatt}" entry, by layout
  NameOf,         \* the base name of each key
  OldPathOf,      \* download_path joined with each key
  CourseOf,       \* the course of each file
  KeyCourseOf,    \* the course whose folder is a key's prefix, or NoCourse
  NoCourse,
  SizeOf,         \* the size of each version of each file
  Untabled,       \* files whose section may show no table, hence no columns
  FiledByHand,    \* paths where the user may have put a file of his own
  MaxFaults,      \* bound on kills, failed moves and incomplete crawls
  Torn, Foreign,  \* contents: a cut-off file, one of the user's own
  Absent,         \* a file the crawl did not report, or OPAL does not have
  NoMove          \* no copy to another volume is under way

ASSUME FilesAssumption ==
  /\ IsFiniteSet(Files) /\ IsFiniteSet(Keys) /\ Keys \subseteq Nat
  /\ MaxVersion \in Nat \ {0} /\ MaxFaults \in Nat
  /\ Switches \subseteq Layouts \X Layouts
ASSUME LayoutAssumption ==
  /\ KeyOf \in [Layouts -> [Files -> Keys]]
  /\ PathOf \in [Layouts -> [Files -> Paths]]
  /\ UnroutedOf \in [Layouts -> [Files -> Paths]]
  /\ NameOf \in [Keys -> Names]
  /\ OldPathOf \in [Keys -> Paths]
  /\ CourseOf \in [Files -> Courses]
  /\ KeyCourseOf \in [Keys -> Courses \cup {NoCourse}]
  /\ SizeOf \in [Files -> [Versions -> Nat]]

(* Within a layout a key belongs to one file: of several that would get    *)
(* the same key the run keeps the first.  A path may belong to several.    *)
ASSUME ApartAssumption ==
  \A l \in Layouts : \A f, g \in Files : KeyOf[l][f] = KeyOf[l][g] => f = g

(* The last part of a key, or of a path, is the base name of its file.     *)
ASSUME NamesAssumption ==
  /\ \A l, m \in Layouts : \A f, g \in Files :
       f = g \/ PathOf[l][f] = PathOf[m][g]
         => NameOf[KeyOf[l][f]] = NameOf[KeyOf[m][g]]
  /\ \A k \in Keys, l \in Layouts : \A f \in Files :
       OldPathOf[k] = PathOf[l][f] => NameOf[k] = NameOf[KeyOf[l][f]]

VARIABLES
  layout,     \* the settings now
  remote,     \* the version of each file OPAL has
  disk,       \* the content at each local path
  saved,      \* the manifest on disk
  phase,      \* "idle", "remapping", "routing" or "comparing"
  seen,       \* what the run's crawl read of each file
  mem,        \* the run's manifest in memory
  todo,       \* the pairs <<old key, new key>> remapOne has yet to treat
  toRoute,    \* the files relocateSheetRoutedFiles has yet to treat
  orphans,    \* the paths the reports name as left behind
  moving,     \* the copy to another volume under way
  faults      \* faults so far

run == <<phase, seen, mem, todo, toRoute, orphans, moving>>
vars == <<layout, remote, disk, saved, run, faults>>

-----------------------------------------------------------------------------
Download == [file : Files, version : Versions]
Contents == Download \cup {Nothing, Torn, Foreign}
Copy(f, v) == [file |-> f, version |-> v]

(* The marks for what is not there are not among what may be there.        *)
ASSUME MarksAssumption ==
  /\ Nil \notin Nat
  /\ NoRecord \notin Record
  /\ Absent \notin Versions
  /\ {Nothing, Torn, Foreign} \cap Download = {}
  /\ Nothing # Torn /\ Nothing # Foreign /\ Torn # Foreign

Occupied(p) == disk[p] # Nothing

Manifests == [Keys -> Record \cup {NoRecord}]
NoManifest == [k \in Keys |-> NoRecord]
Stored(m) == {k \in Keys : m[k] # NoRecord}

(* What the crawl reads of a file: both columns, or none of them in a      *)
(* section without a table.                                                *)
RowOf(f, shown) ==
  IF shown THEN [size |-> SizeOf[f][remote[f]], modified |-> remote[f]]
           ELSE [size |-> Nil, modified |-> Nil]
Rows == [size : Nat \cup {Nil}, modified : Versions \cup {Nil}] \cup {Absent}

Reported(rows) == {f \in Files : rows[f] # Absent}
KeysOf(rows) == {KeyOf[layout][f] : f \in Reported(rows)}
FileOf(key) == CHOOSE f \in Files : KeyOf[layout][f] = key
TargetOf(key) == PathOf[layout][FileOf(key)]

-----------------------------------------------------------------------------
(* migrateManifestKeys up to its first remapOne.                           *)

(* suspectKeySchemeChange: hardly any stored key is one OPAL's files have. *)
SuspectKeySchemeChange(m, rows) ==
  LET matched == Stored(m) \cap KeysOf(rows) IN
  Stored(m) # {} /\ Cardinality(matched) * 4 < Cardinality(Stored(m))

Named(keys, name) == {k \in keys : NameOf[k] = name}

(* pairStaleByCourse: a course that has one key on either side.  The       *)
(* mutant only asks for one on the side of the current files.              *)
PairStaleByCourseLoosely(stale, fresh) ==
  {p \in stale \X fresh :
     LET course == CourseOf[FileOf(p[2])] IN
     /\ KeyCourseOf[p[1]] = course
     /\ {k \in fresh : CourseOf[FileOf(k)] = course} = {p[2]}}
PairStaleByCourse(stale, fresh) ==
  {p \in stale \X fresh :
     LET course == CourseOf[FileOf(p[2])] IN
     /\ {k \in stale : KeyCourseOf[k] = course} = {p[1]}
     /\ {k \in fresh : CourseOf[FileOf(k)] = course} = {p[2]}}

PairsNamed(m, rows, name) ==
  LET stale == Named(Stored(m) \ KeysOf(rows), name)
      fresh == Named(KeysOf(rows) \ Stored(m), name) IN
  IF Cardinality(stale) = 1 /\ Cardinality(fresh) = 1
  THEN stale \X fresh
  ELSE PairStaleByCourse(stale, fresh)

Pairs(m, rows) == UNION {PairsNamed(m, rows, name) : name \in Names}

(* The stale keys no pair resolves: reported, with the file if it is there.*)
Ambiguous(m, rows) ==
  (Stored(m) \ KeysOf(rows)) \ {p[1] : p \in Pairs(m, rows)}

-----------------------------------------------------------------------------
Init ==
  /\ layout \in Layouts
  /\ remote \in [Files -> {1, Absent}]
  /\ disk \in [Paths -> {Nothing, Foreign}]
  /\ \A p \in Paths \ FiledByHand : disk[p] = Nothing
  /\ saved = NoManifest
  /\ phase = "idle"
  /\ seen = [f \in Files |-> Absent]
  /\ mem = NoManifest
  /\ todo = {}
  /\ toRoute = {}
  /\ orphans = {}
  /\ moving = NoMove
  /\ faults = 0

Fault == faults < MaxFaults /\ faults' = faults + 1

(* The crawl, and the start of the migration.                              *)
Begin(rows) ==
  LET suspect == SuspectKeySchemeChange(saved, rows) IN
  /\ phase = "idle"
  /\ phase' = "remapping"
  /\ seen' = rows
  /\ mem' = saved
  /\ todo' = IF suspect THEN Pairs(saved, rows) ELSE {}
  /\ orphans' = IF suspect
                THEN {p \in {OldPathOf[k] : k \in Ambiguous(saved, rows)} : Occupied(p)}
                ELSE {}
  /\ UNCHANGED <<layout, remote, disk, saved, toRoute, moving>>

Crawled(shown) ==
  [f \in Files |-> IF remote[f] = Absent THEN Absent ELSE RowOf(f, f \in shown)]

Run(shown) == Begin(Crawled(shown)) /\ UNCHANGED faults

(* A course's crawl or a section's failed, OPAL withdrew a file, or the    *)
(* settings no longer select the course.                                   *)
Missable == {{f} : f \in Files}
            \cup {{f \in Files : CourseOf[f] = course} : course \in Courses}
RunWithout(shown, missing) ==
  /\ Begin([f \in Files |-> IF f \in missing THEN Absent ELSE Crawled(shown)[f]])
  /\ Fault

-----------------------------------------------------------------------------
(* remapOne, for the pairs in the order of their old keys.                 *)

OldKey == Min({p[1] : p \in todo})
NewKey == (CHOOSE p \in todo : p[1] = OldKey)[2]
Remapping == phase = "remapping" /\ todo # {} /\ moving = NoMove

(* The entry is re-keyed, and no longer trusted if the file at the new     *)
(* path is not known to be the one it was written from.  The mutant        *)
(* always trusts it.                                                       *)
RekeyedTo(doubtful) ==
  /\ mem' = [mem EXCEPT ![OldKey] = NoRecord,
                        ![NewKey] = [mem[OldKey] EXCEPT !.unverified = @ \/ doubtful]]
  /\ todo' = todo \ {<<OldKey, NewKey>>}
OrphanIf(left) == IF left THEN orphans \cup {OldPathOf[OldKey]} ELSE orphans

RekeyTrusting(placed, left) == RekeyedTo(FALSE) /\ orphans' = OrphanIf(left)
Rekey(placed, left) ==
  /\ RekeyedTo(~placed /\ disk'[TargetOf(NewKey)] # Nothing)
  /\ orphans' = OrphanIf(left)

(* The copy has to be carried to a path that is free.  The mutant does not *)
(* look whether it is.                                                     *)
FreeOrNot(from, to) == Occupied(from) /\ from # to
CanCarry(from, to) == Occupied(from) /\ from # to /\ ~Occupied(to)

(* There is nothing to move, or something is in the way.                   *)
RemapInPlace ==
  LET from == OldPathOf[OldKey]  to == TargetOf(NewKey) IN
  /\ Remapping
  /\ ~CanCarry(from, to)
  /\ UNCHANGED disk
  /\ Rekey(Occupied(from) /\ from = to, Occupied(from) /\ from # to)
  /\ UNCHANGED <<layout, remote, saved, phase, seen, toRoute, moving, faults>>

Moved(from, to) == disk' = [disk EXCEPT ![to] = disk[from], ![from] = Nothing]

(* relocateFile: a rename, a copy to another volume, or a failure.         *)
RemapRenames ==
  LET from == OldPathOf[OldKey]  to == TargetOf(NewKey) IN
  /\ Remapping
  /\ CanCarry(from, to)
  /\ Moved(from, to)
  /\ Rekey(TRUE, FALSE)
  /\ UNCHANGED <<layout, remote, saved, phase, seen, toRoute, moving, faults>>

RemapCopyBegins ==
  LET from == OldPathOf[OldKey]  to == TargetOf(NewKey) IN
  /\ Remapping
  /\ CanCarry(from, to)
  /\ disk' = [disk EXCEPT ![to] = Torn]
  /\ moving' = [from |-> from, to |-> to]
  /\ UNCHANGED <<layout, remote, saved, phase, seen, mem, todo, toRoute, orphans, faults>>

RemapCopyEnds ==
  /\ phase = "remapping" /\ moving # NoMove
  /\ Moved(moving.from, moving.to)
  /\ Rekey(TRUE, FALSE)
  /\ moving' = NoMove
  /\ UNCHANGED <<layout, remote, saved, phase, seen, toRoute, faults>>

(* The original stays: the copy was not begun, breaks off, or is complete  *)
(* and the original cannot be removed.                                     *)
LeavesOriginal ==
  \/ UNCHANGED disk
  \/ moving # NoMove /\ disk' = [disk EXCEPT ![moving.to] = disk[moving.from]]

RemapMoveFails ==
  /\ phase = "remapping" /\ todo # {}
  /\ moving # NoMove \/ CanCarry(OldPathOf[OldKey], TargetOf(NewKey))
  /\ LeavesOriginal
  /\ Rekey(FALSE, TRUE)
  /\ moving' = NoMove
  /\ Fault
  /\ UNCHANGED <<layout, remote, saved, phase, seen, toRoute>>

(* The sweep for "/{blatt}" follows, over the files it concerns.           *)
RemapDone ==
  /\ phase = "remapping" /\ todo = {}
  /\ phase' = "routing"
  /\ toRoute' = {f \in Reported(seen) : UnroutedOf[layout][f] # PathOf[layout][f]}
  /\ UNCHANGED <<layout, remote, disk, saved, seen, mem, todo, orphans, moving, faults>>

-----------------------------------------------------------------------------
(* relocateSheetRoutedFiles.                                               *)

FlatPath(f) == UnroutedOf[layout][f]
SheetPath(f) == PathOf[layout][f]
Routing(f) == phase = "routing" /\ f \in toRoute /\ moving = NoMove

(* flagUnverified.                                                         *)
FlagUnverified(key) ==
  mem' = IF mem[key] = NoRecord THEN mem ELSE [mem EXCEPT ![key].unverified = TRUE]

RouteInPlace(f) ==
  /\ Routing(f)
  /\ ~CanCarry(FlatPath(f), SheetPath(f))
  /\ IF Occupied(FlatPath(f))
     THEN orphans' = orphans \cup {FlatPath(f)} /\ FlagUnverified(KeyOf[layout][f])
     ELSE UNCHANGED <<orphans, mem>>
  /\ toRoute' = toRoute \ {f}
  /\ UNCHANGED <<layout, remote, disk, saved, phase, seen, todo, moving, faults>>

RouteRenames(f) ==
  /\ Routing(f)
  /\ CanCarry(FlatPath(f), SheetPath(f))
  /\ Moved(FlatPath(f), SheetPath(f))
  /\ toRoute' = toRoute \ {f}
  /\ UNCHANGED <<layout, remote, saved, phase, seen, mem, todo, orphans, moving, faults>>

RouteCopyBegins(f) ==
  /\ Routing(f)
  /\ CanCarry(FlatPath(f), SheetPath(f))
  /\ disk' = [disk EXCEPT ![SheetPath(f)] = Torn]
  /\ moving' = [from |-> FlatPath(f), to |-> SheetPath(f)]
  /\ toRoute' = toRoute \ {f}
  /\ UNCHANGED <<layout, remote, saved, phase, seen, mem, todo, orphans, faults>>

RouteCopyEnds ==
  /\ phase = "routing" /\ moving # NoMove
  /\ Moved(moving.from, moving.to)
  /\ moving' = NoMove
  /\ UNCHANGED <<layout, remote, saved, phase, seen, mem, todo, toRoute, orphans, faults>>

(* Reported, but not flagged.                                              *)
RouteCopyFails ==
  /\ phase = "routing" /\ moving # NoMove
  /\ LeavesOriginal
  /\ orphans' = orphans \cup {moving.from}
  /\ moving' = NoMove
  /\ Fault
  /\ UNCHANGED <<layout, remote, saved, phase, seen, mem, todo, toRoute>>

RouteMoveFails(f) ==
  /\ Routing(f)
  /\ CanCarry(FlatPath(f), SheetPath(f))
  /\ orphans' = orphans \cup {FlatPath(f)}
  /\ toRoute' = toRoute \ {f}
  /\ Fault
  /\ UNCHANGED <<layout, remote, disk, saved, phase, seen, mem, todo, moving>>

RouteDone ==
  /\ phase = "routing" /\ toRoute = {} /\ moving = NoMove
  /\ phase' = "comparing"
  /\ UNCHANGED <<layout, remote, disk, saved, seen, mem, todo, toRoute, orphans, moving, faults>>

-----------------------------------------------------------------------------
(* The comparison, the downloads and the end of the run.                   *)

RunEnds ==
  /\ phase' = "idle"
  /\ seen' = [f \in Files |-> Absent]
  /\ mem' = NoManifest
  /\ todo' = {}
  /\ toRoute' = {}
  /\ orphans' = {}
  /\ moving' = NoMove

VerdictOn(f) ==
  Verdict(FALSE, seen[f], mem[KeyOf[layout][f]], disk[PathOf[layout][f]])

(* A verification that finds the bytes identical leaves them alone, one    *)
(* that does not replaces them like a download.                            *)
RecordAfter(f) ==
  LET record == mem[KeyOf[layout][f]] IN
  IF VerdictOn(f) = "verify" /\ disk[PathOf[layout][f]] = Copy(f, remote[f])
  THEN VerifiedRecord(record)
  ELSE SuccessRecord(seen[f])

(* Of the files that need it, those in done are downloaded or verified;    *)
(* the others are left over by a cancellation.                             *)
Finish(done) ==
  LET wanted == {f \in Reported(seen) : VerdictOn(f) # "skip"}
      at(p) == {f \in done : PathOf[layout][f] = p}
      of(k) == {f \in done : KeyOf[layout][f] = k} IN
  /\ phase = "comparing"
  /\ done \subseteq wanted
  /\ IF done = wanted THEN UNCHANGED faults ELSE Fault
  /\ disk' = [p \in Paths |-> IF at(p) = {} THEN disk[p]
                              ELSE LET f == CHOOSE g \in at(p) : TRUE
                                   IN Copy(f, remote[f])]
  /\ saved' = [k \in Keys |-> IF of(k) = {} THEN mem[k]
                              ELSE RecordAfter(CHOOSE f \in of(k) : TRUE)]
  /\ RunEnds
  /\ UNCHANGED <<layout, remote>>

(* The process dies: what was moved stays moved, the manifest is the old   *)
(* one.                                                                    *)
Kill ==
  /\ phase # "idle"
  /\ Fault
  /\ RunEnds
  /\ UNCHANGED <<layout, remote, disk, saved>>

-----------------------------------------------------------------------------
(* Between runs the settings change, and OPAL's files do.                  *)

SwitchLayout(l) ==
  /\ phase = "idle"
  /\ <<layout, l>> \in Switches
  /\ layout' = l
  /\ UNCHANGED <<remote, disk, saved, run, faults>>

Publish(f) ==
  /\ phase = "idle"
  /\ remote[f] = Absent
  /\ remote' = [remote EXCEPT ![f] = 1]
  /\ UNCHANGED <<layout, disk, saved, run, faults>>

Update(f) ==
  /\ phase = "idle"
  /\ remote[f] \in 1 .. (MaxVersion - 1)
  /\ remote' = [remote EXCEPT ![f] = @ + 1]
  /\ UNCHANGED <<layout, disk, saved, run, faults>>

Next ==
  \/ \E hidden \in SUBSET Untabled :
       \/ Run(Files \ hidden)
       \/ \E missing \in Missable : RunWithout(Files \ hidden, missing)
  \/ RemapInPlace \/ RemapRenames \/ RemapCopyBegins \/ RemapCopyEnds
  \/ RemapMoveFails \/ RemapDone
  \/ \E f \in Files :
       \/ RouteInPlace(f) \/ RouteRenames(f) \/ RouteCopyBegins(f) \/ RouteMoveFails(f)
       \/ Publish(f) \/ Update(f)
  \/ RouteCopyEnds \/ RouteCopyFails \/ RouteDone
  \/ \E done \in SUBSET Files : Finish(done)
  \/ Kill
  \/ \E l \in Layouts : SwitchLayout(l)

Spec == Init /\ [][Next]_vars

-----------------------------------------------------------------------------
(* Properties.                                                             *)

TypeOK ==
  /\ layout \in Layouts
  /\ remote \in [Files -> Versions \cup {Absent}]
  /\ disk \in [Paths -> Contents]
  /\ saved \in Manifests /\ mem \in Manifests
  /\ phase \in {"idle", "remapping", "routing", "comparing"}
  /\ seen \in [Files -> Rows]
  /\ todo \subseteq Keys \X Keys
  /\ toRoute \subseteq Files
  /\ orphans \subseteq Paths
  /\ moving \in [from : Paths, to : Paths] \cup {NoMove}
  /\ faults \in 0 .. MaxFaults

(* No step of the migration or of the sheet sweep makes the last copy of   *)
(* anything disappear, wherever it is interrupted ("no file is ever        *)
(* deleted").                                                              *)
HeldIn(d) == {d[p] : p \in Paths} \ {Nothing, Torn}
NothingLost ==
  [][(phase = "remapping" \/ phase = "routing") => HeldIn(disk) \subseteq HeldIn(disk')]_vars

(* Re-keying keeps every record: none is dropped, none overwrites another. *)
HistoryKept ==
  phase # "idle" =>
    /\ Cardinality(Stored(mem)) = Cardinality(Stored(saved))
    /\ {mem[k].size : k \in Stored(mem)} = {saved[k].size : k \in Stored(saved)}

(* What the next run would leave alone is OPAL's current version: no       *)
(* record is believed about a file the migration did not itself put in     *)
(* place, none about an older version and none about another file.  Three  *)
(* things are excepted.  A copy cut off by a full disk is SyncRun's        *)
(* matter.  A file in a sheet folder whose flat copy is gone is adopted    *)
(* (relocateSheetRoutedFiles says so).  And pairing by name may give a     *)
(* record to a file of the same name; that is not noticed where OPAL shows *)
(* no columns, since a verification that finds the bytes identical vouches *)
(* for the record, nor where two keys share a path.                        *)
TakenForCurrent(f) ==
  LET key == KeyOf[layout][f]  path == PathOf[layout][f]  flat == UnroutedOf[layout][f] IN
  /\ phase = "idle"
  /\ remote[f] # Absent
  /\ flat = path \/ ~Occupied(flat)
  /\ Verdict(FALSE, RowOf(f, TRUE), saved[key], disk[path]) = "skip"
Namesakes(f) ==
  {g \in Files \ {f} : NameOf[KeyOf[layout][g]] = NameOf[KeyOf[layout][f]]}
Confusable ==
  Untabled \cup {g \in Files : \E l, m \in Layouts, f \in Files :
                  PathOf[l][g] = PathOf[m][f] /\ KeyOf[l][g] # KeyOf[m][f]}
NeverSilentlyForeign ==
  \A f \in Files : TakenForCurrent(f) =>
    LET content == disk[PathOf[layout][f]] IN
    \/ content \in {Copy(f, remote[f]), Torn}
    \/ content = Foreign /\ UnroutedOf[layout][f] # PathOf[layout][f]
    \/ content \in Download /\ content.file \in Namesakes(f) \cap Confusable

(* What the theorem about NeverSilentlyForeign needs of the layouts the    *)
(* settings pass through.  None of them routes to sheet folders, and in    *)
(* each a path belongs to one file.  A key says where its file lies, in    *)
(* whichever of them it is a key, and what the migration takes for its old *)
(* path is that place or one that nobody uses.  Where keys of two layouts  *)
(* say the same place, no file of that name lies elsewhere under the key   *)
(* prefix of that course.  And OPAL's two columns together tell the files  *)
(* apart.                                                                  *)
KeysIn(L) == {KeyOf[l][f] : l \in L, f \in Files}
PathsIn(L) == {PathOf[l][f] : l \in L, f \in Files}
Steady(L) ==
  /\ \A s \in Switches : s[1] \in L => s[2] \in L
  /\ \A l \in L : UnroutedOf[l] = PathOf[l]
  /\ \A l \in L : \A f, g \in Files : PathOf[l][f] = PathOf[l][g] => f = g
  /\ \A l, m \in L : \A f, g \in Files :
       KeyOf[l][f] = KeyOf[m][g] => PathOf[l][f] = PathOf[m][g]
  /\ \A l \in L : \A f \in Files :
       OldPathOf[KeyOf[l][f]] \in {PathOf[l][f]} \cup (Paths \ (PathsIn(L) \cup FiledByHand))
  /\ \A l, m, n \in L : \A f, g, h \in Files :
       (/\ PathOf[l][f] = PathOf[m][g] /\ KeyOf[l][f] # KeyOf[m][g]
        /\ NameOf[KeyOf[n][h]] = NameOf[KeyOf[l][f]]
        /\ KeyCourseOf[KeyOf[n][h]] = CourseOf[f])
         => PathOf[n][h] = PathOf[l][f]
  /\ \A f, g \in Files : \A v \in Versions : SizeOf[f][v] = SizeOf[g][v] => f = g

=============================================================================
