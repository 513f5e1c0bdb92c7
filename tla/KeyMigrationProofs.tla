------------------------- MODULE KeyMigrationProofs -------------------------
(***************************************************************************)
(* Proofs that a migration loses neither a record of the manifest nor the  *)
(* last copy of a file, wherever it fails or is killed: for any files,     *)
(* layouts and changes between them.                                       *)
(***************************************************************************)
EXTENDS KeyMigration, FiniteSetTheorems, WellFoundedInduction, TLAPS

(* The pairs still to be treated match stored keys with free current ones, *)
(* one to one.                                                             *)
OneToOne(pairs) ==
  \A p, q \in pairs : p[1] = q[1] <=> p[2] = q[2]

TodoSound ==
  /\ todo \subseteq Keys \X KeysOf(seen)
  /\ OneToOne(todo)
  /\ \A p \in todo : p[1] \in Stored(mem) /\ p[2] \notin Stored(mem)
  /\ phase # "remapping" => todo = {}

(* A copy under way goes to a path that holds nothing but its own part.    *)
MovingSound ==
  moving # NoMove =>
    /\ phase = "remapping" \/ phase = "routing"
    /\ phase = "remapping" => todo # {}
    /\ moving.from # moving.to
    /\ disk[moving.to] = Torn

(* What the crawl reported OPAL has.                                       *)
SeenSound ==
  /\ \A f \in Files : seen[f] # Absent => remote[f] \in Versions
  /\ phase = "idle" => \A f \in Files : seen[f] = Absent

IInv == TypeOK /\ TodoSound /\ MovingSound /\ SeenSound /\ HistoryKept

-----------------------------------------------------------------------------
(* Facts about the data.                                                   *)

LEMMA VersionsAreNumbers == Versions \subseteq Nat /\ 1 \in Versions
BY FilesAssumption DEF Versions

LEMMA VersionsAreOrdered ==
  ASSUME NEW v \in Versions
  PROVE  v \in Nat /\ v <= v
BY FilesAssumption DEF Versions

(* FileOf inverts the key function of the layout.                          *)
LEMMA FileOfKey ==
  ASSUME NEW rows, NEW k \in KeysOf(rows), layout \in Layouts
  PROVE  /\ k \in Keys
         /\ FileOf(k) \in Files /\ KeyOf[layout][FileOf(k)] = k
         /\ TargetOf(k) \in Paths
<1>1. PICK f \in Files : k = KeyOf[layout][f]
  BY DEF KeysOf, Reported
<1>2. FileOf(k) \in Files /\ KeyOf[layout][FileOf(k)] = k
  BY <1>1 DEF FileOf
<1> QED
  BY <1>1, <1>2, LayoutAssumption DEF TargetOf

LEMMA RowType ==
  ASSUME NEW f \in Files, NEW shown, remote[f] \in Versions
  PROVE  RowOf(f, shown) \in Rows
<1>1. SizeOf[f][remote[f]] \in Nat
  BY LayoutAssumption
<1> QED
  BY <1>1 DEF RowOf, Rows

LEMMA SuccessRecordType ==
  ASSUME NEW row \in Rows \ {Absent}
  PROVE  SuccessRecord(row) \in Record
BY FilesAssumption DEF SuccessRecord, Rows, Record, Versions

LEMMA KeySetsAreFinite ==
  ASSUME NEW S \in SUBSET Keys
  PROVE  IsFiniteSet(S) /\ Cardinality(S) \in Nat
BY FilesAssumption, FS_Subset, FS_CardinalityType

(* A nonempty set of keys has a least one, and Min is it.                  *)
LEMMA LeastKey ==
  ASSUME NEW S \in SUBSET Keys, S # {}
  PROVE  Min(S) \in S
<1>1. S \subseteq Nat
  BY FilesAssumption
<1>2. \E x \in S : \A y \in S : ~ (<<y, x>> \in OpToRel(<, Nat))
  BY <1>1, NatLessThanWellFounded, WFMin
<1>3. \A x, y \in Nat : y < x => <<y, x>> \in OpToRel(<, Nat)
  BY Zenon DEF OpToRel
<1>4. \E x \in S : \A y \in S : ~(y < x)
  BY <1>1, <1>2, <1>3
<1>5. \E x \in S : \A y \in S : x =< y
  BY <1>1, <1>4
<1> QED
  BY <1>5 DEF Min

LEMMA NextPair ==
  ASSUME todo \subseteq Keys \X KeysOf(seen), todo # {}
  PROVE  <<OldKey, NewKey>> \in todo
<1> DEFINE olds == {p[1] : p \in todo}
<1>1. olds \in SUBSET Keys /\ olds # {}
  OBVIOUS
<1>2. OldKey \in olds
  BY <1>1, LeastKey DEF OldKey
<1>3. PICK p \in todo : p[1] = OldKey
  BY <1>2
<1> DEFINE q == CHOOSE r \in todo : r[1] = OldKey
<1>4. q \in todo /\ q[1] = OldKey
  BY <1>3
<1>5. q = <<q[1], q[2]>>
  BY <1>4
<1> QED
  BY <1>4, <1>5 DEF NewKey

-----------------------------------------------------------------------------
(* The pairing.                                                            *)

(* Within a name the pairing is one to one, by either rule.                *)
LEMMA NamedPairsOneToOne ==
  ASSUME NEW m, NEW rows, NEW name, KeysOf(rows) \subseteq Keys
  PROVE  /\ OneToOne(PairsNamed(m, rows, name))
         /\ PairsNamed(m, rows, name)
              \subseteq Named(Stored(m) \ KeysOf(rows), name)
                        \X Named(KeysOf(rows) \ Stored(m), name)
<1> DEFINE stale == Named(Stored(m) \ KeysOf(rows), name)
           fresh == Named(KeysOf(rows) \ Stored(m), name)
<1>1. CASE Cardinality(stale) = 1 /\ Cardinality(fresh) = 1
  <2>1. IsFiniteSet(stale) /\ IsFiniteSet(fresh)
    BY KeySetsAreFinite DEF Named, Stored
  <2>2. (\E s : stale = {s}) /\ (\E f : fresh = {f})
    BY <1>1, <2>1, FS_Singleton
  <2>3. PairsNamed(m, rows, name) = stale \X fresh
    BY <1>1 DEF PairsNamed
  <2> QED
    BY <2>2, <2>3 DEF OneToOne
<1>2. CASE ~(Cardinality(stale) = 1 /\ Cardinality(fresh) = 1)
  <2>1. PairsNamed(m, rows, name) = PairStaleByCourse(stale, fresh)
    BY <1>2 DEF PairsNamed
  <2>2. OneToOne(PairStaleByCourse(stale, fresh))
    <3> SUFFICES ASSUME NEW p \in PairStaleByCourse(stale, fresh),
                        NEW q \in PairStaleByCourse(stale, fresh)
                 PROVE  p[1] = q[1] <=> p[2] = q[2]
      BY DEF OneToOne
    <3> DEFINE c == CourseOf[FileOf(p[2])]
               d == CourseOf[FileOf(q[2])]
    <3>1. /\ {k \in stale : KeyCourseOf[k] = c} = {p[1]}
          /\ {k \in fresh : CourseOf[FileOf(k)] = c} = {p[2]}
          /\ {k \in stale : KeyCourseOf[k] = d} = {q[1]}
          /\ {k \in fresh : CourseOf[FileOf(k)] = d} = {q[2]}
      BY DEF PairStaleByCourse
    <3>2. ASSUME p[1] = q[1] PROVE p[2] = q[2]
      <4>1. c = KeyCourseOf[p[1]] /\ d = KeyCourseOf[q[1]]
        BY <3>1
      <4> QED
        BY <4>1, <3>1, <3>2
    <3>3. ASSUME p[2] = q[2] PROVE p[1] = q[1]
      BY <3>1, <3>3
    <3> QED
      BY <3>2, <3>3
  <2> QED
    BY <2>1, <2>2 DEF PairStaleByCourse
<1> QED
  BY <1>1, <1>2

(* A pair is of one name and joins a stale key to a free current one.      *)
LEMMA PairHasName ==
  ASSUME NEW m, NEW rows, KeysOf(rows) \subseteq Keys, NEW p \in Pairs(m, rows)
  PROVE  \E name \in Names :
           /\ p \in PairsNamed(m, rows, name)
           /\ p \in Named(Stored(m) \ KeysOf(rows), name)
                    \X Named(KeysOf(rows) \ Stored(m), name)
           /\ NameOf[p[1]] = name /\ NameOf[p[2]] = name
BY NamedPairsOneToOne DEF Pairs, Named

(* So is the whole of it: stored keys that went stale on one side, current *)
(* keys without history on the other.                                      *)
LEMMA PairsOneToOne ==
  ASSUME NEW m, NEW rows, KeysOf(rows) \subseteq Keys
  PROVE  /\ OneToOne(Pairs(m, rows))
         /\ Pairs(m, rows) \subseteq Keys \X KeysOf(rows)
         /\ \A p \in Pairs(m, rows) : p[1] \in Stored(m) /\ p[2] \notin Stored(m)
<1>1. \A p \in Pairs(m, rows) : \E name \in Names :
        /\ p \in PairsNamed(m, rows, name)
        /\ p \in Named(Stored(m) \ KeysOf(rows), name)
                 \X Named(KeysOf(rows) \ Stored(m), name)
        /\ NameOf[p[1]] = name /\ NameOf[p[2]] = name
  BY PairHasName
<1>2. OneToOne(Pairs(m, rows))
  <2> SUFFICES ASSUME NEW p \in Pairs(m, rows), NEW q \in Pairs(m, rows)
               PROVE  p[1] = q[1] <=> p[2] = q[2]
    BY DEF OneToOne
  <2>1. PICK n \in Names : p \in PairsNamed(m, rows, n) /\ NameOf[p[1]] = n /\ NameOf[p[2]] = n
    BY <1>1
  <2>2. PICK o \in Names : q \in PairsNamed(m, rows, o) /\ NameOf[q[1]] = o /\ NameOf[q[2]] = o
    BY <1>1
  <2>3. CASE n = o
    <3>1. OneToOne(PairsNamed(m, rows, n))
      BY NamedPairsOneToOne
    <3>2. q \in PairsNamed(m, rows, n)
      BY <2>2, <2>3
    <3> QED
      BY <2>1, <3>1, <3>2 DEF OneToOne
  <2>4. CASE n # o
    BY <2>1, <2>2, <2>4
  <2> QED
    BY <2>3, <2>4
<1> QED
  BY <1>1, <1>2 DEF Named, Stored

-----------------------------------------------------------------------------
LEMMA KeysOfType ==
  ASSUME layout \in Layouts, NEW rows
  PROVE  KeysOf(rows) \subseteq Keys
BY LayoutAssumption DEF KeysOf, Reported

LEMMA InitEstablishes == Init => IInv
<1> SUFFICES ASSUME Init PROVE IInv
  OBVIOUS
<1>1. TypeOK
  <2>1. remote \in [Files -> Versions \cup {Absent}] /\ seen \in [Files -> Rows]
    BY VersionsAreNumbers DEF Init, Rows
  <2>2. disk \in [Paths -> Contents]
    BY DEF Init, Contents
  <2>3. saved \in Manifests /\ mem \in Manifests
    BY DEF Init, NoManifest, Manifests
  <2>4. faults \in 0 .. MaxFaults
    BY FilesAssumption DEF Init
  <2> QED
    BY <2>1, <2>2, <2>3, <2>4 DEF Init, TypeOK
<1> QED
  BY <1>1 DEF Init, IInv, TodoSound, OneToOne, MovingSound, SeenSound, HistoryKept

(* Treating one pair moves one record to a key that had none.              *)
LEMMA RekeyKeeps ==
  ASSUME IInv, phase = "remapping", todo # {}, NEW b \in BOOLEAN, RekeyedTo(b),
         UNCHANGED <<layout, saved, phase, seen>>
  PROVE  mem' \in Manifests /\ TodoSound' /\ HistoryKept'
<1> DEFINE o == OldKey
           n == NewKey
           r == [mem[o] EXCEPT !.unverified = @ \/ b]
<1>1. <<o, n>> \in todo
  BY NextPair DEF IInv, TodoSound
<1>2. /\ o \in Keys /\ n \in Keys /\ n \in KeysOf(seen)
      /\ mem[o] # NoRecord /\ mem[n] = NoRecord /\ o # n
  <2>1. o \in Stored(mem) /\ n \notin Stored(mem) /\ n \in KeysOf(seen)
    BY <1>1 DEF IInv, TodoSound
  <2>2. KeysOf(seen) \subseteq Keys
    BY KeysOfType DEF IInv, TypeOK
  <2> QED
    BY <2>1, <2>2 DEF Stored
<1>3. mem \in [Keys -> Record \cup {NoRecord}]
  BY DEF IInv, TypeOK, Manifests
<1>4. mem[o] \in Record
  BY <1>2, <1>3
<1>5. r \in Record /\ r.size = mem[o].size /\ r # NoRecord
  BY <1>4, MarksAssumption DEF Record
<1>6. mem' = [mem EXCEPT ![o] = NoRecord, ![n] = r] /\ todo' = todo \ {<<o, n>>}
  BY DEF RekeyedTo
<1> HIDE DEF o, n, r
<1>7. /\ mem' \in [Keys -> Record \cup {NoRecord}]
      /\ mem'[o] = NoRecord /\ mem'[n] = r
      /\ \A k \in Keys \ {o, n} : mem'[k] = mem[k]
  BY <1>2, <1>3, <1>5, <1>6
<1>8. Stored(mem') = (Stored(mem) \ {o}) \cup {n}
  BY <1>2, <1>5, <1>7 DEF Stored
<1>9. TodoSound'
  <2>1. KeysOf(seen)' = KeysOf(seen)
    BY DEF KeysOf, Reported
  <2>2. todo' \subseteq Keys \X KeysOf(seen)'
    BY <1>6, <2>1 DEF IInv, TodoSound
  <2>3. OneToOne(todo')
    BY <1>6 DEF IInv, TodoSound, OneToOne
  <2>4. ASSUME NEW p \in todo' PROVE p[1] \in Stored(mem') /\ p[2] \notin Stored(mem')
    <3>1. p \in todo /\ p # <<o, n>>
      BY <1>6
    <3>2. p[1] \in Stored(mem) /\ p[2] \notin Stored(mem)
      BY <3>1 DEF IInv, TodoSound
    <3>3. p = <<p[1], p[2]>>
      BY <3>1 DEF IInv, TodoSound
    <3>4. p[1] # o /\ p[2] # n
      BY <1>1, <3>1, <3>3 DEF IInv, TodoSound, OneToOne
    <3> QED
      BY <1>2, <1>8, <3>2, <3>4 DEF Stored
  <2> QED
    BY <2>2, <2>3, <2>4 DEF TodoSound
<1>10. Cardinality(Stored(mem')) = Cardinality(Stored(mem))
  <2>1. Stored(mem) \in SUBSET Keys
    BY DEF Stored
  <2>2. IsFiniteSet(Stored(mem)) /\ Cardinality(Stored(mem)) \in Nat
    BY <2>1, KeySetsAreFinite
  <2>3. o \in Stored(mem) /\ n \notin Stored(mem) \ {o}
    BY <1>2 DEF Stored
  <2>4. /\ IsFiniteSet(Stored(mem) \ {o})
        /\ Cardinality(Stored(mem) \ {o}) = Cardinality(Stored(mem)) - 1
    BY <2>2, <2>3, FS_RemoveElement
  <2>5. Cardinality((Stored(mem) \ {o}) \cup {n}) = Cardinality(Stored(mem) \ {o}) + 1
    BY <2>3, <2>4, FS_AddElement
  <2> QED
    BY <1>8, <2>2, <2>4, <2>5
<1>11. {mem'[k].size : k \in Stored(mem')} = {mem[k].size : k \in Stored(mem)}
  <2>1. \A k \in Stored(mem) \ {o} : k \in Keys \ {o, n} /\ mem'[k] = mem[k]
    BY <1>2, <1>7 DEF Stored
  <2>2. mem'[n].size = mem[o].size /\ o \in Stored(mem)
    BY <1>2, <1>5, <1>7 DEF Stored
  <2> QED
    BY <1>8, <2>1, <2>2
<1>12. HistoryKept'
  BY <1>10, <1>11 DEF IInv, HistoryKept, Stored
<1> QED
  BY <1>7, <1>9, <1>12 DEF Manifests

(* A pair's two paths.                                                     *)
LEMMA PairPaths ==
  ASSUME IInv, todo # {}
  PROVE  /\ OldPathOf[OldKey] \in Paths /\ TargetOf(NewKey) \in Paths
         /\ OrphanIf(TRUE) \subseteq Paths /\ OrphanIf(FALSE) \subseteq Paths
<1>1. <<OldKey, NewKey>> \in todo
  BY NextPair DEF IInv, TodoSound
<1>2. OldKey \in Keys /\ NewKey \in KeysOf(seen)
  BY <1>1 DEF IInv, TodoSound
<1>3. OldPathOf[OldKey] \in Paths
  BY <1>2, LayoutAssumption
<1>4. TargetOf(NewKey) \in Paths
  BY <1>2, FileOfKey DEF IInv, TypeOK
<1> QED
  BY <1>3, <1>4 DEF OrphanIf, IInv, TypeOK

(* The same for Rekey, whatever it decided.                                *)
LEMMA RekeySound ==
  ASSUME IInv, phase = "remapping", todo # {}, NEW ACTION placed, NEW ACTION left,
         Rekey(placed, left), UNCHANGED <<layout, saved, phase, seen>>
  PROVE  mem' \in Manifests /\ TodoSound' /\ HistoryKept' /\ orphans' \subseteq Paths
<1>1. PICK b \in BOOLEAN : b = (~placed /\ disk'[TargetOf(NewKey)] # Nothing)
  OBVIOUS
<1>2. RekeyedTo(b)
  BY <1>1 DEF Rekey, RekeyedTo
<1>3. orphans' \subseteq Paths
  <2>1. orphans' = OrphanIf(TRUE) \/ orphans' = OrphanIf(FALSE)
    BY DEF Rekey, OrphanIf
  <2> QED
    BY <2>1, PairPaths
<1> QED
  BY <1>2, <1>3, RekeyKeeps

-----------------------------------------------------------------------------
(* The steps.                                                              *)

LEMMA FaultType ==
  ASSUME faults \in 0 .. MaxFaults, Fault \/ UNCHANGED faults
  PROVE  faults' \in 0 .. MaxFaults
BY FilesAssumption DEF Fault

LEMMA MovedType ==
  ASSUME disk \in [Paths -> Contents], NEW from \in Paths, NEW to \in Paths, Moved(from, to)
  PROVE  disk' \in [Paths -> Contents]
BY DEF Moved, Contents

LEMMA TornType ==
  ASSUME disk \in [Paths -> Contents], NEW to \in Paths, disk' = [disk EXCEPT ![to] = Torn]
  PROVE  disk' \in [Paths -> Contents] /\ disk'[to] = Torn
BY DEF Contents

(* A copy under way has paths to go from and to.                           *)
LEMMA MovingType ==
  ASSUME IInv, moving # NoMove
  PROVE  moving.from \in Paths /\ moving.to \in Paths
BY DEF IInv, TypeOK

LEMMA LeavesOriginalType ==
  ASSUME IInv, LeavesOriginal
  PROVE  disk' \in [Paths -> Contents]
<1>1. CASE UNCHANGED disk
  BY <1>1 DEF IInv, TypeOK
<1>2. CASE moving # NoMove /\ disk' = [disk EXCEPT ![moving.to] = disk[moving.from]]
  <2>1. moving.from \in Paths /\ moving.to \in Paths
    BY <1>2, MovingType
  <2> QED
    BY <1>2, <2>1 DEF IInv, TypeOK
<1> QED
  BY <1>1, <1>2 DEF LeavesOriginal

(* What most steps leave alone.                                            *)
LEMMA FrameKeeps ==
  ASSUME IInv, UNCHANGED <<layout, remote, saved, phase, seen>>
  PROVE  /\ SeenSound'
         /\ UNCHANGED <<mem, todo>> => TodoSound' /\ HistoryKept'
<1>1. KeysOf(seen)' = KeysOf(seen)
  BY DEF KeysOf, Reported
<1>2. SeenSound'
  BY DEF IInv, SeenSound
<1>3. UNCHANGED <<mem, todo>> => TodoSound'
  BY <1>1 DEF IInv, TodoSound, OneToOne, Stored
<1>4. UNCHANGED <<mem, todo>> => HistoryKept'
  BY DEF IInv, HistoryKept, Stored
<1> QED
  BY <1>2, <1>3, <1>4

LEMMA BeginSound ==
  ASSUME IInv, NEW rows \in [Files -> Rows],
         \A f \in Files : rows[f] # Absent => remote[f] \in Versions,
         Begin(rows), Fault \/ UNCHANGED faults
  PROVE  IInv'
<1>1. /\ phase = "idle" /\ phase' = "remapping" /\ seen' = rows /\ mem' = saved
      /\ UNCHANGED <<layout, remote, disk, saved, toRoute, moving>>
  BY DEF Begin
<1>2. layout \in Layouts /\ KeysOf(rows) \subseteq Keys
  BY KeysOfType DEF IInv, TypeOK
<1>3. KeysOf(seen)' = KeysOf(rows)
  BY <1>1 DEF KeysOf, Reported
<1>4. todo' = {} \/ todo' = Pairs(saved, rows)
  BY DEF Begin
<1>5. TodoSound'
  <2>1. CASE todo' = {}
    BY <2>1, <1>1 DEF TodoSound, OneToOne
  <2>2. CASE todo' = Pairs(saved, rows)
    BY <2>2, <1>1, <1>2, <1>3, PairsOneToOne DEF TodoSound, Stored
  <2> QED
    BY <1>4, <2>1, <2>2
<1>6. orphans' \subseteq Paths
  <2>1. \A k \in Ambiguous(saved, rows) : OldPathOf[k] \in Paths
    BY LayoutAssumption DEF Ambiguous, Stored
  <2> QED
    BY <2>1 DEF Begin
<1>7. TypeOK'
  <2>1. todo' \subseteq Keys \X Keys
    BY <1>2, <1>3, <1>5 DEF TodoSound
  <2>2. faults' \in 0 .. MaxFaults
    BY FaultType DEF IInv, TypeOK
  <2> QED
    BY <1>1, <1>6, <2>1, <2>2 DEF IInv, TypeOK
<1>8. MovingSound'
  BY <1>1 DEF IInv, MovingSound
<1>9. SeenSound' /\ HistoryKept'
  BY <1>1 DEF SeenSound, HistoryKept, Stored
<1> QED
  BY <1>5, <1>7, <1>8, <1>9 DEF IInv

LEMMA CrawledType ==
  ASSUME IInv, NEW shown
  PROVE  /\ Crawled(shown) \in [Files -> Rows]
         /\ \A f \in Files : Crawled(shown)[f] # Absent => remote[f] \in Versions
<1>1. \A f \in Files : remote[f] = Absent \/ remote[f] \in Versions
  BY DEF IInv, TypeOK
<1>2. \A f \in Files : remote[f] # Absent => RowOf(f, f \in shown) \in Rows
  BY <1>1, RowType
<1> QED
  BY <1>1, <1>2 DEF Crawled, Rows

(* A run that ends leaves nothing in memory.                               *)
LEMMA RunEndsSound ==
  ASSUME IInv, RunEnds, disk' \in [Paths -> Contents], saved' \in Manifests,
         Fault \/ UNCHANGED faults, UNCHANGED <<layout, remote>>
  PROVE  IInv'
<1>1. mem' \in Manifests /\ seen' \in [Files -> Rows] /\ faults' \in 0 .. MaxFaults
  BY FaultType DEF IInv, TypeOK, RunEnds, NoManifest, Manifests, Rows
<1>2. TypeOK'
  BY <1>1 DEF IInv, TypeOK, RunEnds
<1> QED
  BY <1>2 DEF IInv, RunEnds, TodoSound, OneToOne, MovingSound, SeenSound, HistoryKept

LEMMA FinishSound ==
  ASSUME IInv, NEW done \in SUBSET Files, Finish(done)
  PROVE  IInv'
<1> DEFINE at(p) == {f \in done : PathOf[layout][f] = p}
           of(k) == {f \in done : KeyOf[layout][f] = k}
<1>1. \A f \in done : seen[f] # Absent /\ remote[f] \in Versions
  BY DEF Finish, Reported, IInv, SeenSound
<1>2. \A f \in done : Copy(f, remote[f]) \in Contents
  BY <1>1 DEF Copy, Contents, Download
<1>3. disk' \in [Paths -> Contents]
  <2>1. disk' = [p \in Paths |-> IF at(p) = {} THEN disk[p]
                 ELSE LET f == CHOOSE g \in at(p) : TRUE IN Copy(f, remote[f])]
    BY DEF Finish
  <2>2. \A p \in Paths : at(p) # {} => (CHOOSE g \in at(p) : TRUE) \in done
    OBVIOUS
  <2> QED
    BY <1>2, <2>1, <2>2 DEF IInv, TypeOK
<1>4. \A f \in done : RecordAfter(f) \in Record
  <2> SUFFICES ASSUME NEW f \in done PROVE RecordAfter(f) \in Record
    OBVIOUS
  <2>1. seen[f] \in Rows \ {Absent}
    BY <1>1 DEF IInv, TypeOK
  <2>2. SuccessRecord(seen[f]) \in Record
    BY <2>1, SuccessRecordType
  <2>3. KeyOf[layout][f] \in Keys
    BY LayoutAssumption DEF IInv, TypeOK
  <2>4. mem[KeyOf[layout][f]] \in Record \cup {NoRecord}
    BY <2>3 DEF IInv, TypeOK, Manifests
  <2>5. VerdictOn(f) = "verify" => mem[KeyOf[layout][f]] # NoRecord
    BY DEF VerdictOn, Verdict, FileChanged
  <2>6. VerdictOn(f) = "verify" => VerifiedRecord(mem[KeyOf[layout][f]]) \in Record
    BY <2>4, <2>5 DEF VerifiedRecord, Record
  <2> QED
    BY <2>2, <2>6 DEF RecordAfter
<1>5. saved' \in Manifests
  <2>1. saved' = [k \in Keys |-> IF of(k) = {} THEN mem[k]
                  ELSE RecordAfter(CHOOSE f \in of(k) : TRUE)]
    BY DEF Finish
  <2>2. \A k \in Keys : of(k) # {} => (CHOOSE f \in of(k) : TRUE) \in done
    OBVIOUS
  <2> QED
    BY <1>4, <2>1, <2>2 DEF IInv, TypeOK, Manifests
<1>6. Fault \/ UNCHANGED faults
  BY DEF Finish
<1> QED
  BY <1>3, <1>5, <1>6, RunEndsSound DEF Finish

RemapStep ==
  \/ RemapInPlace \/ RemapRenames \/ RemapCopyBegins \/ RemapCopyEnds
  \/ RemapMoveFails \/ RemapDone
RouteStep ==
  \/ \E f \in Files : RouteInPlace(f) \/ RouteRenames(f) \/ RouteCopyBegins(f)
                       \/ RouteMoveFails(f)
  \/ RouteCopyEnds \/ RouteCopyFails \/ RouteDone

(* What re-keying a pair leaves to show, once the file is where it is.     *)
LEMMA RemapSound ==
  ASSUME IInv, phase = "remapping", todo # {}, NEW ACTION placed, NEW ACTION left,
         Rekey(placed, left), disk' \in [Paths -> Contents], moving' = NoMove,
         Fault \/ UNCHANGED faults,
         UNCHANGED <<layout, remote, saved, phase, seen, toRoute>>
  PROVE  IInv'
<1>1. mem' \in Manifests /\ TodoSound' /\ HistoryKept' /\ orphans' \subseteq Paths
  BY RekeySound
<1>2. SeenSound'
  BY FrameKeeps
<1>3. TypeOK'
  <2>1. faults' \in 0 .. MaxFaults
    BY FaultType DEF IInv, TypeOK
  <2>2. todo' \subseteq Keys \X Keys
    <3>1. KeysOf(seen)' = KeysOf(seen) /\ KeysOf(seen) \subseteq Keys
      BY KeysOfType DEF KeysOf, Reported, IInv, TypeOK
    <3> QED
      BY <1>1, <3>1 DEF TodoSound
  <2> QED
    BY <1>1, <2>1, <2>2 DEF IInv, TypeOK
<1> QED
  BY <1>1, <1>2, <1>3 DEF IInv, MovingSound

LEMMA RemapStepSound ==
  ASSUME IInv, RemapStep
  PROVE  IInv'
<1> DEFINE from == OldPathOf[OldKey]
           to == TargetOf(NewKey)
<1>1. CASE RemapInPlace
  <2>1. phase = "remapping" /\ todo # {} /\ moving' = NoMove
    BY <1>1 DEF RemapInPlace, Remapping
  <2>2. disk' \in [Paths -> Contents]
    BY <1>1 DEF RemapInPlace, IInv, TypeOK
  <2> QED
    BY <1>1, <2>1, <2>2, RemapSound DEF RemapInPlace
<1>2. CASE RemapRenames
  <2>1. phase = "remapping" /\ todo # {} /\ moving' = NoMove
    BY <1>2 DEF RemapRenames, Remapping
  <2>2. from \in Paths /\ to \in Paths
    BY <2>1, PairPaths
  <2>3. disk' \in [Paths -> Contents]
    BY <1>2, <2>2, MovedType DEF RemapRenames, IInv, TypeOK
  <2> QED
    BY <1>2, <2>1, <2>3, RemapSound DEF RemapRenames
<1>3. CASE RemapCopyBegins
  <2>1. phase = "remapping" /\ todo # {}
    BY <1>3 DEF RemapCopyBegins, Remapping
  <2>2. from \in Paths /\ to \in Paths /\ from # to
    BY <1>3, <2>1, PairPaths DEF RemapCopyBegins, CanCarry
  <2>3. disk' \in [Paths -> Contents] /\ disk'[to] = Torn
    BY <1>3, <2>2, TornType DEF RemapCopyBegins, IInv, TypeOK
  <2>4. moving' = [from |-> from, to |-> to]
    BY <1>3 DEF RemapCopyBegins
  <2>5. MovingSound'
    BY <1>3, <2>1, <2>2, <2>3, <2>4 DEF RemapCopyBegins, MovingSound
  <2>6. SeenSound' /\ TodoSound' /\ HistoryKept'
    BY <1>3, FrameKeeps DEF RemapCopyBegins
  <2>7. TypeOK'
    BY <1>3, <2>2, <2>3, <2>4 DEF RemapCopyBegins, IInv, TypeOK
  <2> QED
    BY <2>5, <2>6, <2>7 DEF IInv
<1>4. CASE RemapCopyEnds
  <2>1. phase = "remapping" /\ todo # {} /\ moving' = NoMove
    BY <1>4 DEF RemapCopyEnds, IInv, MovingSound
  <2>2. disk' \in [Paths -> Contents]
    BY <1>4, MovingType, MovedType DEF RemapCopyEnds, IInv, TypeOK
  <2> QED
    BY <1>4, <2>1, <2>2, RemapSound DEF RemapCopyEnds
<1>5. CASE RemapMoveFails
  <2>1. phase = "remapping" /\ todo # {} /\ moving' = NoMove
    BY <1>5 DEF RemapMoveFails
  <2>2. disk' \in [Paths -> Contents]
    BY <1>5, LeavesOriginalType DEF RemapMoveFails
  <2> QED
    BY <1>5, <2>1, <2>2, RemapSound DEF RemapMoveFails
<1>6. CASE RemapDone
  <2>1. TypeOK'
    BY <1>6 DEF RemapDone, IInv, TypeOK, Reported
  <2>2. TodoSound' /\ MovingSound'
    BY <1>6 DEF RemapDone, IInv, TodoSound, OneToOne, MovingSound
  <2>3. SeenSound' /\ HistoryKept'
    BY <1>6 DEF RemapDone, IInv, SeenSound, HistoryKept, Stored
  <2> QED
    BY <2>1, <2>2, <2>3 DEF IInv
<1> QED
  BY <1>1, <1>2, <1>3, <1>4, <1>5, <1>6 DEF RemapStep

(* The sheet sweep does not touch the pairs; it may flag a record.         *)
LEMMA FlagKeeps ==
  ASSUME IInv, NEW key \in Keys, FlagUnverified(key), todo = {},
         UNCHANGED <<saved, phase, todo>>
  PROVE  mem' \in Manifests /\ TodoSound' /\ HistoryKept'
<1>1. CASE mem[key] = NoRecord
  <2>1. mem' = mem
    BY <1>1 DEF FlagUnverified
  <2> QED
    BY <2>1 DEF IInv, TypeOK, TodoSound, OneToOne, HistoryKept, Stored
<1>2. CASE mem[key] # NoRecord
  <2>1. mem \in [Keys -> Record \cup {NoRecord}]
    BY DEF IInv, TypeOK, Manifests
  <2> DEFINE r == [mem[key] EXCEPT !.unverified = TRUE]
  <2>2. mem[key] \in Record
    BY <1>2, <2>1
  <2>3. r \in Record /\ r.size = mem[key].size /\ r # NoRecord
    BY <2>2, MarksAssumption DEF Record
  <2>4. mem' = [mem EXCEPT ![key] = r]
    BY <1>2 DEF FlagUnverified
  <2> HIDE DEF r
  <2>5. /\ mem' \in [Keys -> Record \cup {NoRecord}]
        /\ mem'[key] = r /\ \A k \in Keys \ {key} : mem'[k] = mem[k]
    BY <2>1, <2>3, <2>4
  <2>6. Stored(mem') = Stored(mem)
    BY <1>2, <2>3, <2>5 DEF Stored
  <2>7. \A k \in Stored(mem) : mem'[k].size = mem[k].size
    BY <2>3, <2>5 DEF Stored
  <2>8. HistoryKept'
    BY <2>6, <2>7 DEF IInv, HistoryKept, Stored
  <2>9. TodoSound'
    BY DEF TodoSound, OneToOne
  <2> QED
    BY <2>5, <2>8, <2>9 DEF Manifests
<1> QED
  BY <1>1, <1>2

LEMMA SheetPaths ==
  ASSUME IInv, NEW f \in Files
  PROVE  FlatPath(f) \in Paths /\ SheetPath(f) \in Paths /\ KeyOf[layout][f] \in Keys
BY LayoutAssumption DEF IInv, TypeOK, FlatPath, SheetPath

LEMMA RouteStepSound ==
  ASSUME IInv, RouteStep
  PROVE  IInv'
<1>1. ASSUME NEW f \in Files, RouteInPlace(f)
      PROVE  IInv'
  <2>1. phase = "routing" /\ todo = {} /\ moving = NoMove
    BY <1>1 DEF RouteInPlace, Routing, IInv, TodoSound
  <2>2. mem' \in Manifests /\ TodoSound' /\ HistoryKept' /\ orphans' \subseteq Paths
    <3>1. CASE Occupied(FlatPath(f))
      <4>1. mem' \in Manifests /\ TodoSound' /\ HistoryKept'
        BY <1>1, <2>1, <3>1, SheetPaths, FlagKeeps DEF RouteInPlace
      <4>2. orphans' \subseteq Paths
        BY <1>1, <3>1, SheetPaths DEF RouteInPlace, IInv, TypeOK
      <4> QED
        BY <4>1, <4>2
    <3>2. CASE ~Occupied(FlatPath(f))
      <4>1. UNCHANGED <<layout, remote, saved, phase, seen, mem, todo, orphans>>
        BY <1>1, <3>2 DEF RouteInPlace
      <4> QED
        BY <4>1, FrameKeeps DEF IInv, TypeOK
    <3> QED
      BY <3>1, <3>2
  <2>3. SeenSound'
    BY <1>1, FrameKeeps DEF RouteInPlace
  <2>4. TypeOK' /\ MovingSound'
    BY <1>1, <2>1, <2>2 DEF RouteInPlace, IInv, TypeOK, MovingSound
  <2> QED
    BY <2>2, <2>3, <2>4 DEF IInv
<1>2. ASSUME NEW f \in Files, RouteRenames(f)
      PROVE  IInv'
  <2>1. disk' \in [Paths -> Contents]
    BY <1>2, SheetPaths, MovedType DEF RouteRenames, IInv, TypeOK
  <2>2. SeenSound' /\ TodoSound' /\ HistoryKept'
    BY <1>2, FrameKeeps DEF RouteRenames
  <2>3. TypeOK' /\ MovingSound'
    BY <1>2, <2>1 DEF RouteRenames, Routing, IInv, TypeOK, MovingSound
  <2> QED
    BY <2>2, <2>3 DEF IInv
<1>3. ASSUME NEW f \in Files, RouteCopyBegins(f)
      PROVE  IInv'
  <2>1. FlatPath(f) \in Paths /\ SheetPath(f) \in Paths /\ FlatPath(f) # SheetPath(f)
    BY <1>3, SheetPaths DEF RouteCopyBegins, CanCarry
  <2>2. disk' \in [Paths -> Contents] /\ disk'[SheetPath(f)] = Torn
    BY <1>3, <2>1, TornType DEF RouteCopyBegins, IInv, TypeOK
  <2>3. moving' = [from |-> FlatPath(f), to |-> SheetPath(f)]
    BY <1>3 DEF RouteCopyBegins
  <2>4. SeenSound' /\ TodoSound' /\ HistoryKept'
    BY <1>3, FrameKeeps DEF RouteCopyBegins
  <2>5. TypeOK'
    BY <1>3, <2>1, <2>2, <2>3 DEF RouteCopyBegins, IInv, TypeOK
  <2>6. MovingSound'
    BY <1>3, <2>1, <2>2, <2>3 DEF RouteCopyBegins, Routing, MovingSound
  <2> QED
    BY <2>4, <2>5, <2>6 DEF IInv
<1>4. ASSUME NEW f \in Files, RouteMoveFails(f)
      PROVE  IInv'
  <2>1. faults' \in 0 .. MaxFaults
    BY <1>4, FaultType DEF RouteMoveFails, IInv, TypeOK
  <2>2. SeenSound' /\ TodoSound' /\ HistoryKept'
    BY <1>4, FrameKeeps DEF RouteMoveFails
  <2>3. TypeOK' /\ MovingSound'
    BY <1>4, <2>1, SheetPaths DEF RouteMoveFails, Routing, IInv, TypeOK, MovingSound
  <2> QED
    BY <2>2, <2>3 DEF IInv
<1>5. CASE RouteCopyEnds
  <2>1. disk' \in [Paths -> Contents]
    BY <1>5, MovingType, MovedType DEF RouteCopyEnds, IInv, TypeOK
  <2>2. SeenSound' /\ TodoSound' /\ HistoryKept'
    BY <1>5, FrameKeeps DEF RouteCopyEnds
  <2>3. TypeOK' /\ MovingSound'
    BY <1>5, <2>1 DEF RouteCopyEnds, IInv, TypeOK, MovingSound
  <2> QED
    BY <2>2, <2>3 DEF IInv
<1>6. CASE RouteCopyFails
  <2>1. disk' \in [Paths -> Contents] /\ faults' \in 0 .. MaxFaults
    BY <1>6, LeavesOriginalType, FaultType DEF RouteCopyFails, IInv, TypeOK
  <2>2. SeenSound' /\ TodoSound' /\ HistoryKept'
    BY <1>6, FrameKeeps DEF RouteCopyFails
  <2>3. TypeOK' /\ MovingSound'
    BY <1>6, <2>1, MovingType DEF RouteCopyFails, IInv, TypeOK, MovingSound
  <2> QED
    BY <2>2, <2>3 DEF IInv
<1>7. CASE RouteDone
  <2>1. TypeOK'
    BY <1>7 DEF RouteDone, IInv, TypeOK
  <2>2. TodoSound' /\ MovingSound'
    BY <1>7 DEF RouteDone, IInv, TodoSound, OneToOne, MovingSound
  <2>3. SeenSound' /\ HistoryKept'
    BY <1>7 DEF RouteDone, IInv, SeenSound, HistoryKept, Stored
  <2> QED
    BY <2>1, <2>2, <2>3 DEF IInv
<1> QED
  BY <1>1, <1>2, <1>3, <1>4, <1>5, <1>6, <1>7 DEF RouteStep

(* Between runs the settings and OPAL's files change.                      *)
LEMMA WorldStepSound ==
  ASSUME IInv,
         \/ \E l \in Layouts : SwitchLayout(l)
         \/ \E f \in Files : Publish(f) \/ Update(f)
  PROVE  IInv'
<1>1. phase = "idle" /\ phase' = phase /\ UNCHANGED <<disk, saved, seen, mem, todo,
        toRoute, orphans, moving, faults>>
  BY DEF SwitchLayout, Publish, Update, run
<1>2. layout' \in Layouts
  BY DEF SwitchLayout, Publish, Update, IInv, TypeOK
<1>3. remote' \in [Files -> Versions \cup {Absent}]
  <2>1. CASE UNCHANGED remote
    BY <2>1 DEF IInv, TypeOK
  <2>2. ASSUME NEW f \in Files, Publish(f) PROVE remote' \in [Files -> Versions \cup {Absent}]
    BY <2>2, VersionsAreNumbers DEF Publish, IInv, TypeOK
  <2>3. ASSUME NEW f \in Files, Update(f) PROVE remote' \in [Files -> Versions \cup {Absent}]
    <3>1. remote[f] + 1 \in Versions
      BY <2>3, FilesAssumption DEF Update, Versions
    <3> QED
      BY <2>3, <3>1 DEF Update, IInv, TypeOK
  <2> QED
    BY <2>1, <2>2, <2>3 DEF SwitchLayout
<1>4. TypeOK'
  BY <1>1, <1>2, <1>3 DEF IInv, TypeOK
<1>5. TodoSound' /\ MovingSound' /\ SeenSound' /\ HistoryKept'
  BY <1>1 DEF IInv, TodoSound, OneToOne, MovingSound, SeenSound, HistoryKept
<1> QED
  BY <1>4, <1>5 DEF IInv

LEMMA StepPreserves == IInv /\ [Next]_vars => IInv'
<1> SUFFICES ASSUME IInv, [Next]_vars PROVE IInv'
  OBVIOUS
<1>1. ASSUME NEW shown, Run(shown) PROVE IInv'
  BY <1>1, CrawledType, BeginSound DEF Run
<1>2. ASSUME NEW shown, NEW missing, RunWithout(shown, missing) PROVE IInv'
  <2> DEFINE rows == [f \in Files |-> IF f \in missing THEN Absent ELSE Crawled(shown)[f]]
  <2>1. /\ rows \in [Files -> Rows]
        /\ \A f \in Files : rows[f] # Absent => remote[f] \in Versions
    BY CrawledType DEF Rows
  <2> QED
    BY <1>2, <2>1, BeginSound DEF RunWithout
<1>3. ASSUME RemapStep PROVE IInv'
  BY <1>3, RemapStepSound
<1>4. ASSUME RouteStep PROVE IInv'
  BY <1>4, RouteStepSound
<1>5. ASSUME NEW done \in SUBSET Files, Finish(done) PROVE IInv'
  BY <1>5, FinishSound
<1>6. ASSUME Kill PROVE IInv'
  BY <1>6, RunEndsSound DEF Kill, IInv, TypeOK
<1>7. ASSUME NEW l \in Layouts, SwitchLayout(l) PROVE IInv'
  BY <1>7, WorldStepSound
<1>8. ASSUME NEW f \in Files, Publish(f) \/ Update(f) PROVE IInv'
  BY <1>8, WorldStepSound
<1>9. ASSUME UNCHANGED vars PROVE IInv'
  <2>1. UNCHANGED <<layout, remote, disk, saved, phase, seen, mem, todo, toRoute, orphans,
                    moving, faults>>
    BY <1>9 DEF vars, run
  <2>2. TypeOK'
    BY <2>1 DEF IInv, TypeOK
  <2>3. SeenSound' /\ TodoSound' /\ HistoryKept'
    BY <2>1, FrameKeeps
  <2>4. MovingSound'
    BY <2>1 DEF IInv, MovingSound
  <2> QED
    BY <2>2, <2>3, <2>4 DEF IInv
<1> QED
  BY <1>1, <1>2, <1>3, <1>4, <1>5, <1>6, <1>7, <1>8, <1>9 DEF Next, RemapStep, RouteStep

(* Every variable of the migration keeps its type.                         *)
THEOREM TypeCorrect == Spec => []TypeOK
<1>1. IInv => TypeOK
  BY DEF IInv
<1> QED
  BY <1>1, InitEstablishes, StepPreserves, PTL DEF Spec

(* Re-keying keeps every record of the manifest, for any files, layouts    *)
(* and pairings: migrateManifestKeys and remapOne drop and merge nothing.  *)
THEOREM HistoryIsKept == Spec => []HistoryKept
<1>1. IInv => HistoryKept
  BY DEF IInv
<1> QED
  BY <1>1, InitEstablishes, StepPreserves, PTL DEF Spec

-----------------------------------------------------------------------------
(* Nothing is lost.                                                        *)

(* A move to a path that holds nothing, or a part of the same file.        *)
LEMMA MoveLosesNothing ==
  ASSUME disk \in [Paths -> Contents], NEW from \in Paths, NEW to \in Paths,
         from # to, disk[to] \in {Nothing, Torn}, Moved(from, to)
  PROVE  HeldIn(disk) \subseteq HeldIn(disk')
<1> SUFFICES ASSUME NEW p \in Paths, disk[p] \notin {Nothing, Torn}
             PROVE  \E q \in Paths : disk'[q] = disk[p]
  BY DEF HeldIn
<1>1. p # to
  OBVIOUS
<1>2. CASE p = from
  BY <1>2 DEF Moved
<1>3. CASE p # from
  BY <1>1, <1>3 DEF Moved
<1> QED
  BY <1>2, <1>3

(* Nor is anything by writing to such a path.                              *)
LEMMA WriteLosesNothing ==
  ASSUME disk \in [Paths -> Contents], NEW to \in Paths, NEW content,
         disk[to] \in {Nothing, Torn}, disk' = [disk EXCEPT ![to] = content]
  PROVE  HeldIn(disk) \subseteq HeldIn(disk')
BY DEF HeldIn

LEMMA StillLosesNothing ==
  ASSUME UNCHANGED disk
  PROVE  HeldIn(disk) \subseteq HeldIn(disk')
BY DEF HeldIn

LEMMA LeavingLosesNothing ==
  ASSUME IInv, LeavesOriginal
  PROVE  HeldIn(disk) \subseteq HeldIn(disk')
<1>1. CASE UNCHANGED disk
  BY <1>1, StillLosesNothing
<1>2. CASE moving # NoMove /\ disk' = [disk EXCEPT ![moving.to] = disk[moving.from]]
  <2>1. disk \in [Paths -> Contents]
    BY DEF IInv, TypeOK
  <2>2. moving.to \in Paths /\ disk[moving.to] = Torn
    BY <1>2, MovingType DEF IInv, MovingSound
  <2> QED
    BY <1>2, <2>1, <2>2 DEF HeldIn
<1> QED
  BY <1>1, <1>2 DEF LeavesOriginal

LEMMA StepLosesNothing ==
  ASSUME IInv, phase = "remapping" \/ phase = "routing", [Next]_vars
  PROVE  HeldIn(disk) \subseteq HeldIn(disk')
<1>1. disk \in [Paths -> Contents]
  BY DEF IInv, TypeOK
<1>2. CASE RemapRenames
  <2>1. OldPathOf[OldKey] \in Paths /\ TargetOf(NewKey) \in Paths
    BY <1>2, PairPaths DEF RemapRenames, Remapping
  <2> QED
    BY <1>1, <1>2, <2>1, MoveLosesNothing DEF RemapRenames, CanCarry, Occupied
<1>3. CASE RemapCopyBegins
  <2>1. TargetOf(NewKey) \in Paths
    BY <1>3, PairPaths DEF RemapCopyBegins, Remapping
  <2> QED
    BY <1>1, <1>3, <2>1, WriteLosesNothing DEF RemapCopyBegins, CanCarry, Occupied
<1>4. CASE RemapCopyEnds \/ RouteCopyEnds
  BY <1>1, <1>4, MovingType, MoveLosesNothing
     DEF RemapCopyEnds, RouteCopyEnds, IInv, MovingSound
<1>5. CASE RemapMoveFails \/ RouteCopyFails
  BY <1>5, LeavingLosesNothing DEF RemapMoveFails, RouteCopyFails
<1>6. ASSUME NEW f \in Files, RouteRenames(f)
      PROVE  HeldIn(disk) \subseteq HeldIn(disk')
  BY <1>1, <1>6, SheetPaths, MoveLosesNothing DEF RouteRenames, CanCarry, Occupied
<1>7. ASSUME NEW f \in Files, RouteCopyBegins(f)
      PROVE  HeldIn(disk) \subseteq HeldIn(disk')
  BY <1>1, <1>7, SheetPaths, WriteLosesNothing DEF RouteCopyBegins, CanCarry, Occupied
<1>8. CASE UNCHANGED disk
  BY <1>8, StillLosesNothing
<1>9. CASE RemapStep
  <2>1. CASE RemapInPlace \/ RemapDone
    BY <2>1, <1>8 DEF RemapInPlace, RemapDone
  <2> QED
    BY <1>9, <2>1, <1>2, <1>3, <1>4, <1>5 DEF RemapStep
<1>10. CASE RouteStep
  <2>1. CASE RouteDone
    BY <2>1, <1>8 DEF RouteDone
  <2>2. ASSUME NEW f \in Files, RouteInPlace(f) \/ RouteMoveFails(f)
        PROVE  HeldIn(disk) \subseteq HeldIn(disk')
    BY <2>2, <1>8 DEF RouteInPlace, RouteMoveFails
  <2> QED
    BY <1>10, <2>1, <2>2, <1>4, <1>5, <1>6, <1>7 DEF RouteStep
<1>11. ASSUME NEW shown, Run(shown) PROVE FALSE
  BY <1>11 DEF Run, Begin
<1>12. ASSUME NEW shown, NEW missing, RunWithout(shown, missing) PROVE FALSE
  BY <1>12 DEF RunWithout, Begin
<1>13. ASSUME NEW done \in SUBSET Files, Finish(done) PROVE FALSE
  BY <1>13 DEF Finish
<1>14. CASE Kill
  BY <1>14, <1>8 DEF Kill
<1>15. ASSUME NEW l \in Layouts, SwitchLayout(l) PROVE FALSE
  BY <1>15 DEF SwitchLayout
<1>16. ASSUME NEW f \in Files, Publish(f) \/ Update(f) PROVE FALSE
  BY <1>16 DEF Publish, Update
<1>17. CASE UNCHANGED vars
  BY <1>17, <1>8 DEF vars
<1>18. \/ RemapStep \/ RouteStep \/ Kill \/ UNCHANGED vars
       \/ \E hidden : Run(Files \ hidden) \/ \E missing : RunWithout(Files \ hidden, missing)
       \/ \E f \in Files : Publish(f) \/ Update(f)
       \/ \E done \in SUBSET Files : Finish(done)
       \/ \E l \in Layouts : SwitchLayout(l)
  BY Zenon DEF Next, RemapStep, RouteStep
<1> QED
  BY <1>9, <1>10, <1>11, <1>12, <1>13, <1>14, <1>15, <1>16, <1>17, <1>18

(* No step of the migration or of the sheet sweep makes the last copy of   *)
(* anything disappear, for any files and layouts and wherever a move fails *)
(* or the process dies: what relocateFile overwrites is never a file.      *)
THEOREM MigrationLosesNothing == Spec => NothingLost
<1>1. IInv /\ [Next]_vars
        => [(phase = "remapping" \/ phase = "routing") => HeldIn(disk) \subseteq HeldIn(disk')]_vars
  BY StepLosesNothing
<1> QED
  BY <1>1, InitEstablishes, StepPreserves, PTL DEF Spec, NothingLost
-----------------------------------------------------------------------------
(* What the next run leaves alone.                                         *)

(* The manifest's record is dated with a version of g, and has its size.   *)
Describes(r, g) == r.modified \in Versions /\ r.size = SizeOf[g][r.modified]

(* A record is undated or was written about a version OPAL has had.        *)
Truthful(r) ==
  r.modified = Nil
    \/ \E g \in Files : Describes(r, g) /\ remote[g] \in Versions /\ r.modified <= remote[g]

(* What lies there is believed for good reason: it is nobody's own file,   *)
(* no older version of the file the record is about, and no other file,    *)
(* except one that is easily confused.                                     *)
Justified(r, content) ==
  r.unverified
    \/ /\ content # Foreign
       /\ \A g \in Files : Describes(r, g) /\ content \in Download =>
            IF content.file = g THEN content.version >= r.modified
                                ELSE content.file \in Confusable

(* Every record is held under a key of these layouts, and justified by     *)
(* what lies where the key says.                                           *)
BelievedIn(m, L) ==
  \A k \in Stored(m) :
    /\ k \in KeysIn(L)
    /\ Truthful(m[k])
    /\ \A l \in L, f \in Files : KeyOf[l][f] = k => Justified(m[k], disk[PathOf[l][f]])

(* The copies on disk are of versions OPAL has had, under their names.     *)
CopiesKnown(L) ==
  \A l \in L, f \in Files :
    LET content == disk[PathOf[l][f]] IN
    content \in Download =>
      /\ NameOf[KeyOf[l][content.file]] = NameOf[KeyOf[l][f]]
      /\ remote[content.file] \in Versions /\ content.version <= remote[content.file]

(* Nothing ever lies at an old path that is nobody's.                      *)
NobodysStayFree(L) ==
  \A k \in KeysIn(L) : OldPathOf[k] \notin PathsIn(L) => disk[OldPathOf[k]] = Nothing

(* The row is what OPAL has of the file, both columns or none.             *)
RowTrue(row, f) == row = RowOf(f, TRUE) \/ (f \in Untabled /\ row = RowOf(f, FALSE))

(* The crawl read what OPAL has.                                           *)
SeenTrue == \A f \in Files : seen[f] # Absent => RowTrue(seen[f], f)

(* No copy is about to be carried to where another key says its file lies. *)
TargetsFree(L) ==
  /\ phase # "idle" => Stored(mem) \subseteq Stored(saved) \cup KeysOf(seen)
  /\ \A p \in todo :
       /\ p[2] \notin Stored(saved) /\ NameOf[p[1]] = NameOf[p[2]]
       /\ \A l \in L, f \in Files :
            (KeyOf[l][f] \in Stored(saved) /\ PathOf[l][f] = TargetOf(p[2]))
              => \/ OldPathOf[p[1]] = TargetOf(p[2])
                 \/ OldPathOf[p[1]] \notin PathsIn(L)

(* The copy under way is that of the pair being treated; no sweep finds    *)
(* anything to do.                                                         *)
MovesOwnPair ==
  /\ phase = "idle" => mem = NoManifest
  /\ toRoute = {}
  /\ moving # NoMove =>
       /\ phase = "remapping"
       /\ moving = [from |-> OldPathOf[OldKey], to |-> TargetOf(NewKey)]
       /\ disk[moving.from] # Nothing

BelievedInv(L) ==
  /\ IInv /\ layout \in L
  /\ BelievedIn(saved, L) /\ BelievedIn(mem, L)
  /\ CopiesKnown(L) /\ NobodysStayFree(L)
  /\ SeenTrue /\ TargetsFree(L) /\ MovesOwnPair

-----------------------------------------------------------------------------
(* Treating a pair.                                                        *)

LEMMA SteadyKey ==
  ASSUME NEW L \in SUBSET Layouts, Steady(L), NEW l \in L, NEW m \in L,
         NEW f \in Files, NEW g \in Files, KeyOf[l][f] = KeyOf[m][g]
  PROVE  PathOf[l][f] = PathOf[m][g]
BY DEF Steady

LEMMA SteadyApart ==
  ASSUME NEW L \in SUBSET Layouts, Steady(L), NEW l \in L,
         NEW f \in Files, NEW g \in Files, PathOf[l][f] = PathOf[l][g]
  PROVE  f = g
BY DEF Steady

LEMMA SteadyShared ==
  ASSUME NEW L \in SUBSET Layouts, Steady(L), NEW l \in L, NEW m \in L, NEW n \in L,
         NEW f \in Files, NEW g \in Files, NEW h \in Files,
         PathOf[l][f] = PathOf[m][g], KeyOf[l][f] # KeyOf[m][g],
         NameOf[KeyOf[n][h]] = NameOf[KeyOf[l][f]], KeyCourseOf[KeyOf[n][h]] = CourseOf[f]
  PROVE  PathOf[n][h] = PathOf[l][f]
<1> DEFINE Shared(a, b, c, x, y, z) ==
             (/\ PathOf[a][x] = PathOf[b][y] /\ KeyOf[a][x] # KeyOf[b][y]
              /\ NameOf[KeyOf[c][z]] = NameOf[KeyOf[a][x]]
              /\ KeyCourseOf[KeyOf[c][z]] = CourseOf[x])
               => PathOf[c][z] = PathOf[a][x]
<1>1. \A a, b, c \in L : \A x, y, z \in Files : Shared(a, b, c, x, y, z)
  BY DEF Steady
<1>2. Shared(l, m, n, f, g, h)
  <2> HIDE DEF Shared
  <2> QED
    BY <1>1
<1> QED
  BY <1>2

LEMMA NameOfFile ==
  ASSUME NEW l \in Layouts, NEW m \in Layouts, NEW f \in Files
  PROVE  NameOf[KeyOf[l][f]] = NameOf[KeyOf[m][f]]
BY NamesAssumption, Zenon

(* What is known of the pair being treated.                                *)
LEMMA PairFacts ==
  ASSUME NEW L \in SUBSET Layouts, Steady(L), BelievedInv(L), phase = "remapping", todo # {}
  PROVE  /\ OldKey \in Stored(mem) /\ OldKey \in KeysIn(L) /\ NewKey \in KeysOf(seen)
         /\ OldKey \in Keys /\ NewKey \in Keys /\ NewKey \in KeysIn(L)
         /\ NewKey \notin Stored(mem) /\ NewKey \notin Stored(saved)
         /\ NameOf[OldKey] = NameOf[NewKey]
         /\ OldPathOf[OldKey] \in Paths
         /\ TargetOf(NewKey) \in Paths /\ TargetOf(NewKey) \in PathsIn(L)
         /\ \A l \in L, f \in Files : KeyOf[l][f] = NewKey => PathOf[l][f] = TargetOf(NewKey)
         /\ disk[OldPathOf[OldKey]] # Nothing =>
              /\ OldPathOf[OldKey] \in PathsIn(L)
              /\ \A l \in L, f \in Files :
                   KeyOf[l][f] = OldKey => PathOf[l][f] = OldPathOf[OldKey]
<1>1. <<OldKey, NewKey>> \in todo
  BY NextPair DEF BelievedInv, IInv, TodoSound
<1>2. OldKey \in Stored(mem) /\ NewKey \notin Stored(mem) /\ NewKey \in KeysOf(seen)
  BY <1>1 DEF BelievedInv, IInv, TodoSound
<1>3. NewKey \notin Stored(saved) /\ NameOf[OldKey] = NameOf[NewKey]
  BY <1>1 DEF BelievedInv, TargetsFree
<1>4. OldKey \in KeysIn(L) /\ OldKey \in Keys
  BY <1>2 DEF BelievedInv, BelievedIn, Stored
<1>5. layout \in L /\ layout \in Layouts
  BY DEF BelievedInv
<1>6. /\ NewKey \in Keys /\ TargetOf(NewKey) \in Paths
      /\ FileOf(NewKey) \in Files /\ KeyOf[layout][FileOf(NewKey)] = NewKey
  BY <1>2, <1>5, FileOfKey
<1>7. TargetOf(NewKey) = PathOf[layout][FileOf(NewKey)]
  BY DEF TargetOf
<1>8. TargetOf(NewKey) \in PathsIn(L) /\ NewKey \in KeysIn(L)
  BY <1>5, <1>6, <1>7 DEF PathsIn, KeysIn
<1>9. \A l \in L, f \in Files : KeyOf[l][f] = NewKey => PathOf[l][f] = TargetOf(NewKey)
  BY <1>5, <1>6, <1>7, SteadyKey
<1>10. OldPathOf[OldKey] \in Paths
  BY <1>4, LayoutAssumption
<1>11. ASSUME disk[OldPathOf[OldKey]] # Nothing
       PROVE  /\ OldPathOf[OldKey] \in PathsIn(L)
              /\ \A l \in L, f \in Files :
                   KeyOf[l][f] = OldKey => PathOf[l][f] = OldPathOf[OldKey]
  <2>1. OldPathOf[OldKey] \in PathsIn(L)
    BY <1>4, <1>11 DEF BelievedInv, NobodysStayFree
  <2>2. \A l \in L, f \in Files : KeyOf[l][f] = OldKey =>
          OldPathOf[OldKey] \in {PathOf[l][f]} \cup (Paths \ (PathsIn(L) \cup FiledByHand))
    BY DEF Steady
  <2> QED
    BY <2>1, <2>2
<1> QED
  BY <1>2, <1>3, <1>4, <1>6, <1>8, <1>9, <1>10, <1>11

(* Whatever a step does to the two paths of a pair: it is a move, a part   *)
(* of one, or nothing.                                                     *)
Carries(from, to) ==
  \/ UNCHANGED disk
  \/ /\ from # to /\ disk[from] # Nothing
     /\ disk' \in [Paths -> Contents]
     /\ \A p \in Paths \ {from, to} : disk'[p] = disk[p]
     /\ disk'[from] \in {disk[from], Nothing}
     /\ disk'[to] \in {Torn, disk[from]}

(* No record but that of the pair is about the path a copy is carried to.  *)
LEMMA TargetIsNobodys ==
  ASSUME NEW L \in SUBSET Layouts, Steady(L), BelievedInv(L), phase = "remapping", todo # {},
         OldPathOf[OldKey] # TargetOf(NewKey), disk[OldPathOf[OldKey]] # Nothing,
         NEW k \in Stored(saved) \cup Stored(mem), NEW l \in L, NEW f \in Files,
         KeyOf[l][f] = k
  PROVE  PathOf[l][f] # TargetOf(NewKey)
<1> SUFFICES ASSUME PathOf[l][f] = TargetOf(NewKey) PROVE FALSE
  OBVIOUS
<1>1. <<OldKey, NewKey>> \in todo
  BY NextPair DEF BelievedInv, IInv, TodoSound
<1>2. CASE k \in Stored(saved)
  <2>1. \/ OldPathOf[OldKey] = TargetOf(NewKey)
        \/ OldPathOf[OldKey] \notin PathsIn(L)
    BY <1>1, <1>2 DEF BelievedInv, TargetsFree
  <2> QED
    BY <2>1, PairFacts
<1>3. CASE k \in Stored(mem) /\ k \notin Stored(saved)
  <2>1. k \in KeysOf(seen)
    BY <1>3 DEF BelievedInv, TargetsFree
  <2>2. layout \in L /\ layout \in Layouts
    BY DEF BelievedInv
  <2>3. FileOf(k) \in Files /\ KeyOf[layout][FileOf(k)] = k
    BY <2>1, <2>2, FileOfKey
  <2>4. PathOf[layout][FileOf(k)] = TargetOf(NewKey)
    BY <2>2, <2>3, SteadyKey
  <2>5. NewKey \in KeysOf(seen)
    BY PairFacts
  <2>6. FileOf(NewKey) \in Files /\ KeyOf[layout][FileOf(NewKey)] = NewKey
    BY <2>2, <2>5, FileOfKey
  <2>7. FileOf(k) = FileOf(NewKey)
    BY <2>2, <2>3, <2>4, <2>6, SteadyApart DEF TargetOf
  <2> QED
    BY <1>3, <2>3, <2>6, <2>7, PairFacts
<1> QED
  BY <1>2, <1>3

(* Nothing is nobody's own file, nor is a cut-off copy.                    *)
LEMMA EmptyIsJustified ==
  ASSUME NEW r, NEW content \in {Nothing, Torn}
  PROVE  Justified(r, content)
BY MarksAssumption DEF Justified

(* Any other record is as justified as it was.                             *)
LEMMA SiteStaysJustified ==
  ASSUME NEW L \in SUBSET Layouts, Steady(L), BelievedInv(L), phase = "remapping", todo # {},
         Carries(OldPathOf[OldKey], TargetOf(NewKey)),
         NEW k \in Stored(saved) \cup Stored(mem), NEW l \in L, NEW f \in Files,
         KeyOf[l][f] = k, NEW r, Justified(r, disk[PathOf[l][f]])
  PROVE  Justified(r, disk'[PathOf[l][f]])
<1> DEFINE from == OldPathOf[OldKey]
           to == TargetOf(NewKey)
<1>1. CASE UNCHANGED disk
  BY <1>1
<1>2. CASE /\ from # to /\ disk[from] # Nothing
           /\ disk' \in [Paths -> Contents]
           /\ \A p \in Paths \ {from, to} : disk'[p] = disk[p]
           /\ disk'[from] \in {disk[from], Nothing}
           /\ disk'[to] \in {Torn, disk[from]}
  <2>1. PathOf[l][f] \in Paths
    BY LayoutAssumption
  <2>2. PathOf[l][f] # to
    BY <1>2, TargetIsNobodys
  <2>3. disk'[PathOf[l][f]] \in {disk[PathOf[l][f]], Nothing}
    BY <1>2, <2>1, <2>2
  <2> QED
    BY <2>3, EmptyIsJustified
<1> QED
  BY <1>1, <1>2 DEF Carries

LEMMA CarryKeepsCopies ==
  ASSUME NEW L \in SUBSET Layouts, Steady(L), BelievedInv(L), phase = "remapping", todo # {},
         Carries(OldPathOf[OldKey], TargetOf(NewKey)), UNCHANGED <<layout, remote, saved>>
  PROVE  BelievedIn(saved, L)' /\ CopiesKnown(L)' /\ NobodysStayFree(L)'
<1> DEFINE from == OldPathOf[OldKey]
           to == TargetOf(NewKey)
<1>1. CASE UNCHANGED disk
  BY <1>1 DEF BelievedInv, BelievedIn, Stored, Truthful, CopiesKnown, NobodysStayFree
<1>2. CASE /\ from # to /\ disk[from] # Nothing
           /\ disk' \in [Paths -> Contents]
           /\ \A p \in Paths \ {from, to} : disk'[p] = disk[p]
           /\ disk'[from] \in {disk[from], Nothing}
           /\ disk'[to] \in {Torn, disk[from]}
  <2>1. \A l \in L, f \in Files : PathOf[l][f] \in Paths /\ PathOf[l][f] \in PathsIn(L)
    BY LayoutAssumption DEF PathsIn
  <2>2. BelievedIn(saved, L)'
    <3> SUFFICES ASSUME NEW k \in Stored(saved)
                 PROVE  /\ k \in KeysIn(L) /\ Truthful(saved[k])'
                        /\ \A l \in L, f \in Files :
                             KeyOf[l][f] = k => Justified(saved[k], disk'[PathOf[l][f]])
      BY DEF BelievedIn, Stored
    <3>1. k \in KeysIn(L) /\ Truthful(saved[k])'
      BY DEF BelievedInv, BelievedIn, Truthful
    <3>2. ASSUME NEW l \in L, NEW f \in Files, KeyOf[l][f] = k
          PROVE  Justified(saved[k], disk'[PathOf[l][f]])
      <4>1. Justified(saved[k], disk[PathOf[l][f]])
        BY <3>2 DEF BelievedInv, BelievedIn
      <4> QED
        BY <3>2, <4>1, SiteStaysJustified
    <3> QED
      BY <3>1, <3>2
  <2>3. CopiesKnown(L)'
    <3> SUFFICES ASSUME NEW l \in L, NEW f \in Files, disk'[PathOf[l][f]] \in Download
                 PROVE  LET content == disk'[PathOf[l][f]] IN
                        /\ NameOf[KeyOf[l][content.file]] = NameOf[KeyOf[l][f]]
                        /\ remote[content.file] \in Versions
                        /\ content.version <= remote[content.file]
      BY Zenon DEF CopiesKnown
    <3> DEFINE content == disk'[PathOf[l][f]]
    <3>1. CASE PathOf[l][f] # to
      <4>1. content \in {disk[PathOf[l][f]], Nothing}
        BY <1>2, <2>1, <3>1
      <4>2. content = disk[PathOf[l][f]] /\ disk[PathOf[l][f]] \in Download
        BY <4>1, MarksAssumption
      <4>3. CopiesKnown(L)
        BY DEF BelievedInv
      <4> QED
        BY <4>2, <4>3, Zenon DEF CopiesKnown
    <3>2. CASE PathOf[l][f] = to
      <4>1. content = disk[from]
        BY <1>2, <3>2, MarksAssumption
      <4>2. PICK m \in L, g \in Files : from = PathOf[m][g]
        BY <1>2, PairFacts DEF PathsIn
      <4>3. /\ NameOf[KeyOf[m][content.file]] = NameOf[KeyOf[m][g]]
            /\ remote[content.file] \in Versions /\ content.version <= remote[content.file]
        <5>1. content = disk[PathOf[m][g]] /\ disk[PathOf[m][g]] \in Download
          BY <4>1, <4>2
        <5>2. CopiesKnown(L)
          BY DEF BelievedInv
        <5> QED
          BY <5>1, <5>2, Zenon DEF CopiesKnown
      <4>4. NameOf[OldKey] = NameOf[KeyOf[m][g]]
        BY <4>2, PairFacts, NamesAssumption
      <4>5. NameOf[NewKey] = NameOf[KeyOf[l][f]]
        <5>1. layout \in Layouts /\ NewKey \in KeysOf(seen)
          BY PairFacts DEF BelievedInv
        <5>2. FileOf(NewKey) \in Files /\ KeyOf[layout][FileOf(NewKey)] = NewKey
          BY <5>1, FileOfKey
        <5>3. PathOf[layout][FileOf(NewKey)] = PathOf[l][f]
          BY <3>2 DEF TargetOf
        <5> QED
          BY <5>1, <5>2, <5>3, NamesAssumption
      <4>6. content.file \in Files
        BY DEF Download
      <4>7. NameOf[KeyOf[l][content.file]] = NameOf[KeyOf[m][content.file]]
        BY <4>6, NameOfFile
      <4> QED
        BY <4>3, <4>4, <4>5, <4>7, PairFacts
    <3> QED
      BY <3>1, <3>2
  <2>4. NobodysStayFree(L)'
    <3> SUFFICES ASSUME NEW k \in KeysIn(L), OldPathOf[k] \notin PathsIn(L)
                 PROVE  disk'[OldPathOf[k]] = Nothing
      BY DEF NobodysStayFree
    <3>1. OldPathOf[k] \in Paths
      BY LayoutAssumption DEF KeysIn
    <3>2. disk[OldPathOf[k]] = Nothing
      BY DEF BelievedInv, NobodysStayFree
    <3>3. OldPathOf[k] # to
      BY PairFacts
    <3> QED
      BY <1>2, <3>1, <3>2, <3>3
  <2> QED
    BY <2>2, <2>3, <2>4
<1> QED
  BY <1>1, <1>2 DEF Carries

(* While a copy is under way the records in memory stand as they did.      *)
LEMMA CarryKeepsRecords ==
  ASSUME NEW L \in SUBSET Layouts, Steady(L), BelievedInv(L), phase = "remapping", todo # {},
         Carries(OldPathOf[OldKey], TargetOf(NewKey)), UNCHANGED <<layout, remote, mem>>
  PROVE  BelievedIn(mem, L)'
<1> SUFFICES ASSUME NEW k \in Stored(mem)
             PROVE  /\ k \in KeysIn(L) /\ Truthful(mem[k])'
                    /\ \A l \in L, f \in Files :
                         KeyOf[l][f] = k => Justified(mem[k], disk'[PathOf[l][f]])
  BY DEF BelievedIn, Stored
<1>1. k \in KeysIn(L) /\ Truthful(mem[k])'
  BY DEF BelievedInv, BelievedIn, Truthful
<1>2. ASSUME NEW l \in L, NEW f \in Files, KeyOf[l][f] = k
      PROVE  Justified(mem[k], disk'[PathOf[l][f]])
  <2>1. Justified(mem[k], disk[PathOf[l][f]])
    BY <1>2 DEF BelievedInv, BelievedIn
  <2> QED
    BY <1>2, <2>1, SiteStaysJustified
<1> QED
  BY <1>1, <1>2

(* Re-keying gives the pair's record to its new key, and doubts it unless  *)
(* its own file is what lies there.                                        *)
LEMMA RekeyBelieves ==
  ASSUME NEW L \in SUBSET Layouts, Steady(L), BelievedInv(L), phase = "remapping", todo # {},
         Carries(OldPathOf[OldKey], TargetOf(NewKey)), NEW b \in BOOLEAN, RekeyedTo(b),
         \/ b \/ disk'[TargetOf(NewKey)] = Nothing
         \/ /\ disk[OldPathOf[OldKey]] # Nothing
            /\ disk'[TargetOf(NewKey)] = disk[OldPathOf[OldKey]],
         UNCHANGED <<layout, remote, saved, phase, seen>>
  PROVE  BelievedIn(mem, L)' /\ TargetsFree(L)'
<1> DEFINE from == OldPathOf[OldKey]
           to == TargetOf(NewKey)
           o == OldKey
           n == NewKey
           r == [mem[o] EXCEPT !.unverified = @ \/ b]
<1>1. /\ o \in Stored(mem) /\ o \in KeysIn(L) /\ n \in KeysOf(seen)
      /\ o \in Keys /\ n \in Keys /\ n \in KeysIn(L) /\ n \notin Stored(mem)
  BY PairFacts
<1>2. \A l \in L, f \in Files : KeyOf[l][f] = n => PathOf[l][f] = to
  BY PairFacts
<1>3. mem \in [Keys -> Record \cup {NoRecord}]
  BY DEF BelievedInv, IInv, TypeOK, Manifests
<1>4. mem[o] \in Record
  BY <1>1, <1>3 DEF Stored
<1>5. /\ r \in Record /\ r.size = mem[o].size /\ r.modified = mem[o].modified
      /\ r # NoRecord
  BY <1>4, MarksAssumption DEF Record
<1>6. (mem[o].unverified \/ b) => r.unverified
  BY <1>4, Zenon DEF Record
<1>7. mem' = [mem EXCEPT ![o] = NoRecord, ![n] = r] /\ todo' \subseteq todo
  BY DEF RekeyedTo
<1>8. Truthful(mem[o])
  BY <1>1 DEF BelievedInv, BelievedIn
<1>9. \/ b \/ disk'[to] = Nothing
      \/ disk[from] # Nothing /\ disk'[to] = disk[from]
  OBVIOUS
<1>10. disk[from] # Nothing =>
         \A l \in L, f \in Files : KeyOf[l][f] = o => PathOf[l][f] = from
  BY PairFacts
<1>11. \A k \in KeysOf(seen) : TargetOf(k)' = TargetOf(k)
  BY DEF TargetOf, FileOf
<1> HIDE DEF o, n, r, from, to
<1>12. /\ mem'[n] = r
       /\ \A k \in Stored(mem') \ {n} : k \in Stored(mem) /\ mem'[k] = mem[k]
       /\ Stored(mem') \subseteq Stored(mem) \cup {n}
  BY <1>1, <1>3, <1>5, <1>7 DEF Stored
<1>13. ASSUME NEW l \in L, NEW f \in Files, KeyOf[l][f] = n
       PROVE  Justified(r, disk'[PathOf[l][f]])
  <2>1. PathOf[l][f] = to
    BY <1>2, <1>13
  <2>2. CASE b
    BY <1>6, <2>2, Zenon DEF Justified
  <2>3. CASE disk'[to] = Nothing
    BY <2>1, <2>3, EmptyIsJustified
  <2>4. CASE disk[from] # Nothing /\ disk'[to] = disk[from]
    <3>1. PICK m \in L, g \in Files : KeyOf[m][g] = o
      BY <1>1 DEF KeysIn
    <3>2. PathOf[m][g] = from
      BY <1>10, <2>4, <3>1
    <3>3. Justified(mem[o], disk[from])
      BY <1>1, <3>1, <3>2 DEF BelievedInv, BelievedIn
    <3>4. mem[o].unverified => r.unverified
      BY <1>6
    <3>5. Justified(r, disk[from])
      BY <1>5, <3>3, <3>4, Zenon DEF Justified, Describes
    <3> QED
      BY <2>1, <2>4, <3>5
  <2> QED
    BY <1>9, <2>2, <2>3, <2>4
<1>14. BelievedIn(mem, L)'
  <2> SUFFICES ASSUME NEW k \in Stored(mem')
               PROVE  /\ k \in KeysIn(L) /\ Truthful(mem[k])'
                      /\ \A l \in L, f \in Files :
                           KeyOf[l][f] = k => Justified(mem'[k], disk'[PathOf[l][f]])
    BY DEF BelievedIn, Stored
  <2>1. CASE k = n
    <3>1. /\ mem'[k] = r /\ mem'[k].modified = mem[o].modified
          /\ mem'[k].size = mem[o].size
      BY <1>5, <1>12, <2>1
    <3>2. Truthful(mem[k])'
      BY <1>8, <3>1 DEF Truthful, Describes
    <3> QED
      BY <1>1, <1>13, <2>1, <3>1, <3>2
  <2>2. CASE k # n
    <3>1. k \in Stored(mem) /\ mem'[k] = mem[k]
      BY <1>12, <2>2
    <3>2. k \in KeysIn(L) /\ Truthful(mem[k])'
      BY <3>1 DEF BelievedInv, BelievedIn, Truthful
    <3>3. ASSUME NEW l \in L, NEW f \in Files, KeyOf[l][f] = k
          PROVE  Justified(mem'[k], disk'[PathOf[l][f]])
      <4>1. Justified(mem[k], disk[PathOf[l][f]])
        BY <3>1, <3>3 DEF BelievedInv, BelievedIn
      <4> QED
        BY <3>1, <3>3, <4>1, SiteStaysJustified
    <3> QED
      BY <3>2, <3>3
  <2> QED
    BY <2>1, <2>2
<1>15. TargetsFree(L)'
  <2>1. KeysOf(seen)' = KeysOf(seen)
    BY DEF KeysOf, Reported
  <2>2. Stored(mem') \subseteq Stored(saved) \cup KeysOf(seen)
    BY <1>1, <1>12 DEF BelievedInv, TargetsFree
  <2>3. Stored(mem)' = Stored(mem') /\ Stored(saved)' = Stored(saved)
    BY DEF Stored
  <2>4. \A p \in todo' : p \in todo /\ p[2] \in KeysOf(seen)
    BY <1>7 DEF BelievedInv, IInv, TodoSound
  <2>5. ASSUME NEW p \in todo'
        PROVE  /\ p[2] \notin Stored(saved)' /\ NameOf[p[1]] = NameOf[p[2]]
               /\ \A l \in L, f \in Files :
                    (KeyOf[l][f] \in Stored(saved)' /\ PathOf[l][f] = TargetOf(p[2])')
                      => \/ OldPathOf[p[1]] = TargetOf(p[2])'
                         \/ OldPathOf[p[1]] \notin PathsIn(L)
    BY <1>11, <2>3, <2>4 DEF BelievedInv, TargetsFree
  <2> QED
    BY <2>1, <2>2, <2>3, <2>5 DEF TargetsFree
<1> QED
  BY <1>14, <1>15

(* A step that treats a pair, once it is clear what it does to the disk.   *)
LEMMA TreatedPairBelieves ==
  ASSUME NEW L \in SUBSET Layouts, Steady(L), BelievedInv(L), IInv',
         phase = "remapping", todo # {},
         Carries(OldPathOf[OldKey], TargetOf(NewKey)),
         NEW ACTION placed, NEW ACTION left, Rekey(placed, left),
         placed => /\ disk[OldPathOf[OldKey]] # Nothing
                   /\ disk'[TargetOf(NewKey)] = disk[OldPathOf[OldKey]],
         moving' = NoMove,
         UNCHANGED <<layout, remote, saved, phase, seen, toRoute>>
  PROVE  BelievedInv(L)'
<1>1. PICK b \in BOOLEAN : b = (~placed /\ disk'[TargetOf(NewKey)] # Nothing)
  OBVIOUS
<1>2. RekeyedTo(b)
  BY <1>1 DEF Rekey, RekeyedTo
<1>3. \/ b \/ disk'[TargetOf(NewKey)] = Nothing
      \/ /\ disk[OldPathOf[OldKey]] # Nothing
         /\ disk'[TargetOf(NewKey)] = disk[OldPathOf[OldKey]]
  BY <1>1
<1>4. BelievedIn(mem, L)' /\ TargetsFree(L)'
  BY <1>2, <1>3, RekeyBelieves
<1>5. BelievedIn(saved, L)' /\ CopiesKnown(L)' /\ NobodysStayFree(L)'
  BY CarryKeepsCopies
<1>6. SeenTrue'
  BY DEF BelievedInv, SeenTrue, RowTrue, RowOf
<1>7. MovesOwnPair'
  BY DEF BelievedInv, MovesOwnPair
<1>8. (layout \in L)'
  BY DEF BelievedInv
<1> QED
  BY <1>4, <1>5, <1>6, <1>7, <1>8 DEF BelievedInv

LEMMA RemapStepBelieves ==
  ASSUME NEW L \in SUBSET Layouts, Steady(L), BelievedInv(L), IInv', RemapStep
  PROVE  BelievedInv(L)'
<1> DEFINE from == OldPathOf[OldKey]
           to == TargetOf(NewKey)
<1>1. IInv /\ disk \in [Paths -> Contents]
  BY DEF BelievedInv, IInv, TypeOK
<1>2. CASE RemapInPlace
  <2>1. phase = "remapping" /\ todo # {} /\ moving' = NoMove
    BY <1>2 DEF RemapInPlace, Remapping
  <2>2. UNCHANGED disk /\ Rekey(Occupied(from) /\ from = to, Occupied(from) /\ from # to)
    BY <1>2 DEF RemapInPlace
  <2>3. Carries(from, to)
    BY <2>2 DEF Carries
  <2>4. (Occupied(from) /\ from = to) => disk[from] # Nothing /\ disk'[to] = disk[from]
    BY <2>2 DEF Occupied
  <2>5. UNCHANGED <<layout, remote, saved, phase, seen, toRoute>>
    BY <1>2 DEF RemapInPlace
  <2> HIDE DEF from, to
  <2> QED
    BY <2>1, <2>2, <2>3, <2>4, <2>5, TreatedPairBelieves DEF from, to
<1>3. CASE RemapRenames
  <2>1. phase = "remapping" /\ todo # {} /\ moving' = NoMove
    BY <1>3 DEF RemapRenames, Remapping
  <2>2. from \in Paths /\ to \in Paths
    BY <1>1, <2>1, PairPaths
  <2>3. from # to /\ disk[from] # Nothing /\ Moved(from, to)
    BY <1>3 DEF RemapRenames, CanCarry, Occupied
  <2>4. Carries(from, to) /\ disk'[to] = disk[from]
    BY <1>1, <2>2, <2>3, MovedType DEF Moved, Carries
  <2>5. Rekey(TRUE, FALSE) /\ UNCHANGED <<layout, remote, saved, phase, seen, toRoute>>
    BY <1>3 DEF RemapRenames
  <2> QED
    BY <2>1, <2>3, <2>4, <2>5, TreatedPairBelieves
<1>4. CASE RemapCopyBegins
  <2>1. phase = "remapping" /\ todo # {}
    BY <1>4 DEF RemapCopyBegins, Remapping
  <2>2. from \in Paths /\ to \in Paths /\ from # to /\ disk[from] # Nothing
    BY <1>1, <1>4, <2>1, PairPaths DEF RemapCopyBegins, CanCarry, Occupied
  <2>3. disk' = [disk EXCEPT ![to] = Torn] /\ moving' = [from |-> from, to |-> to]
    BY <1>4 DEF RemapCopyBegins
  <2>4. UNCHANGED <<layout, remote, saved, phase, seen, mem, todo, toRoute>>
    BY <1>4 DEF RemapCopyBegins
  <2>5. disk' \in [Paths -> Contents]
    BY <1>1, <2>2, <2>3, TornType
  <2>6. Carries(from, to)
    BY <1>1, <2>2, <2>3, <2>5 DEF Carries
  <2>7. BelievedIn(saved, L)' /\ CopiesKnown(L)' /\ NobodysStayFree(L)'
    BY <2>1, <2>4, <2>6, CarryKeepsCopies
  <2>8. BelievedIn(mem, L)'
    BY <2>1, <2>4, <2>6, CarryKeepsRecords
  <2>9. SeenTrue' /\ TargetsFree(L)' /\ (layout \in L)'
    BY <2>4 DEF BelievedInv, SeenTrue, RowTrue, RowOf, TargetsFree, Stored, KeysOf, Reported,
                TargetOf, FileOf
  <2>10. MovesOwnPair'
    <3>1. from' = from /\ to' = to
      BY <2>4 DEF OldKey, NewKey, TargetOf, FileOf
    <3>2. disk'[from] # Nothing
      BY <1>1, <2>2, <2>3
    <3>3. moving'.from = from /\ moving'.to = to
      BY <2>3
    <3> QED
      BY <2>1, <2>3, <2>4, <3>1, <3>2, <3>3 DEF BelievedInv, MovesOwnPair
  <2> QED
    BY <2>7, <2>8, <2>9, <2>10 DEF BelievedInv
<1>5. CASE RemapCopyEnds
  <2>1. phase = "remapping" /\ todo # {} /\ moving # NoMove /\ moving' = NoMove
    BY <1>1, <1>5 DEF RemapCopyEnds, IInv, MovingSound
  <2>2. moving.from = from /\ moving.to = to /\ disk[from] # Nothing
    BY <2>1 DEF BelievedInv, MovesOwnPair
  <2>3. from \in Paths /\ to \in Paths /\ from # to
    BY <1>1, <2>1, <2>2, PairPaths DEF IInv, MovingSound
  <2>4. Moved(from, to)
    BY <1>5, <2>2 DEF RemapCopyEnds
  <2>5. Carries(from, to) /\ disk'[to] = disk[from]
    BY <1>1, <2>2, <2>3, <2>4, MovedType DEF Moved, Carries
  <2>6. Rekey(TRUE, FALSE) /\ UNCHANGED <<layout, remote, saved, phase, seen, toRoute>>
    BY <1>5 DEF RemapCopyEnds
  <2> QED
    BY <2>1, <2>2, <2>5, <2>6, TreatedPairBelieves
<1>6. CASE RemapMoveFails
  <2>1. phase = "remapping" /\ todo # {} /\ moving' = NoMove
    BY <1>6 DEF RemapMoveFails
  <2>2. Rekey(FALSE, TRUE) /\ UNCHANGED <<layout, remote, saved, phase, seen, toRoute>>
    BY <1>6 DEF RemapMoveFails
  <2>3. Carries(from, to)
    <3>1. CASE UNCHANGED disk
      BY <3>1 DEF Carries
    <3>2. CASE moving # NoMove /\ disk' = [disk EXCEPT ![moving.to] = disk[moving.from]]
      <4>1. moving.from = from /\ moving.to = to /\ disk[from] # Nothing
        BY <3>2 DEF BelievedInv, MovesOwnPair
      <4>2. from \in Paths /\ to \in Paths /\ from # to
        BY <1>1, <2>1, <3>2, <4>1, PairPaths DEF IInv, MovingSound
      <4>3. disk' \in [Paths -> Contents]
        BY <1>1, <3>2, <4>1, <4>2
      <4> QED
        BY <1>1, <3>2, <4>1, <4>2, <4>3 DEF Carries
    <3> QED
      BY <1>6, <3>1, <3>2 DEF RemapMoveFails, LeavesOriginal
  <2> QED
    BY <2>1, <2>2, <2>3, TreatedPairBelieves
<1>7. CASE RemapDone
  <2>1. phase = "remapping" /\ phase' = "routing" /\ todo = {}
        /\ UNCHANGED <<layout, remote, disk, saved, seen, mem, todo, moving>>
    BY <1>7 DEF RemapDone
  <2>2. toRoute' = {}
    <3>1. UnroutedOf[layout] = PathOf[layout]
      BY DEF BelievedInv, Steady
    <3> QED
      BY <1>7, <3>1 DEF RemapDone
  <2>3. moving = NoMove
    BY <1>1, <2>1 DEF IInv, MovingSound
  <2>4. BelievedIn(saved, L)' /\ BelievedIn(mem, L)' /\ CopiesKnown(L)' /\ NobodysStayFree(L)'
    BY <2>1 DEF BelievedInv, BelievedIn, Stored, Truthful, CopiesKnown, NobodysStayFree
  <2>5. SeenTrue' /\ TargetsFree(L)' /\ (layout \in L)'
    BY <2>1 DEF BelievedInv, SeenTrue, RowTrue, RowOf, TargetsFree, Stored, KeysOf, Reported
  <2>6. MovesOwnPair'
    BY <2>1, <2>2, <2>3 DEF MovesOwnPair
  <2> QED
    BY <2>4, <2>5, <2>6 DEF BelievedInv
<1> QED
  BY <1>2, <1>3, <1>4, <1>5, <1>6, <1>7 DEF RemapStep

-----------------------------------------------------------------------------
(* The other steps.                                                        *)

(* Two stored keys never lay claim to one target, unless the pair's own    *)
(* copy is there already or nowhere.                                       *)
LEMMA PairedTargetFree ==
  ASSUME NEW L \in SUBSET Layouts, Steady(L), BelievedInv(L), NEW rows,
         NEW p \in Pairs(saved, rows), NEW l \in L, NEW f \in Files,
         KeyOf[l][f] \in Stored(saved), PathOf[l][f] = TargetOf(p[2])
  PROVE  OldPathOf[p[1]] = TargetOf(p[2]) \/ OldPathOf[p[1]] \notin PathsIn(L)
<1> DEFINE k == KeyOf[l][f]
           h == FileOf(p[2])
<1>1. layout \in L /\ layout \in Layouts /\ KeysOf(rows) \subseteq Keys
  BY KeysOfType DEF BelievedInv
<1>2. PICK name \in Names :
        /\ p \in PairsNamed(saved, rows, name)
        /\ p \in Named(Stored(saved) \ KeysOf(rows), name)
                 \X Named(KeysOf(rows) \ Stored(saved), name)
        /\ NameOf[p[1]] = name /\ NameOf[p[2]] = name
  BY <1>1, PairHasName
<1>3. /\ p[1] \in Stored(saved) /\ p[1] \notin KeysOf(rows)
      /\ p[2] \in KeysOf(rows) /\ p[2] \notin Stored(saved)
  BY <1>2 DEF Named
<1>4. h \in Files /\ KeyOf[layout][h] = p[2] /\ TargetOf(p[2]) = PathOf[layout][h]
  BY <1>1, <1>3, FileOfKey DEF TargetOf
<1>5. PICK n \in L, g \in Files : KeyOf[n][g] = p[1]
  BY <1>3 DEF BelievedInv, BelievedIn, KeysIn
<1>6. OldPathOf[p[1]] = PathOf[n][g] \/ OldPathOf[p[1]] \notin PathsIn(L)
  BY <1>5 DEF Steady
<1>7. CASE k = p[1]
  <2>1. PathOf[n][g] = PathOf[l][f]
    BY <1>5, <1>7, SteadyKey
  <2> QED
    BY <1>6, <2>1
<1>8. CASE k # p[1]
  <2>1. k \notin KeysOf(rows)
    <3> SUFFICES ASSUME k \in KeysOf(rows) PROVE FALSE
      OBVIOUS
    <3>1. FileOf(k) \in Files /\ KeyOf[layout][FileOf(k)] = k
      BY <1>1, FileOfKey
    <3>2. PathOf[layout][FileOf(k)] = PathOf[layout][h]
      BY <1>1, <1>4, <3>1, SteadyKey
    <3>3. FileOf(k) = h
      BY <1>1, <1>4, <3>1, <3>2, SteadyApart
    <3> QED
      BY <1>3, <1>4, <3>1, <3>3
  <2>2. NameOf[k] = name
    BY <1>1, <1>2, <1>4, NamesAssumption
  <2> DEFINE stale == Named(Stored(saved) \ KeysOf(rows), name)
             fresh == Named(KeysOf(rows) \ Stored(saved), name)
  <2>3. k \in stale /\ p[1] \in stale
    BY <1>2, <2>1, <2>2 DEF Named
  <2>4. Cardinality(stale) # 1
    <3>1. IsFiniteSet(stale)
      BY KeySetsAreFinite DEF Named, Stored
    <3> QED
      BY <1>8, <2>3, <3>1, FS_Singleton
  <2>5. p \in PairStaleByCourse(stale, fresh)
    BY <1>2, <2>4 DEF PairsNamed
  <2>6. KeyCourseOf[p[1]] = CourseOf[h]
    BY <2>5 DEF PairStaleByCourse
  <2>7. KeyOf[layout][h] # KeyOf[l][f]
    BY <1>3, <1>4
  <2>8. PathOf[n][g] = PathOf[layout][h]
    <3>1. NameOf[KeyOf[n][g]] = NameOf[KeyOf[layout][h]]
      BY <1>2, <1>4, <1>5
    <3>2. KeyCourseOf[KeyOf[n][g]] = CourseOf[h]
      BY <1>5, <2>6
    <3>3. PathOf[layout][h] = PathOf[l][f]
      BY <1>4
    <3>4. PICK x \in Files : x = h
      BY <1>4
    <3>5. PICK a \in L : a = layout
      BY <1>1
    <3>6. PathOf[a][x] = PathOf[l][f] /\ KeyOf[a][x] # KeyOf[l][f]
      BY <2>7, <3>3, <3>4, <3>5
    <3>7. NameOf[KeyOf[n][g]] = NameOf[KeyOf[a][x]] /\ KeyCourseOf[KeyOf[n][g]] = CourseOf[x]
      BY <3>1, <3>2, <3>4, <3>5
    <3>8. PathOf[n][g] = PathOf[a][x]
      BY <3>6, <3>7, SteadyShared
    <3> QED
      BY <3>4, <3>5, <3>8
  <2> QED
    BY <1>4, <1>6, <2>8
<1> QED
  BY <1>7, <1>8

LEMMA BeginBelieves ==
  ASSUME NEW L \in SUBSET Layouts, Steady(L), BelievedInv(L), IInv', NEW rows,
         \A f \in Files : rows[f] # Absent => RowTrue(rows[f], f), Begin(rows)
  PROVE  BelievedInv(L)'
<1>1. /\ phase = "idle" /\ phase' = "remapping" /\ seen' = rows /\ mem' = saved
      /\ UNCHANGED <<layout, remote, disk, saved, toRoute, moving>>
  BY DEF Begin
<1>2. /\ BelievedIn(saved, L)' /\ BelievedIn(mem, L)'
      /\ CopiesKnown(L)' /\ NobodysStayFree(L)'
  BY <1>1 DEF BelievedInv, BelievedIn, Stored, Truthful, CopiesKnown, NobodysStayFree
<1>3. SeenTrue'
  BY <1>1 DEF SeenTrue, RowTrue, RowOf
<1>4. TargetsFree(L)'
  <2>1. todo' \subseteq Pairs(saved, rows)
    BY DEF Begin
  <2>2. KeysOf(rows) \subseteq Keys
    BY KeysOfType DEF BelievedInv
  <2>3. \A p \in todo' : p[2] \notin Stored(saved) /\ NameOf[p[1]] = NameOf[p[2]]
    BY <2>1, <2>2, PairHasName DEF Named
  <2>4. \A k : TargetOf(k)' = TargetOf(k)
    BY <1>1 DEF TargetOf, FileOf
  <2>5. \A p \in todo' : \A l \in L, f \in Files :
          (KeyOf[l][f] \in Stored(saved) /\ PathOf[l][f] = TargetOf(p[2]))
            => OldPathOf[p[1]] = TargetOf(p[2]) \/ OldPathOf[p[1]] \notin PathsIn(L)
    BY <2>1, PairedTargetFree
  <2>6. Stored(mem)' = Stored(saved) /\ Stored(saved)' = Stored(saved)
    BY <1>1 DEF Stored
  <2> QED
    BY <2>3, <2>4, <2>5, <2>6 DEF TargetsFree
<1>5. MovesOwnPair'
  BY <1>1 DEF BelievedInv, MovesOwnPair
<1> QED
  BY <1>1, <1>2, <1>3, <1>4, <1>5 DEF BelievedInv

(* No sweep finds anything to do.                                          *)
LEMMA RouteStepBelieves ==
  ASSUME NEW L \in SUBSET Layouts, Steady(L), BelievedInv(L), IInv', RouteStep
  PROVE  BelievedInv(L)'
<1>1. toRoute = {} /\ (moving # NoMove => phase = "remapping")
  BY DEF BelievedInv, MovesOwnPair
<1>2. RouteDone
  BY <1>1 DEF RouteStep, RouteInPlace, RouteRenames, RouteCopyBegins, RouteMoveFails,
              Routing, RouteCopyEnds, RouteCopyFails
<1>3. /\ phase = "routing" /\ phase' = "comparing" /\ moving = NoMove
      /\ UNCHANGED <<layout, remote, disk, saved, seen, mem, todo, toRoute, moving>>
  BY <1>2 DEF RouteDone
<1>4. /\ BelievedIn(saved, L)' /\ BelievedIn(mem, L)'
      /\ CopiesKnown(L)' /\ NobodysStayFree(L)'
  BY <1>3 DEF BelievedInv, BelievedIn, Stored, Truthful, CopiesKnown, NobodysStayFree
<1>5. SeenTrue' /\ TargetsFree(L)' /\ (layout \in L)'
  BY <1>3 DEF BelievedInv, SeenTrue, RowTrue, RowOf, TargetsFree, Stored, KeysOf, Reported,
              TargetOf, FileOf
<1>6. MovesOwnPair'
  BY <1>1, <1>3 DEF MovesOwnPair
<1> QED
  BY <1>4, <1>5, <1>6 DEF BelievedInv

(* A run that ends takes its memory with it.                               *)
LEMMA RunEndsBelieves ==
  ASSUME NEW L \in SUBSET Layouts, BelievedInv(L), IInv', RunEnds,
         UNCHANGED <<layout, remote>>,
         BelievedIn(saved, L)', CopiesKnown(L)', NobodysStayFree(L)'
  PROVE  BelievedInv(L)'
<1>1. \A k \in Keys : mem'[k] = NoRecord
  BY DEF RunEnds, NoManifest
<1>2. BelievedIn(mem, L)'
  BY <1>1 DEF BelievedIn, Stored
<1>3. SeenTrue' /\ TargetsFree(L)' /\ MovesOwnPair' /\ (layout \in L)'
  BY DEF BelievedInv, RunEnds, SeenTrue, TargetsFree, MovesOwnPair
<1> QED
  BY <1>2, <1>3 DEF BelievedInv

(* The record is about no other file.                                      *)
AboutOnly(r, f) == \A g \in Files : Describes(r, g) => g = f

(* What OPAL has now is no older than any true record of it: the columns   *)
(* tell whom the record is about.                                          *)
LEMMA FreshCopyJustified ==
  ASSUME NEW L \in SUBSET Layouts, Steady(L), NEW r, Truthful(r),
         NEW f \in Files, remote[f] \in Versions, f \in Confusable \/ AboutOnly(r, f)
  PROVE  Justified(r, Copy(f, remote[f]))
<1>1. Copy(f, remote[f]) \in Download /\ Copy(f, remote[f]) # Foreign
  BY MarksAssumption DEF Copy, Download
<1>2. Copy(f, remote[f]).file = f /\ Copy(f, remote[f]).version = remote[f]
  BY DEF Copy
<1>3. ASSUME Describes(r, f) PROVE remote[f] >= r.modified
  <2>1. r.modified \in Versions /\ r.modified # Nil
    BY <1>3, VersionsAreNumbers, MarksAssumption DEF Describes
  <2>2. PICK g \in Files : Describes(r, g) /\ remote[g] \in Versions /\ r.modified <= remote[g]
    BY <2>1 DEF Truthful
  <2>3. SizeOf[f][r.modified] = SizeOf[g][r.modified]
    BY <1>3, <2>2 DEF Describes
  <2>4. \A x, y \in Files : \A v \in Versions : SizeOf[x][v] = SizeOf[y][v] => x = y
    BY DEF Steady
  <2>5. f = g
    BY <2>1, <2>3, <2>4
  <2> QED
    BY <2>1, <2>2, <2>5, VersionsAreNumbers
<1>4. ASSUME NEW g \in Files, Describes(r, g), g # f PROVE f \in Confusable
  BY <1>4 DEF AboutOnly
<1> HIDE DEF Copy
<1> QED
  BY <1>1, <1>2, <1>3, <1>4 DEF Justified

(* A file's columns as the record's tell it from every other.              *)
LEMMA ColumnsTell ==
  ASSUME NEW L \in SUBSET Layouts, Steady(L), NEW r, NEW f \in Files, remote[f] \in Versions,
         r.modified = remote[f], r.size = SizeOf[f][remote[f]]
  PROVE  Truthful(r) /\ AboutOnly(r, f)
<1>1. remote[f] <= remote[f]
  BY VersionsAreOrdered
<1>2. Truthful(r)
  BY <1>1 DEF Truthful, Describes
<1>3. \A x, y \in Files : \A v \in Versions : SizeOf[x][v] = SizeOf[y][v] => x = y
  BY DEF Steady
<1>4. ASSUME NEW g \in Files, Describes(r, g) PROVE g = f
  <2>1. SizeOf[g][remote[f]] = SizeOf[f][remote[f]]
    BY <1>4 DEF Describes
  <2> QED
    BY <1>3, <2>1
<1> QED
  BY <1>2, <1>4 DEF AboutOnly

(* The record a download or a verification leaves is about its file, if    *)
(* OPAL showed columns.                                                    *)
LEMMA RecordAfterAbout ==
  ASSUME NEW L \in SUBSET Layouts, Steady(L), BelievedInv(L), NEW f \in Reported(seen)
  PROVE  Truthful(RecordAfter(f)) /\ (f \in Confusable \/ AboutOnly(RecordAfter(f), f))
<1> DEFINE key == KeyOf[layout][f]
           r == mem[key]
<1>1. f \in Files /\ RowTrue(seen[f], f) /\ remote[f] \in Versions
  BY DEF Reported, BelievedInv, IInv, SeenSound, SeenTrue
<1>2. remote[f] # Nil /\ SizeOf[f][remote[f]] # Nil
  <2>1. remote[f] \in Nat
    BY <1>1, VersionsAreOrdered
  <2>2. SizeOf[f][remote[f]] \in Nat
    BY <1>1, LayoutAssumption
  <2> QED
    BY <2>1, <2>2, MarksAssumption
<1>3. CASE RecordAfter(f) = SuccessRecord(seen[f])
  <2>1. CASE seen[f] = RowOf(f, TRUE)
    <3>1. RecordAfter(f).modified = remote[f] /\ RecordAfter(f).size = SizeOf[f][remote[f]]
      BY <1>3, <2>1 DEF SuccessRecord, RowOf
    <3> QED
      BY <1>1, <3>1, ColumnsTell
  <2>2. CASE f \in Untabled /\ seen[f] = RowOf(f, FALSE)
    BY <1>3, <2>2 DEF SuccessRecord, RowOf, Truthful, Confusable
  <2> QED
    BY <1>1, <2>1, <2>2 DEF RowTrue
<1>4. CASE VerdictOn(f) = "verify" /\ RecordAfter(f) = VerifiedRecord(r)
  <2>1. ~FileChanged(seen[f], r) /\ r # NoRecord
    BY <1>4 DEF VerdictOn, Verdict, FileChanged
  <2>2. key \in Keys
    BY <1>1, LayoutAssumption DEF BelievedInv
  <2>3. r \in Record /\ Truthful(r)
    BY <2>1, <2>2 DEF BelievedInv, IInv, TypeOK, Manifests, BelievedIn, Stored
  <2>4. RecordAfter(f).modified = r.modified /\ RecordAfter(f).size = r.size
    BY <1>4, <2>3 DEF VerifiedRecord, Record
  <2>5. CASE seen[f] = RowOf(f, TRUE)
    <3>1. r.modified = remote[f] /\ r.size = SizeOf[f][remote[f]]
      BY <1>2, <2>1, <2>5 DEF FileChanged, ColumnDiffers, RowOf
    <3> QED
      BY <1>1, <2>4, <3>1, ColumnsTell
  <2>6. CASE f \in Untabled
    BY <2>3, <2>4, <2>6 DEF Truthful, Describes, Confusable
  <2> QED
    BY <1>1, <2>5, <2>6 DEF RowTrue
<1> QED
  BY <1>3, <1>4 DEF RecordAfter

LEMMA FinishBelieves ==
  ASSUME NEW L \in SUBSET Layouts, Steady(L), BelievedInv(L), IInv',
         NEW done \in SUBSET Files, Finish(done)
  PROVE  BelievedInv(L)'
<1> DEFINE at(p) == {f \in done : PathOf[layout][f] = p}
           of(k) == {f \in done : KeyOf[layout][f] = k}
<1>1. layout \in L /\ layout \in Layouts /\ UNCHANGED <<layout, remote>> /\ RunEnds
  BY DEF BelievedInv, Finish
<1>2. \A f \in done : seen[f] # Absent /\ remote[f] \in Versions
  BY DEF Finish, Reported, BelievedInv, IInv, SeenSound
<1>3. \A p \in Paths :
        \/ disk'[p] = disk[p]
        \/ \E f \in done : PathOf[layout][f] = p /\ disk'[p] = Copy(f, remote[f])
  <2>1. disk' = [p \in Paths |-> IF at(p) = {} THEN disk[p]
                 ELSE LET f == CHOOSE g \in at(p) : TRUE IN Copy(f, remote[f])]
    BY DEF Finish
  <2>2. \A p \in Paths : at(p) # {} => (CHOOSE g \in at(p) : TRUE) \in at(p)
    OBVIOUS
  <2> QED
    BY <2>1, <2>2
<1>4. \A f \in done : disk'[PathOf[layout][f]] = Copy(f, remote[f])
  <2> SUFFICES ASSUME NEW f \in done PROVE disk'[PathOf[layout][f]] = Copy(f, remote[f])
    OBVIOUS
  <2>1. disk' = [p \in Paths |-> IF at(p) = {} THEN disk[p]
                 ELSE LET g == CHOOSE h \in at(p) : TRUE IN Copy(g, remote[g])]
    BY DEF Finish
  <2>2. PathOf[layout][f] \in Paths
    BY <1>1, LayoutAssumption
  <2>3. at(PathOf[layout][f]) = {f}
    BY <1>1, SteadyApart
  <2>4. (CHOOSE h \in at(PathOf[layout][f]) : TRUE) = f
    BY <2>3
  <2> QED
    BY <2>1, <2>2, <2>3, <2>4
<1>5. \A k \in Keys :
        \/ saved'[k] = mem[k] /\ \A f \in done : KeyOf[layout][f] # k
        \/ \E f \in done : KeyOf[layout][f] = k /\ saved'[k] = RecordAfter(f)
  <2>1. saved' = [k \in Keys |-> IF of(k) = {} THEN mem[k]
                  ELSE RecordAfter(CHOOSE f \in of(k) : TRUE)]
    BY DEF Finish
  <2>2. \A k \in Keys : of(k) # {} => (CHOOSE f \in of(k) : TRUE) \in of(k)
    OBVIOUS
  <2> HIDE DEF of
  <2>3. ASSUME NEW k \in Keys, of(k) # {}
        PROVE  \E f \in done : KeyOf[layout][f] = k /\ saved'[k] = RecordAfter(f)
    <3>1. PICK f \in of(k) : f = (CHOOSE g \in of(k) : TRUE)
      BY <2>2, <2>3
    <3>2. saved'[k] = RecordAfter(f)
      BY <2>1, <2>3, <3>1
    <3>3. f \in done /\ KeyOf[layout][f] = k
      BY <3>1 DEF of
    <3> QED
      BY <3>2, <3>3
  <2>4. ASSUME NEW k \in Keys, of(k) = {}
        PROVE  saved'[k] = mem[k] /\ \A f \in done : KeyOf[layout][f] # k
    <3>1. \A f \in done : KeyOf[layout][f] # k
      BY <2>4 DEF of
    <3> QED
      BY <2>1, <2>4, <3>1
  <2> QED
    BY <2>3, <2>4
<1>6. \A f \in done :
        Truthful(RecordAfter(f)) /\ (f \in Confusable \/ AboutOnly(RecordAfter(f), f))
  BY RecordAfterAbout DEF Finish
<1>7. BelievedIn(saved, L)'
  <2> SUFFICES ASSUME NEW k \in Stored(saved')
               PROVE  /\ k \in KeysIn(L) /\ Truthful(saved'[k])
                      /\ \A l \in L, f \in Files :
                           KeyOf[l][f] = k => Justified(saved'[k], disk'[PathOf[l][f]])
    BY <1>1 DEF BelievedIn, Stored, Truthful
  <2>1. k \in Keys /\ saved'[k] # NoRecord
    BY DEF Stored
  <2>2. CASE saved'[k] = mem[k] /\ \A f \in done : KeyOf[layout][f] # k
    <3>1. k \in Stored(mem)
      BY <2>1, <2>2 DEF Stored
    <3>2. k \in KeysIn(L) /\ Truthful(mem[k])
      BY <3>1 DEF BelievedInv, BelievedIn
    <3>3. ASSUME NEW l \in L, NEW f \in Files, KeyOf[l][f] = k
          PROVE  Justified(mem[k], disk'[PathOf[l][f]])
      <4>1. Justified(mem[k], disk[PathOf[l][f]])
        BY <3>1, <3>3 DEF BelievedInv, BelievedIn
      <4>2. PathOf[l][f] \in Paths
        BY LayoutAssumption
      <4>3. CASE disk'[PathOf[l][f]] = disk[PathOf[l][f]]
        BY <4>1, <4>3
      <4>4. ASSUME NEW g \in done, PathOf[layout][g] = PathOf[l][f],
                   disk'[PathOf[l][f]] = Copy(g, remote[g])
            PROVE  Justified(mem[k], disk'[PathOf[l][f]])
        <5>1. KeyOf[layout][g] # KeyOf[l][f]
          BY <2>2, <3>3
        <5>2. g \in Confusable
          BY <1>1, <4>4, <5>1 DEF Confusable
        <5> QED
          BY <1>2, <3>2, <4>4, <5>2, FreshCopyJustified
      <4> QED
        BY <1>3, <4>2, <4>3, <4>4
    <3>4. saved'[k] = mem[k]
      BY <2>2
    <3> QED
      BY <3>2, <3>3, <3>4
  <2>3. ASSUME NEW g \in done, KeyOf[layout][g] = k, saved'[k] = RecordAfter(g)
        PROVE  /\ k \in KeysIn(L) /\ Truthful(saved'[k])
               /\ \A l \in L, f \in Files :
                    KeyOf[l][f] = k => Justified(saved'[k], disk'[PathOf[l][f]])
    <3>1. k \in KeysIn(L) /\ Truthful(saved'[k])
      BY <1>1, <1>6, <2>3 DEF KeysIn
    <3>2. ASSUME NEW l \in L, NEW f \in Files, KeyOf[l][f] = k
          PROVE  Justified(saved'[k], disk'[PathOf[l][f]])
      <4>1. PathOf[l][f] = PathOf[layout][g]
        BY <1>1, <2>3, <3>2, SteadyKey
      <4>2. disk'[PathOf[l][f]] = Copy(g, remote[g])
        BY <1>4, <4>1
      <4> QED
        BY <1>2, <1>6, <2>3, <3>1, <4>2, FreshCopyJustified
    <3> QED
      BY <3>1, <3>2
  <2> QED
    BY <1>5, <2>1, <2>2, <2>3
<1>8. CopiesKnown(L)'
  <2> SUFFICES ASSUME NEW l \in L, NEW f \in Files, disk'[PathOf[l][f]] \in Download
               PROVE  LET content == disk'[PathOf[l][f]] IN
                      /\ NameOf[KeyOf[l][content.file]] = NameOf[KeyOf[l][f]]
                      /\ remote[content.file] \in Versions
                      /\ content.version <= remote[content.file]
    BY <1>1, Zenon DEF CopiesKnown
  <2> DEFINE content == disk'[PathOf[l][f]]
  <2>1. PathOf[l][f] \in Paths
    BY LayoutAssumption
  <2>2. CASE disk'[PathOf[l][f]] = disk[PathOf[l][f]]
    <3>1. content = disk[PathOf[l][f]] /\ disk[PathOf[l][f]] \in Download
      BY <2>2
    <3>2. CopiesKnown(L)
      BY DEF BelievedInv
    <3> QED
      BY <3>1, <3>2, Zenon DEF CopiesKnown
  <2>3. ASSUME NEW g \in done, PathOf[layout][g] = PathOf[l][f],
               disk'[PathOf[l][f]] = Copy(g, remote[g])
        PROVE  /\ NameOf[KeyOf[l][content.file]] = NameOf[KeyOf[l][f]]
               /\ remote[content.file] \in Versions
               /\ content.version <= remote[content.file]
    <3>1. content.file = g /\ content.version = remote[g] /\ remote[g] \in Versions
      BY <1>2, <2>3 DEF Copy
    <3>2. remote[g] <= remote[g]
      BY <3>1, VersionsAreOrdered
    <3>3. NameOf[KeyOf[l][g]] = NameOf[KeyOf[layout][g]]
      BY <1>1, NameOfFile
    <3>4. NameOf[KeyOf[layout][g]] = NameOf[KeyOf[l][f]]
      BY <1>1, <2>3, NamesAssumption
    <3> QED
      BY <3>1, <3>2, <3>3, <3>4
  <2> QED
    BY <1>3, <2>1, <2>2, <2>3
<1>9. NobodysStayFree(L)'
  <2> SUFFICES ASSUME NEW k \in KeysIn(L), OldPathOf[k] \notin PathsIn(L)
               PROVE  disk'[OldPathOf[k]] = Nothing
    BY DEF NobodysStayFree
  <2>1. OldPathOf[k] \in Paths
    BY LayoutAssumption DEF KeysIn
  <2>2. disk[OldPathOf[k]] = Nothing
    BY DEF BelievedInv, NobodysStayFree
  <2>3. \A f \in done : PathOf[layout][f] # OldPathOf[k]
    BY <1>1 DEF PathsIn
  <2> QED
    BY <1>3, <2>1, <2>2, <2>3
<1> QED
  BY <1>1, <1>7, <1>8, <1>9, RunEndsBelieves

(* OPAL's versions only grow, and the settings stay among the layouts.     *)
LEMMA WorldStepBelieves ==
  ASSUME NEW L \in SUBSET Layouts, Steady(L), BelievedInv(L), IInv',
         \/ \E l \in Layouts : SwitchLayout(l)
         \/ \E f \in Files : Publish(f) \/ Update(f)
  PROVE  BelievedInv(L)'
<1>1. phase = "idle" /\ UNCHANGED <<disk, saved, phase, seen, mem, todo, toRoute, moving>>
  BY DEF SwitchLayout, Publish, Update, run
<1>2. (layout \in L)'
  <2>1. ASSUME NEW l \in Layouts, SwitchLayout(l) PROVE layout' \in L
    <3>1. <<layout, l>> \in Switches /\ layout' = l
      BY <2>1 DEF SwitchLayout
    <3>2. \A s \in Switches : s[1] \in L => s[2] \in L
      BY DEF Steady
    <3> QED
      BY <3>1, <3>2 DEF BelievedInv
  <2>2. ASSUME NEW f \in Files, Publish(f) \/ Update(f) PROVE layout' \in L
    BY <2>2 DEF Publish, Update, BelievedInv
  <2> QED
    BY <2>1, <2>2
<1>3. \A f \in Files : remote[f] \in Versions => remote'[f] \in Versions /\ remote[f] <= remote'[f]
  <2>1. remote \in [Files -> Versions \cup {Absent}] /\ remote' \in [Files -> Versions \cup {Absent}]
    BY DEF BelievedInv, IInv, TypeOK
  <2>2. ASSUME NEW l \in Layouts, SwitchLayout(l) PROVE remote' = remote
    BY <2>2 DEF SwitchLayout
  <2>3. ASSUME NEW g \in Files, Publish(g), NEW f \in Files, remote[f] \in Versions
        PROVE  remote'[f] = remote[f]
    BY <2>1, <2>3, MarksAssumption DEF Publish
  <2>4. ASSUME NEW g \in Files, Update(g), NEW f \in Files, remote[f] \in Versions
        PROVE  remote'[f] \in Versions /\ remote[f] <= remote'[f]
    <3>1. remote[g] \in Nat /\ remote[g] + 1 \in Versions
      BY <2>4, FilesAssumption DEF Update, Versions
    <3>2. remote' = [remote EXCEPT ![g] = remote[g] + 1]
      BY <2>4 DEF Update
    <3>3. CASE f = g
      <4>1. remote'[f] = remote[f] + 1
        BY <2>1, <3>2, <3>3
      <4> QED
        BY <3>1, <3>3, <4>1
    <3>4. CASE f # g
      <4>1. remote'[f] = remote[f]
        BY <2>1, <3>2, <3>4
      <4> QED
        BY <2>4, <4>1, VersionsAreOrdered
    <3> QED
      BY <3>3, <3>4
  <2>5. \A f \in Files : remote[f] \in Versions => remote[f] <= remote[f]
    BY VersionsAreOrdered
  <2> QED
    BY <2>2, <2>3, <2>4, <2>5
<1>4. ASSUME NEW r, Truthful(r)
      PROVE  \/ r.modified = Nil
             \/ \E g \in Files : Describes(r, g) /\ remote'[g] \in Versions
                                  /\ r.modified <= remote'[g]
  <2>1. CASE r.modified = Nil
    BY <2>1
  <2>2. ASSUME NEW g \in Files, Describes(r, g), remote[g] \in Versions, r.modified <= remote[g]
        PROVE  remote'[g] \in Versions /\ r.modified <= remote'[g]
    <3>1. r.modified \in Nat /\ remote[g] \in Nat /\ remote'[g] \in Nat
      BY <1>3, <2>2, VersionsAreNumbers DEF Describes
    <3> QED
      BY <1>3, <2>2, <3>1
  <2> QED
    BY <1>4, <2>1, <2>2 DEF Truthful
<1>5. ASSUME NEW k \in Stored(saved) PROVE Truthful(saved[k])'
  <2>1. Truthful(saved[k])
    BY DEF BelievedInv, BelievedIn
  <2> QED
    BY <1>1, <1>4, <2>1 DEF Truthful
<1>6. BelievedIn(saved, L)'
  BY <1>1, <1>5 DEF BelievedInv, BelievedIn, Stored
<1>7. BelievedIn(mem, L)'
  <2>1. \A k \in Keys : mem[k] = NoRecord
    BY <1>1 DEF BelievedInv, MovesOwnPair, NoManifest
  <2> QED
    BY <1>1, <2>1 DEF BelievedIn, Stored
<1>8. CopiesKnown(L)'
  <2> SUFFICES ASSUME NEW l \in L, NEW f \in Files, disk[PathOf[l][f]] \in Download
               PROVE  LET content == disk[PathOf[l][f]] IN
                      /\ NameOf[KeyOf[l][content.file]] = NameOf[KeyOf[l][f]]
                      /\ remote'[content.file] \in Versions
                      /\ content.version <= remote'[content.file]
    BY <1>1, Zenon DEF CopiesKnown
  <2> DEFINE content == disk[PathOf[l][f]]
  <2>1. CopiesKnown(L)
    BY DEF BelievedInv
  <2>2. /\ NameOf[KeyOf[l][content.file]] = NameOf[KeyOf[l][f]]
        /\ remote[content.file] \in Versions /\ content.version <= remote[content.file]
    BY <2>1, Zenon DEF CopiesKnown
  <2>3. content.file \in Files /\ content.version \in Versions
    BY DEF Download
  <2>4. /\ remote'[content.file] \in Versions
        /\ remote[content.file] <= remote'[content.file]
    BY <1>3, <2>2, <2>3
  <2>5. content.version \in Nat /\ remote[content.file] \in Nat /\ remote'[content.file] \in Nat
    BY <2>2, <2>3, <2>4, VersionsAreOrdered
  <2>6. content.version <= remote'[content.file]
    <3> HIDE DEF content
    <3>1. \A a, b, c \in Nat : a <= b /\ b <= c => a <= c
      OBVIOUS
    <3> QED
      BY <2>2, <2>4, <2>5, <3>1
  <2> QED
    BY <2>2, <2>4, <2>6
<1>9. NobodysStayFree(L)' /\ MovesOwnPair'
  <2>1. moving = NoMove
    BY <1>1 DEF BelievedInv, MovesOwnPair
  <2> QED
    BY <1>1, <2>1 DEF BelievedInv, NobodysStayFree, MovesOwnPair
<1>10. SeenTrue' /\ TargetsFree(L)'
  <2>1. (\A f \in Files : seen[f] = Absent) /\ todo = {}
    BY <1>1 DEF BelievedInv, IInv, SeenSound, TodoSound
  <2> QED
    BY <1>1, <2>1 DEF SeenTrue, TargetsFree
<1> QED
  BY <1>2, <1>6, <1>7, <1>8, <1>9, <1>10 DEF BelievedInv

LEMMA InitBelieves ==
  ASSUME NEW L \in SUBSET Layouts, Steady(L), Init, layout \in L
  PROVE  BelievedInv(L)
<1>1. \A k \in Keys : saved[k] = NoRecord /\ mem[k] = NoRecord
  BY DEF Init, NoManifest
<1>2. BelievedIn(saved, L) /\ BelievedIn(mem, L)
  BY <1>1 DEF BelievedIn, Stored
<1>3. CopiesKnown(L)
  <2> SUFFICES ASSUME NEW l \in L, NEW f \in Files, disk[PathOf[l][f]] \in Download
               PROVE  FALSE
    BY Zenon DEF CopiesKnown
  <2>1. PathOf[l][f] \in Paths
    BY LayoutAssumption
  <2> QED
    BY <2>1, MarksAssumption DEF Init
<1>4. NobodysStayFree(L)
  <2> SUFFICES ASSUME NEW k \in KeysIn(L), OldPathOf[k] \notin PathsIn(L)
               PROVE  disk[OldPathOf[k]] = Nothing
    BY DEF NobodysStayFree
  <2>1. PICK l \in L, f \in Files : k = KeyOf[l][f]
    BY DEF KeysIn
  <2>2. OldPathOf[k] \in {PathOf[l][f]} \cup (Paths \ (PathsIn(L) \cup FiledByHand))
    BY <2>1 DEF Steady
  <2>3. OldPathOf[k] \in Paths \ FiledByHand
    BY <2>2 DEF PathsIn
  <2> QED
    BY <2>3 DEF Init
<1>5. SeenTrue /\ TargetsFree(L) /\ MovesOwnPair
  BY DEF Init, SeenTrue, TargetsFree, MovesOwnPair
<1> QED
  BY <1>2, <1>3, <1>4, <1>5, InitEstablishes DEF BelievedInv

LEMMA CrawlReadsTrue ==
  ASSUME NEW hidden \in SUBSET Untabled, NEW f \in Files,
         Crawled(Files \ hidden)[f] # Absent
  PROVE  RowTrue(Crawled(Files \ hidden)[f], f)
<1>1. Crawled(Files \ hidden)[f] = RowOf(f, f \in Files \ hidden)
  BY DEF Crawled
<1>2. CASE f \in hidden
  BY <1>1, <1>2 DEF RowTrue, RowOf
<1>3. CASE f \notin hidden
  BY <1>1, <1>3 DEF RowTrue, RowOf
<1> QED
  BY <1>2, <1>3

LEMMA StepBelieves ==
  ASSUME NEW L \in SUBSET Layouts, Steady(L), BelievedInv(L), [Next]_vars
  PROVE  BelievedInv(L)'
<1>1. IInv'
  BY StepPreserves DEF BelievedInv
<1>2. ASSUME NEW hidden \in SUBSET Untabled, Run(Files \ hidden) PROVE BelievedInv(L)'
  BY <1>1, <1>2, CrawlReadsTrue, BeginBelieves DEF Run
<1>3. ASSUME NEW hidden \in SUBSET Untabled, NEW missing, RunWithout(Files \ hidden, missing)
      PROVE  BelievedInv(L)'
  <2> DEFINE rows == [f \in Files |-> IF f \in missing THEN Absent
                                      ELSE Crawled(Files \ hidden)[f]]
  <2>1. \A f \in Files : rows[f] # Absent => RowTrue(rows[f], f)
    BY CrawlReadsTrue
  <2>2. Begin(rows)
    BY <1>3 DEF RunWithout
  <2> HIDE DEF rows
  <2> QED
    BY <1>1, <2>1, <2>2, BeginBelieves
<1>4. ASSUME RemapStep PROVE BelievedInv(L)'
  BY <1>1, <1>4, RemapStepBelieves
<1>5. ASSUME RouteStep PROVE BelievedInv(L)'
  BY <1>1, <1>5, RouteStepBelieves
<1>6. ASSUME NEW done \in SUBSET Files, Finish(done) PROVE BelievedInv(L)'
  BY <1>1, <1>6, FinishBelieves
<1>7. ASSUME Kill PROVE BelievedInv(L)'
  <2>1. RunEnds /\ UNCHANGED <<layout, remote, disk, saved>>
    BY <1>7 DEF Kill
  <2>2. BelievedIn(saved, L)' /\ CopiesKnown(L)' /\ NobodysStayFree(L)'
    BY <2>1 DEF BelievedInv, BelievedIn, Stored, Truthful, CopiesKnown, NobodysStayFree
  <2> QED
    BY <1>1, <2>1, <2>2, RunEndsBelieves
<1>8. ASSUME NEW l \in Layouts, SwitchLayout(l) PROVE BelievedInv(L)'
  BY <1>1, <1>8, WorldStepBelieves
<1>9. ASSUME NEW f \in Files, Publish(f) \/ Update(f) PROVE BelievedInv(L)'
  BY <1>1, <1>9, WorldStepBelieves
<1>10. ASSUME UNCHANGED vars PROVE BelievedInv(L)'
  <2>1. UNCHANGED <<layout, remote, disk, saved, phase, seen, mem, todo, toRoute, orphans,
                    moving, faults>>
    BY <1>10 DEF vars, run
  <2>2. BelievedIn(saved, L)' /\ BelievedIn(mem, L)' /\ CopiesKnown(L)' /\ NobodysStayFree(L)'
    BY <2>1 DEF BelievedInv, BelievedIn, Stored, Truthful, CopiesKnown, NobodysStayFree
  <2>3. SeenTrue' /\ TargetsFree(L)' /\ (layout \in L)'
    BY <2>1 DEF BelievedInv, SeenTrue, RowTrue, RowOf, TargetsFree, Stored, KeysOf, Reported,
                TargetOf, FileOf
  <2>4. MovesOwnPair'
    BY <2>1 DEF BelievedInv, MovesOwnPair, OldKey, NewKey, TargetOf, FileOf
  <2> QED
    BY <1>1, <2>2, <2>3, <2>4 DEF BelievedInv
<1> QED
  BY <1>2, <1>3, <1>4, <1>5, <1>6, <1>7, <1>8, <1>9, <1>10 DEF Next, RemapStep, RouteStep

(* What the comparison would skip is a file whose record matches OPAL's    *)
(* columns: what lies there is the current version, or is known to be of   *)
(* a file of the same name.                                                *)
LEMMA BelievedIsCurrent ==
  ASSUME NEW L \in SUBSET Layouts, Steady(L), BelievedInv(L)
  PROVE  NeverSilentlyForeign
<1> SUFFICES ASSUME NEW f \in Files, TakenForCurrent(f)
             PROVE  LET content == disk[PathOf[layout][f]] IN
                    \/ content \in {Copy(f, remote[f]), Torn}
                    \/ content \in Download /\ content.file \in Namesakes(f) \cap Confusable
  BY Zenon DEF NeverSilentlyForeign
<1> DEFINE key == KeyOf[layout][f]
           content == disk[PathOf[layout][f]]
           r == saved[key]
<1>1. /\ layout \in L /\ layout \in Layouts /\ key \in Keys
      /\ PathOf[layout][f] \in Paths
  BY LayoutAssumption DEF BelievedInv
<1>2. content \in Contents /\ remote[f] \in Versions
  BY <1>1 DEF BelievedInv, IInv, TypeOK, TakenForCurrent
<1>3. Verdict(FALSE, RowOf(f, TRUE), r, content) = "skip"
  BY DEF TakenForCurrent
<1>4. /\ ~FileChanged(RowOf(f, TRUE), r) /\ content # Nothing
      /\ ~NeedsContentVerification(RowOf(f, TRUE), r)
  BY <1>3 DEF Verdict
<1>5. r # NoRecord /\ ~r.unverified
  BY <1>4 DEF FileChanged, NeedsContentVerification
<1>6. r.modified = remote[f] /\ r.size = SizeOf[f][remote[f]]
  <2>1. remote[f] # Nil /\ SizeOf[f][remote[f]] # Nil
    <3>1. remote[f] \in Nat
      BY <1>2, VersionsAreOrdered
    <3>2. SizeOf[f][remote[f]] \in Nat
      BY <1>2, LayoutAssumption
    <3> QED
      BY <3>1, <3>2, MarksAssumption
  <2> QED
    BY <1>4, <2>1 DEF FileChanged, ColumnDiffers, RowOf
<1>7. Describes(r, f)
  BY <1>2, <1>6 DEF Describes
<1>8. Justified(r, content)
  BY <1>1, <1>5 DEF BelievedInv, BelievedIn, Stored
<1>9. /\ content # Foreign
      /\ content \in Download =>
           IF content.file = f THEN content.version >= remote[f]
                               ELSE content.file \in Confusable
  BY <1>5, <1>6, <1>7, <1>8 DEF Justified
<1>10. content \in Download \/ content = Torn
  BY <1>2, <1>4, <1>9 DEF Contents
<1>11. CASE content \in Download
  <2>1. /\ NameOf[KeyOf[layout][content.file]] = NameOf[KeyOf[layout][f]]
        /\ remote[content.file] \in Versions /\ content.version <= remote[content.file]
    <3>1. CopiesKnown(L)
      BY DEF BelievedInv
    <3> QED
      BY <1>1, <1>11, <3>1, Zenon DEF CopiesKnown
  <2>2. content.file \in Files /\ content.version \in Versions
    BY <1>11 DEF Download
  <2>3. CASE content.file = f
    <3>1. content.version \in Nat /\ remote[f] \in Nat
      BY <1>2, <2>2, VersionsAreOrdered
    <3>2. content.version >= remote[f] /\ content.version <= remote[f]
      BY <1>9, <1>11, <2>1, <2>3
    <3>3. content.version = remote[f]
      BY <3>1, <3>2
    <3>4. content = [file |-> content.file, version |-> content.version]
      BY <1>11 DEF Download
    <3> QED
      BY <2>3, <3>3, <3>4 DEF Copy
  <2>4. CASE content.file # f
    BY <1>9, <1>11, <2>1, <2>2, <2>4 DEF Namesakes
  <2> QED
    BY <2>3, <2>4
<1> QED
  BY <1>10, <1>11

(* While the settings stay among steady layouts, nothing the next run      *)
(* would leave alone is a file of the user's, an older version or a file   *)
(* of another name: for any files, such layouts and changes between them,  *)
(* and any number of killed, failed and incomplete runs.                   *)
THEOREM NothingForeignIsBelieved ==
  ASSUME NEW L \in SUBSET Layouts, Steady(L)
  PROVE  Spec /\ layout \in L => []NeverSilentlyForeign
<1>1. Init /\ layout \in L => BelievedInv(L)
  BY InitBelieves
<1>2. BelievedInv(L) /\ [Next]_vars => BelievedInv(L)'
  BY StepBelieves
<1>3. BelievedInv(L) => NeverSilentlyForeign
  BY BelievedIsCurrent
<1> QED
  BY <1>1, <1>2, <1>3, PTL DEF Spec

=============================================================================
