SPECIFICATION Spec
CONSTANTS
  a1 = a1
  a2 = a2
  b1 = b1
  CourseA = CourseA
  CourseB = CourseB
  Files = {a1, a2, b1}
  Keys <- AllKeys
  Paths <- AllPaths
  Names = {"U01.pdf"}
  Courses = {CourseA, CourseB}
  Layouts <- AllLayouts
  Switches <- SwitchTable
  KeyOf <- KeyTable
  PathOf <- PathTable
  UnroutedOf <- UnroutedTable
  NameOf <- OneName
  OldPathOf <- OldPathTable
  CourseOf <- CourseTable
  KeyCourseOf <- KeyCourseTable
  NoCourse = NoCourse
  SizeOf <- SizeTable
  Untabled = {b1}
  FiledByHand <- FiledPaths
  MaxVersion = 2
  MaxFaults = 1
  Nothing = Nothing
  Torn = Torn
  Foreign = Foreign
  Nil = Nil
  NoRecord = NoRecord
  Absent = Absent
  NoMove = NoMove
INVARIANTS
  HistoryKept
  NeverSilentlyForeign
PROPERTIES
  NothingLost
