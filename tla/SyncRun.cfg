SPECIFICATION FairBulkSpec
CONSTANTS
  a = a
  b = b
  section = section
  Keys = {a, b}
  Sections = {section}
  SectionOf <- OneSection
  MinGroup = 2
  Paths = {a, b}
  PathOf <- OwnPaths
  MaxVersion = 2
  SizeOf <- SizesOfTwo
  Columns <- ObservedColumns
  Concurrency = 2
  MaxFaults = 1
  TornWrites = TRUE
  Nothing = Nothing
  Torn = Torn
  Foreign = Foreign
  Nil = Nil
  NoRecord = NoRecord
  Absent = Absent
  Unreadable = Unreadable
INVARIANTS
  NeverSilentlyOlder
  RecordNotAheadOfFile
  StatsAccounted
PROPERTIES
  NoNeedlessRewrite
  EventuallyCurrent
