\* config.yaml in two tabs and a sync, one fault.
SPECIFICATION SettingsSpec
CONSTANTS
  t1 = t1  t2 = t2  analysis = analysis  algebra = algebra
  Tabs <- MCTabs
  Names <- MCNames
  Courses <- MCCourses
  Matches <- MCMatches
  Rank <- MCRank
  BadNames = {}
  Typed = {4}
  Defaults <- MCDefaults
  InitialFiles <- MCInitialFiles
  DirCount = 4
  Parent <- MCParent
  Generic <- MCGeneric
  Skipped = {}
  Unreadable = {}
  Modified <- MCModified
  Score <- MCScore
  MaxDepth = 3  MaxDirs = 3
  MinScore = 75  MinMargin = 8  TieBand = 10  MinAgeGap = 14
  MaxEdits = 1  MaxSaves = 2  MaxFaults = 1
  Unset = Unset  Absent = Absent  Empty = Empty  Missing = Missing  Broken = Broken  Nothing = Nothing
SYMMETRY TabSymmetry
CHECK_DEADLOCK FALSE
INVARIANTS
  TornIsRecoverable
PROPERTIES
  UntouchedKept
  LayoutChangeIsAnnounced
