SPECIFICATION FairPageSpec
CONSTANTS
  Viewers = {1, 2}
  Capacity = 1
  MaxEvents = 2
  MaxJobs = 2
  MaxPresses = 1
  Nothing = Nothing
CHECK_DEADLOCK FALSE
INVARIANTS
  StreamIsOwed
PROPERTIES
  EndReachesPage
  RunIsNoticed
