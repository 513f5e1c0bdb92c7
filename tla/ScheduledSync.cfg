SPECIFICATION FairSpec
CONSTANTS
  DayLength = 2
  MaxTime = 3
  Retries = 1
  HistorySize = 1
  MaxRuns = 2
  MaxRefused = 1
  MaxOthers = 2
  MaxKills = 1
  None = None
CHECK_DEADLOCK FALSE
INVARIANTS
  OneSyncADay
  DismissedWasSeen
PROPERTIES
  TurnedAwayOnlyIfDone
  EveryRunReports
