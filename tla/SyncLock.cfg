SPECIFICATION FairLockSpec
CONSTANTS
  Procs = {1, 2, 3}
  MaxCrashes = 1
  NoFile = NoFile
INVARIANTS
  ExclusiveUncontended
  HolderNamed
PROPERTIES
  StaleLockReclaimed
  AcquireReturns
