SPECIFICATION Spec
CONSTANTS
  Copies = {installed, other, scratch}
  Stable = {installed, other}
  Times = {six, nine}
  DefaultTime = six
  Requests = {r1, r2}
  None = None
  MaxRequests = 3
  MaxEdits = 1
  MaxRemovals = 2
CHECK_DEADLOCK FALSE
INVARIANTS
  AskedIsRegistered
  PageIsTrue
