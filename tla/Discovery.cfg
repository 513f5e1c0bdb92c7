SPECIFICATION Spec
CONSTANTS
  c1 = c1
  c2 = c2
  c3 = c3
  Shared = Shared
  None = None
  Modes = {"0", "1", "verify", "2", "names"}
  Listings <- MCListings
  Wanted = {1, 2, 3}
  SectionsOf <- MCSectionsOf
  RowsOf <- MCRowsOf
  Workers = 2
  PageIds = {Shared, p1, p2, p3}
  MaxFaults = 3
  MaxStrays = 1
INVARIANTS
  ListedIsAnswered
  SharedPageSurvives
