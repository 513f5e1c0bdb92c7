SPECIFICATION FairSpec
CONSTANTS
  r = r
  a = a
  b = b
  c = c
  d = d
  e = e
  g = g
  Sections = {r, a, b, c, d, e, g}
  Root = r
  NonFile = {e}
  Files <- AllFiles
  First <- FirstPages
  More <- RestPages
  Prose <- ProsePages
  Seed <- Tree
  MaxPages = 5
  Workers = 2
  TabIds = {t1, t2, t3}
  MaxFaults = 4
INVARIANTS
  OnlyKnownLosses
  TabsOwned
PROPERTIES
  ImplementsCourseWalk
  Termination
