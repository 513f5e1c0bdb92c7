SPECIFICATION UpdaterSpec
CONSTANTS
  Processes = {p1, p2}
  Clicks = {c1, c2}
  Versions <- SomeVersions
  First <- FirstVersion
  Text = Text
  Nil = Nil
  MaxClicks = 3
  MaxReleases = 1
  MaxStarts = 3
  MaxFaults = 1
CHECK_DEADLOCK FALSE
INVARIANTS
  LaunchedIsVerified
