\* Three files of one section, two workers, one thing that goes wrong.
SPECIFICATION LadderSpec
CONSTANTS
  NumJobs = 3
  Configured = 2
  Default = 3
  section = section  instance = instance
  Pages = {section, instance}
  PagesOf <- MCPagesOf
  ViaClick = {1, 2, 3}
  Beyond <- MCBeyond
  Expanded = {instance}
  Capacity = 2
  MaxFaults = 1
CHECK_DEADLOCK FALSE
INVARIANTS
  ExactlyOnce
  NoSendOnClosedChannel
  SearchesItsListing
  NoWorkerOutrunByNeighbours
PROPERTIES
  ImplementsPool
  Termination
