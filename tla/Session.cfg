\* Two runs in two processes, one cancellation, one fault.
SPECIFICATION Spec
CONSTANTS
  preview = preview  command = command  gui = gui  cli = cli
  Runs = {preview, command}
  Processes = {gui, cli}
  Process <- MCProcess
  Gui = gui
  Kinds <- MCKinds
  Threads <- MCThreads
  Cancels = {c1}
  MaxFaults = 1
  Nobody = Nobody
CHECK_DEADLOCK FALSE
INVARIANTS
  PhaseExclusive
  NothingLeftOpen
PROPERTIES
  NoNeedlessLogin
