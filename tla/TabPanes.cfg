SPECIFICATION FairSpec
CHECK_DEADLOCK FALSE
CONSTANTS
  p1 = p1
  p2 = p2
  event = event
  worker = worker
  other = other
  Procs = {p1, p2}
  Threads = {event, worker, other}
  ProcOf <- MCProcOf
  NoThread = NoThread
  NoFile = NoFile
  Installed = Installed
  MaxFaults = 1
  Tab = p1
  EventThread = event
  Worker = worker
  Inputs <- MCInputs
  MaxClicks = 2
INVARIANTS TabTypeOK LoadedOnce CallsAreLinked
PROPERTIES ButtonsComeBack LoadsWhenUnhindered
