SPECIFICATION Spec
CHECK_DEADLOCK FALSE
CONSTANTS
  p1 = p1
  p2 = p2
  event = event
  worker = worker
  other = other
  Procs = {p1, p2}
  Threads = {event, worker, other}
  ProcOf <- MCProcOf
  NoThread = NoThread
  NoFile = NoFile
  Installed = Installed
  MaxFaults = 0
  Tab = p1
  EventThread = event
  Worker = worker
  Inputs <- AllInputs
  MaxClicks = 1
INVARIANT Ja3StartsWithVersion
