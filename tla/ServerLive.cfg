SPECIFICATION StuckRuntimeSpec
CONSTANTS
  c1 = c1
  c2 = c2
  a1 = a1
  a2 = a2
  k1 = k1
  k2 = k2
  Callers = {c1, c2}
  Addrs = {a1}
  Conns = {k1, k2}
  MaxServers = 2
  Grace = 1
  StopTimeout = 2
  NoAddr = NoAddr
  NoCaller = NoCaller
PROPERTIES StopTerminates SignalledServerEnds
