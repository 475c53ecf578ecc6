SPECIFICATION Spec
CONSTANTS
  c1 = c1
  c2 = c2
  a1 = a1
  a2 = a2
  k1 = k1
  k2 = k2
  Callers = {c1, c2}
  Addrs = {a1, a2}
  Conns = {k1, k2}
  MaxServers = 2
  Grace = 2
  StopTimeout = 3
  NoAddr = NoAddr
  NoCaller = NoCaller
SYMMETRY Symmetry
INVARIANTS
  TypeOK
  StatusIsTruth
  NoOrphanServer
  CompletionMeansQuiet
  StopNeverTimesOut
PROPERTIES
  StoppedMeansFree
  ControlSpec
  ImmediateRestart
