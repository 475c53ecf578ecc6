SPECIFICATION FairSpec
CONSTANTS
  r1 = r1
  r2 = r2
  r3 = r3
  Reqs = {r1, r2, r3}
  Cap = 1
CHECK_DEADLOCK FALSE
INVARIANTS
  TypeOK
  NoTunnelLost
PROPERTIES
  HandlersFinish
  ShutdownEndsTask
  GonePeerEndsTask
  NoTunnelOutlivesTask
  ServiceSpec
