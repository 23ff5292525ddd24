SPECIFICATION FairSpec
CONSTANTS
  n1 = n1
  m1 = m1
  m2 = m2
  p1 = p1
  p2 = p2
  r1 = r1
  None = None
  Nodes = {n1}
  Monitors = {m1, m2}
  Pollers = {p1, p2}
  Readers = {r1}
INVARIANTS
  ReadersSeeBuilt
  NoOrphanCollectors
  RegisteredRunning
PROPERTIES
  LockReleased
  GetReturns
  NotReadyForgotten
  ReadyMonitored
