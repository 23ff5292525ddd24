SPECIFICATION MonitoringSpec
CONSTANTS
  n1 = n1
  n2 = n2
  m1 = m1
  m2 = m2
  p1 = p1
  a1 = a1
  a2 = a2
  c1 = c1
  None = None
  Nodes = {n1, n2}
  Monitors <- TwoMonitors
  Pollers = {p1}
  Readers = {}
  Addrs = {a1, a2}
  Containers = {c1}
  NodeOf <- MCNodeOf
  FirstAddr <- MCFirstAddr
  Moves <- MCMoves
  Shown = {"ready", "notReady"}
SYMMETRY Symmetry
INVARIANTS
  MonitoringTypeOK
  RowsAgree
PROPERTY OnlyOwnRows
