SPECIFICATION Spec
CONSTANTS
  c1 = c1
  c2 = c2
  None = None
  Containers <- TwoContainers
  Readers = {r1}
  MaxTime = 3
SYMMETRY Symmetry
INVARIANTS
  TypeOK
  TestHolds
PROPERTY FiguresForward
