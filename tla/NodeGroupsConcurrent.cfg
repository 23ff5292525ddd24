SPECIFICATION Spec
CONSTANTS
  n1 = n1
  n2 = n2
  g1 = g1
  g2 = g2
  c1 = c1
  c2 = c2
  Nodes <- TwoNodes
  Groups <- TwoGroups
  Callers <- TwoCallers
  EmptyId = EmptyId
  Removable = {}
  MaxAdrift = 1
SYMMETRY Symmetry
VIEW Decisive
CONSTRAINT SmallCalls
INVARIANTS
  TypeOK
  FreshCopies
PROPERTY RefinesMembership
