SPECIFICATION FairSpec
CONSTANTS
  Nodes = {n1, n2, n3}
  Groups = {g1}
  Callers = {c1}
  EmptyId = EmptyId
  Removable = {n3}
  MaxAdrift = 2
PROPERTIES
  AddOutcome
  RemoveOutcome
  UpdateOutcome
  MakeBeforeBreak
  CallReturns
