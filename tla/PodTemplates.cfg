SPECIFICATION Spec
CONSTANTS
  web = web
  job = job
  n1 = n1
  n2 = n2
  g1 = g1
  x = x
  y = y
  None = None
  Malformed = Malformed
  Apps = {web, job}
  Nodes = {n1, n2}
  Groups = {g1}
  Requests <- MCRequests
  Foreign <- MCForeign
  HalfRange = 16
  MaxPort = 10
  Short = {502}
INVARIANTS
  TypeOK
  PlacementShown
  VolumesShown
  NumbersShown
  ListingsAgree
  OwnListable
