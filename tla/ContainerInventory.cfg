SPECIFICATION Spec
CONSTANTS
  s1 = s1
  s2 = s2
  s3 = s3
  c1 = c1
  c2 = c2
  a = a
  b = b
  Sandboxes = {s1, s2}
  Containers = {c1}
  Names = {a}
  PodOf <- MCPodOf
  NameOf <- OwnNames
  MaxCount = 2
INVARIANTS
  TypeOK
  DbAgrees
PROPERTIES
  PollAccurate
  NoFalseStop
  InspectedRecorded
