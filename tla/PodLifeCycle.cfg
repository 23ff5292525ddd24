SPECIFICATION FairSpec
CONSTANTS
  Pods = {app, dns}
  System = {dns}
  Phases = {Pending, Running}
  None = None
  MaxDeltas = 2
INVARIANTS
  TypeOK
  RowsFollowStore
PROPERTY DeletionRecorded
