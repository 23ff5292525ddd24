SPECIFICATION FairSpec
CONSTANTS
  Pods = {app}
  System = {}
  Phases = {Pending, Running}
  None = None
  MaxDeltas = 3
PROPERTY PhaseRecorded
