SPECIFICATION FairSpec
CONSTANTS
  dotted = dotted
  dashed = dashed
  Kinds = {"Deployment"}
  Names = {dotted, dashed}
  Dashed <- MCDashed
  Specs = {v1, v2}
  Absent = Absent
  Callers = {c1, c2}
  MaxAdrift = 1
INVARIANT TypeOK
PROPERTIES
  RefinesStore
  DottedUntouched
  CallReturns
