SPECIFICATION Spec
CONSTANTS
  Put = {p1}
  Take = {}
  Reads = {r1}
  Exec = {}
  NoOp = NoOp
  MaxOps = 1
  MaxUpt = 1
  MaxResults = 1
  MaxParts = 1
PROPERTIES
  LostCallsAreTold
CHECK_DEADLOCK FALSE
