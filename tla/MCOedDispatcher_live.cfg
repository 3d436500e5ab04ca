CONSTANTS
  Caller = {c1}
  Group = {"take", "read"}
  Templates <- MCShared
  Consume = {"take"}
  Finite = {"take", "read"}
  Object <- MCObject
  Wild = "_"
  BATCH_SZ = 2
  PipeSize = 8
  MaxCalls = 1
SPECIFICATION Spec
PROPERTIES  FiniteGroupAnswered StopReturns
CHECK_DEADLOCK FALSE
