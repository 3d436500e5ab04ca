CONSTANTS
  Caller = {c1, c2}
  Group = {"take", "read"}
  Templates <- MCTemplates
  Consume = {"take"}
  Finite = {"take"}
  Object <- MCObject
  Wild = "_"
  BATCH_SZ = 2
  PipeSize = 8
  MaxCalls = 1
INIT Init
NEXT Next
INVARIANTS TypeOK BytesMatchItems HandlerRunsOnce TimersAreLive
CHECK_DEADLOCK FALSE
