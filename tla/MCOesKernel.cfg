SPECIFICATION Spec
CONSTANTS
  Put = {p1}
  Take = {t1}
  Reads = {}
  Exec = {e1}
  NoOp = NoOp
  MaxOps = 2
  MaxUpt = 2
  MaxResults = 2
  MaxParts = 1
INVARIANTS
  TypeOK
  FutureAwaitsAnswer
  UptComesLast
  CommitIsWhole
  ThrownWithCause
PROPERTIES
  CallsAreAnswered
CHECK_DEADLOCK FALSE
