CONSTANTS
  Session = {s1}
  Rb = {s1}
  Tid = {t1, t2}
  MaxMsgs = 4
  MaxBatch = 2
  NoSession = NoSession
  NoTid = NoTid
SPECIFICATION Spec
INVARIANTS TypeOK SessionOutlivesItsUsers FreedIsLeftAlone NoRollbackOfCommitted
PROPERTIES SessionsEnd OrphansAreRolledBack
CHECK_DEADLOCK FALSE
