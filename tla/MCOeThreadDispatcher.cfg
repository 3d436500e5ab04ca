CONSTANTS
  Worker = {w1, w2}
  Task = {t1, t2, t3}
  TQUIT = TQUIT
  DIAG = DIAG
  MaxDiag = 1
SPECIFICATION Spec
INVARIANTS NoLostWakeup TaskInOnePlace StopDrains
PROPERTIES StopReturns EarlyTasksRun
CHECK_DEADLOCK FALSE
