CONSTANTS
  r = r
  t = t
  i = i
  Get = {r, t}
  Take = {t}
  IfExists = {}
  Timeout <- MCTimeout
  Item = {i}
  Match <- MCBoth
  Loose <- MCBoth
  FOREVER <- MCFOREVER
  MaxLate = 2
  MaxReleases = 2
SPECIFICATION Spec
INVARIANT ContextInOnePlace
PROPERTIES GetAnswered ItemThereIsFound
CHECK_DEADLOCK FALSE
