CONSTANTS
  Worker = {w1, w2}
  Lid = {l1, l2}
  Tid = {t1}
  NoTxn = NoTxn
  d1 = d1
  d2 = d2
  tmpl = tmpl
  wild = wild
  Data <- OneData
  Unindexable = {}
  Template <- MCTemplate
  Matches <- MCMatches
  NoKeys = {wild}
  Query <- SmallQuery
  Dur <- MCDur
  Expected <- NoCount
  ReapCommit = 1
  HalfInt = 6
  MaxTime = 3
SPECIFICATION Spec
VIEW View
SYMMETRY Symmetry
PROPERTIES NoResurrection  ImplementsTupleSpace
