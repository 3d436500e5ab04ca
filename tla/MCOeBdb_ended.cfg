CONSTANTS
  Worker = {w1, w2}
  Lid = {l1}
  Tid = {t1}
  NoTxn = NoTxn
  d1 = d1
  d2 = d2
  tmpl = tmpl
  wild = wild
  Data <- MCData
  Unindexable <- MCUnindexable
  Template <- MCTemplate
  Matches <- MCMatches
  NoKeys = {wild}
  Query <- MCQuery
  Dur <- Forever
  Expected <- MCExpected
  ReapCommit = 1
  HalfInt = 8
  MaxTime = 1
SPECIFICATION Spec
INVARIANTS NoItemOfFinishedTxn
