CONSTANTS
  Worker = {w1, w2}
  Lid = {l1, l2}
  Tid = {t1, t2}
  NoTxn = NoTxn
  d1 = d1
  d2 = d2
  tmpl = tmpl
  wild = wild
  Data <- MCData
  Unindexable <- MCUnindexable
  Template <- MCTemplate
  Matches <- MCMatches
  NoKeys = {wild}
  Query <- MCQuery
  Dur <- Forever
  Expected <- MCExpected
  ReapCommit = 1
  HalfInt = 1
  MaxTime = 1
SPECIFICATION Spec
VIEW View
SYMMETRY Symmetry
INVARIANTS TypeOK LockHasOwner CallsConsistent
PROPERTIES VisibleIsAnnounced ImplementsTupleSpace
