CONSTANTS
  a = a
  b = b
  Wild = Wild
  Field = {a, b, Wild}
  Tuples <- MCTuples
  Maps <- MCMaps
SPECIFICATION Spec
INVARIANTS NoFalseNegative MatchIsByRule
CHECK_DEADLOCK FALSE
