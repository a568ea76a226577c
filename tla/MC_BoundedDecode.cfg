CONSTANTS
  Inputs <- MCInputs
  BoundValues = {0, 1, 2, 64}
  WireBytes = {1, 2}
  Pending = Pending
SPECIFICATION Spec
\* decode is a function call that returns: every behaviour ends in phase "done".
CHECK_DEADLOCK FALSE
INVARIANTS
  TypeOK
  RoundTrip
PROPERTIES
  DecodeRefinesSpec
