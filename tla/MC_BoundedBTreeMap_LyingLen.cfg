CONSTANTS
  Keys <- MCKeys
  Values = {v1, v2}
  BoundValues <- MCBoundValues
  MaxIterLen = 4
  HonestExactSize = FALSE
  NoMap = NoMap
  None = None
SPECIFICATION Spec
INVARIANT
  BoundRespected
