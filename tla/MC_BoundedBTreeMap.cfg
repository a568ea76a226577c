CONSTANTS
  Keys <- MCKeys
  Values = {v1, v2}
  BoundValues <- MCBoundValues
  MaxIterLen = 4
  HonestExactSize = TRUE
  NoMap = NoMap
  None = None
SPECIFICATION Spec
INVARIANTS
  TypeOK
  BoundRespected
  IsFullPredictsInsert
PROPERTIES
  TryInsertIsBoundedInsert
