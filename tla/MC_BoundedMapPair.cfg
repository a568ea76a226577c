\* Two maps over keys {1,2} and values {1,2}, bounds 0..2 each.
CONSTANTS
  Keys <- MCKeys
  Values <- MCValues
  BoundValues <- MCBoundValues
  MaxIterLen = 2
  HonestExactSize = TRUE
  NoMap = NoMap
  None = None

SPECIFICATION Spec

PROPERTIES
  MoveKeepsContent
