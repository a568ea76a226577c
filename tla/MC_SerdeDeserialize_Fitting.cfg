\* Two keys so a text map can repeat one; up to three pairs, one more than
\* the largest bound; bounds 0 to 2.
CONSTANTS
  Keys = {k1, k2}
  Values = {v1, v2}
  BoundValues = {0, 1, 2}
  MaxEntries = 3
  Malformed = Malformed
  None = None
  Pending = Pending
SPECIFICATION Spec
\* deserialize returns: every behaviour ends in phase "done".
CHECK_DEADLOCK FALSE
INVARIANT
  FittingMapAccepted
