\* max_encoded_len against the encoded length, 30-bit usize.
CONSTANTS
  UsizeBits = 30
  BoundValues <- MCBoundValues
  ElemLens <- MCElemLens
  Sizes <- MCSizes

SPECIFICATION Spec

INVARIANTS
  TypeOK
  MaxEncodedLenCovers
