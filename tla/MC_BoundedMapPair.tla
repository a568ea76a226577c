--------------------------- MODULE MC_BoundedMapPair ---------------------------
EXTENDS BoundedMapPair

MCKeys == {1, 2}
MCValues == {1, 2}
MCBoundValues == {0, 1, 2}
=============================================================================
