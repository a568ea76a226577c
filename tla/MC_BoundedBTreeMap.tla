------------------------- MODULE MC_BoundedBTreeMap -------------------------
(* Model-checking instance of BoundedBTreeMap: four keys, two values, and  *)
(* every bound from 0 (nothing may ever be inserted) to 3, below the key   *)
(* count so that full maps with a free key exist.                          *)
EXTENDS BoundedBTreeMap

MCKeys == {1, 2, 3, 4}
MCBoundValues == {0, 1, 2, 3}
=============================================================================
