---------------------------- MODULE EncodedLenBound ----------------------------
(***************************************************************************)
(* MaxEncodedLen for BoundedBTreeMap<K, V, S> (codec_impl! in              *)
(* bounded_btree_map.rs) against the length of the derived Encode.        *)
(*                                                                         *)
(* usize is UsizeBits wide.  TLC's integers stop at 2^31 - 1, so the model *)
(* uses a 30-bit usize: Self::bound() = S::get() as usize is then exact   *)
(* for every bound below 2^30, and the products that overflow a 32- or    *)
(* 64-bit usize overflow here at small, checkable sizes.                  *)
(*                                                                         *)
(* bound is S::get(); kLen and vLen are K::max_encoded_len() and          *)
(* V::max_encoded_len() (every key and value encodes in at most that many *)
(* bytes; the model takes the worst case, each entry at its maximum);     *)
(* n is the number of entries of the map being encoded.                   *)
(***************************************************************************)
EXTENDS ScaleCodec

CONSTANTS
  UsizeBits,   \* width of usize
  BoundValues, \* the values S::get() may have
  ElemLens,    \* the values K::max_encoded_len() and V::max_encoded_len() may have
  Sizes        \* the map sizes encoded (those up to the bound are used)

UsizeMax == 2 ^ UsizeBits - 1

ASSUME BoundValues \subseteq 0 .. UsizeMax /\ ElemLens \subseteq 0 .. UsizeMax

VARIABLES bound, kLen, vLen, n

vars == <<bound, kLen, vLen, n>>

\* Fault: a plain + (which wraps in a release build).
SaturatingAddPlain(a, b) == a + b

\* usize::saturating_add and usize::saturating_mul, written so that no
\* intermediate value exceeds 2 * UsizeMax.
SaturatingAdd(a, b) == IF a + b > UsizeMax THEN UsizeMax ELSE a + b

\* Fault: checked_mul(..).unwrap_or_default(), i.e. 0 on overflow.
SaturatingMulOrZero(a, b) == IF b # 0 /\ a > UsizeMax \div b THEN 0 ELSE a * b

SaturatingMul(a, b) == IF b # 0 /\ a > UsizeMax \div b THEN UsizeMax ELSE a * b

\* Compact(x).encoded_size(): the length of CompactEncode(x), by mode.
CompactSize(x) ==
  CASE x < 2 ^ 6  -> 1
    [] x < 2 ^ 14 -> 2
    [] x < 2 ^ 30 -> 4
    [] OTHER      -> 5

ASSUME \A x \in {0, 63, 64, 2 ^ 14 - 1, 2 ^ 14} : CompactSize(x) = Len(CompactEncode(x))

\* max_encoded_len(): bound * (K + V) + |Compact(S::get())|, saturating.
MaxEncodedLen(b, kl, vl) ==
  SaturatingAdd(SaturatingMul(b, SaturatingAdd(kl, vl)), CompactSize(b))

\* Length of the derived Encode of a map with m entries of kl + vl bytes:
\* the Compact<u32> length prefix and then the entries.  TooLong stands for
\* every length above UsizeMax, which no buffer in memory can have.
TooLong == UsizeMax + 1

EncodedLen(m, kl, vl) ==
  IF kl + vl # 0 /\ m > (UsizeMax - CompactSize(m)) \div (kl + vl)
    THEN TooLong
    ELSE CompactSize(m) + m * (kl + vl)

\* Map sizes a BoundedBTreeMap<K, V, S> can have.
SizesWithin(b) == {x \in Sizes \cup {b} : x <= b}

Init ==
  /\ bound \in BoundValues
  /\ kLen \in ElemLens
  /\ vLen \in ElemLens
  /\ n = 0

\* The held map grows or shrinks (try_insert, remove, ...) and is encoded.
Resize ==
  /\ n' \in SizesWithin(bound)
  /\ UNCHANGED <<bound, kLen, vLen>>

Next == Resize

Spec == Init /\ [][Next]_vars

-----------------------------------------------------------------------------
TypeOK ==
  /\ bound \in BoundValues
  /\ kLen \in ElemLens /\ vLen \in ElemLens
  /\ n \in 0 .. bound
  /\ MaxEncodedLen(bound, kLen, vLen) \in 0 .. UsizeMax

\* max_encoded_len() is an upper bound on the encoding of every map the
\* type can hold: a buffer of max_encoded_len() bytes fits the encoding of
\* any map within the bound, also when bound * (K + V) overflows usize and
\* the arithmetic saturates (an encoding longer than usize::MAX cannot be
\* produced at all).
MaxEncodedLenCovers ==
  EncodedLen(n, kLen, vLen) # TooLong =>
    EncodedLen(n, kLen, vLen) <= MaxEncodedLen(bound, kLen, vLen)
=============================================================================
