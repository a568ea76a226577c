--------------------------- MODULE MC_BoundedDecode ---------------------------
(* Decode instance: every length prefix below (canonical encodings of 0..3   *)
(* and of 64, which takes two bytes, of 2^30, which takes five, and          *)
(* malformed ones: truncated, non-canonical, oversized for a u32, or none   *)
(* at all) followed by every payload of up to five bytes from {1, 2}.      *)
(* Bounds 0, 1, 2 and 64 put a declared length below, at and above the     *)
(* bound, with one- and two-byte prefixes on both sides.                   *)
EXTENDS BoundedDecode

MCPrefixes ==
  { CompactEncode(n) : n \in {0, 1, 2, 3, 64, 2 ^ 30} }
    \cup { <<>>, <<1>>, <<1, 0>>, <<7>> }

MCPayloads == UNION { [1 .. n -> {1, 2}] : n \in 0 .. 5 }

MCInputs == { p \o q : p \in MCPrefixes, q \in MCPayloads }
=============================================================================
