------------------------------ MODULE ScaleCodec ------------------------------
(***************************************************************************)
(* The parts of the SCALE codec that BoundedBTreeMap's Decode / Encode /   *)
(* MaxEncodedLen rely on (parity-scale-codec is not part of this           *)
(* repository): the Compact<u32> length prefix and the BTreeMap<u8, u8>    *)
(* wire format, a compact length followed by the key and value byte of     *)
(* every entry in ascending key order.                                     *)
(* A byte stream is a sequence of integers in 0..255.                      *)
(***************************************************************************)
EXTENDS Naturals, Sequences, FiniteSets, TLC

\* n as k little-endian bytes, and back.
LE(n, k) == [i \in 1 .. k |-> (n \div (2 ^ (8 * (i - 1)))) % 256]

RECURSIVE FromLE(_)
FromLE(s) == IF s = <<>> THEN 0 ELSE Head(s) + 256 * FromLE(Tail(s))

\* Compact<u32>::encode: the two low bits of the first byte give the mode.
CompactEncode(n) ==
  CASE n < 2 ^ 6  -> <<n * 4>>
    [] n < 2 ^ 14 -> LE(n * 4 + 1, 2)
    [] n < 2 ^ 30 -> LE(n * 4 + 2, 4)
    [] OTHER      -> <<3>> \o LE(n, 4)

\* Compact<u32>::decode reads the first byte b0, then (one read) the number
\* of further bytes its mode asks for; mode 3 with any upper bit set is out
\* of range for a u32 and reads nothing more.
CompactOversized(b0) == b0 % 4 = 3 /\ b0 \div 4 # 0

CompactExtra(b0) ==
  CASE b0 % 4 = 0 -> 0
    [] b0 % 4 = 1 -> 1
    [] b0 % 4 = 2 -> 3
    [] OTHER      -> IF CompactOversized(b0) THEN 0 ELSE 4

CompactValue(b0, rest) ==
  IF b0 % 4 = 3 THEN FromLE(rest) ELSE FromLE(<<b0>> \o rest) \div 4

\* Each mode rejects values a shorter mode could have carried.
CompactInRange(b0, rest) ==
  LET v == CompactValue(b0, rest)
  IN CASE b0 % 4 = 0 -> TRUE
       [] b0 % 4 = 1 -> v >= 2 ^ 6 /\ v < 2 ^ 14
       [] b0 % 4 = 2 -> v >= 2 ^ 14
       [] OTHER      -> ~CompactOversized(b0) /\ v >= 2 ^ 30

\* Encode for BTreeMap<u8, u8>: compact length, then entries by key.
RECURSIVE EntryBytes(_, _)
EntryBytes(m, ks) ==
  IF ks = {} THEN <<>>
  ELSE LET k == CHOOSE x \in ks : \A y \in ks : x <= y
       IN <<k, m[k]>> \o EntryBytes(m, ks \ {k})

EncodeMap(m) == CompactEncode(Cardinality(DOMAIN m)) \o EntryBytes(m, DOMAIN m)

\* Outcome of decoding a Compact<u32> that starts after byte i of s, read
\* the way Compact<u32>::decode reads a &[u8].
DecodeCompactAt(s, i) ==
  IF i + 1 > Len(s) THEN [ok |-> FALSE, err |-> "eof", next |-> i, n |-> 0]
  ELSE LET b0 == s[i + 1]
           x  == CompactExtra(b0)
           rest == SubSeq(s, i + 2, i + 1 + x)
       IN CASE CompactOversized(b0) -> [ok |-> FALSE, err |-> "range", next |-> i + 1, n |-> 0]
            [] i + 1 + x > Len(s)   -> [ok |-> FALSE, err |-> "eof", next |-> i + 1, n |-> 0]
            [] ~CompactInRange(b0, rest) ->
                 [ok |-> FALSE, err |-> "range", next |-> i + 1 + x, n |-> 0]
            [] OTHER -> [ok |-> TRUE, err |-> "none", next |-> i + 1 + x,
                         n |-> CompactValue(b0, rest)]

\* BTreeMap<u8, u8>::decode of the stream s: collect n (key, value) pairs,
\* a later pair for the same key overwriting an earlier one.
RECURSIVE DecodeEntriesAt(_, _, _, _)
DecodeEntriesAt(s, i, count, m) ==
  IF count = 0 THEN [ok |-> TRUE, err |-> "none", next |-> i, map |-> m]
  ELSE IF i + 2 > Len(s)
    THEN [ok |-> FALSE, err |-> "eof", next |-> i, map |-> m]
    ELSE DecodeEntriesAt(s, i + 2, count - 1, (s[i + 1] :> s[i + 2]) @@ m)

DecodeBTreeMap(s) ==
  LET c == DecodeCompactAt(s, 0)
  IN IF ~c.ok THEN [ok |-> FALSE, err |-> c.err, next |-> c.next, map |-> <<>>]
     ELSE DecodeEntriesAt(s, c.next, c.n, <<>>)
=============================================================================
