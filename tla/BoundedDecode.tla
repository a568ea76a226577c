----------------------------- MODULE BoundedDecode -----------------------------
(***************************************************************************)
(* Decode for BoundedBTreeMap<u8, u8, S> (codec_impl! in                   *)
(* bounded_btree_map.rs), one Input::read call per step.                   *)
(*                                                                         *)
(* It reads the Compact<u32> length from the caller's &[u8], refuses a     *)
(* length above S::get(), and otherwise hands BTreeMap::decode a           *)
(* PrependCompactInput that replays the re-encoded length before the rest  *)
(* of the caller's input.  The inner decoder reads that length again and   *)
(* then one byte per key and per value.                                    *)
(*                                                                         *)
(* input/pos: the caller's slice and how much of it has been consumed.     *)
(* prep: the PrependCompactInput (encoded_len and read).                   *)
(* via: which Input the running compact decode reads, "raw" or "prep".     *)
(***************************************************************************)
EXTENDS ScaleCodec, FiniteSets

CONSTANTS
  Inputs,      \* the byte streams handed to decode
  BoundValues, \* the values S::get() may have
  WireBytes,   \* the key and value bytes of the maps whose encodings are in Inputs
  Pending      \* no result yet

VARIABLES bound, input, pos, prep, via, phase, byte, len, left, acc, result

vars == <<bound, input, pos, prep, via, phase, byte, len, left, acc, result>>

\* Every BTreeMap<u8, u8> over WireBytes.
WireMaps == UNION { [D -> WireBytes] : D \in SUBSET WireBytes }

Phases == {"len_b0", "len_rest", "limit", "entry_key", "entry_value", "done"}

\* <&[u8] as Input>::read: fails without consuming when too few bytes remain.
RawRead(k) ==
  IF pos + k <= Len(input)
    THEN [ok |-> TRUE, bytes |-> SubSeq(input, pos + 1, pos + k), pos |-> pos + k,
          read |-> prep.read]
    ELSE [ok |-> FALSE, bytes |-> <<>>, pos |-> pos, read |-> prep.read]

\* Fault: the inner decoder reading the caller's input directly, without the
\* length replayed in front of it.
PrependReadInnerOnly(k) == RawRead(k)

\* PrependCompactInput::read: serve what is left of encoded_len first, and
\* read the remainder of the buffer from the inner input.
PrependRead(k) ==
  LET rc   == IF prep.read < Len(prep.enc) THEN Len(prep.enc) - prep.read ELSE 0
      t    == IF k < rc THEN k ELSE rc
      head == SubSeq(prep.enc, prep.read + 1, prep.read + t)
      r    == RawRead(k - t)
  IN [ok |-> r.ok, bytes |-> head \o r.bytes, pos |-> r.pos, read |-> prep.read + t]

Read(k) == IF via = "raw" THEN RawRead(k) ELSE PrependRead(k)

\* Fault: refusing a length equal to the bound.
LimitExceededAtBound(n) == n >= bound

\* if len.0 > S::get() { return Err("BoundedBTreeMap exceeds its limit") }
LimitExceeded(n) == n > bound

Fail(err) ==
  /\ phase' = "done"
  /\ result' = [status |-> err, map |-> <<>>]

\* After a read: the cursor of the caller's input and of the prepend.
Advance(r) ==
  /\ pos' = r.pos
  /\ prep' = [prep EXCEPT !.read = r.read]

Init ==
  /\ bound \in BoundValues
  /\ input \in Inputs
  /\ pos = 0
  /\ prep = [enc |-> <<>>, read |-> 0]
  /\ via = "raw"
  /\ phase = "len_b0"
  /\ byte = 0
  /\ len = 0
  /\ left = 0
  /\ acc = <<>>
  /\ result = Pending

\* Compact<u32>::decode, first byte (Input::read_byte).
ReadLenFirst ==
  LET r == Read(1)
  IN /\ phase = "len_b0"
     /\ Advance(r)
     /\ IF r.ok
          THEN /\ byte' = r.bytes[1]
               /\ phase' = "len_rest"
               /\ UNCHANGED result
          ELSE /\ Fail("eof") /\ UNCHANGED byte
     /\ UNCHANGED <<bound, input, via, len, left, acc>>

\* Compact<u32>::decode, the remaining bytes of the mode in one read, then
\* the range check.  The outer decode goes on to the bound check; the inner
\* one (BTreeMap::decode) to the entries.
ReadLenRest ==
  LET r == Read(CompactExtra(byte))
      n == CompactValue(byte, r.bytes)
  IN /\ phase = "len_rest"
     /\ CASE CompactOversized(byte) ->
               Fail("range") /\ UNCHANGED <<pos, prep, len, left>>
          [] ~r.ok ->
               Fail("eof") /\ Advance(r) /\ UNCHANGED <<len, left>>
          [] ~CompactInRange(byte, r.bytes) ->
               Fail("range") /\ Advance(r) /\ UNCHANGED <<len, left>>
          [] via = "raw" ->
               /\ Advance(r) /\ len' = n /\ phase' = "limit"
               /\ UNCHANGED <<left, result>>
          [] OTHER ->
               /\ Advance(r) /\ left' = n /\ phase' = "entry_key"
               /\ UNCHANGED <<len, result>>
     /\ UNCHANGED <<bound, input, via, byte, acc>>

\* The early bound check, then BTreeMap::decode over a PrependCompactInput
\* whose encoded_len is len.encode().
CheckLimit ==
  /\ phase = "limit"
  /\ IF LimitExceeded(len)
       THEN Fail("limit") /\ UNCHANGED <<prep, via>>
       ELSE /\ prep' = [enc |-> CompactEncode(len), read |-> 0]
            /\ via' = "prep"
            /\ phase' = "len_b0"
            /\ UNCHANGED result
  /\ UNCHANGED <<bound, input, pos, byte, len, left, acc>>

\* Fault: the entry loop without its count guard, reading past the last
\* entry the length announced.
ReadKeyUnguarded ==
  LET r == Read(1)
  IN /\ phase = "entry_key"
     /\ Advance(r)
     /\ IF r.ok
          THEN byte' = r.bytes[1] /\ phase' = "entry_value" /\ UNCHANGED result
          ELSE Fail("eof") /\ UNCHANGED byte
     /\ UNCHANGED <<bound, input, via, len, left, acc>>

\* BTreeMap::decode: one (K, V) pair per remaining count, key byte first.
ReadKey ==
  LET r == Read(1)
  IN /\ phase = "entry_key"
     /\ left > 0
     /\ Advance(r)
     /\ IF r.ok
          THEN byte' = r.bytes[1] /\ phase' = "entry_value" /\ UNCHANGED result
          ELSE Fail("eof") /\ UNCHANGED byte
     /\ UNCHANGED <<bound, input, via, len, left, acc>>

\* The value byte; collecting into the BTreeMap overwrites a repeated key.
ReadValue ==
  LET r == Read(1)
  IN /\ phase = "entry_value"
     /\ Advance(r)
     /\ IF r.ok
          THEN /\ acc' = (byte :> r.bytes[1]) @@ acc
               /\ left' = left - 1
               /\ phase' = "entry_key"
               /\ UNCHANGED result
          ELSE Fail("eof") /\ UNCHANGED <<acc, left>>
     /\ UNCHANGED <<bound, input, via, byte, len>>

\* Ok(Self(inner, PhantomData)).
Finish ==
  /\ phase = "entry_key"
  /\ left = 0
  /\ phase' = "done"
  /\ result' = [status |-> "ok", map |-> acc]
  /\ UNCHANGED <<bound, input, pos, prep, via, byte, len, left, acc>>

Next == ReadLenFirst \/ ReadLenRest \/ CheckLimit \/ ReadKey \/ ReadValue \/ Finish

Spec == Init /\ [][Next]_vars

-----------------------------------------------------------------------------
TypeOK ==
  /\ pos \in 0 .. Len(input)
  /\ prep.read \in 0 .. Len(prep.enc)
  /\ via \in {"raw", "prep"}
  /\ phase \in Phases
  /\ byte \in 0 .. 255
  /\ len \in Nat /\ left \in Nat
  /\ \A k \in DOMAIN acc : k \in 0 .. 255 /\ acc[k] \in 0 .. 255
  /\ result = Pending \/ result.status \in {"ok", "limit", "eof", "range"}

\* The step-by-step decode implements the promise of BoundedDecodeSpec: the
\* early refusal consumes exactly the length prefix, and every other input
\* gives the map and read position BTreeMap::decode gives on the original
\* stream, so replaying the prefix through PrependCompactInput is invisible.
Abs == INSTANCE BoundedDecodeSpec
         WITH pos <- IF phase = "done" THEN pos ELSE 0,
              result <- IF phase = "done" THEN result ELSE Pending

DecodeRefinesSpec == Abs!AbsSpec

\* Encoding a map that fits the bound and decoding it gives the same map
\* and consumes the whole encoding (the encode/decode round trip), at every
\* size up to and including the bound.
RoundTrip ==
  \A m \in WireMaps :
    (phase = "done" /\ input = EncodeMap(m) /\ Cardinality(DOMAIN m) <= bound) =>
      /\ result = [status |-> "ok", map |-> m]
      /\ pos = Len(input)
=============================================================================
