# TLA+ models of `BoundedBTreeMap`

This directory holds TLA+ models of `src/bounded-collections/src/bounded_btree_map.rs`. That file defines
`BoundedBTreeMap<K, V, S>`: a `BTreeMap` that never holds more than `S::get()` entries.
The repository's other source file, `src/rlp-breaking-change/src/lib.rs`, is a compile-time check
that `U256` is RLP-encodable. It has no state or behaviour and is not modelled.

## Inventory

### Components and how they interact

| Component | Source lines | State | Operations |
|---|---|---|---|
| Core container, checked mutation API | 102–255, 257–265, 398–427 | the inner `BTreeMap` (field `.0`); the bound `S::get()` is a type-level constant, not stored | `new`/`default`, `into_inner`, `try_mutate`, `clear`, `get_mut`, `try_insert`, `remove`, `remove_entry`, `retain`, `iter_mut`, `map`, `try_map`, `is_full`, `TryFrom<BTreeMap>`, `TryCollect` |
| SCALE codec integration | 430–497 | none of its own; reads an `Input` | `Decode::decode` (early length check, then `BTreeMap::decode` through a `PrependCompactInput`), derived `Encode`, `MaxEncodedLen`, `DecodeLength`, `skip` |
| serde integration | 36–100 | the visitor's growing `BTreeMap` | `Deserialize::deserialize` = `BTreeMapVisitor::visit_map` followed by `try_from`; `Serialize` is `serde(transparent)` |
| Read-only trait surface | 267–396 | none | `Clone`, `Debug`, `Hash`, `PartialEq` (×2), `Eq`, `PartialOrd`, `Ord`, `IntoIterator` (×3), `Deref`, `AsRef`, `From` |
| Two maps of different types (composition) | 267–274, 389–396, 444–457 | two maps, each with its own bound | any call on either; moving one into the other by encode/decode, serialize/deserialize, `try_from(BTreeMap::from(a))`, or `clone` when the types agree |

The container delegates storage to `BTreeMap` and gets the bound from `S: Get<u32>`. Both are external
collaborators. The codec adapters call the container's private `unchecked_from`, or construct
`Self(inner, PhantomData)` directly, once their own check has passed. `Decode` also uses
`PrependCompactInput` from `codec_utils.rs`, which is not among the sources here. The serde adapter
goes through the public `try_from`.

### What is hard

The type is sequential. Nothing runs concurrently, and nothing is persisted or sent over a network.
What is hard is this:

- **Every growth path must respect the bound.** Each path checks something different:
  - `try_insert` checks the size before inserting;
  - `try_mutate` checks once after an arbitrary closure has run;
  - `try_from` checks the map it is given;
  - `try_collect` checks the iterator's *claimed* `len()`;
  - `map` and `try_map` skip the check, relying on keeping the key set;
  - `decode` checks a wire length prefix;
  - the serde visitor checks a size hint and then a running count.
- **Boundaries.** Size equal to the bound, bound 0, a repeated key on a full map, and compact
  prefixes of 1, 2 and 5 bytes.
- **Decode transparency.** After reading the length, `decode` replays its re-encoding through
  `PrependCompactInput`. `BTreeMap::decode` must then see exactly the original stream. A refused
  input must consume no more than the prefix.
- **Partial failure.** `try_map` stops at the first error. `decode` can fail in the middle of the
  payload. The visitor can fail on a malformed key or value, or at the bound.

### Properties that make each component correct

- Core: the map is never above its bound, after any sequence of calls. `try_insert` behaves as
  `BTreeMap::insert`, except that it refuses, leaving the map unchanged, exactly when the key is new
  and the map is full. `is_full` predicts that refusal. (`map` and `try_map` keep the key set by
  construction: they rebuild the map over the same keys, so no property is stated about them.)
- Decode: refusal happens before the payload and consumes only the prefix. Otherwise the result
  equals `BTreeMap::decode` of the same bytes, with the same read position. `decode(encode(m)) = m`
  for every map `m` within the bound.
- Deserialize: the visitor's own map never exceeds the bound, so the final `try_from` never fails.
  The loop implements a prefix-wise contract: an accepted map equals the map an unbounded
  deserializer would build, and each refusal is decided by the first pair that cannot be taken. The spec also says that a
  text map whose map fits the bound is accepted; the code does not meet this (see findings).
- Moves between types: a map moved by encode/decode, serde or `try_from(into_inner)` arrives
  exactly when it fits the target bound, with its content unchanged.
- Encoding: the encoding is identical to the `BTreeMap` encoding, and `max_encoded_len` is at least
  the length of every encoding within the bound.

The hazards these properties address are listed, each at its source line, under `hazards` in
`PROJECT.json`.

## Modules

| Module | Models | State ↔ code |
|---|---|---|
| `BoundedBTreeMap` | the checked mutation API | `bmap` is the caller's `BoundedBTreeMap`, or `NoMap` once a consuming call (`into_inner`, `try_mutate → None`, `try_map → Err`, failed `try_from`/`try_collect`) has left the caller without one. `bound` is `S::get()`, chosen in `Init` and never changed. `ret` is the last call's return value. There is one action per public method. |
| `ScaleCodec` | pure operators for `Compact<u32>` encode/decode and the `BTreeMap<u8,u8>` wire format (parity-scale-codec, modelled from the spec and that crate's documented format) | `DecodeBTreeMap` is the reference decoder; `EncodeMap` is the derived `Encode` |
| `BoundedDecodeSpec` | the contract of `Decode::decode` as one atomic step | `Expected(input)` |
| `BoundedDecode` | `Decode::decode`, one `Input::read` per step | `pos` is the caller's slice cursor. `prep` is the `PrependCompactInput` (`encoded_len`, `read`). `via` says whether the running `Compact` decode reads the raw input or the prepend. `len`, `left` and `acc` hold the decoded length, the entries left and the map so far. |
| `DeserializeSpec` | the contract of `Deserialize::deserialize` as one atomic step | `Expected(entries, hint)`: refuse a hint above the bound; otherwise the first pair that cannot be taken decides the error: a malformed key, a key arriving when the pairs before it hold `S::get()` distinct keys (`FullAt`), or a malformed value. With no such pair the result is the unbounded map, checked by `try_from`. |
| `SerdeDeserialize` | `deserialize` / `visit_map` / `try_from` wrap | `entries` is the pairs `MapAccess` yields, repeats allowed, with `Malformed` for a key or value that fails to parse. `hint` is `size_hint()`, `values` the visitor's map. |
| `EncodedLenBound` | `MaxEncodedLen::max_encoded_len` (473–484) | `bound`, `kLen`, `vLen` are `S::get()`, `K::max_encoded_len()`, `V::max_encoded_len()`; `n` is the size of the map being encoded, changed by `Resize`. `SaturatingAdd`/`SaturatingMul` are `usize::saturating_*` over a `UsizeBits`-wide `usize`; `EncodedLen` is the length of the derived `Encode`. |
| `BoundedMapPair` | two maps side by side and the moves between them | `A` and `B` are two `INSTANCE`s of `BoundedBTreeMap` (bounds `boundA`, `boundB`), each driven by its whole `Next`. `EncodeDecode` is `decode(&mut &a.encode()[..])` through the `BoundedDecodeSpec` contract with `B`'s bound; `ConvertViaInner` is `A!IntoInner /\ B!TryFrom(mapA)` (`try_from(BTreeMap::from(a))`); `SerdeMove` is `deserialize(serialize(&a))` through the `DeserializeSpec` contract, with `A`'s entries in key order and no size hint or the exact one; `CloneInto` is `clone`. `step` records the kind of the last step for the action property. |
| `MC_*` | model-checking instances | constant sets |

`BoundedBTreeMap` also holds the two trait operators the moves read: `Entries` (the `IntoIterator`
order) and `EqInner` (`PartialEq<BTreeMap>`). The other comparison impls (`PartialEq` between bounded
maps, `Eq`, `PartialOrd`, `Ord`, `Hash`) are not modelled; see "Not modelled".

`BoundedDecode` refines `BoundedDecodeSpec`, and `SerdeDeserialize` refines `DeserializeSpec`, in which
`result` is the detailed `result` once `done` and `Pending` before. In the refinement mapping, the abstract `pos` and
`result` are those of the detailed module once it is `done`, and `0`/`Pending` before.

## Runs

| Run | What it shows |
|---|---|
| `core_api` (`MC_BoundedBTreeMap.cfg`, pass) | Checks every call sequence over keys {1,2,3,4}, values {v1,v2} and bounds 0–3, with iterators of up to 4 pairs. No map held is ever above its bound (`BoundRespected`). `is_full` predicts `try_insert`'s refusal (`IsFullPredictsInsert`). `try_insert` is a bounded `BTreeMap::insert` that refuses only a new key on a full map (`TryInsertIsBoundedInsert`). |
| `try_collect_lying_len` (violation) | The same model, but the iterator's `len()` may under-report. `BoundRespected` fails after a single `try_collect` from the empty map whose iterator reports a `len()` within the bound but yields more distinct keys than the bound. The bound and item count in the trace depend on the search order (for example bound 0, `len()` 0, one pair; or bound 1, `len()` 1, two pairs). |
| `scale_decode` (`MC_BoundedDecode.cfg`, pass) | The input is every length prefix among the canonical encodings of 0–3, 64 (2 bytes) and 2^30 (5 bytes), plus truncated, non-canonical, out-of-range and absent prefixes, followed by every payload of up to 5 bytes over {1,2}. Bounds are 0, 1, 2 and 64. Checks `DecodeRefinesSpec` (refinement) and `RoundTrip` (every map within the bound, including one exactly at the bound, decodes from its encoding and consumes all of it). |
| `max_encoded_len` (`MC_EncodedLenBound.cfg`, pass) | Bounds 0, 1, 63, 64, 2^14−1, 2^14, 2^20, 2^29, 2^30−1, element sizes 0, 1, 4, 2^10, 2^30−1, and map sizes at the same edges. `max_encoded_len` is at least the encoded length of every map within the bound whose encoding fits in memory, including where `bound * (K + V)` saturates (`MaxEncodedLenCovers`); the result is a `usize` (`TypeOK`). |
| `map_pair` (`MC_BoundedMapPair.cfg`, pass) | Two maps over keys {1,2}, values {1,2} and bounds 0–2 (175 647 states). A move from `A` to `B` by encode/decode, serde or `try_from(into_inner)` succeeds exactly when `A`'s map fits `boundB`, whatever `boundA` is, and gives `B` the same content (`MoveKeepsContent`). |
| `serde_deserialize` (pass) | Checks every text map of up to 3 pairs over two keys, with malformed keys and values, any size hint (`None` or 0–3), and bounds 0–2. The visitor loop refines `DeserializeSpec` (`DeserializeRefinesSpec`): same accepted maps, same refusals, same error for each. `SafetyNetNeverFires`: the final `try_from` never fails. `DeserializeReturns` (under `FairSpec`): deserialize returns on every text map. |
| `serde_duplicate_key_at_bound` (violation) | `FittingMapAccepted` fails: `{"k1":v1,"k1":v2}` with bound 1 is refused. |

**Bounds.** The core model has four keys and bounds 0–3, and `try_collect` gets iterators of up to
four pairs, one more than the largest bound. The key sets are one larger than the largest bound (except where the bound is 64), so
full maps with a free key exist. Bound 0 is included everywhere. The decode prefixes cover each
compact mode on both sides of the bound. The payloads are long enough for a two-entry map, a
duplicate key and truncation. `usize` is 30 bits wide in `EncodedLenBound` because TLC's integers
end at 2^31−1; every bound below 2^30 is then cast to `usize` exactly, and `bound * (K + V)`
overflows at the sizes chosen, which is the case the saturating arithmetic exists for. The pair
model uses two keys so that full-size maps can be moved; bound 1 still has a free
key and bound 2 holds both, so a move from bound 2 to bound 1 is refused.

**Deadlock.** `decode` and `deserialize` are function calls that return. Their runs set
`CHECK_DEADLOCK FALSE` because every behaviour ends in phase `done`. The core model never stops,
since `new` is always enabled, nor do `max_encoded_len` (a map can always be resized) or the pair.

**Fairness.** `visit_map` is a `while let` loop that runs inside one synchronous call on the
caller's thread. While that call has not returned, its next `MapAccess` call or check is the next
thing that happens, and nothing in it waits on anything else. `SerdeDeserialize` therefore uses
`FairSpec == Spec /\ WF_vars(Next)`: weak fairness of the running call's own steps. Under it,
`DeserializeReturns` checks that the loop ends. The refinement alone does not show this, because its
specification allows a call that never ends. The mutant `NextKeyNoBreak` writes the loop as
`loop { if let Some(key) = .. }` with no break on `None`, and it never returns. `decode` itself
(444–457) has no loop of its own: it makes one compact read, one check and one delegated call. No
termination property is stated for it. No fairness is assumed for the API calls of
`BoundedBTreeMap` and `BoundedMapPair`, because the caller decides whether to make another call.

## Findings

1. **`try_collect` trusts `ExactSizeIterator::len()` (lines 421–424).** It compares only the
   iterator's `len()` with the bound, then wraps whatever `collect()` yields with `unchecked_from`.
   The spec's §3 describes exactly this check, on the "declared length". Its §4.1 says construction
   from any sized iterator fails when the *source cardinality* exceeds the bound. `len()` is a safe
   trait method that may under-report. With such an iterator, one `try_collect` from the empty map
   gives the caller a `BoundedBTreeMap` above its bound. The two sections of the spec disagree, and
   the code follows §3.
2. **The serde visitor refuses a repeated key on a full map (line 82).** It checks
   `values.len() >= max` before knowing whether the key is new. With bound 1, `{"k1":…,"k1":…}` is
   rejected even though the resulting map has one entry. The spec (§4.4) says to fail "as soon as
   the bound would be exceeded", and `try_insert` accepts the same overwrite.

## Plan

Done in this sitting, in order of importance:

1. `BoundedBTreeMap`: the checked API and the bound invariant.
2. `ScaleCodec`, `BoundedDecodeSpec` and `BoundedDecode`: byte-level decode refined against its contract.
3. `SerdeDeserialize`: the visitor and its safety net.

Done in the second sitting:

4. `EncodedLenBound`: `max_encoded_len` with saturating arithmetic.
5. `BoundedMapPair`: two instances of the core model composed with moves by decode, conversion and clone.

Done in the third sitting:

6. `DeserializeSpec`, the prefix-wise contract of `deserialize`, and the refinement check of the
   visitor loop against it, with arbitrary size hints. The serde path was added to the pair through
   that contract. The core instance was enlarged to four keys and bounds 0–3.

Done in the fourth sitting:

7. Termination of `deserialize` under weak fairness of the running call (`DeserializeReturns`),
   with a mutant that loops.
8. Review pass. Properties that restated a definition were removed: the key set kept by
   `map`/`try_map`, `DecodeLength::len` reading the prefix, a termination property for `decode`
   (which has no loop), the pair's copy of the core type invariant, Eq/Ord/Hash agreement, and the
   cross-bound equality run. The operators only those properties used were removed with them. The
   `try_collect` finding now describes its trace without tying it to one search order.

## Not modelled

- The `BTreeMap` internals (balancing, iteration) are an assumed-correct collaborator: a map is a
  TLA+ function.
- Text formatting (`Debug`, serde_json syntax) is not modelled; the visitor sees abstract pairs.
- `Deref` and `AsRef` hand out a shared borrow of the inner map and change nothing.
- `PartialEq` between bounded maps, `Eq`, `PartialOrd`, `Ord` and `Hash` (286–339). Each is one line
  that delegates to the inner `BTreeMap`, and `PartialEq` also compares `S1::get() == S2::get()`
  (302). With `BTreeMap` as an assumed-correct collaborator, a property of them would only check the
  model of `BTreeMap`, or restate that single guard.
- `DecodeLength::len` (488–495) decodes the `Compact` prefix of the stored bytes and nothing else;
  a model of it would restate that one call.
- `Decode::skip` delegates to `BTreeMap::skip`.
- Keys that compare equal but differ (the `unequal_eq_impl_insert_works` test): a key is an integer,
  so `Ord` equality is identity. Which key object `BTreeMap::insert` keeps is a property of
  `BTreeMap`, an assumed-correct collaborator.
- The unit tests (lines 509–850) are not replayed. Their scenarios are states the model checks
  exhaustively: the `try_insert`/`is_full` example at bound 4 is reached with bound 3, and the
  too-big decode with the 5-byte and 1-byte prefixes of the decode run.
- The `jam-codec` instantiation of `codec_impl!` is the same code as the `scale-codec` one.
- The RLP smoke test.
- An abstract specification of the checked API, refined by `BoundedBTreeMap`, is left out.
  `try_mutate`, `get_mut` and `iter_mut` may leave the inner map in any state within the bound, so
  such a specification would be "any map within the bound". That is `BoundRespected` again, and
  checking it would show nothing new. Each accepted call's effect on the content is already checked
  by `TryInsertIsBoundedInsert`.
