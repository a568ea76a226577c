--------------------------- MODULE BoundedBTreeMap ---------------------------
(***************************************************************************)
(* The checked mutation API of BoundedBTreeMap<K, V, S>                     *)
(* (src/bounded-collections/src/bounded_btree_map.rs).                      *)
(*                                                                         *)
(* The inner BTreeMap<K, V> is a function from a finite set of keys to     *)
(* values; its ascending key order is the order of the integers in Keys.   *)
(* bmap is the BoundedBTreeMap a caller holds, or NoMap when the caller's  *)
(* last call consumed it and gave nothing back (try_mutate -> None,        *)
(* try_map -> Err, into_inner, a failed try_from / try_collect).           *)
(* bound is S::get(): fixed for the whole behaviour, chosen in Init.       *)
(* ret is the value returned by the last call.                             *)
(***************************************************************************)
EXTENDS Integers, FiniteSets, Sequences, TLC

LOCAL SX == INSTANCE SequencesExt

CONSTANTS
  Keys,            \* key values, ordered as integers
  Values,          \* value values
  BoundValues,     \* the values S::get() may have
  MaxIterLen,      \* longest iterator handed to try_collect
  HonestExactSize, \* does the iterator's ExactSizeIterator::len tell the truth?
  NoMap,           \* no map held
  None             \* Option::None in a returned value

ASSUME Keys \subseteq Nat /\ BoundValues \subseteq Nat /\ MaxIterLen \in Nat
ASSUME HonestExactSize \in BOOLEAN

VARIABLES bound, bmap, ret

vars == <<bound, bmap, ret>>

Ops == {"new", "into_inner", "try_mutate", "clear", "get_mut", "try_insert",
        "remove", "remove_entry", "retain", "iter_mut", "map", "try_map",
        "is_full", "try_from", "try_collect", "decode", "deserialize", "clone"}

\* Every BTreeMap<K, V> over Keys and Values.
AllMaps == UNION { [D -> Values] : D \in SUBSET Keys }

EmptyMap == [k \in {} |-> None]

\* Fault: removal that leaves the key behind with no value.
MapRemoveToNone(m, k) == IF k \in DOMAIN m THEN [m EXCEPT ![k] = None] ELSE m

\* BTreeMap::len, contains_key, insert and remove.
Size(m) == Cardinality(DOMAIN m)
ContainsKey(m, k) == k \in DOMAIN m
MapInsert(m, k, v) == (k :> v) @@ m
MapRemove(m, k) == [x \in DOMAIN m \ {k} |-> m[x]]

\* Fault: is_full comparing with > instead of >=.
IsFullStrict(m) == Size(m) > bound

\* BoundedBTreeMap::is_full.
IsFull(m) == Size(m) >= bound

\* Faults in the try_insert condition: <= instead of <, and the
\* contains_key disjunct dropped (overwrites refused on a full map).
InsertAcceptedOffByOne(m, k) == Size(m) <= bound \/ ContainsKey(m, k)
InsertAcceptedNoOverwrite(m, k) == Size(m) < bound

\* The condition under which BoundedBTreeMap::try_insert inserts.
InsertAccepted(m, k) == Size(m) < bound \/ ContainsKey(m, k)

\* Collecting an iterator of pairs into a BTreeMap: later pairs overwrite.
Collect(items) == SX!FoldLeft(LAMBDA m, e : MapInsert(m, e[1], e[2]), EmptyMap, items)

\* The error try_map returns when the closure fails on the keys in failing:
\* into_iter() visits keys in ascending order and stops at the first failure.
FirstFailure(failing) == CHOOSE k \in failing : \A j \in failing : k <= j

Ret(op, ok, k, v) == [op |-> op, ok |-> ok, key |-> k, val |-> v]

Held == bmap # NoMap

-----------------------------------------------------------------------------
(* What the moves between maps read: iteration order and PartialEq with  *)
(* the inner BTreeMap.                                                     *)

\* into_iter() and (&map).into_iter(): the entries in ascending key order.
Entries(m) ==
  LET ks == SX!SetToSortSeq(DOMAIN m, <)
  IN [i \in 1 .. Len(ks) |-> <<ks[i], m[ks[i]]>>]

\* PartialEq<BTreeMap<K, V>>: self.0 == *other, the bound plays no part.
EqInner(m, t) == m = t

-----------------------------------------------------------------------------
Init ==
  /\ bound \in BoundValues
  /\ bmap = EmptyMap
  /\ ret = Ret("new", TRUE, None, None)

\* BoundedBTreeMap::new (and Default::default): a fresh empty map.
New ==
  /\ bmap' = EmptyMap
  /\ ret' = Ret("new", TRUE, None, None)
  /\ UNCHANGED bound

\* into_inner: consumes the map and hands back the inner BTreeMap.
IntoInner ==
  /\ Held
  /\ bmap' = NoMap
  /\ ret' = Ret("into_inner", TRUE, None, None)
  /\ UNCHANGED bound

\* try_mutate: the closure gets the raw BTreeMap and may leave it in any
\* state m2; the map is returned only when m2 is within the bound.
TryMutate(m2) ==
  /\ Held
  /\ bmap' = IF Size(m2) <= bound THEN m2 ELSE NoMap
  /\ ret' = Ret("try_mutate", Size(m2) <= bound, None, None)
  /\ UNCHANGED bound

Clear ==
  /\ Held
  /\ bmap' = EmptyMap
  /\ ret' = Ret("clear", TRUE, None, None)
  /\ UNCHANGED bound

\* get_mut(k) followed by a write of v through the returned reference.
GetMut(k, v) ==
  /\ Held
  /\ bmap' = IF ContainsKey(bmap, k) THEN [bmap EXCEPT ![k] = v] ELSE bmap
  /\ ret' = Ret("get_mut", ContainsKey(bmap, k), k, None)
  /\ UNCHANGED bound

\* try_insert: Ok(old value or None) after BTreeMap::insert, or Err((k, v))
\* with the map untouched.
TryInsert(k, v) ==
  /\ Held
  /\ IF InsertAccepted(bmap, k)
       THEN /\ bmap' = MapInsert(bmap, k, v)
            /\ ret' = Ret("try_insert", TRUE, k,
                          IF ContainsKey(bmap, k) THEN bmap[k] ELSE None)
       ELSE /\ bmap' = bmap
            /\ ret' = Ret("try_insert", FALSE, k, v)
  /\ UNCHANGED bound

\* remove(k) returns the value; remove_entry(k) the pair.
Remove(k) ==
  /\ Held
  /\ bmap' = MapRemove(bmap, k)
  /\ ret' = Ret("remove", ContainsKey(bmap, k), k,
                IF ContainsKey(bmap, k) THEN bmap[k] ELSE None)
  /\ UNCHANGED bound

RemoveEntry(k) ==
  /\ Held
  /\ bmap' = MapRemove(bmap, k)
  /\ ret' = Ret("remove_entry", ContainsKey(bmap, k),
                IF ContainsKey(bmap, k) THEN k ELSE None,
                IF ContainsKey(bmap, k) THEN bmap[k] ELSE None)
  /\ UNCHANGED bound

\* retain(f): f keeps some of the keys and may rewrite the values of the
\* ones it keeps (it gets &mut V); vals is what is left.
Retain(vals) ==
  /\ Held
  /\ bmap' = vals
  /\ ret' = Ret("retain", TRUE, None, None)
  /\ UNCHANGED bound

\* iter_mut(): every value may be rewritten, no key added or removed.
IterMut(vals) ==
  /\ Held
  /\ bmap' = vals
  /\ ret' = Ret("iter_mut", TRUE, None, None)
  /\ UNCHANGED bound

\* map(f): consumes the map; each (k, v) becomes (k, f((&k, v))), rebuilt
\* with unchecked_from.
Map(f) ==
  /\ Held
  /\ bmap' = [k \in DOMAIN bmap |-> f[k]]
  /\ ret' = Ret("map", TRUE, None, None)
  /\ UNCHANGED bound

\* try_map(f): f fails on the keys in failing; the first failure in key
\* order is returned and the map is gone, else the new map via
\* unchecked_from.
TryMap(f, failing) ==
  /\ Held
  /\ IF failing = {}
       THEN /\ bmap' = [k \in DOMAIN bmap |-> f[k]]
            /\ ret' = Ret("try_map", TRUE, None, None)
       ELSE /\ bmap' = NoMap
            /\ ret' = Ret("try_map", FALSE, FirstFailure(failing), None)
  /\ UNCHANGED bound

IsFullQuery ==
  /\ Held
  /\ bmap' = bmap
  /\ ret' = Ret("is_full", IsFull(bmap), None, None)
  /\ UNCHANGED bound

\* TryFrom<BTreeMap>: Ok(map) when t.len() <= bound, else Err(()).
TryFrom(t) ==
  /\ bmap' = IF Size(t) <= bound THEN t ELSE NoMap
  /\ ret' = Ret("try_from", Size(t) <= bound, None, None)
  /\ UNCHANGED bound

\* TryCollect for an ExactSizeIterator: the check uses the iterator's own
\* len(), then the items are collected and wrapped with unchecked_from.
TryCollect(items, declared) ==
  /\ bmap' = IF declared > bound THEN NoMap ELSE Collect(items)
  /\ ret' = Ret("try_collect", declared <= bound, None, None)
  /\ UNCHANGED bound

\* The length an iterator over items may report.
DeclaredLens(items) == IF HonestExactSize THEN {Len(items)} ELSE 0 .. MaxIterLen

Next ==
  \/ New
  \/ IntoInner
  \/ \E m2 \in AllMaps : TryMutate(m2)
  \/ Clear
  \/ \E k \in Keys, v \in Values : GetMut(k, v) \/ TryInsert(k, v)
  \/ \E k \in Keys : Remove(k) \/ RemoveEntry(k)
  \/ Held /\ \E keep \in SUBSET DOMAIN bmap : \E vals \in [keep -> Values] : Retain(vals)
  \/ Held /\ \E vals \in [DOMAIN bmap -> Values] : IterMut(vals) \/ Map(vals)
  \/ Held /\ \E f \in [DOMAIN bmap -> Values], failing \in SUBSET DOMAIN bmap : TryMap(f, failing)
  \/ IsFullQuery
  \/ \E t \in AllMaps : TryFrom(t)
  \/ \E items \in SX!BoundedSeq(Keys \X Values, MaxIterLen) :
       \E declared \in DeclaredLens(items) : TryCollect(items, declared)

Spec == Init /\ [][Next]_vars

-----------------------------------------------------------------------------
TypeOK ==
  /\ bound \in BoundValues
  /\ bmap \in AllMaps \cup {NoMap}
  /\ ret \in [op : Ops, ok : BOOLEAN, key : Keys \cup {None}, val : Values \cup {None}]

\* The bound invariant: whatever sequence of calls the caller makes, every
\* map it holds has at most S::get() entries (try_insert, try_mutate,
\* try_from and try_collect are the paths that can grow it).
BoundRespected == Held => Size(bmap) <= bound

\* is_full() predicts try_insert: a map reports full exactly when inserting
\* a key it does not contain would be refused.
IsFullPredictsInsert ==
  Held => \A k \in Keys \ DOMAIN bmap : IsFull(bmap) <=> ~InsertAccepted(bmap, k)

\* try_insert is BTreeMap::insert except that it refuses, leaving the map
\* byte-for-byte unchanged, and only when the key is new and the map is at
\* its bound; an overwrite on a full map keeps the size.
TryInsertIsBoundedInsert ==
  [][ret'.op = "try_insert" =>
       IF ret'.ok
         THEN /\ bmap' = MapInsert(bmap, ret'.key, bmap'[ret'.key])
              /\ ret'.val = IF ContainsKey(bmap, ret'.key) THEN bmap[ret'.key] ELSE None
         ELSE /\ bmap' = bmap
              /\ ~ContainsKey(bmap, ret'.key)
              /\ Size(bmap) = bound]_vars
=============================================================================
