--------------------------- MODULE SerdeDeserialize ---------------------------
(***************************************************************************)
(* Deserialize for BoundedBTreeMap<K, V, S> (bounded_btree_map.rs, feature *)
(* "serde"): BTreeMapVisitor::visit_map followed by the try_from wrap.     *)
(*                                                                         *)
(* The text map is the sequence entries of (key, value) pairs the format  *)
(* hands out through MapAccess, repeated keys included (a JSON object may *)
(* repeat a key); a key or value equal to Malformed fails to deserialize. *)
(* hint is MapAccess::size_hint: None (as serde_json gives) or a number.  *)
(* serde documents the hint as advisory, so any number up to MaxEntries   *)
(* is allowed, not only the exact count length-prefixed formats give.     *)
(***************************************************************************)
EXTENDS Naturals, Sequences, FiniteSets, TLC

LOCAL SX == INSTANCE SequencesExt

CONSTANTS
  Keys, Values,   \* key and value values
  BoundValues,    \* the values S::get() may have
  MaxEntries,     \* longest text map
  Malformed,      \* a key or value the format cannot deserialize
  None,           \* size_hint() = None
  Pending         \* no result yet

VARIABLES bound, entries, hint, idx, values, key, phase, result

vars == <<bound, entries, hint, idx, values, key, phase, result>>

Phases == {"visit", "next_key", "next_value", "wrap", "done"}

Errors == {"map exceeds the size of the bounds",
           "failed to create a BoundedBTreeMap from the provided map",
           "malformed"}

MapInsert(m, k, v) == (k :> v) @@ m

\* The BTreeMap an unbounded deserializer builds: later pairs overwrite.
Collected(es) == SX!FoldLeft(LAMBDA m, e : MapInsert(m, e[1], e[2]), <<>>, es)

Fail(err) == phase' = "done" /\ result' = [ok |-> FALSE, err |-> err, map |-> <<>>]

Init ==
  /\ bound \in BoundValues
  /\ entries \in SX!BoundedSeq((Keys \cup {Malformed}) \X (Values \cup {Malformed}), MaxEntries)
  /\ hint \in {None} \cup 0 .. MaxEntries
  /\ idx = 0
  /\ values = <<>>
  /\ key = Malformed
  /\ phase = "visit"
  /\ result = Pending

\* let size = map.size_hint().unwrap_or(0); refuse early when size > max.
VisitMap ==
  LET size == IF hint = None THEN 0 ELSE hint
  IN /\ phase = "visit"
     /\ IF size > bound
          THEN Fail("map exceeds the size of the bounds")
          ELSE phase' = "next_key" /\ UNCHANGED result
     /\ UNCHANGED <<bound, entries, hint, idx, values, key>>

\* Fault: the running check with > instead of >=.
FullBeforeKeyLate(vs) == Cardinality(DOMAIN vs) > bound

\* if values.len() >= max { return Err(...) }
FullBeforeKey(vs) == Cardinality(DOMAIN vs) >= bound

\* Fault: the loop written as loop { if let Some(key) = .. { .. } } with no
\* break when next_key() gives None.
NextKeyNoBreak ==
  /\ phase = "next_key"
  /\ IF idx = Len(entries)
       THEN UNCHANGED <<phase, idx, key, result>>
       ELSE LET k == entries[idx + 1][1]
            IN /\ idx' = idx + 1
               /\ key' = k
               /\ CASE k = Malformed -> Fail("malformed")
                    [] FullBeforeKey(values) -> Fail("map exceeds the size of the bounds")
                    [] OTHER -> phase' = "next_value" /\ UNCHANGED result
  /\ UNCHANGED <<bound, entries, hint, values>>

\* while let Some(key) = map.next_key()? : the key is read first, then the
\* running count is checked against the bound.
NextKey ==
  /\ phase = "next_key"
  /\ IF idx = Len(entries)
       THEN phase' = "wrap" /\ UNCHANGED <<idx, key, result>>
       ELSE LET k == entries[idx + 1][1]
            IN /\ idx' = idx + 1
               /\ key' = k
               /\ CASE k = Malformed -> Fail("malformed")
                    [] FullBeforeKey(values) -> Fail("map exceeds the size of the bounds")
                    [] OTHER -> phase' = "next_value" /\ UNCHANGED result
  /\ UNCHANGED <<bound, entries, hint, values>>

\* Fault: the pair inserted before the value's error is propagated.
NextValueInsertFirst ==
  LET v == entries[idx][2]
  IN /\ phase = "next_value"
     /\ values' = MapInsert(values, key, v)
     /\ IF v = Malformed
          THEN Fail("malformed")
          ELSE phase' = "next_key" /\ UNCHANGED result
     /\ UNCHANGED <<bound, entries, hint, idx, key>>

\* Fault: a repeated key keeps its first value (entry().or_insert).
NextValueKeepFirst ==
  LET v == entries[idx][2]
  IN /\ phase = "next_value"
     /\ IF v = Malformed
          THEN Fail("malformed") /\ UNCHANGED values
          ELSE /\ values' = values @@ (key :> v)
               /\ phase' = "next_key"
               /\ UNCHANGED result
     /\ UNCHANGED <<bound, entries, hint, idx, key>>

\* let value = map.next_value()?; values.insert(key, value);
NextValue ==
  LET v == entries[idx][2]
  IN /\ phase = "next_value"
     /\ IF v = Malformed
          THEN Fail("malformed") /\ UNCHANGED values
          ELSE /\ values' = MapInsert(values, key, v)
               /\ phase' = "next_key"
               /\ UNCHANGED result
     /\ UNCHANGED <<bound, entries, hint, idx, key>>

\* BoundedBTreeMap::try_from(v).map_err(|_| Error::custom(...)).
Wrap ==
  /\ phase = "wrap"
  /\ IF Cardinality(DOMAIN values) <= bound
       THEN phase' = "done" /\ result' = [ok |-> TRUE, err |-> "none", map |-> values]
       ELSE Fail("failed to create a BoundedBTreeMap from the provided map")
  /\ UNCHANGED <<bound, entries, hint, idx, values, key>>

Next == VisitMap \/ NextKey \/ NextValue \/ Wrap

Spec == Init /\ [][Next]_vars

\* deserialize is one synchronous call: until visit_map and the wrap have
\* returned, their next step is what happens next (weak fairness of Next);
\* the format's MapAccess is a finite text map held in memory.
FairSpec == Spec /\ WF_vars(Next)

-----------------------------------------------------------------------------
TypeOK ==
  /\ bound \in BoundValues
  /\ idx \in 0 .. Len(entries)
  /\ values \in UNION { [D -> Values] : D \in SUBSET Keys }
  /\ phase \in Phases
  /\ result = Pending \/ (result.ok \in BOOLEAN /\ (result.ok \/ result.err \in Errors))

\* The try_from at the end is a safety net that never fires: the running
\* check inside the loop already stops the visitor before its map can
\* outgrow the bound, whatever the size hint says and however many keys
\* repeat.
SafetyNetNeverFires ==
  result # Pending =>
    result.err # "failed to create a BoundedBTreeMap from the provided map"

\* The visitor loop implements the prefix-wise contract of DeserializeSpec:
\* same accepted map (last value of a repeated key wins), same refusals and
\* the same error for each, for every hint and every order of bad pairs.
Abs == INSTANCE DeserializeSpec
         WITH result <- IF phase = "done" THEN result ELSE Pending

DeserializeRefinesSpec == Abs!AbsSpec

\* deserialize returns on every text map, with a BoundedBTreeMap or an
\* error: the while-let loop ends when next_key() gives None after the last
\* pair, and every pair either advances it or ends it with an error.
DeserializeReturns == <>(phase = "done")

\* The spec (4.4): entries are read and inserted while the running count is
\* checked, "failing as soon as the bound would be exceeded".  So a
\* well-formed text map whose BTreeMap fits the bound is accepted.
FittingMapAccepted ==
  LET wellFormed == \A i \in 1 .. Len(entries) : Malformed \notin {entries[i][1], entries[i][2]}
  IN (result # Pending /\ wellFormed /\ hint = None
        /\ Cardinality(DOMAIN Collected(entries)) <= bound) => result.ok
=============================================================================
