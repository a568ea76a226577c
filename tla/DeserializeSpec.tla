---------------------------- MODULE DeserializeSpec ----------------------------
(***************************************************************************)
(* What Deserialize for BoundedBTreeMap<K, V, S> promises, as one atomic   *)
(* step over the whole text map, stated by prefixes of the pairs instead   *)
(* of by the visitor's loop:                                               *)
(*  - a size hint above S::get() is refused before any pair is read;       *)
(*  - otherwise the pairs are read in order, and the first pair that       *)
(*    cannot be taken stops it: a malformed key, a key arriving when the   *)
(*    pairs before it already hold S::get() distinct keys, or a malformed  *)
(*    value;                                                               *)
(*  - a text map with no such pair gives the BTreeMap an unbounded         *)
(*    deserializer gives, provided it fits the bound.                      *)
(***************************************************************************)
EXTENDS Naturals, Sequences, FiniteSets, TLC

LOCAL SX == INSTANCE SequencesExt

CONSTANTS Keys, Values, BoundValues, MaxEntries, Malformed, None, Pending

VARIABLES bound, entries, hint, result

absVars == <<bound, entries, hint, result>>

Exceeds == "map exceeds the size of the bounds"

\* The BTreeMap<K, V> deserializer: pairs inserted in order, so a repeated
\* key keeps its last value.
Unbounded(es) == SX!FoldLeft(LAMBDA m, e : (e[1] :> e[2]) @@ m, <<>>, es)

\* The pair at index i cannot be taken.
KeyMalformed(es, i) == es[i][1] = Malformed
FullAt(es, i) == Cardinality(DOMAIN Unbounded(SubSeq(es, 1, i - 1))) >= bound
Stops(es, i) == KeyMalformed(es, i) \/ FullAt(es, i) \/ es[i][2] = Malformed

Failed(err) == [ok |-> FALSE, err |-> err, map |-> <<>>]

Expected(es, h) ==
  LET stops == {i \in 1 .. Len(es) : Stops(es, i)}
      first == CHOOSE i \in stops : \A j \in stops : i <= j
  IN CASE h # None /\ h > bound -> Failed(Exceeds)
       [] stops # {} ->
            Failed(IF ~KeyMalformed(es, first) /\ FullAt(es, first) THEN Exceeds ELSE "malformed")
       [] Cardinality(DOMAIN Unbounded(es)) > bound ->
            Failed("failed to create a BoundedBTreeMap from the provided map")
       [] OTHER -> [ok |-> TRUE, err |-> "none", map |-> Unbounded(es)]

AbsInit ==
  /\ bound \in BoundValues
  /\ entries \in SX!BoundedSeq((Keys \cup {Malformed}) \X (Values \cup {Malformed}), MaxEntries)
  /\ hint \in {None} \cup 0 .. MaxEntries
  /\ result = Pending

Deserialize ==
  /\ result = Pending
  /\ result' = Expected(entries, hint)
  /\ UNCHANGED <<bound, entries, hint>>

AbsSpec == AbsInit /\ [][Deserialize]_absVars
=============================================================================
