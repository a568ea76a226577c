---------------------------- MODULE BoundedMapPair ----------------------------
(***************************************************************************)
(* Two BoundedBTreeMap<u8, u8, _> values held side by side, A with bound   *)
(* boundA and B with bound boundB, each driven by the whole checked API of *)
(* BoundedBTreeMap, and moved from A to B the two ways the code offers:    *)
(*   - b = Decode::decode(&mut &a.encode()[..]), through the contract of   *)
(*     BoundedDecodeSpec (A is only borrowed);                             *)
(*   - b = BoundedBTreeMap::try_from(BTreeMap::from(a)) (A is consumed);   *)
(*   - b = deserialize(serialize(&a)), through the contract of             *)
(*     DeserializeSpec (Serialize is serde(transparent): A's entries in    *)
(*     key order, with no size hint or the exact one).                     *)
(* When boundA = boundB the two are taken to be of the same type, so that *)
(* b = a.clone() is well typed.                                            *)
(* step names the kind of the last step ("A", "B", "decode", "convert",   *)
(* "serde", "clone"); it is history only and no action reads it.          *)
(***************************************************************************)
EXTENDS Integers, FiniteSets, Sequences, TLC

CONSTANTS Keys, Values, BoundValues, MaxIterLen, HonestExactSize, NoMap, None

ASSUME Keys \cup Values \subseteq 0 .. 255

VARIABLES boundA, mapA, retA, boundB, mapB, retB, step

varsA == <<boundA, mapA, retA>>
varsB == <<boundB, mapB, retB>>
vars == <<boundA, mapA, retA, boundB, mapB, retB, step>>

A == INSTANCE BoundedBTreeMap WITH bound <- boundA, bmap <- mapA, ret <- retA
B == INSTANCE BoundedBTreeMap WITH bound <- boundB, bmap <- mapB, ret <- retB

\* Decode into B's type: the decode contract with B's bound.
Dec == INSTANCE BoundedDecodeSpec
         WITH bound <- boundB, input <- <<>>, pos <- 0, result <- None,
              Inputs <- {}, Pending <- None

\* Deserialize into B's type: the deserialize contract with B's bound.
Ser == INSTANCE DeserializeSpec
         WITH bound <- boundB, entries <- <<>>, hint <- None, result <- None,
              MaxEntries <- 0, Malformed <- NoMap, Pending <- None

Init == A!Init /\ B!Init /\ step = "A"

\* b = Decode::decode(&mut &a.encode()[..]): the bytes carry the entries
\* but not A's bound; B's own limit check decides.
EncodeDecode ==
  LET r == Dec!Expected(Dec!EncodeMap(mapA))
  IN /\ A!Held
     /\ mapB' = IF r.status = "ok" THEN r.map ELSE NoMap
     /\ retB' = B!Ret("decode", r.status = "ok", None, None)
     /\ step' = "decode"
     /\ UNCHANGED <<varsA, boundB>>

\* b = BoundedBTreeMap::try_from(BTreeMap::from(a)).
ConvertViaInner ==
  /\ A!Held
  /\ A!IntoInner
  /\ B!TryFrom(mapA)
  /\ step' = "convert"

\* b = deserialize(serialize(&a)): the text holds A's entries in key order;
\* serde_json gives no size hint, a length-prefixed format the exact one.
SerdeMove ==
  /\ A!Held
  /\ \E h \in {None, A!Size(mapA)} :
       LET r == Ser!Expected(A!Entries(mapA), h)
       IN /\ mapB' = IF r.ok THEN r.map ELSE NoMap
          /\ retB' = B!Ret("deserialize", r.ok, None, None)
  /\ step' = "serde"
  /\ UNCHANGED <<varsA, boundB>>

\* b = a.clone(): BoundedBTreeMap(self.0.clone(), PhantomData).
CloneInto ==
  /\ A!Held
  /\ boundA = boundB
  /\ mapB' = mapA
  /\ retB' = B!Ret("clone", TRUE, None, None)
  /\ step' = "clone"
  /\ UNCHANGED <<varsA, boundB>>

Next ==
  \/ A!Next /\ UNCHANGED varsB /\ step' = "A"
  \/ B!Next /\ UNCHANGED varsA /\ step' = "B"
  \/ EncodeDecode
  \/ ConvertViaInner
  \/ SerdeMove
  \/ CloneInto

Spec == Init /\ [][Next]_vars

-----------------------------------------------------------------------------
\* Moving a map from one bounded type to another: the bound is not on the
\* wire, in the text or in the BTreeMap, so B's own bound alone decides.  A
\* move by encode/decode, by serde or via the inner BTreeMap succeeds exactly when A's map
\* fits boundB (whatever boundA is), and a successful one gives B a map
\* equal to A's as a BTreeMap (PartialEq<BTreeMap>).
MoveKeepsContent ==
  [][step' \in {"decode", "convert", "serde"} =>
       /\ retB'.ok <=> A!Size(mapA) <= boundB
       /\ retB'.ok => B!EqInner(mapB', mapA)]_vars
=============================================================================
