--------------------------- MODULE BoundedDecodeSpec ---------------------------
(***************************************************************************)
(* What Decode for BoundedBTreeMap<u8, u8, S> promises, as one atomic      *)
(* step: a stream whose length prefix declares more than S::get() entries  *)
(* is refused with only the prefix consumed; any other stream decodes     *)
(* exactly as BTreeMap<u8, u8>::decode decodes it, to the same map and     *)
(* the same read position.  On any other error the position is not        *)
(* promised.                                                              *)
(***************************************************************************)
EXTENDS ScaleCodec

CONSTANTS Inputs, BoundValues, Pending

VARIABLES bound, input, pos, result

absVars == <<bound, input, pos, result>>

\* Fault: refusing a length equal to the bound.
OverLimitAtBound(n) == n >= bound

\* if len.0 > S::get() { return Err("BoundedBTreeMap exceeds its limit") }
OverLimit(n) == n > bound

Expected(s) ==
  LET c == DecodeCompactAt(s, 0)
      d == DecodeBTreeMap(s)
  IN IF c.ok /\ OverLimit(c.n)
       THEN [status |-> "limit", map |-> <<>>, pos |-> c.next]
       ELSE [status |-> IF d.ok THEN "ok" ELSE d.err,
             map |-> IF d.ok THEN d.map ELSE <<>>, pos |-> d.next]

AbsInit ==
  /\ bound \in BoundValues
  /\ input \in Inputs
  /\ pos = 0
  /\ result = Pending

Decode ==
  LET e == Expected(input)
  IN /\ result = Pending
     /\ result' = [status |-> e.status, map |-> e.map]
     /\ IF e.status \in {"ok", "limit"}
          THEN pos' = e.pos
          ELSE pos' \in 0 .. Len(input)
     /\ UNCHANGED <<bound, input>>

AbsSpec == AbsInit /\ [][Decode]_absVars
=============================================================================
