------------------------------ MODULE MCTable -------------------------------
(***************************************************************************)
(* Table on an instance where it is crowded: with two and four buckets all *)
(* keys share the last one as home, so paths wrap around; with eight they  *)
(* spread.  k1 and k2 are two objects with the same bytes and hash.        *)
(***************************************************************************)
EXTENDS Table, TLC

CONSTANTS k1, k2, k3, a, b

MCText == [k \in Keys |-> IF k \in {k1, k2} THEN a ELSE b]
MCHash == [k \in Keys |-> IF k \in {k1, k2} THEN 3 ELSE 7]
MCTextHash == (a :> 3) @@ (b :> 7)
=============================================================================
