------------------------- MODULE MCIdempotentPost -------------------------
(* Small instances of IdempotentPost for TLC.                              *)
EXTENDS IdempotentPost, TLC

CONSTANTS r1, r2, r3, r4, r5, k1, k2

FiveRequests == {r1, r2, r3, r4, r5}
TwoKeys == {k1, k2}
\* Three requests race on one key; one has its own; one sends no UUID.
FiveKeyOf == (r1 :> k1) @@ (r2 :> k1) @@ (r3 :> k1) @@ (r4 :> k2) @@ (r5 :> Malformed)
TwoRequests == {r1, r2}
OneKey == {k1}
TwoKeyOf == (r1 :> k1) @@ (r2 :> k1)
SameKeySymmetry == Permutations({r1, r2, r3})
=============================================================================
