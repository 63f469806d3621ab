-------------------------- MODULE MCRefundLedger --------------------------
(* Small instances of RefundLedger for TLC.                                *)
EXTENDS RefundLedger, TLC

CONSTANTS c1, c2, c3, o1, t1, t2, t3, k1, k2

\* Two tenants have an order of the same id, a third has none.
SharedOrderId == {<<o1, t1>>, <<o1, t2>>}
CallSymmetry == Permutations({c1, c2, c3})
=============================================================================
