------------------------ MODULE MCTaxpayerPipeline ------------------------
(* Small instances of TaxpayerPipeline for TLC.                            *)
EXTENDS TaxpayerPipeline

CONSTANTS r1, r2, a1, a2, t1, t2, p1, p2, c1, c2

OneAggregate == {a1}
TwoRequests  == {r1, r2}
SameTaxpayer == [r \in TwoRequests |-> a1]
TwoTenants   == {t1, t2}
OwnTenants   == [r \in TwoRequests |-> IF r = r1 THEN t1 ELSE t2]
TwoPublishers == {p1, p2}
TwoConsumers == {c1, c2}

\* Consumers are interchangeable, so the partition may as well start with c1.
InitC1 == Init /\ owner = c1

StartsWithC1 == InitC1 /\ [][Next]_vars /\ Fairness
=============================================================================
