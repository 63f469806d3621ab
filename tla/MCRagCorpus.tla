----------------------------- MODULE MCRagCorpus -----------------------------
(* Small instances of RagCorpus for TLC.                                   *)
EXTENDS RagCorpus

Row(doc, idx, text, tenant) == [doc |-> doc, idx |-> idx, text |-> text, tenant |-> tenant]

\* A long text becomes two chunks; blank is dropped for its length.
SomeTexts == {"old", "new", "long", "blank"}
Fitting == SomeTexts \ {"blank"}
Splitter == [t \in SomeTexts |-> IF t = "long" THEN <<"new", "rest">> ELSE <<t>>]

\* d1 as it was, edited into two chunks (with a stale copy and a blank row after
\* it), and claimed by the other tenant with another text.
TheFirst == <<Row("d1", 0, "old", "t1")>>
SomeFiles ==
  {TheFirst,
   <<Row("d1", 0, "long", "t1"), Row("d1", 0, "old", "t1"), Row("d2", 0, "blank", "t2")>>,
   <<Row("d1", 0, "new", "t2")>>}

\* Claimed by the other tenant with the same text.
SameText == {TheFirst, <<Row("d1", 0, "old", "t2")>>}
InOrder == <<"t1", "t2">>
=============================================================================
