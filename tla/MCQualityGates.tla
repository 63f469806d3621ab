---------------------------- MODULE MCQualityGates ----------------------------
EXTENDS QualityGates

MCGolden == <<
  <<"retrieval_agent", "synthesis_agent">>,
  <<"api_agent", "synthesis_agent">>,
  <<"retrieval_agent", "api_agent", "synthesis_agent">>,
  <<"retrieval_agent", "api_agent", "synthesis_agent">> >>

MCOutcomes == {
  [visited |-> <<"retrieval_agent", "api_agent", "synthesis_agent">>, grade |-> 90],
  [visited |-> <<"retrieval_agent", "synthesis_agent">>, grade |-> NaN],
  [visited |-> <<"synthesis_agent", "retrieval_agent", "api_agent">>, grade |-> 78]}

MCCommandLines == {
  [gate |-> TRUE, offline |-> FALSE, allow |-> FALSE],
  [gate |-> TRUE, offline |-> TRUE, allow |-> TRUE]}

MCConfigurations == <<"baseline", "hybrid", "all-on">>

\* n samples, all but k of them of time a, the others of time b, in tenths of a microsecond.
Batch(n, a, k, b) == [i \in 1 .. n |-> IF i % 7 = 3 /\ i < 7 * k THEN b ELSE a]

\* Around 2 ms and the limit of 2.3 ms above it, the last of them just over the limit and
\* rounded down to it; around the noise floor; and too short to be reported as more than 0.
MCTimings == {
  [orders |-> Batch(20, 20000, 0, 0)],
  [orders |-> Batch(20, 23004, 0, 0), rag |-> Batch(20, 4000, 0, 0)],
  [orders |-> Batch(20, 20000, 1, 40000), rag |-> Batch(20, 4005, 2, 12000)],
  [orders |-> Batch(20, 20000, 2, 24000), rag |-> Batch(40, 4000, 3, 12000)],
  [orders |-> Batch(40, 4, 0, 0), rag |-> Batch(3, 8000, 1, 9994)],
  [orders |-> Batch(40, 20000, 2, 40000)]}
=============================================================================
