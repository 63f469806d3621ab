----------------------------- MODULE MCLlmSpend -----------------------------
(* Small instances of LlmSpend for TLC.                                    *)
EXTENDS LlmSpend

\* The estimates belong to one trace. All come with the token of one subject; it has no
\* tenant claim.
Tokens == [c \in Calls |-> [subject |-> "sub", tenant |-> None]]
Asked == [c \in Calls |-> "tenant-a"]
Traces == [c \in Calls |-> IF c \in Estimates THEN "corr-1" ELSE c]

\* Claude Haiku and Sonnet, in millionths of a dollar per token.
PriceBook ==
  [m \in {"claude-haiku-4-5", "claude-sonnet-5"} |->
     IF m = "claude-haiku-4-5" THEN [input |-> 1, output |-> 5] ELSE [input |-> 2, output |-> 10]]

\* On the wrong side of a rounding edge in each class, and most of a cent.
TokenCounts == {[input |-> 5006, output |-> 201]}
=============================================================================
