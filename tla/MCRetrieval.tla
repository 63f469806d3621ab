----------------------------- MODULE MCRetrieval -----------------------------
(* Small instances of Retrieval for TLC.                                   *)
EXTENDS Retrieval

Chunk(id, text, meta) == [id |-> id, text |-> text, meta |-> meta, score |-> 0]

\* Three chunks; b lies outside the filter, c is a near copy of a. The row of a that an
\* older model left has another text.
a == Chunk("a", "ta", TRUE)
b == Chunk("b", "tb", FALSE)
c == Chunk("c", "tc", TRUE)
old == Chunk("a", "told", TRUE)

\* Rankings of up to k of the rows.
Orders(S, k) ==
  UNION {{f \in [1 .. n -> S] : \A i, j \in 1 .. n : f[i] = f[j] => i = j} : n \in 0 .. k}

Question(near, matched, hybrid, mmr, rerank, filter, reranker, key) ==
  [near |-> near, matched |-> matched, hybrid |-> hybrid, mmr |-> mmr, rerank |-> rerank,
   filter |-> filter, reranker |-> reranker, key |-> key]

\* w1 asks all kinds of questions of all rankings, w2 the same one over and over.
Questions ==
  [w \in {"w1", "w2"} |->
     IF w = "w2" THEN {Question(<<a, b>>, <<>>, FALSE, FALSE, TRUE, FALSE, "bge", FALSE)}
     ELSE {Question(d, s, TRUE, TRUE, FALSE, FALSE, "bge", FALSE)
             : d \in Orders({a, b, c}, 3), s \in Orders({a, b, c, old}, 2)}
       \cup {Question(<<a, b, c>>, <<b, c>>, hybrid, mmr, TRUE, TRUE, reranker, key)
             : hybrid, mmr, key \in BOOLEAN, reranker \in {"bge", "cohere", "rerank-3.5", "chere"}}
       \cup {Question(<<b>>, <<a, old, b>>, TRUE, TRUE, FALSE, FALSE, "bge", FALSE)}
       \cup {Question(<<>>, <<>>, TRUE, TRUE, TRUE, FALSE, "cohere", TRUE)}]

Nearness == [ta |-> 9, tb |-> 7, tc |-> 6, told |-> 8]
Likeness ==
  [p \in {"ta", "tb", "tc", "told"} \X {"ta", "tb", "tc", "told"} |->
     IF p[1] = p[2] THEN 10 ELSE IF "tb" \in {p[1], p[2]} THEN 1 ELSE 9]
=============================================================================
