------------------------------ MODULE Retrieval ------------------------------
(***************************************************************************)
(* The ranking of retrieve_and_generate: two ranked lists, reciprocal rank *)
(* fusion, MMR, a reranker under a soft deadline, and the two counters the *)
(* alert on that deadline is computed from. Threads of one process answer  *)
(* questions at once. Stores and cache are in RagCorpus.                   *)
(***************************************************************************)
EXTENDS Integers, Sequences, FiniteSets, FiniteSetsExt

CONSTANTS
  Workers,     \* threads that answer questions
  ChunkIds, Texts,  \* of doc_chunks
  Inputs,      \* [Workers -> the questions, with what the indexes hold for them]
  KConst,      \* K_CONST
  RetrieverK,  \* DEFAULT_RETRIEVER_K
  FusedK,      \* DEFAULT_FUSED_K
  MmrK,        \* DEFAULT_MMR_K
  TopK,        \* DEFAULT_RERANK_TOP_K
  Lambda,      \* MMR_LAMBDA, in tenths
  SimQuery,    \* [text -> its cosine similarity to the question]
  Sim,         \* [pair of texts -> theirs]
  Scores,      \* scores a reranker may give
  BgeNames, CohereNames,  \* what RERANKER may say for each backend
  MaxReranks,  \* bound on the reranks
  None

\* A row of doc_chunks as a retriever returns it, with its distance or rank.
Rows == [id : ChunkIds, text : Texts, meta : BOOLEAN, score : Int]

\* The dense query asks for one model_version, and doc_chunks is UNIQUE (doc_id, chunk_idx,
\* model_version): a chunk is near once. A list is no longer than what its ranks are damped by.
ASSUME RetrievalAssumption ==
  /\ KConst \in Nat /\ RetrieverK \in Nat /\ RetrieverK <= KConst + 1
  /\ FusedK \in Nat \ {0} /\ MmrK \in Nat \ {0} /\ TopK \in Nat \ {0}
  /\ Lambda \in 0 .. 10 /\ MaxReranks \in Nat /\ Scores \subseteq Int
  /\ SimQuery \in [Texts -> Int] /\ Sim \in [Texts \X Texts -> Int]
  /\ BgeNames \cap CohereNames = {}
  /\ IsFiniteSet(Workers)
  /\ \A w \in Workers : \A q \in Inputs[w] :
       /\ q.near \in Seq(Rows) /\ q.matched \in Seq(Rows)
       /\ \A i, j \in DOMAIN q.near : q.near[i].id = q.near[j].id => i = j

VARIABLES
  pc,        \* where each thread's request stands
  req,       \* its question
  dense, sparse,  \* what the two retrievers returned to it
  fused,     \* the fused list
  picked,    \* MMR's choice of it
  scored,    \* the reranker's answer: positions in picked with their scores
  timedOut,  \* rerank_timed_out
  context,   \* the chunks that are cited and put into the prompt
  loaded,    \* _RERANKER has been constructed
  requests, timeouts,    \* RERANK_REQUESTS_COUNTER, RERANK_TIMEOUT_COUNTER
  reranked, degraded     \* history: reranks that returned, and those flagged

local == <<pc, req, dense, sparse, fused, picked, scored, timedOut, context>>
counters == <<requests, timeouts, reranked, degraded>>
vars == <<local, loaded, counters>>

-----------------------------------------------------------------------------
First(k, s) == SubSeq(s, 1, Min({k, Len(s)}))

\* The members of s at the positions K, in their order.
At(s, K) ==
  [n \in 1 .. Cardinality(K) |-> s[CHOOSE i \in K : Cardinality({j \in K : j < i}) = n - 1]]

\* sorted(s, key=score, reverse=True): equal scores stay in the order they have.
Above(s, i) == {j \in DOMAIN s : \/ s[j].score > s[i].score
                                 \/ s[j].score = s[i].score /\ j < i}
Sorted(s) == [p \in DOMAIN s |-> s[CHOOSE i \in DOMAIN s : Cardinality(Above(s, i)) = p - 1]]

Ids(s) == {s[i].id : i \in DOMAIN s}

\* 1 / (k_const + rank) in units that make it a whole number.
Unit == LET u[n \in 0 .. RetrieverK] == IF n = 0 THEN 1 ELSE u[n - 1] * (KConst + n)
        IN u[RetrieverK]

\* Mutant of Share: the reciprocal of the rank itself.
Share_Undamped(rank) ==
  LET u[n \in 0 .. RetrieverK] == IF n = 0 THEN 1 ELSE u[n - 1] * n IN u[RetrieverK] \div rank

Share(rank) == Unit \div (KConst + rank)

\* The sum of what a list contributes to a chunk.
Contribution(s, id) == MapThenSumSet(Share, {i \in DOMAIN s : s[i].id = id})

\* The text of the first row of a chunk, dense before sparse.
TextOf(d, s, id) ==
  LET t == d \o s IN t[Min({i \in DOMAIN t : t[i].id = id})].text

\* The chunks of both lists in the order in which the dict first meets them.
Met(d, s) ==
  LET t == d \o s
  IN At(t, {i \in DOMAIN t : \A j \in 1 .. (i - 1) : t[j].id # t[i].id})

FusedAll(d, s) ==
  LET met == Met(d, s)
  IN Sorted([n \in DOMAIN met |->
       [id |-> met[n].id, text |-> TextOf(d, s, met[n].id),
        score |-> Contribution(d, met[n].id) + Contribution(s, met[n].id)]])

rrf_fuse(d, s) == First(FusedK, FusedAll(d, s))

\* How close candidate i is to the nearest of the picks.
Redundancy(c, picks, i) == Max({Sim[<<c[picks[p]].text, c[i].text>>] : p \in DOMAIN picks})

\* Mutant of Objective: the redundancy is added.
Objective_Sign(c, picks, i) ==
  IF picks = <<>> THEN SimQuery[c[i].text]
  ELSE Lambda * SimQuery[c[i].text] + (10 - Lambda) * Redundancy(c, picks, i)

\* MMR's objective, in tenths; the first pick is the nearest candidate.
Objective(c, picks, i) ==
  IF picks = <<>> THEN SimQuery[c[i].text]
  ELSE Lambda * SimQuery[c[i].text] - (10 - Lambda) * Redundancy(c, picks, i)

\* The first of the remaining candidates that no other one exceeds.
Best(c, picks) ==
  LET rest == {i \in DOMAIN c : \A p \in DOMAIN picks : picks[p] # i}
  IN Min({i \in rest : \A j \in rest : Objective(c, picks, j) <= Objective(c, picks, i)})

\* The positions mmr_pick chooses, in its order.
Picks(c) ==
  LET p[n \in 0 .. Min({MmrK, Len(c)})] ==
        IF n = 0 THEN <<>> ELSE Append(p[n - 1], Best(c, p[n - 1]))
  IN p[Min({MmrK, Len(c)})]

mmr_pick(c) == LET p == Picks(c) IN [n \in DOMAIN p |-> c[p[n]]]

\* coverage, without the ratio.
coverage(d, s) ==
  [dense_only |-> Cardinality(Ids(d) \ Ids(s)), sparse_only |-> Cardinality(Ids(s) \ Ids(d)),
   both |-> Cardinality(Ids(d) \cap Ids(s))]

resolve_reranker(name) ==
  IF name \in BgeNames THEN "bge" ELSE IF name \in CohereNames THEN "cohere" ELSE "ValueError"

-----------------------------------------------------------------------------
Stages == {"idle", "fuse", "diversify", "rerank", "load", "predict", "post", "count",
           "breach", "rank", "generate", "raised"}

Clear(w) ==
  /\ req' = [req EXCEPT ![w] = None]
  /\ dense' = [dense EXCEPT ![w] = <<>>] /\ sparse' = [sparse EXCEPT ![w] = <<>>]
  /\ fused' = [fused EXCEPT ![w] = <<>>] /\ picked' = [picked EXCEPT ![w] = <<>>]
  /\ scored' = [scored EXCEPT ![w] = <<>>] /\ context' = [context EXCEPT ![w] = <<>>]
  /\ timedOut' = [timedOut EXCEPT ![w] = FALSE]

Goto(w, stage) == pc' = [pc EXCEPT ![w] = stage]

Init ==
  /\ pc = [w \in Workers |-> "idle"]
  /\ req = [w \in Workers |-> None]
  /\ dense = [w \in Workers |-> <<>>] /\ sparse = [w \in Workers |-> <<>>]
  /\ fused = [w \in Workers |-> <<>>] /\ picked = [w \in Workers |-> <<>>]
  /\ scored = [w \in Workers |-> <<>>] /\ context = [w \in Workers |-> <<>>]
  /\ timedOut = [w \in Workers |-> FALSE]
  /\ loaded = FALSE
  /\ requests = 0 /\ timeouts = 0 /\ reranked = 0 /\ degraded = 0

\* The two queries: both LIMIT k, the metadata filter on the dense one alone.
Retrieve(w, q) ==
  /\ pc[w] = "idle"
  /\ requests < MaxReranks
  /\ req' = [req EXCEPT ![w] = q]
  /\ dense' = [dense EXCEPT ![w] =
       First(RetrieverK, IF q.filter THEN At(q.near, {i \in DOMAIN q.near : q.near[i].meta})
                         ELSE q.near)]
  /\ sparse' = [sparse EXCEPT ![w] = IF q.hybrid THEN First(RetrieverK, q.matched) ELSE <<>>]
  /\ Goto(w, "fuse")
  /\ UNCHANGED <<fused, picked, scored, timedOut, context, loaded, counters>>

\* With hybrid off the dense list goes on with its distances.
Fuse(w) ==
  /\ pc[w] = "fuse"
  /\ fused' = [fused EXCEPT ![w] =
       IF req[w].hybrid THEN rrf_fuse(dense[w], sparse[w]) ELSE First(FusedK, dense[w])]
  /\ Goto(w, "diversify")
  /\ UNCHANGED <<req, dense, sparse, picked, scored, timedOut, context, loaded, counters>>

Diversify(w) ==
  /\ pc[w] = "diversify"
  /\ picked' = [picked EXCEPT ![w] =
       IF req[w].mmr THEN mmr_pick(fused[w]) ELSE First(MmrK, fused[w])]
  /\ \/ req[w].rerank /\ Goto(w, "rerank") /\ UNCHANGED context
     \/ /\ ~req[w].rerank
        /\ context' = [context EXCEPT ![w] = First(TopK, picked'[w])]
        /\ Goto(w, "generate")
  /\ UNCHANGED <<req, dense, sparse, fused, scored, timedOut, loaded, counters>>

\* An unknown backend or a missing COHERE_API_KEY raises, no candidates return at once.
rerank_candidates(w) ==
  /\ pc[w] = "rerank"
  /\ LET backend == resolve_reranker(req[w].reranker)
     IN Goto(w, CASE backend = "ValueError" -> "raised"
                  [] backend # "ValueError" /\ picked[w] = <<>> -> "generate"
                  [] backend = "bge" /\ picked[w] # <<>> -> "load"
                  [] OTHER -> IF req[w].key THEN "post" ELSE "raised")
  /\ UNCHANGED <<req, dense, sparse, fused, picked, scored, timedOut, context, loaded, counters>>

\* Two threads may construct the model at once; the last one stays.
_get_reranker(w) ==
  /\ pc[w] = "load"
  /\ loaded' = TRUE
  /\ Goto(w, "predict")
  /\ UNCHANGED <<req, dense, sparse, fused, picked, scored, timedOut, context, counters>>

\* bge_rerank: scores for all, in time or late.
Predict(w) ==
  /\ pc[w] = "predict"
  /\ \E v \in [DOMAIN picked[w] -> Scores], late \in BOOLEAN :
       /\ scored' = [scored EXCEPT ![w] =
            [i \in DOMAIN picked[w] |-> [index |-> i, score |-> v[i]]]]
       /\ timedOut' = [timedOut EXCEPT ![w] = late]
  /\ Goto(w, "count")
  /\ UNCHANGED <<req, dense, sparse, fused, picked, context, loaded, counters>>

\* Mutant of NotContributed: only an exception counts as a failure.
NotContributed_Errors(failed, rows) == failed

NotContributed(failed, rows) == failed \/ rows = <<>>

\* Rows of a response, in any order; 0 stands for an index that was not sent.
Responses(n) == UNION {[1 .. k -> [index : 0 .. n, score : Scores]] : k \in 0 .. TopK}

\* cohere_rerank: an answer, a timeout or error status, or a body that cannot be read.
Post(w) ==
  /\ pc[w] = "post"
  /\ \/ \E rows \in Responses(Len(picked[w])), failed \in BOOLEAN :
          LET kept == IF failed THEN <<>> ELSE At(rows, {i \in DOMAIN rows : rows[i].index # 0})
          IN /\ failed => rows = <<>>
             /\ scored' = [scored EXCEPT ![w] = kept]
             /\ timedOut' = [timedOut EXCEPT ![w] = NotContributed(failed, kept)]
             /\ Goto(w, "count")
     \/ Goto(w, "raised") /\ UNCHANGED <<scored, timedOut>>
  /\ UNCHANGED <<req, dense, sparse, fused, picked, context, loaded, counters>>

\* Mutant of record_rerank: a breach is counted as a request only after it was one.
record_rerank_Late(w) ==
  /\ pc[w] \in {"count", "breach"}
  /\ \/ /\ pc[w] = "count"
        /\ timeouts' = IF timedOut[w] THEN timeouts + 1 ELSE timeouts
        /\ Goto(w, "breach") /\ UNCHANGED requests
     \/ /\ pc[w] = "breach"
        /\ requests' = requests + 1
        /\ Goto(w, "rank") /\ UNCHANGED timeouts
  /\ UNCHANGED <<req, dense, sparse, fused, picked, scored, timedOut, context, loaded,
                 reranked, degraded>>

\* Two increments, each atomic.
record_rerank(w) ==
  /\ pc[w] \in {"count", "breach"}
  /\ \/ /\ pc[w] = "count"
        /\ requests' = requests + 1
        /\ Goto(w, IF timedOut[w] THEN "breach" ELSE "rank") /\ UNCHANGED timeouts
     \/ /\ pc[w] = "breach"
        /\ timeouts' = timeouts + 1
        /\ Goto(w, "rank") /\ UNCHANGED requests
  /\ UNCHANGED <<req, dense, sparse, fused, picked, scored, timedOut, context, loaded,
                 reranked, degraded>>

\* Late: the first candidates as they came. In time: by the reranker's scores.
Rank(w) ==
  /\ pc[w] = "rank"
  /\ context' = [context EXCEPT ![w] =
       IF timedOut[w] THEN First(TopK, picked[w])
       ELSE LET s == Sorted(scored[w])
            IN First(TopK, [n \in DOMAIN s |-> [picked[w][s[n].index] EXCEPT !.score = s[n].score]])]
  /\ reranked' = reranked + 1
  /\ degraded' = IF timedOut[w] THEN degraded + 1 ELSE degraded
  /\ Goto(w, "generate")
  /\ UNCHANGED <<req, dense, sparse, fused, picked, scored, timedOut, loaded, requests, timeouts>>

\* The prompt is built, the model answers or fails, and the request is over.
Finish(w) ==
  /\ pc[w] \in {"generate", "raised"}
  /\ Goto(w, "idle")
  /\ Clear(w)
  /\ UNCHANGED <<loaded, counters>>

\* The model does not load, or scoring raises.
Raise(w) ==
  /\ pc[w] \in {"load", "predict"}
  /\ Goto(w, "raised")
  /\ UNCHANGED <<req, dense, sparse, fused, picked, scored, timedOut, context, loaded, counters>>

\* The process is replaced, its counters start again.
Restart ==
  /\ pc' = [w \in Workers |-> "idle"]
  /\ req' = [w \in Workers |-> None]
  /\ dense' = [w \in Workers |-> <<>>] /\ sparse' = [w \in Workers |-> <<>>]
  /\ fused' = [w \in Workers |-> <<>>] /\ picked' = [w \in Workers |-> <<>>]
  /\ scored' = [w \in Workers |-> <<>>] /\ context' = [w \in Workers |-> <<>>]
  /\ timedOut' = [w \in Workers |-> FALSE]
  /\ loaded' = FALSE
  /\ requests' = 0 /\ timeouts' = 0 /\ reranked' = 0 /\ degraded' = 0

Step(w) ==
  \/ Fuse(w) \/ Diversify(w) \/ rerank_candidates(w) \/ _get_reranker(w) \/ Predict(w)
  \/ Post(w) \/ record_rerank(w) \/ Rank(w) \/ Finish(w) \/ Raise(w)

Next ==
  \/ \E w \in Workers : Step(w) \/ \E q \in Inputs[w] : Retrieve(w, q)
  \/ Restart

Spec == Init /\ [][Next]_vars

-----------------------------------------------------------------------------
TypeOK ==
  /\ pc \in [Workers -> Stages]
  /\ \A w \in Workers : req[w] = None \/ req[w] \in Inputs[w]
  /\ timedOut \in [Workers -> BOOLEAN] /\ loaded \in BOOLEAN
  /\ requests \in Nat /\ timeouts \in Nat /\ reranked \in Nat /\ degraded \in Nat

Once(s) == Cardinality(Ids(s)) = Len(s)

\* rrf_fuse: whatever their ranks, a chunk that both retrievers found comes before
\* every chunk that only one of them found, as long as each names a chunk once.
BothBeatEither ==
  \A w \in Workers : pc[w] = "diversify" /\ req[w].hybrid /\ Once(sparse[w]) =>
    \A i, j \in DOMAIN fused[w] :
      /\ fused[w][i].id \in Ids(dense[w]) \cap Ids(sparse[w])
      /\ fused[w][j].id \notin Ids(dense[w]) \cap Ids(sparse[w])
      => i < j

\* mmr_pick: no candidate that was passed over is both nearer to the question than
\* the pick that was made and less like the picks before it.
NoneDominated ==
  \A w \in Workers : pc[w] \in {"rerank", "generate"} /\ req[w].mmr =>
    LET c == fused[w]
        p == Picks(c)
    IN \A n \in 2 .. Len(p) : \A i \in DOMAIN c :
         (\A q \in DOMAIN p : p[q] # i) =>
           ~ /\ SimQuery[c[i].text] > SimQuery[c[p[n]].text]
             /\ Redundancy(c, SubSeq(p, 1, n - 1), i) < Redundancy(c, SubSeq(p, 1, n - 1), p[n])

Cited(w) == {<<context[w][n].id, context[w][n].text>> : n \in DOMAIN context[w]}

\* Whichever backend did or did not answer, the context is what was retrieved, with the
\* text of the dense row where there is one; it is not empty when something was; and it
\* is in retrieval order with the incoming scores exactly when the flag says so.
HonestContext ==
  \A w \in Workers : pc[w] = "generate" =>
    /\ \A c \in Cited(w) : c[1] \in Ids(dense[w]) \cup Ids(sparse[w])
    /\ \A c \in Cited(w), i \in DOMAIN dense[w] : dense[w][i].id = c[1] => dense[w][i].text = c[2]
    /\ dense[w] # <<>> => context[w] # <<>>
    /\ timedOut[w] => context[w] = First(TopK, picked[w])
    /\ req[w].rerank /\ ~timedOut[w] =>
         \A i, j \in DOMAIN context[w] : i < j => context[w][i].score >= context[w][j].score

\* The alert's ratio is a ratio at every scrape: no breach is seen before its request,
\* and no degraded answer leaves before it is counted.
AlertTells ==
  /\ timeouts <= requests
  /\ reranked <= requests /\ degraded <= timeouts
  /\ (\A w \in Workers : pc[w] \notin {"breach", "rank"}) =>
       reranked = requests /\ degraded = timeouts

-----------------------------------------------------------------------------
\* Refuted: while the rows of two models are in the table, sparse_topk_fts returns a
\* chunk twice, and its two contributions lift it over chunks that both lists hold.
BothBeatEitherAlways ==
  \A w \in Workers : pc[w] = "diversify" /\ req[w].hybrid =>
    \A i, j \in DOMAIN fused[w] :
      /\ fused[w][i].id \in Ids(dense[w]) \cap Ids(sparse[w])
      /\ fused[w][j].id \notin Ids(dense[w]) \cap Ids(sparse[w])
      => i < j

\* Refuted: a 200 whose body is no JSON, or whose rows lack relevance_score, is no
\* httpx error and leaves cohere_rerank as an exception.
DegradesSoftly ==
  \A w \in Workers : pc[w] = "raised" =>
    ~(req[w].reranker \in CohereNames /\ req[w].key)

\* Refuted: metadata_filter reaches the dense query only.
FilterHolds ==
  \A w \in Workers : pc[w] = "generate" /\ req[w].filter =>
    \A c \in Cited(w) : \E i \in DOMAIN req[w].near :
      req[w].near[i].id = c[1] /\ req[w].near[i].meta
=============================================================================
