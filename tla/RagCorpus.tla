------------------------------ MODULE RagCorpus ------------------------------
(***************************************************************************)
(* taxcalc-ai around its two stores: the daily ingest DAG (load, chunk,    *)
(* gate, embed, upsert, bump), the doc_chunks table it writes, the Redis   *)
(* answer cache with its epoch per tenant, and the requests that run       *)
(* retrieve_and_generate meanwhile. One SQL statement or Redis command is  *)
(* one step. Which chunks the ranking keeps is left open here; Retrieval   *)
(* models it.                                                              *)
(***************************************************************************)
EXTENDS Integers, Sequences, FiniteSets, FiniteSetsExt

CONSTANTS
  Tenants,   \* TENANTS of the DAG, all whose documents are ingested
  BumpOrder, \* the same as the tuple the bump walks through
  Files,     \* contents the corpus file may have: sequences of rows
  FirstFile, \* the one it starts with
  Texts,     \* what a row of the file may hold as chunk_text
  Fits,      \* those of 1 .. 8000 characters
  Split,     \* the splitter: [Texts -> sequence of chunk texts]
  Models,    \* number of values MODEL_NAME takes, numbered as they came
  Asking,    \* the tenants whose questions are followed
  Buckets,   \* quantised query vectors
  Workers,   \* threads that answer questions
  Kept,      \* DEFAULT_RERANK_TOP_K
  Retries,   \* retries of the DAG's default_args
  MaxRuns,   \* bound on the runs of the DAG
  MaxEdits,  \* bound on the changes of the corpus file and of the model
  MaxFaults, \* bound on the tasks that fail for an outside reason
  None

ASSUME RagAssumption ==
  /\ \A i \in DOMAIN BumpOrder : BumpOrder[i] \in Tenants
  /\ \A t \in Tenants : \E i \in DOMAIN BumpOrder : BumpOrder[i] = t
  /\ BumpOrder \in Seq(Tenants) /\ BumpOrder # <<>>
  /\ \A f \in Files : /\ Len(f) \in Nat /\ DOMAIN f = 1 .. Len(f)
                      /\ \A i \in DOMAIN f : f[i].tenant \in Tenants /\ f[i].text \in Texts
  /\ Max({Len(Split[t]) : t \in Texts}) \in Nat
  /\ Asking \subseteq Tenants
  /\ FirstFile \in Files /\ MaxFaults \in Nat
  /\ Kept \in Nat /\ Retries \in Nat /\ MaxRuns \in Nat /\ MaxEdits \in Nat
  /\ Models \in Nat \ {0} /\ None \notin Tenants

VARIABLES
  file,      \* the corpus file
  edits,     \* changes of it so far
  model,     \* MODEL_NAME of the deployed code
  rows,      \* doc_chunks
  epoch,     \* the cache-epoch counters
  cache,     \* the cached answers
  task,      \* the task of the active run, or "none"
  attempt,   \* retries of it so far
  faults,    \* failures for an outside reason so far
  runs,      \* runs so far
  pending,   \* upsert_chunks: the rows the gate let through
  left,      \* bump_cache_epochs: tenants still to bump
  pc,        \* where each worker's request stands
  job,       \* its tenant and bucket
  seen,      \* the epoch it read last
  dense,     \* what dense_topk_filtered returned to it
  answer,    \* the answer it has built or was served
  offered,   \* history: the candidates of the last upsert_chunks
  commits,   \* history: commits of load_rows so far
  announced, \* history: commits when a run last completed its bumps
  published  \* history: texts each tenant has had in the file

fileVars == <<file, edits, published>>
dagVars == <<task, attempt, faults, runs, pending, left, offered>>
askVars == <<pc, job, seen, dense, answer>>
storeVars == <<rows, epoch, cache, commits>>
vars == <<fileVars, model, dagVars, askVars, storeVars, announced>>

-----------------------------------------------------------------------------
(* The corpus file, the chunker and the gate.                              *)

\* load_corpus: positions of the rows kept, the first of each (doc_id, chunk_idx),
\* and of those the ones whose length is in bounds.
load_corpus(f) ==
  {i \in DOMAIN f :
     /\ \A j \in 1 .. (i - 1) : <<f[j].doc, f[j].idx>> # <<f[i].doc, f[i].idx>>
     /\ f[i].text \in Fits}

\* Positions of the chunks: the row and the piece of it.
Pieces(f) == {x \in load_corpus(f) \X (1 .. Max({Len(Split[t]) : t \in Texts})) :
                x[2] <= Len(Split[f[x[1]].text])}

\* chunk_docs: the ordinal counts per doc_id, over all rows that carry it.
chunk_docs(f) ==
  {[doc |-> f[x[1]].doc, tenant |-> f[x[1]].tenant, text |-> Split[f[x[1]].text][x[2]],
    idx |-> Cardinality({y \in Pieces(f) : /\ f[y[1]].doc = f[x[1]].doc
                                           /\ \/ y[1] < x[1]
                                              \/ y[1] = x[1] /\ y[2] < x[2]})]
     : x \in Pieces(f)}

candidates_from_chunks(f, m) ==
  {[doc |-> c.doc, idx |-> c.idx, model |-> m, tenant |-> c.tenant, text |-> c.text]
     : c \in chunk_docs(f)}

\* UNIQUE (doc_id, chunk_idx, model_version).
Key(r) == <<r.doc, r.idx, r.model>>

\* Mutant of pending_candidates: the stored hash of any model will do.
pending_candidates_AnyModel(cs) ==
  {c \in cs : ~\E r \in rows : r.doc = c.doc /\ r.idx = c.idx /\ r.text = c.text}

\* The gate: candidates whose stored content_hash differs or is missing.
pending_candidates(cs) ==
  {c \in cs : ~\E r \in rows : Key(r) = Key(c) /\ r.text = c.text}

\* Mutant of MayUpdate: DO UPDATE without its WHERE.
MayUpdate_Dropped(r, c) == TRUE

\* WHERE doc_chunks.tenant_id = EXCLUDED.tenant_id.
MayUpdate(r, c) == r.tenant = c.tenant

Held(c) == {r \in rows : Key(r) = Key(c)}

\* The table after INSERT ... ON CONFLICT DO UPDATE, whose SET leaves tenant_id alone.
Upserted(batch) ==
  {r \in rows : \A c \in batch : Key(c) = Key(r) => ~MayUpdate(r, c)}
    \cup {c \in batch : Held(c) = {}}
    \cup UNION {{[c EXCEPT !.tenant = r.tenant] : r \in {q \in Held(c) : MayUpdate(q, c)}}
                  : c \in batch}

\* The rows by which cur.rowcount falls short of the payload.
Suppressed(batch) == {c \in batch : \E r \in Held(c) : ~MayUpdate(r, c)}

-----------------------------------------------------------------------------
(* The answer cache.                                                       *)

\* _bucket_key.
CacheKey(e) == <<e.tenant, e.epoch, e.bucket>>

Entry(t, n, b) == {e \in cache : CacheKey(e) = <<t, n, b>>}

\* What dense_topk_filtered may rank: the tenant's rows of the deployed model.
DenseRows(t) == {r \in rows : r.tenant = t /\ r.model = model}

\* What sparse_topk_fts may match: the tenant's rows, of whichever model.
SparseRows(t) == {r \in rows : r.tenant = t}

ChunkId(r) == <<r.doc, r.idx>>

\* The fused candidates: one per chunk id, with the dense text where there is one.
\* Of several sparse rows with one chunk id the first gives the text.
Fusions(d, s) ==
  {f \in SUBSET (d \cup s) :
     /\ \A x, y \in f : ChunkId(x) = ChunkId(y) => x = y
     /\ {ChunkId(x) : x \in f} = {ChunkId(x) : x \in d \cup s}
     /\ \A x \in f : x \notin d => \A y \in d : ChunkId(y) # ChunkId(x)}

Smaller(m, n) == IF m < n THEN m ELSE n

\* The citations the ranking may settle on.
Contexts(f) == kSubset(Smaller(Kept, Cardinality(f)), f)

Cites(c) == {[chunk |-> ChunkId(x), text |-> x.text] : x \in c}

Citing(a, c) == [a EXCEPT !.cites = Cites(c)]

Idle == [tenant |-> None, bucket |-> None]
NoAnswer == [cites |-> {}, tenant |-> None, from |-> 0, base |-> 0]

-----------------------------------------------------------------------------
TypeOK ==
  /\ file \in Files /\ edits \in 0 .. MaxEdits
  /\ model \in 1 .. Models
  /\ epoch \in [Tenants -> Nat]
  /\ task \in {"none", "load_docs", "chunk_docs", "embed_chunks", "upsert_chunks",
               "load_rows", "bump_cache_epochs"}
  /\ attempt \in 0 .. Retries /\ runs \in 0 .. MaxRuns /\ faults \in 0 .. MaxFaults
  /\ left \in Seq(Tenants)
  /\ pc \in [Workers -> {"idle", "lookup", "dense", "sparse", "generate", "set", "reply"}]
  /\ job \in [Workers -> [tenant : Tenants, bucket : Buckets] \cup {Idle}]
  /\ seen \in [Workers -> Nat]
  /\ commits \in Nat /\ announced \in Nat

Init ==
  /\ file = FirstFile
  /\ edits = 0
  /\ model = 1
  /\ rows = {}
  /\ epoch = [t \in Tenants |-> 0]
  /\ cache = {}
  /\ task = "none" /\ attempt = 0 /\ runs = 0 /\ faults = 0
  /\ pending = {} /\ left = <<>>
  /\ pc = [w \in Workers |-> "idle"]
  /\ job = [w \in Workers |-> Idle]
  /\ seen = [w \in Workers |-> 0]
  /\ dense = [w \in Workers |-> {}]
  /\ answer = [w \in Workers |-> NoAnswer]
  /\ offered = {}
  /\ commits = 0 /\ announced = 0
  /\ published = [t \in Tenants |-> {c.text : c \in {d \in chunk_docs(file) : d.tenant = t}}]

-----------------------------------------------------------------------------
(* taxcalc_ai_ingest_dag: one active run, its tasks in a chain.            *)

NextTask ==
  [load_docs |-> "chunk_docs", chunk_docs |-> "embed_chunks",
   embed_chunks |-> "upsert_chunks", upsert_chunks |-> "bump_cache_epochs",
   bump_cache_epochs |-> "none"]

\* A task has succeeded, after n commits; the last one of the chain ends the run.
Completed(t, n) ==
  /\ task' = NextTask[t]
  /\ attempt' = 0
  /\ left' = BumpOrder
  /\ announced' = IF NextTask[t] = "none" THEN n ELSE announced

\* schedule="@daily", max_active_runs=1.
StartRun ==
  /\ task = "none"
  /\ runs < MaxRuns
  /\ runs' = runs + 1
  /\ task' = "load_docs" /\ attempt' = 0
  /\ UNCHANGED <<fileVars, model, faults, pending, left, offered, askVars, storeVars, announced>>

\* load_docs, chunk_docs and embed_chunks read the file and the table and pass a
\* list of ids or a count on, for the log line of the next task.
ReadingTask(t) ==
  /\ task = t
  /\ Completed(t, commits)
  /\ UNCHANGED <<fileVars, model, runs, faults, pending, offered, askVars, storeVars>>

\* upsert_chunks, embed_pending up to the encode: the file is read anew, the gate
\* looks at the table in a transaction of its own.
upsert_chunks ==
  /\ task = "upsert_chunks"
  /\ offered' = candidates_from_chunks(file, model)
  /\ pending' = pending_candidates(offered')
  /\ IF pending' = {}
     THEN Completed("upsert_chunks", commits)
     ELSE task' = "load_rows" /\ UNCHANGED <<attempt, left, announced>>
  /\ UNCHANGED <<fileVars, model, runs, faults, askVars, storeVars>>

\* Failed: the scheduler runs the task again, or gives the run up.
Failed(t) ==
  /\ \/ /\ attempt < Retries
        /\ attempt' = attempt + 1
        /\ task' = t
     \/ /\ attempt = Retries
        /\ attempt' = 0
        /\ task' = "none"
  /\ left' = BumpOrder
  /\ UNCHANGED announced

\* load_rows: one transaction, committed whole or, on a suppressed row
\* (CrossTenantDocIdError), rolled back whole.
load_rows ==
  /\ task = "load_rows"
  /\ \/ /\ Suppressed(pending) = {}
        /\ rows' = Upserted(pending)
        /\ commits' = commits + 1
        /\ Completed("upsert_chunks", commits + 1)
     \/ /\ Suppressed(pending) # {}
        /\ Failed("upsert_chunks")
        /\ UNCHANGED <<rows, commits>>
  /\ pending' = {}
  /\ UNCHANGED <<fileVars, model, runs, faults, offered, askVars, epoch, cache>>

\* Mutant of bump_epoch: the INCR after the loop, for the last tenant alone.
bump_epoch_LastOnly ==
  /\ task = "bump_cache_epochs"
  /\ epoch' = [epoch EXCEPT ![BumpOrder[Len(BumpOrder)]] = @ + 1]
  /\ Completed("bump_cache_epochs", commits)
  /\ UNCHANGED <<fileVars, model, runs, faults, pending, offered, askVars, rows, cache, commits>>

\* bump_cache_epochs: one INCR per tenant.
bump_epoch ==
  /\ task = "bump_cache_epochs"
  /\ epoch' = [epoch EXCEPT ![Head(left)] = @ + 1]
  /\ IF Len(left) = 1
     THEN Completed("bump_cache_epochs", commits)
     ELSE left' = Tail(left) /\ UNCHANGED <<task, attempt, announced>>
  /\ UNCHANGED <<fileVars, model, runs, faults, pending, offered, askVars, rows, cache, commits>>

\* A task raises (Postgres, Redis, the model download, the file), or its worker
\* dies: what it had done so far stays done, and a retry starts it over.
TaskFails ==
  /\ task # "none"
  /\ faults < MaxFaults
  /\ faults' = faults + 1
  /\ Failed(IF task = "load_rows" THEN "upsert_chunks" ELSE task)
  /\ pending' = {}
  /\ UNCHANGED <<fileVars, model, runs, offered, askVars, storeVars>>

\* The corpus file is replaced while a run may be under way.
EditFile(f) ==
  /\ edits < MaxEdits
  /\ f # file
  /\ file' = f /\ edits' = edits + 1
  /\ published' = [t \in Tenants |->
       published[t] \cup {c.text : c \in {d \in chunk_docs(f) : d.tenant = t}}]
  /\ UNCHANGED <<model, dagVars, askVars, storeVars, announced>>

\* A deployment with another MODEL_NAME; answering processes start anew.
Redeploy(m) ==
  /\ m # model
  /\ edits < MaxEdits
  /\ edits' = edits + 1
  /\ model' = m
  /\ pc' = [w \in Workers |-> "idle"]
  /\ job' = [w \in Workers |-> Idle]
  /\ seen' = [w \in Workers |-> 0]
  /\ dense' = [w \in Workers |-> {}]
  /\ answer' = [w \in Workers |-> NoAnswer]
  /\ UNCHANGED <<file, published, dagVars, storeVars, announced>>

-----------------------------------------------------------------------------
(* retrieve_and_generate, one request per worker at a time.                *)

\* Its cache_lookup begins: get_epoch.
Ask(w, t, b) ==
  /\ pc[w] = "idle"
  /\ pc' = [pc EXCEPT ![w] = "lookup"]
  /\ job' = [job EXCEPT ![w] = [tenant |-> t, bucket |-> b]]
  /\ seen' = [seen EXCEPT ![w] = epoch[t]]
  /\ UNCHANGED <<fileVars, model, dagVars, dense, answer, storeVars, announced>>

\* The GET, and on a hit the check of every citation's tenant.
cache_lookup(w) ==
  /\ pc[w] = "lookup"
  /\ LET t == job[w].tenant
         hits == {e \in Entry(t, seen[w], job[w].bucket) : e.cites = {} \/ e.stamp = t}
     IN \/ \E e \in hits :
             /\ pc' = [pc EXCEPT ![w] = "reply"]
             /\ answer' = [answer EXCEPT ![w] =
                  [cites |-> e.cites, tenant |-> t, from |-> e.from, base |-> e.base]]
        \/ hits = {} /\ pc' = [pc EXCEPT ![w] = "dense"] /\ UNCHANGED answer
  /\ UNCHANGED <<fileVars, model, dagVars, job, seen, dense, storeVars, announced>>

dense_topk_filtered(w) ==
  /\ pc[w] = "dense"
  /\ dense' = [dense EXCEPT ![w] = DenseRows(job[w].tenant)]
  /\ answer' = [answer EXCEPT ![w] =
       [cites |-> {}, tenant |-> job[w].tenant, from |-> seen[w], base |-> commits]]
  /\ pc' = [pc EXCEPT ![w] = "sparse"]
  /\ UNCHANGED <<fileVars, model, dagVars, job, seen, storeVars, announced>>

\* A second statement, at another snapshot (none at all with RAG_USE_HYBRID off),
\* then fusion, MMR and reranking, up to the call of the model.
sparse_topk_fts(w) ==
  /\ pc[w] = "sparse"
  /\ \E s \in SUBSET SparseRows(job[w].tenant) :
       \E f \in Fusions(dense[w], s) : \E c \in Contexts(f) :
         answer' = [answer EXCEPT ![w] = Citing(@, c)]
  /\ dense' = [dense EXCEPT ![w] = {}]
  /\ pc' = [pc EXCEPT ![w] = "generate"]
  /\ UNCHANGED <<fileVars, model, dagVars, job, seen, storeVars, announced>>

\* messages.create has answered; cache_store begins with a get_epoch of its own.
generate(w) ==
  /\ pc[w] = "generate"
  /\ seen' = [seen EXCEPT ![w] = epoch[job[w].tenant]]
  /\ pc' = [pc EXCEPT ![w] = "set"]
  /\ UNCHANGED <<fileVars, model, dagVars, job, dense, answer, storeVars, announced>>

\* The SET. The answer returned is the one stored, plus its usage.
cache_store(w) ==
  /\ pc[w] = "set"
  /\ LET k == <<job[w].tenant, seen[w], job[w].bucket>>
     IN cache' = {e \in cache : CacheKey(e) # k} \cup
          {[tenant |-> k[1], epoch |-> k[2], bucket |-> k[3], stamp |-> job[w].tenant,
            cites |-> answer[w].cites, from |-> answer[w].from, base |-> answer[w].base]}
  /\ pc' = [pc EXCEPT ![w] = "reply"]
  /\ UNCHANGED <<fileVars, model, dagVars, job, seen, dense, answer, rows, epoch, commits,
                 announced>>

\* The request is over: its answer has been returned, or one of these steps has
\* raised and the caller gets an error instead.
Leaves(w) ==
  /\ pc[w] # "idle"
  /\ pc' = [pc EXCEPT ![w] = "idle"]
  /\ job' = [job EXCEPT ![w] = Idle]
  /\ seen' = [seen EXCEPT ![w] = 0]
  /\ dense' = [dense EXCEPT ![w] = {}]
  /\ answer' = [answer EXCEPT ![w] = NoAnswer]
  /\ UNCHANGED <<fileVars, model, dagVars, storeVars, announced>>

\* Mutant of Expire: cache_store sets no expiry.
Expire_Never(t, n, b) == FALSE /\ UNCHANGED vars

\* Redis drops an answer whose ex=ttl_seconds are over.
Expire(t, n, b) ==
  /\ Entry(t, n, b) # {}
  /\ cache' = cache \ Entry(t, n, b)
  /\ UNCHANGED <<fileVars, model, dagVars, askVars, rows, epoch, commits, announced>>

-----------------------------------------------------------------------------
Dag ==
  \/ StartRun \/ upsert_chunks \/ load_rows \/ bump_epoch
  \/ \E t \in {"load_docs", "chunk_docs", "embed_chunks"} : ReadingTask(t)

Answering(w) ==
  cache_lookup(w) \/ dense_topk_filtered(w) \/ sparse_topk_fts(w) \/ generate(w) \/ cache_store(w)

Epochs == 0 .. (MaxRuns * (Retries + 1))

Next ==
  \/ Dag \/ TaskFails
  \/ \E f \in Files : EditFile(f)
  \/ \E m \in 1 .. Models : Redeploy(m)
  \/ \E w \in Workers :
       \/ Answering(w) \/ Leaves(w)
       \/ \E t \in Asking, b \in Buckets : Ask(w, t, b)
  \/ \E t \in Asking, n \in Epochs, b \in Buckets : Expire(t, n, b)

Spec == Init /\ [][Next]_vars

\* The scheduler runs tasks that are due, requests are served or fail (every client
\* of the pipeline has a timeout) and Redis expires what is due.
FairSpec ==
  /\ Spec
  /\ WF_vars(Dag \/ TaskFails)
  /\ \A w \in Workers : WF_vars(Answering(w) \/ Leaves(w))
  /\ \A t \in Asking, n \in Epochs, b \in Buckets : WF_vars(Expire(t, n, b))

-----------------------------------------------------------------------------
\* Tenants are kept apart from the file to the answer: whatever doc_ids collide and
\* whatever a row, an answer or the cache has been through, a tenant is only ever
\* told text that it published itself.
ServesOwnText ==
  /\ \A w \in Workers : \A x \in answer[w].cites : x.text \in published[answer[w].tenant]
  /\ \A e \in cache : \A x \in e.cites : x.text \in published[e.tenant]

\* A run that gets to its bumps has the chunks it was offered in the table, under
\* the model they were offered for, although the gate skipped some of them and
\* tasks failed and were repeated.
OfferedIsStored ==
  task = "bump_cache_epochs" =>
    \A c \in offered : \E r \in rows : Key(r) = Key(c) /\ r.text = c.text

\* Once a run has announced its commit, no answer that the cache can serve goes
\* back to the corpus before it, except one that was already being built when the
\* bump came.
BumpSeparates ==
  announced = commits =>
    \A e \in cache : e.epoch = epoch[e.tenant] /\ e.from = e.epoch => e.base = commits

\* The TTL is the backstop: when the corpus stays as it is, answers from an older
\* one are at some time gone for good, even if a bump was missed or overtaken.
StaleAgesOut == <>[](\A e \in cache : e.base = commits)

-----------------------------------------------------------------------------
\* Refuted: an answer whose request overtakes the bump is stored under the new
\* epoch, so that the cache serves the corpus of before the announced commit.
AnnouncedIsServed ==
  announced = commits => \A e \in cache : e.epoch = epoch[e.tenant] => e.base = commits

\* Refuted: the gate compares texts and not tenants, so a document with the id and
\* the text of another tenant's is skipped without a word and never stored.
CollisionIsLoud ==
  task = "bump_cache_epochs" =>
    \A c \in offered : \E r \in rows : Key(r) = Key(c) /\ r.text = c.text /\ r.tenant = c.tenant

\* Refuted: sparse_topk_fts does not ask for the model, and no upsert touches the
\* rows of an older one, so that text which was replaced since is cited again.
CitesCurrentText ==
  \A w \in Workers : pc[w] = "generate" =>
    \A x \in answer[w].cites : answer[w].base = commits =>
      \E r \in DenseRows(answer[w].tenant) : ChunkId(r) = x.chunk /\ r.text = x.text
=============================================================================
