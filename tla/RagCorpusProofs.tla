-------------------------- MODULE RagCorpusProofs --------------------------
(***************************************************************************)
(* Proofs about RagCorpus, for any tenants, files, splitter, models,       *)
(* workers, runs, retries and faults.                                      *)
(***************************************************************************)
EXTENDS RagCorpus, FiniteSetTheorems, TLAPS

-----------------------------------------------------------------------------
(* Frames and types                                                          *)

WorkerStep(w) ==
  \/ Answering(w) \/ Leaves(w)
  \/ \E t \in Asking, b \in Buckets : Ask(w, t, b)

\* The DAG leaves the file, the model, the cache and the requests alone.
LEMMA DagFrame ==
  ASSUME Dag \/ TaskFails
  PROVE  UNCHANGED <<fileVars, model, askVars, cache>>
  BY DEF Dag, TaskFails, StartRun, upsert_chunks, load_rows, bump_epoch, ReadingTask, storeVars

\* Requests leave the file, the model, the DAG, the table and the epochs alone.
LEMMA WorkerFrame ==
  ASSUME NEW w \in Workers, WorkerStep(w)
  PROVE  UNCHANGED <<fileVars, model, dagVars, rows, epoch, commits, announced>>
  BY DEF WorkerStep, Answering, Leaves, Ask, cache_lookup, dense_topk_filtered, sparse_topk_fts,
         generate, cache_store, storeVars

\* The steps of the system by the part that takes them.
LEMMA StepCases ==
  ASSUME [Next]_vars
  PROVE  \/ Dag \/ TaskFails
         \/ \E f \in Files : EditFile(f)
         \/ \E m \in 1 .. Models : Redeploy(m)
         \/ \E w \in Workers : WorkerStep(w)
         \/ \E t \in Asking, n \in Epochs, b \in Buckets : Expire(t, n, b)
         \/ UNCHANGED vars
  BY DEF Next, WorkerStep

\* The list of tenants still to bump is not empty while the bumps go on.
LeftInv == task = "bump_cache_epochs" => left # <<>>

\* A request in progress has a tenant.
BusyInv == \A w \in Workers : pc[w] # "idle" => job[w].tenant \in Tenants

\* A sequence with an element has a first one, and a rest that is empty if it is alone.
LEMMA HeadAndTail ==
  ASSUME NEW S, NEW q \in Seq(S), q # <<>>
  PROVE  /\ Head(q) \in S /\ Tail(q) \in Seq(S) /\ Head(q) = q[1]
         /\ Len(q) # 1 => Tail(q) # <<>>
         /\ \A i \in DOMAIN q : i = 1 \/ (i - 1 \in DOMAIN Tail(q) /\ Tail(q)[i - 1] = q[i])
<1>1. PICK n \in Nat : n = Len(q)
  OBVIOUS
<1>2. n # 0 /\ DOMAIN q = 1 .. n
  BY <1>1
<1>3. Head(q) \in S /\ Head(q) = q[1] /\ Tail(q) \in Seq(S) /\ Len(Tail(q)) = n - 1
  BY <1>1, <1>2
<1>4. DOMAIN Tail(q) = 1 .. n - 1 /\ \A i \in 1 .. n - 1 : Tail(q)[i] = q[i + 1]
  BY <1>1, <1>2, <1>3
<1>5. n # 1 => Tail(q) # <<>>
  <2>1. Len(<<>>) = 0
    OBVIOUS
  <2>2. n # 1 => Len(Tail(q)) # Len(<<>>)
    BY <1>2, <1>3, <2>1
  <2>3. QED
    BY <2>2
<1>6. ASSUME NEW i \in DOMAIN q, i # 1
      PROVE  i - 1 \in DOMAIN Tail(q) /\ Tail(q)[i - 1] = q[i]
  <2>1. i - 1 \in 1 .. n - 1 /\ (i - 1) + 1 = i
    BY <1>2, <1>6
  <2>2. QED
    BY <1>4, <2>1
<1>7. QED
  BY <1>1, <1>3, <1>5, <1>6

\* The chain of tasks; the bumps are its last one.
LEMMA Chain ==
  /\ NextTask["load_docs"] = "chunk_docs"
  /\ NextTask["chunk_docs"] = "embed_chunks"
  /\ NextTask["embed_chunks"] = "upsert_chunks"
  /\ NextTask["upsert_chunks"] = "bump_cache_epochs"
  /\ NextTask["bump_cache_epochs"] = "none"
  BY DEF NextTask

\* The DAG's own state keeps its types.
LEMMA DagType ==
  ASSUME TypeOK, LeftInv, Dag \/ TaskFails
  PROVE  TypeOK' /\ LeftInv'
<1>1. /\ epoch' \in [Tenants -> Nat] /\ commits' \in Nat /\ announced' \in Nat
      /\ left' \in Seq(Tenants)
  <2>1. CASE bump_epoch
    <3>1. left \in Seq(Tenants) /\ left # <<>>
      BY <2>1 DEF TypeOK, LeftInv, bump_epoch
    <3>2. Head(left) \in Tenants /\ Tail(left) \in Seq(Tenants)
      BY <3>1, HeadAndTail
    <3>3. epoch' \in [Tenants -> Nat] /\ commits' \in Nat
      BY <2>1, <3>2 DEF TypeOK, bump_epoch
    <3>4. left' \in Seq(Tenants) /\ announced' \in Nat
      BY <2>1, <3>2, RagAssumption DEF TypeOK, bump_epoch, Completed
    <3>5. QED
      BY <3>3, <3>4
  <2>2. CASE ~bump_epoch
    <3>1. left \in Seq(Tenants) /\ BumpOrder \in Seq(Tenants)
      BY RagAssumption DEF TypeOK
    <3>2. /\ epoch' = epoch
          /\ commits' \in {commits, commits + 1}
          /\ announced' \in {announced, commits, commits + 1}
          /\ left' \in {left, BumpOrder}
      <4>1. CASE StartRun
        BY <4>1 DEF StartRun, storeVars
      <4>2. CASE \E t \in {"load_docs", "chunk_docs", "embed_chunks"} : ReadingTask(t)
        BY <4>2 DEF ReadingTask, Completed, storeVars
      <4>3. CASE upsert_chunks
        BY <4>3 DEF upsert_chunks, Completed, storeVars
      <4>4. CASE load_rows
        BY <4>4 DEF load_rows, Completed, Failed
      <4>5. CASE TaskFails
        BY <4>5 DEF TaskFails, Failed, storeVars
      <4>6. QED
        BY <2>2, <4>1, <4>2, <4>3, <4>4, <4>5 DEF Dag
    <3>3. QED
      BY <3>1, <3>2 DEF TypeOK
  <2>3. QED
    BY <2>1, <2>2
<1> DEFINE TaskType ==
      /\ task' \in {"none", "load_docs", "chunk_docs", "embed_chunks", "upsert_chunks",
                    "load_rows", "bump_cache_epochs"}
      /\ attempt' \in 0 .. Retries /\ runs' \in 0 .. MaxRuns /\ faults' \in 0 .. MaxFaults
<1>2. TaskType
  <2>0. attempt \in 0 .. Retries /\ runs \in 0 .. MaxRuns /\ faults \in 0 .. MaxFaults
    BY DEF TypeOK
  <2>1. CASE Dag
    <3>1. CASE StartRun
      BY <2>0, <3>1, RagAssumption DEF StartRun
    <3>2. ASSUME NEW t \in {"load_docs", "chunk_docs", "embed_chunks"}, ReadingTask(t)
          PROVE  TaskType
      <4>1. task' \in {"chunk_docs", "embed_chunks", "upsert_chunks"} /\ attempt' = 0
        BY <3>2, Chain DEF ReadingTask, Completed
      <4>2. QED
        BY <2>0, <3>2, <4>1, RagAssumption DEF ReadingTask
    <3>3. CASE upsert_chunks
      <4>1. task' \in {"bump_cache_epochs", "load_rows"} /\ attempt' \in {0, attempt}
        BY <3>3, Chain DEF upsert_chunks, Completed
      <4>2. QED
        BY <2>0, <3>3, <4>1, RagAssumption DEF upsert_chunks
    <3>4. CASE load_rows
      <4>1. /\ task' \in {"bump_cache_epochs", "upsert_chunks", "none"}
            /\ attempt' = 0 \/ (attempt < Retries /\ attempt' = attempt + 1)
        BY <3>4, Chain DEF load_rows, Completed, Failed
      <4>2. QED
        BY <2>0, <3>4, <4>1, RagAssumption DEF load_rows
    <3>5. CASE bump_epoch
      <4>1. task' \in {"bump_cache_epochs", "none"} /\ attempt' \in {0, attempt}
        BY <3>5, Chain DEF bump_epoch, Completed
      <4>2. QED
        BY <2>0, <3>5, <4>1, RagAssumption DEF bump_epoch
    <3> HIDE DEF TaskType
    <3>6. QED
      BY <2>1, <3>1, <3>2, <3>3, <3>4, <3>5 DEF Dag
  <2>2. CASE TaskFails
    BY <2>2, RagAssumption DEF TypeOK, TaskFails, Failed
  <2>3. QED
    BY <2>1, <2>2
<1>3. LeftInv'
  <2>1. CASE bump_epoch
    <3>1. left \in Seq(Tenants) /\ left # <<>>
      BY <2>1 DEF TypeOK, LeftInv, bump_epoch
    <3>2. QED
      BY <2>1, <3>1, HeadAndTail, Chain DEF bump_epoch, Completed, LeftInv
  <2>2. CASE ~bump_epoch
    <3>1. CASE StartRun
      BY <3>1, RagAssumption DEF StartRun, LeftInv
    <3>2. CASE \E t \in {"load_docs", "chunk_docs", "embed_chunks"} : ReadingTask(t)
      BY <3>2, Chain, RagAssumption DEF ReadingTask, Completed, LeftInv
    <3>3. CASE upsert_chunks
      BY <3>3, Chain, RagAssumption DEF upsert_chunks, Completed, LeftInv
    <3>4. CASE load_rows
      BY <3>4, Chain, RagAssumption DEF load_rows, Completed, Failed, LeftInv
    <3>5. CASE TaskFails
      BY <3>5, RagAssumption DEF TaskFails, Failed, LeftInv
    <3>6. QED
      BY <2>2, <3>1, <3>2, <3>3, <3>4, <3>5 DEF Dag
  <2>3. QED
    BY <2>1, <2>2
<1>4. QED
  BY <1>1, <1>2, <1>3, DagFrame DEF TypeOK, fileVars, askVars

\* Every step keeps the types.
LEMMA TypeStep ==
  ASSUME TypeOK, LeftInv, BusyInv, [Next]_vars
  PROVE  TypeOK' /\ LeftInv' /\ BusyInv'
<1> DEFINE Goal == TypeOK' /\ LeftInv' /\ BusyInv'
<1>0. CASE Dag \/ TaskFails
  BY <1>0, DagType, DagFrame DEF BusyInv, askVars
<1>1. ASSUME NEW f \in Files, EditFile(f) PROVE Goal
  BY <1>1, RagAssumption DEF EditFile, TypeOK, LeftInv, BusyInv, dagVars, askVars, storeVars
<1>2. ASSUME NEW m \in 1 .. Models, Redeploy(m) PROVE Goal
  BY <1>2, RagAssumption DEF Redeploy, TypeOK, LeftInv, BusyInv, dagVars, storeVars
<1>3. ASSUME NEW w \in Workers, WorkerStep(w) PROVE Goal
  <2>0. /\ pc \in [Workers -> {"idle", "lookup", "dense", "sparse", "generate", "set", "reply"}]
        /\ job \in [Workers -> [tenant : Tenants, bucket : Buckets] \cup {Idle}]
        /\ seen \in [Workers -> Nat] /\ epoch \in [Tenants -> Nat]
    BY DEF TypeOK
  <2>1. CASE \E t \in Asking, b \in Buckets : Ask(w, t, b)
    <3>1. PICK t \in Asking, b \in Buckets : Ask(w, t, b)
      BY <2>1
    <3>2. t \in Tenants
      BY RagAssumption
    <3>3. QED
      BY <1>3, <2>0, <3>1, <3>2, WorkerFrame DEF Ask, TypeOK, LeftInv, BusyInv, fileVars, dagVars
  <2>2. CASE generate(w)
    <3>1. epoch[job[w].tenant] \in Nat
      BY <2>0, <2>2 DEF generate, BusyInv
    <3>2. QED
      BY <1>3, <2>0, <2>2, <3>1, WorkerFrame
      DEF generate, TypeOK, LeftInv, BusyInv, fileVars, dagVars
  <2>3. CASE Leaves(w)
    BY <1>3, <2>0, <2>3, WorkerFrame DEF Leaves, TypeOK, LeftInv, BusyInv, fileVars, dagVars
  <2>4. CASE cache_lookup(w) \/ dense_topk_filtered(w) \/ sparse_topk_fts(w) \/ cache_store(w)
    <3>1. /\ UNCHANGED <<job, seen>> /\ pc[w] # "idle"
          /\ \E l \in {"dense", "sparse", "generate", "reply"} : pc' = [pc EXCEPT ![w] = l]
      BY <2>4 DEF cache_lookup, dense_topk_filtered, sparse_topk_fts, cache_store
    <3>2. QED
      BY <1>3, <2>0, <3>1, WorkerFrame DEF TypeOK, LeftInv, BusyInv, fileVars, dagVars
  <2>5. QED
    BY <1>3, <2>1, <2>2, <2>3, <2>4 DEF WorkerStep, Answering
<1>4. ASSUME NEW t \in Asking, NEW n \in Epochs, NEW b \in Buckets, Expire(t, n, b)
      PROVE  Goal
  BY <1>4 DEF Expire, TypeOK, LeftInv, BusyInv, fileVars, dagVars, askVars
<1>5. CASE UNCHANGED vars
  BY <1>5 DEF vars, TypeOK, LeftInv, BusyInv, fileVars, dagVars, askVars, storeVars
<1>6. QED
  BY <1>0, <1>1, <1>2, <1>3, <1>4, <1>5, StepCases

\* Every variable keeps its type, and a request in progress has a tenant.
LEMMA TypeInvariant == Spec => [](TypeOK /\ LeftInv /\ BusyInv)
<1>1. Init => TypeOK /\ LeftInv /\ BusyInv
  BY RagAssumption DEF Init, TypeOK, LeftInv, BusyInv
<1>2. TypeOK /\ LeftInv /\ BusyInv /\ [Next]_vars => (TypeOK /\ LeftInv /\ BusyInv)'
  BY TypeStep
<1>3. QED
  BY <1>1, <1>2, PTL DEF Spec

\* Every variable of the ingest, the stores and the requests keeps its type.
THEOREM TypeCorrect == Spec => []TypeOK
  BY TypeInvariant, PTL

-----------------------------------------------------------------------------
(* Tenants are told their own text                                           *)

\* What belongs to a tenant that has had its text in the file.
OwnText(c) == c.tenant \in Tenants /\ c.text \in published[c.tenant]

IsRow(c) == c = [doc |-> c.doc, idx |-> c.idx, model |-> c.model, tenant |-> c.tenant, text |-> c.text]

IsAnswer(a) == a = [cites |-> a.cites, tenant |-> a.tenant, from |-> a.from, base |-> a.base]

\* The file, the gate and the table hold texts of the tenants they name.
CorpusText ==
  /\ published = [t \in Tenants |-> published[t]]
  /\ \A d \in chunk_docs(file) : OwnText(d)
  /\ \A c \in offered : IsRow(c) /\ OwnText(c)
  /\ pending \subseteq offered
  /\ \A r \in rows : OwnText(r)

\* What is cited to a tenant is text of its own.
Told(t, cites) == \A x \in cites : t \in Tenants /\ x.text \in published[t]

\* So do the rows a request has fetched, the answer it builds and the cache.
ServedText ==
  /\ answer = [w \in Workers |-> answer[w]]
  /\ dense = [w \in Workers |-> dense[w]]
  /\ \A w \in Workers : IsAnswer(answer[w]) /\ Told(answer[w].tenant, answer[w].cites)
  /\ \A w \in Workers : pc[w] \in {"sparse", "generate", "set"} => answer[w].tenant = job[w].tenant
  /\ \A w \in Workers : pc[w] = "sparse" =>
       \A r \in dense[w] : r.tenant = job[w].tenant /\ OwnText(r)
  /\ \A e \in cache : Told(e.tenant, e.cites)

\* The tenants and texts of a file's chunks are those of its rows.
LEMMA ChunkTenants ==
  ASSUME NEW f \in Files, NEW d \in chunk_docs(f)
  PROVE  d.tenant \in Tenants
<1> DEFINE ordinal(x) == Cardinality({y \in Pieces(f) : /\ f[y[1]].doc = f[x[1]].doc
                                                       /\ \/ y[1] < x[1]
                                                          \/ y[1] = x[1] /\ y[2] < x[2]})
<1>1. PICK x \in Pieces(f) : d.tenant = f[x[1]].tenant
  <2>1. PICK x \in Pieces(f) :
          d = [doc |-> f[x[1]].doc, tenant |-> f[x[1]].tenant, text |-> Split[f[x[1]].text][x[2]],
               idx |-> ordinal(x)]
    BY DEF chunk_docs
  <2> HIDE DEF ordinal
  <2>2. d.tenant = f[x[1]].tenant
    BY <2>1
  <2>3. QED
    BY <2>2
<1>2. x[1] \in DOMAIN f
  BY DEF Pieces, load_corpus
<1>3. QED
  BY <1>1, <1>2, RagAssumption

\* Texts are never withdrawn from the history of what a tenant published.
LEMMA PublishedGrows ==
  ASSUME TypeOK, CorpusText, [Next]_vars
  PROVE  /\ published' = [t \in Tenants |-> published'[t]]
         /\ \A t \in Tenants : published[t] \subseteq published'[t]
<1>1. ASSUME NEW f \in Files, EditFile(f)
      PROVE  /\ published' = [t \in Tenants |-> published'[t]]
             /\ \A t \in Tenants : published[t] \subseteq published'[t]
  <2>1. published' = [t \in Tenants |->
          published[t] \cup {c.text : c \in {d \in chunk_docs(f) : d.tenant = t}}]
    BY <1>1 DEF EditFile
  <2>2. \A t \in Tenants : published[t] \subseteq published'[t]
    BY <2>1
  <2>3. published' = [t \in Tenants |-> published'[t]]
    BY <2>1
  <2>4. QED
    BY <2>2, <2>3
<1>2. CASE published' = published
  BY <1>2 DEF CorpusText
<1>3. ASSUME NEW m \in 1 .. Models, Redeploy(m) PROVE published' = published
  BY <1>3 DEF Redeploy
<1>4. ASSUME NEW t \in Asking, NEW n \in Epochs, NEW b \in Buckets, Expire(t, n, b)
      PROVE  published' = published
  BY <1>4 DEF Expire, fileVars
<1>5. QED
  BY <1>1, <1>2, <1>3, <1>4, StepCases, DagFrame, WorkerFrame DEF fileVars, vars

\* What was a tenant's own text stays so.
LEMMA OwnStays ==
  ASSUME TypeOK, CorpusText, [Next]_vars, NEW c, OwnText(c)
  PROVE  OwnText(c)'
  BY PublishedGrows DEF OwnText

\* What the gate reads from the file are rows with texts of their tenants.
LEMMA CandidateText ==
  ASSUME CorpusText, NEW c \in candidates_from_chunks(file, model)
  PROVE  IsRow(c) /\ OwnText(c)
<1>1. PICK d \in chunk_docs(file) :
        c = [doc |-> d.doc, idx |-> d.idx, model |-> model, tenant |-> d.tenant, text |-> d.text]
  BY DEF candidates_from_chunks
<1>2. OwnText(d)
  BY DEF CorpusText
<1>3. QED
  BY <1>1, <1>2 DEF IsRow, OwnText

\* An upsert keeps the table's texts with their tenants: an update needs the same one.
LEMMA UpsertText ==
  ASSUME CorpusText, NEW r \in Upserted(pending)
  PROVE  OwnText(r)
<1>1. CASE r \in rows \/ r \in pending
  BY <1>1 DEF CorpusText
<1>2. ASSUME NEW c \in pending, NEW q \in Held(c), MayUpdate(q, c), r = [c EXCEPT !.tenant = q.tenant]
      PROVE  OwnText(r)
  <2>1. IsRow(c) /\ OwnText(c) /\ q.tenant = c.tenant
    BY <1>2 DEF CorpusText, MayUpdate
  <2>2. r.tenant = c.tenant /\ r.text = c.text
    BY <1>2, <2>1 DEF IsRow
  <2>3. QED
    BY <2>1, <2>2 DEF OwnText
<1>3. QED
  BY <1>1, <1>2 DEF Upserted

\* Reading, gating, loading and replacing the file keep CorpusText.
LEMMA CorpusTextStep ==
  ASSUME TypeOK, CorpusText, [Next]_vars PROVE CorpusText'
<1>1. published' = [t \in Tenants |-> published'[t]]
  BY PublishedGrows
<1>2. ASSUME NEW f \in Files, EditFile(f) PROVE CorpusText'
  <2>1. /\ file' = f /\ UNCHANGED <<offered, pending, rows>>
        /\ published' = [t \in Tenants |->
             published[t] \cup {c.text : c \in {d \in chunk_docs(f) : d.tenant = t}}]
    BY <1>2 DEF EditFile, dagVars, storeVars
  <2>2. \A d \in chunk_docs(f) : d.tenant \in Tenants /\ d.text \in published'[d.tenant]
    BY <2>1, ChunkTenants
  <2>3. \A d \in chunk_docs(file') : OwnText(d)'
    BY <2>1, <2>2 DEF OwnText
  <2>4. QED
    BY <1>1, <2>1, <2>3, OwnStays DEF CorpusText, IsRow
<1>3. CASE UNCHANGED <<file, offered, pending, rows, published>>
  BY <1>3 DEF CorpusText, OwnText, IsRow
<1>4. CASE upsert_chunks
  <2>1. /\ UNCHANGED <<file, rows, published>>
        /\ offered' = candidates_from_chunks(file, model)
        /\ pending' \subseteq offered'
    BY <1>4 DEF upsert_chunks, fileVars, storeVars, pending_candidates
  <2>2. \A c \in offered' : IsRow(c) /\ OwnText(c)
    BY <2>1, CandidateText
  <2>3. QED
    BY <2>1, <2>2 DEF CorpusText, OwnText, IsRow
<1>5. CASE load_rows
  <2>1. /\ UNCHANGED <<file, offered, published>> /\ pending' = {}
        /\ rows' = rows \/ rows' = Upserted(pending)
    BY <1>5 DEF load_rows, fileVars
  <2>2. \A r \in rows' : OwnText(r)
    BY <2>1, UpsertText DEF CorpusText
  <2>3. QED
    BY <2>1, <2>2 DEF CorpusText, OwnText, IsRow
<1>6. CASE TaskFails
  <2>1. UNCHANGED <<file, offered, rows, published>> /\ pending' = {}
    BY <1>6 DEF TaskFails, fileVars, storeVars
  <2>2. QED
    BY <2>1 DEF CorpusText, OwnText, IsRow
<1>7. CASE StartRun \/ bump_epoch \/ \E t \in {"load_docs", "chunk_docs", "embed_chunks"} : ReadingTask(t)
  BY <1>3, <1>7 DEF StartRun, bump_epoch, ReadingTask, fileVars, storeVars
<1>8. ASSUME NEW m \in 1 .. Models, Redeploy(m) PROVE CorpusText'
  BY <1>3, <1>8 DEF Redeploy, dagVars, storeVars
<1>9. ASSUME NEW w \in Workers, WorkerStep(w) PROVE CorpusText'
  BY <1>3, <1>9, WorkerFrame DEF fileVars, dagVars
<1>10. ASSUME NEW t \in Asking, NEW n \in Epochs, NEW b \in Buckets, Expire(t, n, b)
       PROVE  CorpusText'
  BY <1>3, <1>10 DEF Expire, fileVars, dagVars
<1>11. CASE UNCHANGED vars
  BY <1>3, <1>11 DEF vars, fileVars, dagVars, storeVars
<1>12. QED
  BY <1>2, <1>4, <1>5, <1>6, <1>7, <1>8, <1>9, <1>10, <1>11, StepCases DEF Dag

\* What a tenant has been told stays its own.
LEMMA ToldStays ==
  ASSUME TypeOK, CorpusText, [Next]_vars, NEW t, NEW cites, Told(t, cites)
  PROVE  Told(t, cites)'
  BY PublishedGrows DEF Told

\* The citations come from what the two searches found.
LEMMA CitesFound ==
  ASSUME NEW d, NEW s, NEW f \in Fusions(d, s), NEW c \in Contexts(f), NEW x \in Cites(c)
  PROVE  \E r \in d \cup s : x.text = r.text
<1>1. PICK r \in c : x = [chunk |-> ChunkId(r), text |-> r.text]
  BY DEF Cites
<1>2. c \subseteq f
  BY DEF Contexts, kSubset
<1>3. f \subseteq d \cup s
  BY DEF Fusions
<1>4. x.text = r.text
  BY <1>1
<1>5. QED
  BY <1>2, <1>3, <1>4

\* A step that leaves the requests and the cache alone keeps what they hold.
LEMMA ServedFrame ==
  ASSUME TypeOK, CorpusText, ServedText, [Next]_vars, UNCHANGED <<askVars, cache>>
  PROVE  ServedText'
<1>0. UNCHANGED <<pc, job, dense, answer, cache>>
  BY DEF askVars
<1>1. \A w \in Workers : Told(answer[w].tenant, answer[w].cites)'
  BY <1>0, ToldStays DEF ServedText, Told
<1>2. \A e \in cache : Told(e.tenant, e.cites)'
  BY ToldStays DEF ServedText, Told
<1>3. \A w \in Workers : pc[w] = "sparse" =>
        \A r \in dense[w] : r.tenant = job[w].tenant /\ OwnText(r)'
  BY OwnStays DEF ServedText
<1>4. QED
  BY <1>0, <1>1, <1>2, <1>3 DEF ServedText, IsAnswer, OwnText

\* A request keeps to its tenant, from the lookup to the store.
LEMMA ServedByWorker ==
  ASSUME TypeOK, BusyInv, CorpusText, ServedText, NEW w \in Workers, WorkerStep(w)
  PROVE  ServedText'
<1>0. /\ UNCHANGED <<published, rows>>
      /\ pc = [v \in Workers |-> pc[v]] /\ job = [v \in Workers |-> job[v]]
  BY WorkerFrame DEF fileVars, TypeOK
<1>1. CASE \E t \in Asking, b \in Buckets : Ask(w, t, b)
  <2>1. /\ \E t \in Asking, b \in Buckets : job' = [job EXCEPT ![w] = [tenant |-> t, bucket |-> b]]
        /\ pc' = [pc EXCEPT ![w] = "lookup"] /\ UNCHANGED <<dense, answer, cache>>
    BY <1>1 DEF Ask, storeVars
  <2>2. \A v \in Workers : pc'[v] \in {"sparse", "generate", "set"} => pc'[v] = pc[v] /\ job'[v] = job[v]
    BY <1>0, <2>1
  <2>3. \A v \in Workers : pc'[v] \in {"sparse", "generate", "set"} => answer[v].tenant = job'[v].tenant
    BY <2>2 DEF ServedText
  <2>4. \A v \in Workers : pc'[v] = "sparse" => \A r \in dense[v] : r.tenant = job'[v].tenant /\ OwnText(r)
    BY <2>2 DEF ServedText
  <2>5. QED
    BY <1>0, <2>1, <2>3, <2>4 DEF ServedText, IsAnswer, Told, OwnText
<1>2. CASE cache_lookup(w)
  <2>1. /\ UNCHANGED <<job, dense, cache>>
        /\ \E l \in {"dense", "reply"} : pc' = [pc EXCEPT ![w] = l]
    BY <1>2 DEF cache_lookup, storeVars
  <2>2. \A v \in Workers : pc'[v] \in {"sparse", "generate", "set"} => pc'[v] = pc[v] /\ v # w
    BY <1>0, <2>1
  <2>3. CASE answer' = answer
    BY <1>0, <2>1, <2>2, <2>3 DEF ServedText, IsAnswer, Told, OwnText
  <2>4. CASE \E e \in Entry(job[w].tenant, seen[w], job[w].bucket) : answer' = [answer EXCEPT ![w] =
               [cites |-> e.cites, tenant |-> job[w].tenant, from |-> e.from, base |-> e.base]]
    <3>1. PICK e \in Entry(job[w].tenant, seen[w], job[w].bucket) : answer' = [answer EXCEPT ![w] =
            [cites |-> e.cites, tenant |-> job[w].tenant, from |-> e.from, base |-> e.base]]
      BY <2>4
    <3>2. e \in cache /\ e.tenant = job[w].tenant
      BY DEF Entry, CacheKey
    <3>3. Told(job[w].tenant, e.cites)
      BY <3>2 DEF ServedText
    <3>4. answer = [v \in Workers |-> answer[v]]
      BY DEF ServedText
    <3>5. /\ answer'[w] = [cites |-> e.cites, tenant |-> job[w].tenant, from |-> e.from, base |-> e.base]
          /\ answer' = [v \in Workers |-> answer'[v]]
          /\ \A v \in Workers \ {w} : answer'[v] = answer[v]
      BY <3>1, <3>4
    <3>6. IsAnswer(answer'[w]) /\ answer'[w].tenant = job[w].tenant /\ answer'[w].cites = e.cites
      BY <3>5 DEF IsAnswer
    <3>7. \A v \in Workers : IsAnswer(answer'[v]) /\ Told(answer'[v].tenant, answer'[v].cites)
      BY <3>3, <3>5, <3>6 DEF ServedText
    <3>8. QED
      BY <1>0, <2>1, <2>2, <3>5, <3>7 DEF ServedText, IsAnswer, Told, OwnText
  <2>5. QED
    BY <1>2, <2>3, <2>4 DEF cache_lookup
<1>3. CASE dense_topk_filtered(w)
  <2>1. /\ UNCHANGED <<job, cache>> /\ pc' = [pc EXCEPT ![w] = "sparse"]
        /\ dense' = [dense EXCEPT ![w] = DenseRows(job[w].tenant)]
        /\ answer' = [answer EXCEPT ![w] =
             [cites |-> {}, tenant |-> job[w].tenant, from |-> seen[w], base |-> commits]]
    BY <1>3 DEF dense_topk_filtered, storeVars
  <2>2. \A r \in DenseRows(job[w].tenant) : r.tenant = job[w].tenant /\ OwnText(r)
    BY DEF DenseRows, CorpusText
  <2>3. answer = [v \in Workers |-> answer[v]] /\ dense = [v \in Workers |-> dense[v]]
    BY DEF ServedText
  <2>4. /\ answer'[w] = [cites |-> {}, tenant |-> job[w].tenant, from |-> seen[w], base |-> commits]
        /\ answer' = [v \in Workers |-> answer'[v]] /\ dense' = [v \in Workers |-> dense'[v]]
        /\ dense'[w] = DenseRows(job[w].tenant)
        /\ \A v \in Workers \ {w} : answer'[v] = answer[v] /\ dense'[v] = dense[v] /\ pc'[v] = pc[v]
    BY <1>0, <2>1, <2>3
  <2>5. IsAnswer(answer'[w]) /\ answer'[w].tenant = job[w].tenant /\ answer'[w].cites = {}
    BY <2>4 DEF IsAnswer
  <2>6. \A v \in Workers : IsAnswer(answer'[v]) /\ Told(answer'[v].tenant, answer'[v].cites)
    BY <2>4, <2>5 DEF ServedText, Told
  <2>7. QED
    BY <1>0, <2>1, <2>2, <2>4, <2>5, <2>6 DEF ServedText, IsAnswer, Told, OwnText
<1>4. CASE sparse_topk_fts(w)
  <2>1. /\ UNCHANGED <<job, cache>> /\ pc' = [pc EXCEPT ![w] = "generate"]
        /\ dense' = [dense EXCEPT ![w] = {}] /\ pc[w] = "sparse"
    BY <1>4 DEF sparse_topk_fts, storeVars
  <2>2. PICK s \in SUBSET SparseRows(job[w].tenant) :
          \E f \in Fusions(dense[w], s) : \E c \in Contexts(f) :
            answer' = [answer EXCEPT ![w] = Citing(@, c)]
    BY <1>4 DEF sparse_topk_fts
  <2>3. PICK f \in Fusions(dense[w], s) : \E c \in Contexts(f) :
            answer' = [answer EXCEPT ![w] = Citing(@, c)]
    BY <2>2
  <2>4. PICK c \in Contexts(f) : answer' = [answer EXCEPT ![w] = Citing(@, c)]
    BY <2>3
  <2>5. answer = [v \in Workers |-> answer[v]] /\ dense = [v \in Workers |-> dense[v]]
    BY DEF ServedText
  <2>6. /\ answer'[w] = Citing(answer[w], c)
        /\ answer' = [v \in Workers |-> answer'[v]] /\ dense' = [v \in Workers |-> dense'[v]]
        /\ \A v \in Workers \ {w} : answer'[v] = answer[v] /\ dense'[v] = dense[v] /\ pc'[v] = pc[v]
    BY <1>0, <2>1, <2>4, <2>5
  <2>7. IsAnswer(answer[w]) /\ answer[w].tenant = job[w].tenant
    BY <2>1 DEF ServedText
  <2>8. IsAnswer(answer'[w]) /\ answer'[w].tenant = job[w].tenant /\ answer'[w].cites = Cites(c)
    BY <2>6, <2>7 DEF IsAnswer, Citing
  <2>9. \A r \in dense[w] \cup s : r.tenant = job[w].tenant /\ OwnText(r)
    BY <2>1, <2>2 DEF ServedText, SparseRows, CorpusText
  <2>10. Told(job[w].tenant, Cites(c))
    BY <2>9, CitesFound DEF Told, OwnText
  <2>11. \A v \in Workers : IsAnswer(answer'[v]) /\ Told(answer'[v].tenant, answer'[v].cites)
    BY <2>6, <2>8, <2>10 DEF ServedText
  <2>12. pc'[w] = "generate"
    BY <1>0, <2>1
  <2>13. \A v \in Workers : pc'[v] \in {"sparse", "generate", "set"} => answer'[v].tenant = job[v].tenant
    BY <2>6, <2>8 DEF ServedText
  <2>14. \A v \in Workers : pc'[v] = "sparse" =>
           \A r \in dense'[v] : r.tenant = job[v].tenant /\ OwnText(r)
    BY <2>6, <2>12 DEF ServedText
  <2>15. QED
    BY <1>0, <2>1, <2>6, <2>11, <2>13, <2>14 DEF ServedText, IsAnswer, Told, OwnText
<1>5. CASE generate(w)
  <2>1. pc[w] = "generate" /\ UNCHANGED <<job, dense, answer, cache>> /\ pc' = [pc EXCEPT ![w] = "set"]
    BY <1>5 DEF generate, storeVars
  <2>2. QED
    BY <1>0, <2>1 DEF ServedText, IsAnswer, Told, OwnText
<1>6. CASE cache_store(w)
  <2>1. /\ pc[w] = "set" /\ UNCHANGED <<job, dense, answer>> /\ pc' = [pc EXCEPT ![w] = "reply"]
        /\ cache' \subseteq cache \cup
             {[tenant |-> job[w].tenant, epoch |-> seen[w], bucket |-> job[w].bucket,
               stamp |-> job[w].tenant, cites |-> answer[w].cites, from |-> answer[w].from,
               base |-> answer[w].base]}
    BY <1>6 DEF cache_store
  <2>2. Told(job[w].tenant, answer[w].cites)
    BY <2>1 DEF ServedText
  <2>3. \A e \in cache' : Told(e.tenant, e.cites)
    BY <2>1, <2>2 DEF ServedText
  <2>4. QED
    BY <1>0, <2>1, <2>3 DEF ServedText, IsAnswer, Told, OwnText
<1>7. CASE Leaves(w)
  <2>1. /\ UNCHANGED cache /\ pc' = [pc EXCEPT ![w] = "idle"] /\ job' = [job EXCEPT ![w] = Idle]
        /\ dense' = [dense EXCEPT ![w] = {}] /\ answer' = [answer EXCEPT ![w] = NoAnswer]
    BY <1>7 DEF Leaves, storeVars
  <2>2. answer = [v \in Workers |-> answer[v]] /\ dense = [v \in Workers |-> dense[v]]
    BY DEF ServedText
  <2>3. /\ answer'[w] = NoAnswer /\ pc'[w] = "idle"
        /\ answer' = [v \in Workers |-> answer'[v]] /\ dense' = [v \in Workers |-> dense'[v]]
        /\ \A v \in Workers \ {w} : /\ answer'[v] = answer[v] /\ dense'[v] = dense[v]
                                   /\ pc'[v] = pc[v] /\ job'[v] = job[v]
    BY <1>0, <2>1, <2>2
  <2>4. IsAnswer(NoAnswer) /\ NoAnswer.cites = {}
    BY DEF IsAnswer, NoAnswer
  <2>5. \A v \in Workers : IsAnswer(answer'[v]) /\ Told(answer'[v].tenant, answer'[v].cites)
    BY <2>3, <2>4 DEF ServedText, Told
  <2>6. \A v \in Workers : pc'[v] \in {"sparse", "generate", "set"} => answer'[v].tenant = job'[v].tenant
    BY <2>3 DEF ServedText
  <2>7. \A v \in Workers : pc'[v] = "sparse" =>
          \A r \in dense'[v] : r.tenant = job'[v].tenant /\ OwnText(r)
    BY <2>3 DEF ServedText
  <2>8. QED
    BY <1>0, <2>1, <2>3, <2>5, <2>6, <2>7 DEF ServedText, IsAnswer, Told, OwnText
<1>8. QED
  BY <1>1, <1>2, <1>3, <1>4, <1>5, <1>6, <1>7 DEF WorkerStep, Answering

\* Every step keeps what requests and the cache hold with its tenant.
LEMMA ServedTextStep ==
  ASSUME TypeOK, BusyInv, CorpusText, ServedText, [Next]_vars
  PROVE  ServedText'
<1>1. CASE Dag \/ TaskFails
  BY <1>1, DagFrame, ServedFrame
<1>2. ASSUME NEW f \in Files, EditFile(f) PROVE ServedText'
  BY <1>2, ServedFrame DEF EditFile, storeVars
<1>3. ASSUME NEW m \in 1 .. Models, Redeploy(m) PROVE ServedText'
  <2>1. /\ UNCHANGED <<cache, published>>
        /\ pc' = [w \in Workers |-> "idle"] /\ answer' = [w \in Workers |-> NoAnswer]
        /\ dense' = [w \in Workers |-> {}]
    BY <1>3 DEF Redeploy, storeVars
  <2>2. IsAnswer(NoAnswer) /\ NoAnswer.cites = {}
    BY DEF IsAnswer, NoAnswer
  <2>3. QED
    BY <2>1, <2>2 DEF ServedText, Told, IsAnswer
<1>4. ASSUME NEW w \in Workers, WorkerStep(w) PROVE ServedText'
  BY <1>4, ServedByWorker
<1>5. ASSUME NEW t \in Asking, NEW n \in Epochs, NEW b \in Buckets, Expire(t, n, b)
      PROVE  ServedText'
  <2>1. UNCHANGED <<published, pc, job, dense, answer>> /\ cache' \subseteq cache
    BY <1>5 DEF Expire, fileVars, askVars
  <2>2. QED
    BY <2>1 DEF ServedText, Told, IsAnswer, OwnText
<1>6. CASE UNCHANGED vars
  BY <1>6, ServedFrame DEF vars, storeVars
<1>7. QED
  BY <1>1, <1>2, <1>3, <1>4, <1>5, <1>6, StepCases

\* At the start only the file holds text.
LEMMA TextInit == ASSUME Init PROVE CorpusText /\ ServedText
<1>1. file \in Files /\ published = [t \in Tenants |-> {c.text : c \in {d \in chunk_docs(file) : d.tenant = t}}]
  BY RagAssumption DEF Init
<1>2. \A d \in chunk_docs(file) : OwnText(d)
  BY <1>1, ChunkTenants DEF OwnText
<1>3. CorpusText
  BY <1>1, <1>2 DEF Init, CorpusText
<1>4. IsAnswer(NoAnswer) /\ NoAnswer.cites = {}
  BY DEF IsAnswer, NoAnswer
<1>5. ServedText
  BY <1>4 DEF Init, ServedText, Told
<1>6. QED
  BY <1>3, <1>5

\* What requests and the cache hold is always text of the tenant they hold it for.
LEMMA TextInvariant == Spec => [](CorpusText /\ ServedText)
<1>1. Init => CorpusText /\ ServedText
  BY TextInit
<1>2. TypeOK /\ BusyInv /\ CorpusText /\ ServedText /\ [Next]_vars => (CorpusText /\ ServedText)'
  BY CorpusTextStep, ServedTextStep
<1>3. QED
  BY <1>1, <1>2, TypeInvariant, PTL DEF Spec

\* Whatever doc_ids collide, whatever is re-ingested, upserted by another tenant,
\* cached or fetched at two snapshots, no tenant is told or cached text that it did
\* not publish itself.
THEOREM TenantsToldOwnText == Spec => []ServesOwnText
<1>1. ServedText => ServesOwnText
  BY DEF ServedText, ServesOwnText, Told
<1>2. QED
  BY <1>1, TextInvariant, PTL

-----------------------------------------------------------------------------
(* The gate stores what the run was offered                                  *)

\* The pieces of x's document that come before x.
Before(f, x) == {y \in Pieces(f) : /\ f[y[1]].doc = f[x[1]].doc
                                   /\ \/ y[1] < x[1]
                                      \/ y[1] = x[1] /\ y[2] < x[2]}

\* A file has finitely many pieces, each a pair of numbers.
LEMMA PiecesFinite ==
  ASSUME NEW f \in Files
  PROVE  /\ IsFiniteSet(Pieces(f))
         /\ \A x \in Pieces(f) : x = <<x[1], x[2]>> /\ x[1] \in Nat /\ x[2] \in Nat
<1>1. PICK m : m = Max({Len(Split[t]) : t \in Texts})
  OBVIOUS
<1>2. m \in Nat /\ Len(f) \in Nat /\ DOMAIN f = 1 .. Len(f)
  BY <1>1, RagAssumption
<1>3. Pieces(f) \subseteq (1 .. Len(f)) \X (1 .. m)
  BY <1>1, <1>2 DEF Pieces, load_corpus
<1>4. IsFiniteSet(1 .. Len(f)) /\ IsFiniteSet(1 .. m)
  BY <1>2, FS_Interval
<1>5. IsFiniteSet((1 .. Len(f)) \X (1 .. m))
  BY <1>4, FS_Product
<1>6. IsFiniteSet(Pieces(f))
  BY <1>3, <1>5, FS_Subset
<1>7. QED
  BY <1>2, <1>3, <1>6

\* A piece that comes before another of its document has a smaller ordinal.
LEMMA OrdinalsGrow ==
  ASSUME NEW f \in Files, NEW x \in Pieces(f), NEW y \in Pieces(f), x \in Before(f, y)
  PROVE  /\ Cardinality(Before(f, x)) \in Nat /\ Cardinality(Before(f, y)) \in Nat
         /\ Cardinality(Before(f, x)) < Cardinality(Before(f, y))
<1>1. IsFiniteSet(Before(f, x)) /\ IsFiniteSet(Before(f, y))
  <2>1. Before(f, x) \subseteq Pieces(f) /\ Before(f, y) \subseteq Pieces(f)
    BY DEF Before
  <2>2. QED
    BY <2>1, PiecesFinite, FS_Subset
<1>2. x \notin Before(f, x)
  BY PiecesFinite DEF Before
<1>3. Before(f, x) \cup {x} \subseteq Before(f, y)
  <2>1. ASSUME NEW z \in Before(f, x) PROVE z \in Before(f, y)
    <3>1. /\ x[1] \in Nat /\ x[2] \in Nat /\ y[1] \in Nat /\ y[2] \in Nat /\ z \in Pieces(f)
          /\ z[1] \in Nat /\ z[2] \in Nat
      BY PiecesFinite DEF Before
    <3>2. f[z[1]].doc = f[x[1]].doc /\ f[x[1]].doc = f[y[1]].doc
      BY DEF Before
    <3>3. /\ z[1] < x[1] \/ (z[1] = x[1] /\ z[2] < x[2])
          /\ x[1] < y[1] \/ (x[1] = y[1] /\ x[2] < y[2])
      BY DEF Before
    <3>4. z[1] < y[1] \/ (z[1] = y[1] /\ z[2] < y[2])
      BY <3>1, <3>3
    <3>5. QED
      BY <3>1, <3>2, <3>4 DEF Before
  <2>2. QED
    BY <2>1
<1>4. Cardinality(Before(f, x) \cup {x}) = Cardinality(Before(f, x)) + 1
  BY <1>1, <1>2, FS_AddElement
<1>5. Cardinality(Before(f, x) \cup {x}) <= Cardinality(Before(f, y))
  BY <1>1, <1>3, FS_Subset
<1>6. Cardinality(Before(f, x)) \in Nat /\ Cardinality(Before(f, y)) \in Nat
  BY <1>1, FS_CardinalityType
<1>7. QED
  BY <1>4, <1>5, <1>6

\* A chunk is known by its document and its ordinal.
LEMMA OrdinalsApart ==
  ASSUME NEW f \in Files, NEW c \in chunk_docs(f), NEW d \in chunk_docs(f),
         c.doc = d.doc, c.idx = d.idx
  PROVE  c = d
<1> DEFINE Chunk(x) == [doc |-> f[x[1]].doc, tenant |-> f[x[1]].tenant,
                        text |-> Split[f[x[1]].text][x[2]], idx |-> Cardinality(Before(f, x))]
<1>1. (\E x \in Pieces(f) : c = Chunk(x)) /\ (\E y \in Pieces(f) : d = Chunk(y))
  BY DEF chunk_docs, Before
<1>2. PICK x \in Pieces(f), y \in Pieces(f) : c = Chunk(x) /\ d = Chunk(y)
  BY <1>1
<1>3. f[x[1]].doc = f[y[1]].doc /\ Cardinality(Before(f, x)) = Cardinality(Before(f, y))
  BY <1>2
<1>4. /\ x = <<x[1], x[2]>> /\ x[1] \in Nat /\ x[2] \in Nat
      /\ y = <<y[1], y[2]>> /\ y[1] \in Nat /\ y[2] \in Nat
  BY PiecesFinite
<1>5. CASE x[1] = y[1] /\ x[2] = y[2]
  BY <1>2, <1>4, <1>5
<1>6. CASE x[1] < y[1] \/ (x[1] = y[1] /\ x[2] < y[2])
  <2>1. x \in Before(f, y)
    BY <1>3, <1>6 DEF Before
  <2>2. QED
    BY <1>3, <2>1, OrdinalsGrow
<1>7. CASE y[1] < x[1] \/ (x[1] = y[1] /\ y[2] < x[2])
  <2>1. y \in Before(f, x)
    BY <1>3, <1>7 DEF Before
  <2>2. QED
    BY <1>3, <2>1, OrdinalsGrow
<1>8. QED
  BY <1>4, <1>5, <1>6, <1>7

\* No two candidates of a file contend for one row of the table.
LEMMA CandidatesApart ==
  ASSUME NEW f \in Files, NEW m,
         NEW c \in candidates_from_chunks(f, m), NEW d \in candidates_from_chunks(f, m),
         Key(c) = Key(d)
  PROVE  c = d
<1>1. PICK p \in chunk_docs(f) :
        c = [doc |-> p.doc, idx |-> p.idx, model |-> m, tenant |-> p.tenant, text |-> p.text]
  BY DEF candidates_from_chunks
<1>2. PICK q \in chunk_docs(f) :
        d = [doc |-> q.doc, idx |-> q.idx, model |-> m, tenant |-> q.tenant, text |-> q.text]
  BY DEF candidates_from_chunks
<1>3. p.doc = q.doc /\ p.idx = q.idx
  BY <1>1, <1>2 DEF Key
<1>4. p = q
  BY <1>3, OrdinalsApart
<1>5. QED
  BY <1>1, <1>2, <1>4

\* Offered candidates are apart, and the pending ones are those the table still
\* lacks when load_rows begins.
GateInv ==
  /\ \A c, d \in offered : Key(c) = Key(d) => c = d
  /\ task = "load_rows" => pending = pending_candidates(offered)
  /\ OfferedIsStored

Stored(c, table) == \E r \in table : Key(r) = Key(c) /\ r.text = c.text

\* The gate, in these words.
LEMMA GateSkips ==
  ASSUME NEW cs
  PROVE  \A c \in cs : c \in pending_candidates(cs) <=> ~Stored(c, rows)
  BY DEF pending_candidates, Stored

\* A commit of load_rows leaves every offered candidate stored: the pending ones
\* inserted or updated, the skipped ones untouched.
LEMMA UpsertStores ==
  ASSUME CorpusText, GateInv, task = "load_rows", Suppressed(pending) = {},
         NEW c \in offered
  PROVE  Stored(c, Upserted(pending))
<1>1. pending \subseteq offered /\ \A d \in offered : d \in pending <=> ~Stored(d, rows)
  BY GateSkips DEF GateInv, CorpusText
<1>2. CASE c \in pending /\ Held(c) = {}
  BY <1>2 DEF Upserted, Stored
<1>3. CASE c \in pending /\ Held(c) # {}
  <2>1. PICK r \in Held(c) : TRUE
    BY <1>3
  <2>2. MayUpdate(r, c)
    BY <1>3, <2>1 DEF Suppressed
  <2>3. PICK u : u = [c EXCEPT !.tenant = r.tenant]
    OBVIOUS
  <2>4. u \in Upserted(pending)
    BY <1>3, <2>1, <2>2, <2>3 DEF Upserted
  <2>5. Key(u) = Key(c) /\ u.text = c.text
    BY <2>3 DEF CorpusText, IsRow, Key
  <2>6. QED
    BY <2>4, <2>5 DEF Stored
<1>4. CASE c \notin pending
  <2>1. PICK r \in rows : Key(r) = Key(c) /\ r.text = c.text
    BY <1>1, <1>4 DEF Stored
  <2>2. \A d \in pending : Key(d) # Key(r)
    BY <1>1, <1>4, <2>1 DEF GateInv
  <2>3. r \in Upserted(pending)
    BY <2>1, <2>2 DEF Upserted
  <2>4. QED
    BY <2>1, <2>3 DEF Stored
<1>5. QED
  BY <1>2, <1>3, <1>4

\* Every step keeps the gate's promise.
LEMMA GateStep ==
  ASSUME TypeOK, CorpusText, GateInv, [Next]_vars PROVE GateInv'
<1>1. CASE UNCHANGED <<offered, rows>> /\ (task' = task => pending' = pending)
             /\ (task' # task => task' \notin {"load_rows", "bump_cache_epochs"})
  BY <1>1 DEF GateInv, OfferedIsStored, pending_candidates
<1>2. CASE upsert_chunks
  <2>1. /\ UNCHANGED rows /\ file \in Files /\ offered' = candidates_from_chunks(file, model)
        /\ pending' = pending_candidates(offered')
        /\ IF pending' = {} THEN task' = "bump_cache_epochs" ELSE task' = "load_rows"
    BY <1>2, Chain DEF upsert_chunks, storeVars, TypeOK, Completed
  <2>2. \A c, d \in offered' : Key(c) = Key(d) => c = d
    BY <2>1, CandidatesApart
  <2>3. pending' = {} => \A c \in offered' : Stored(c, rows)
    BY <2>1, GateSkips
  <2>4. pending' = {c \in offered' : ~\E r \in rows' : Key(r) = Key(c) /\ r.text = c.text}
    BY <2>1 DEF pending_candidates
  <2>5. QED
    BY <2>1, <2>2, <2>3, <2>4 DEF GateInv, OfferedIsStored, pending_candidates, Stored, Key
<1>3. CASE load_rows
  <2>1. CASE Suppressed(pending) = {}
    <3>1. /\ task = "load_rows" /\ rows' = Upserted(pending) /\ UNCHANGED offered
          /\ task' = "bump_cache_epochs"
      BY <1>3, <2>1, Chain DEF load_rows, Completed
    <3>2. \A c \in offered : Stored(c, rows')
      BY <2>1, <3>1, UpsertStores
    <3>3. QED
      BY <3>1, <3>2 DEF GateInv, OfferedIsStored, Stored, Key
  <2>2. CASE Suppressed(pending) # {}
    <3>1. UNCHANGED <<offered, rows>> /\ task' \in {"upsert_chunks", "none"} /\ task = "load_rows"
      BY <1>3, <2>2 DEF load_rows, Failed
    <3>2. QED
      BY <1>1, <3>1
  <2>3. QED
    BY <2>1, <2>2
<1>4. CASE bump_epoch
  BY <1>1, <1>4, Chain DEF bump_epoch, Completed
<1>5. CASE StartRun
  BY <1>1, <1>5 DEF StartRun, storeVars
<1>6. ASSUME NEW t \in {"load_docs", "chunk_docs", "embed_chunks"}, ReadingTask(t)
      PROVE  GateInv'
  <2>1. /\ UNCHANGED <<offered, rows>> /\ task' \in {"chunk_docs", "embed_chunks", "upsert_chunks"}
        /\ task # task'
    BY <1>6, Chain DEF ReadingTask, Completed, storeVars
  <2>2. QED
    BY <1>1, <2>1
<1>7. CASE TaskFails
  <2>1. /\ UNCHANGED <<offered, rows>> /\ task' # "load_rows"
        /\ task' = "bump_cache_epochs" => task = "bump_cache_epochs"
    BY <1>7 DEF TaskFails, Failed, storeVars
  <2>2. QED
    BY <2>1 DEF GateInv, OfferedIsStored
<1>8. CASE UNCHANGED <<dagVars, rows>>
  BY <1>1, <1>8 DEF dagVars
<1>9. CASE \/ \E f \in Files : EditFile(f)
           \/ \E m \in 1 .. Models : Redeploy(m)
           \/ \E w \in Workers : WorkerStep(w)
           \/ \E t \in Asking, n \in Epochs, b \in Buckets : Expire(t, n, b)
           \/ UNCHANGED vars
  <2>1. UNCHANGED <<dagVars, rows>>
    BY <1>9, WorkerFrame DEF EditFile, Redeploy, Expire, vars, storeVars
  <2>2. QED
    BY <1>8, <2>1
<1>10. QED
  BY <1>2, <1>3, <1>4, <1>5, <1>6, <1>7, <1>9, StepCases DEF Dag

\* A run that reaches its bumps has every chunk it was offered in the table, under
\* the model it was offered for: the ones the content-hash gate skipped, the ones load_rows
\* inserted and the ones it updated, whatever failed and was repeated before.
THEOREM GateStoresAll == Spec => []OfferedIsStored
<1>1. Init => GateInv
  BY DEF Init, GateInv, OfferedIsStored
<1>2. TypeOK /\ CorpusText /\ GateInv /\ [Next]_vars => GateInv'
  BY GateStep
<1>3. GateInv => OfferedIsStored
  BY DEF GateInv
<1>4. QED
  BY <1>1, <1>2, <1>3, TypeInvariant, TextInvariant, PTL DEF Spec

-----------------------------------------------------------------------------
(* The bump separates answers from the corpora they were built on            *)

\* An answer for t built on the corpus after b commits by a request that had read
\* epoch n: either no commit has come since, or the epoch has moved on, or the bump
\* for that commit is still to come.
Behind(t, n, b) ==
  /\ n \in Nat /\ n <= epoch[t] /\ b \in Nat /\ b <= commits
  /\ b < commits => \/ n < epoch[t]
                    \/ /\ announced < commits
                       /\ task = "bump_cache_epochs" => \E i \in DOMAIN left : left[i] = t

\* Requests have read an epoch that was current once, and their answers and the
\* cached ones are behind the bumps.
EpochInv ==
  /\ announced <= commits
  /\ \A w \in Workers : pc[w] \in {"lookup", "dense"} => seen[w] <= epoch[job[w].tenant]
  /\ \A w \in Workers : pc[w] \in {"sparse", "generate", "set"} =>
       Behind(job[w].tenant, answer[w].from, answer[w].base)
  /\ \A e \in cache : e.tenant \in Tenants /\ Behind(e.tenant, e.from, e.base)

\* Epochs and commits never go back.
LEMMA DagGrows ==
  ASSUME TypeOK, LeftInv, announced <= commits, Dag \/ TaskFails
  PROVE  /\ \A t \in Tenants : epoch[t] <= epoch'[t]
         /\ announced' <= commits'
<1>0. epoch \in [Tenants -> Nat] /\ commits \in Nat /\ announced \in Nat
  BY DEF TypeOK
<1>1. CASE bump_epoch
  BY <1>0, <1>1 DEF bump_epoch, Completed
<1>2. CASE load_rows
  BY <1>0, <1>2, Chain DEF load_rows, Completed, Failed
<1>3. CASE upsert_chunks
  BY <1>0, <1>3 DEF upsert_chunks, Completed, storeVars
<1>4. CASE StartRun
  BY <1>0, <1>4 DEF StartRun, storeVars
<1>5. CASE TaskFails
  BY <1>0, <1>5 DEF TaskFails, Failed, storeVars
<1>6. ASSUME NEW t \in {"load_docs", "chunk_docs", "embed_chunks"}, ReadingTask(t)
      PROVE  UNCHANGED <<epoch, commits>> /\ announced' \in {commits, announced}
  BY <1>6 DEF ReadingTask, Completed, storeVars
<1>7. CASE \E t \in {"load_docs", "chunk_docs", "embed_chunks"} : ReadingTask(t)
  BY <1>0, <1>6, <1>7
<1>8. QED
  BY <1>1, <1>2, <1>3, <1>4, <1>5, <1>7 DEF Dag

\* No step of the DAG lets an answer catch up with the bumps.
LEMMA BehindKept ==
  ASSUME TypeOK, LeftInv, announced <= commits, Dag \/ TaskFails,
         NEW t \in Tenants, NEW n, NEW b, Behind(t, n, b)
  PROVE  Behind(t, n, b)'
<1>0. /\ epoch \in [Tenants -> Nat] /\ commits \in Nat /\ announced \in Nat
      /\ n \in Nat /\ b \in Nat /\ n <= epoch[t] /\ b <= commits
  BY DEF TypeOK, Behind
<1>1. CASE bump_epoch
  <2>1. left \in Seq(Tenants) /\ left # <<>> /\ task = "bump_cache_epochs"
    BY <1>1 DEF TypeOK, LeftInv, bump_epoch
  <2>2. PICK h \in Tenants : h = Head(left)
    BY <2>1, HeadAndTail
  <2>3. epoch' = [epoch EXCEPT ![h] = @ + 1] /\ commits' = commits
    BY <1>1, <2>2 DEF bump_epoch
  <2>4. epoch'[t] = IF t = h THEN epoch[t] + 1 ELSE epoch[t]
    BY <1>0, <2>3
  <2>5. CASE t = h \/ b = commits \/ n < epoch[t]
    BY <1>0, <2>3, <2>4, <2>5 DEF Behind
  <2>6. CASE t # h /\ b < commits /\ ~(n < epoch[t])
    <3>1. PICK i \in DOMAIN left : left[i] = t
      BY <2>1, <2>6 DEF Behind
    <3>2. i # 1 /\ i - 1 \in DOMAIN Tail(left) /\ Tail(left)[i - 1] = t
      BY <2>1, <2>2, <2>6, <3>1, HeadAndTail
    <3>3. Len(left) # 1
      <4>1. i \in 1 .. Len(left)
        BY <2>1, <3>1
      <4>2. QED
        BY <2>1, <3>2, <4>1
    <3>4. left' = Tail(left) /\ announced' = announced
      BY <1>1, <3>3 DEF bump_epoch
    <3>5. announced < commits
      BY <2>1, <2>6 DEF Behind
    <3>6. QED
      BY <1>0, <2>3, <2>4, <3>2, <3>4, <3>5 DEF Behind
  <2>7. QED
    BY <1>0, <2>5, <2>6
<1>2. CASE ~bump_epoch
  <2>1. epoch' = epoch
    BY <1>2 DEF Dag, TaskFails, StartRun, ReadingTask, upsert_chunks, load_rows, storeVars
  <2>2. task' = "bump_cache_epochs" => \E i \in DOMAIN left' : left'[i] = t
    <3>1. task' = "bump_cache_epochs" => left' = BumpOrder
      BY <1>2, Chain DEF Dag, TaskFails, StartRun, ReadingTask, upsert_chunks, load_rows,
           Completed, Failed
    <3>2. QED
      BY <3>1, RagAssumption
  <2>3. announced' = announced
    BY <1>2, Chain DEF Dag, TaskFails, StartRun, ReadingTask, upsert_chunks, load_rows,
         Completed, Failed
  <2>4. commits' = commits \/ commits' = commits + 1
    BY <1>2 DEF Dag, TaskFails, StartRun, ReadingTask, upsert_chunks, load_rows, storeVars
  <2>5. QED
    BY <1>0, <2>1, <2>2, <2>3, <2>4 DEF Behind
<1>3. QED
  BY <1>1, <1>2

\* Ingesting keeps every request and every cached answer behind.
LEMMA EpochByDag ==
  ASSUME TypeOK, LeftInv, BusyInv, EpochInv, Dag \/ TaskFails PROVE EpochInv'
<1>0. UNCHANGED <<pc, job, seen, answer, cache>> /\ announced <= commits
  BY DagFrame DEF askVars, EpochInv
<1>1. announced' <= commits' /\ \A t \in Tenants : epoch[t] <= epoch'[t]
  BY <1>0, DagGrows
<1>2. ASSUME NEW w \in Workers, pc[w] \in {"lookup", "dense"}
      PROVE  seen[w] <= epoch'[job[w].tenant]
  <2>1. job[w].tenant \in Tenants
    BY <1>2 DEF BusyInv
  <2>2. PICK t \in Tenants : t = job[w].tenant
    BY <2>1
  <2>3. seen[w] <= epoch[t] /\ epoch[t] <= epoch'[t]
    BY <1>1, <1>2, <2>2 DEF EpochInv
  <2>4. seen[w] \in Nat /\ epoch[t] \in Nat /\ epoch'[t] \in Nat
    BY DagType DEF TypeOK
  <2>5. QED
    BY <2>2, <2>3, <2>4
<1>3. ASSUME NEW w \in Workers, pc[w] \in {"sparse", "generate", "set"}
      PROVE  Behind(job[w].tenant, answer[w].from, answer[w].base)'
  <2>1. job[w].tenant \in Tenants /\ Behind(job[w].tenant, answer[w].from, answer[w].base)
    BY <1>3 DEF BusyInv, EpochInv
  <2>2. PICK t, n, b : t = job[w].tenant /\ n = answer[w].from /\ b = answer[w].base
    OBVIOUS
  <2>3. Behind(t, n, b)'
    BY <1>0, <2>1, <2>2, BehindKept
  <2>4. QED
    BY <1>0, <2>2, <2>3 DEF Behind
<1>4. \A e \in cache : e.tenant \in Tenants /\ Behind(e.tenant, e.from, e.base)'
  BY <1>0, BehindKept DEF EpochInv
<1>5. QED
  BY <1>0, <1>1, <1>2, <1>3, <1>4 DEF EpochInv, Behind

\* A request reads the epoch before the table, and stores what it built under
\* both.
LEMMA EpochByWorker ==
  ASSUME TypeOK, BusyInv, ServedText, EpochInv, NEW w \in Workers, WorkerStep(w)
  PROVE  EpochInv'
<1>0. /\ UNCHANGED <<task, left, epoch, commits, announced>>
      /\ pc \in [Workers -> {"idle", "lookup", "dense", "sparse", "generate", "set", "reply"}]
      /\ job = [v \in Workers |-> job[v]] /\ seen \in [Workers -> Nat]
      /\ answer = [v \in Workers |-> answer[v]]
      /\ epoch \in [Tenants -> Nat] /\ commits \in Nat
  BY WorkerFrame DEF dagVars, TypeOK, ServedText
<1>1. \A t, n, b : Behind(t, n, b)' <=> Behind(t, n, b)
  BY <1>0 DEF Behind
<1> DEFINE Reads(v) == pc'[v] \in {"lookup", "dense"} => seen'[v] <= epoch[job'[v].tenant]
           Builds(v) == pc'[v] \in {"sparse", "generate", "set"} =>
                          Behind(job'[v].tenant, answer'[v].from, answer'[v].base)
           Holds == \A e \in cache' : e.tenant \in Tenants /\ Behind(e.tenant, e.from, e.base)
<1>2. SUFFICES /\ \A v \in Workers \ {w} : UNCHANGED <<pc[v], job[v], seen[v], answer[v]>>
               /\ Reads(w) /\ Builds(w) /\ Holds
  <2>1. ASSUME \A v \in Workers \ {w} : UNCHANGED <<pc[v], job[v], seen[v], answer[v]>>,
               Reads(w), Builds(w), Holds
        PROVE  EpochInv'
    <3>1. announced' <= commits'
      BY <1>0 DEF EpochInv
    <3>2. \A v \in Workers : Reads(v)
      BY <2>1 DEF EpochInv
    <3>3. \A v \in Workers : Builds(v)
      BY <2>1 DEF EpochInv
    <3>4. QED
      BY <1>0, <2>1, <3>1, <3>2, <3>3 DEF EpochInv, Behind
  <2>2. QED
    BY <2>1
<1>3. CASE cache' = cache
  <2>1. Holds
    BY <1>3 DEF EpochInv
  <2>2. CASE \E t \in Asking, b \in Buckets : Ask(w, t, b)
    <3>1. PICK t \in Asking, b \in Buckets : Ask(w, t, b)
      BY <2>2
    <3>2. /\ pc' = [pc EXCEPT ![w] = "lookup"] /\ job' = [job EXCEPT ![w] = [tenant |-> t, bucket |-> b]]
          /\ seen' = [seen EXCEPT ![w] = epoch[t]] /\ answer' = answer
      BY <3>1 DEF Ask
    <3>3. pc'[w] = "lookup" /\ job'[w].tenant = t /\ seen'[w] = epoch[t] /\ epoch[t] \in Nat
      BY <1>0, <3>2, RagAssumption
    <3>4. QED
      BY <1>0, <2>1, <3>2, <3>3
  <2>3. CASE cache_lookup(w)
    <3>1. UNCHANGED <<job, seen>> /\ pc[w] = "lookup" /\ \E l \in {"dense", "reply"} : pc' = [pc EXCEPT ![w] = l]
      BY <2>3 DEF cache_lookup
    <3>2. \A v \in Workers \ {w} : answer'[v] = answer[v]
      BY <1>0, <2>3 DEF cache_lookup
    <3>3. QED
      BY <1>0, <2>1, <3>1, <3>2 DEF EpochInv
  <2>4. CASE dense_topk_filtered(w)
    <3>1. /\ UNCHANGED <<job, seen>> /\ pc[w] = "dense" /\ pc' = [pc EXCEPT ![w] = "sparse"]
          /\ answer' = [answer EXCEPT ![w] =
               [cites |-> {}, tenant |-> job[w].tenant, from |-> seen[w], base |-> commits]]
      BY <2>4 DEF dense_topk_filtered
    <3>2. answer'[w].from = seen[w] /\ answer'[w].base = commits
      BY <1>0, <3>1
    <3>3. seen[w] \in Nat /\ seen[w] <= epoch[job[w].tenant]
      BY <1>0, <3>1 DEF EpochInv
    <3>4. Behind(job[w].tenant, seen[w], commits)
      BY <1>0, <3>3 DEF Behind
    <3>5. QED
      BY <1>0, <2>1, <3>1, <3>2, <3>4
  <2>5. CASE sparse_topk_fts(w)
    <3>1. UNCHANGED <<job, seen>> /\ pc[w] = "sparse" /\ pc' = [pc EXCEPT ![w] = "generate"]
      BY <2>5 DEF sparse_topk_fts
    <3>2. PICK c : answer' = [answer EXCEPT ![w] = Citing(@, c)]
      BY <2>5 DEF sparse_topk_fts
    <3>3. answer'[w] = Citing(answer[w], c) /\ \A v \in Workers \ {w} : answer'[v] = answer[v]
      BY <1>0, <3>2
    <3>4. answer'[w].from = answer[w].from /\ answer'[w].base = answer[w].base
      BY <3>3 DEF Citing, ServedText, IsAnswer
    <3>5. QED
      BY <1>0, <2>1, <3>1, <3>3, <3>4 DEF EpochInv
  <2>6. CASE generate(w)
    <3>1. /\ UNCHANGED <<job, answer>> /\ pc[w] = "generate" /\ pc' = [pc EXCEPT ![w] = "set"]
          /\ seen' = [seen EXCEPT ![w] = epoch[job[w].tenant]]
      BY <2>6 DEF generate
    <3>2. QED
      BY <1>0, <2>1, <3>1 DEF EpochInv
  <2>7. CASE Leaves(w)
    <3>1. /\ pc' = [pc EXCEPT ![w] = "idle"] /\ job' = [job EXCEPT ![w] = Idle]
          /\ seen' = [seen EXCEPT ![w] = 0] /\ answer' = [answer EXCEPT ![w] = NoAnswer]
      BY <2>7 DEF Leaves
    <3>2. QED
      BY <1>0, <2>1, <3>1
  <2>8. CASE cache_store(w)
    <3>1. UNCHANGED <<job, seen, answer>> /\ pc' = [pc EXCEPT ![w] = "reply"]
      BY <2>8 DEF cache_store
    <3>2. QED
      BY <1>0, <2>1, <3>1
  <2>9. QED
    BY <2>2, <2>3, <2>4, <2>5, <2>6, <2>7, <2>8 DEF WorkerStep, Answering
<1>4. CASE cache' # cache
  <2>1. cache_store(w)
    BY <1>4 DEF WorkerStep, Answering, Leaves, Ask, cache_lookup, dense_topk_filtered,
         sparse_topk_fts, generate, storeVars
  <2>2. /\ pc[w] = "set" /\ UNCHANGED <<job, seen, answer>> /\ pc' = [pc EXCEPT ![w] = "reply"]
        /\ cache' \subseteq cache \cup
             {[tenant |-> job[w].tenant, epoch |-> seen[w], bucket |-> job[w].bucket,
               stamp |-> job[w].tenant, cites |-> answer[w].cites, from |-> answer[w].from,
               base |-> answer[w].base]}
    BY <2>1 DEF cache_store
  <2>3. job[w].tenant \in Tenants /\ Behind(job[w].tenant, answer[w].from, answer[w].base)
    BY <2>2 DEF EpochInv, BusyInv
  <2>4. Holds
    BY <2>2, <2>3 DEF EpochInv
  <2>5. QED
    BY <1>0, <2>2, <2>4
<1>5. QED
  BY <1>3, <1>4

\* Every step keeps the answers behind the bumps.
LEMMA EpochStep ==
  ASSUME TypeOK, LeftInv, BusyInv, ServedText, EpochInv, [Next]_vars PROVE EpochInv'
<1>1. CASE Dag \/ TaskFails
  BY <1>1, EpochByDag
<1>2. ASSUME NEW w \in Workers, WorkerStep(w) PROVE EpochInv'
  BY <1>2, EpochByWorker
<1>3. CASE (\E f \in Files : EditFile(f)) \/ UNCHANGED vars
  <2>1. UNCHANGED <<task, left, epoch, commits, announced, pc, job, seen, answer, cache>>
    BY <1>3 DEF EditFile, vars, dagVars, askVars, storeVars
  <2>2. QED
    BY <2>1 DEF EpochInv, Behind
<1>4. ASSUME NEW m \in 1 .. Models, Redeploy(m) PROVE EpochInv'
  <2>1. /\ UNCHANGED <<task, left, epoch, commits, announced, cache>>
        /\ pc' = [w \in Workers |-> "idle"]
    BY <1>4 DEF Redeploy, dagVars, storeVars
  <2>2. QED
    BY <2>1 DEF EpochInv, Behind
<1>5. ASSUME NEW t \in Asking, NEW n \in Epochs, NEW b \in Buckets, Expire(t, n, b)
      PROVE  EpochInv'
  <2>1. /\ UNCHANGED <<task, left, epoch, commits, announced, pc, job, seen, answer>>
        /\ cache' \subseteq cache
    BY <1>5 DEF Expire, dagVars, askVars
  <2>2. QED
    BY <2>1 DEF EpochInv, Behind
<1>6. QED
  BY <1>1, <1>2, <1>3, <1>4, <1>5, StepCases

\* Once a run has announced its commits, the cache serves an answer built on an
\* older corpus only if it was still being built when the bump came: the INCR per
\* tenant, its retries and the two reads of the epoch leave no other way.
THEOREM BumpsSeparateAnswers == Spec => []BumpSeparates
<1>1. Init => EpochInv
  BY DEF Init, EpochInv
<1>2. TypeOK /\ LeftInv /\ BusyInv /\ ServedText /\ EpochInv /\ [Next]_vars => EpochInv'
  BY EpochStep
<1>3. TypeOK /\ EpochInv => BumpSeparates
  <2>1. ASSUME TypeOK, EpochInv, announced = commits, NEW e \in cache,
               e.epoch = epoch[e.tenant], e.from = e.epoch
        PROVE  e.base = commits
    <3>1. epoch[e.tenant] \in Nat /\ commits \in Nat
      BY <2>1 DEF TypeOK, EpochInv
    <3>2. Behind(e.tenant, epoch[e.tenant], e.base)
      BY <2>1 DEF EpochInv
    <3>3. QED
      BY <2>1, <3>1, <3>2 DEF Behind
  <2>2. QED
    BY <2>1 DEF BumpSeparates
<1>4. QED
  BY <1>1, <1>2, <1>3, TypeInvariant, TextInvariant, PTL DEF Spec
=============================================================================
