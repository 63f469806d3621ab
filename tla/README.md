# Formal models of the tax-liability platform

TLA+ models, TLC configurations and TLAPS proofs for the concurrent and
failure-prone parts of the platform: the write path with its outbox and read
model, the idempotent endpoints, the refund endpoint, the agent service with its
graph, its budget and its lazily opened dependencies, the retrieval service with
its ingest, its answer cache and its ranking, the MCP server, what LLM calls cost
across three services, and the jobs that gate a build.
`PROJECT.json` lists every run, the lines each definition models, the hazards
the properties are aimed at, and the theorems.

## The system and its parts

| part | state it keeps | operations | what is hard |
|---|---|---|---|
| `TaxLiabilityService.computeLiability` | Postgres `taxpayers`, `event_outbox` | one transaction per POST, Mongo written before it commits | partial failure, overlapping writes of one taxpayer |
| `OutboxPublisher` | row locks, `published_at`, the producer's accumulator | a sweep per second and replica | two replicas, send timeouts with late delivery, crash before the marks commit |
| `TaxpayerUpdatedListener`, `KafkaErrorHandlingConfig` | group offset, DLT, Mongo documents | poll; load, apply, save per record; acknowledge the batch; retry, dead-letter | a poll handled twice, rebalance with a late save, order |
| `IdempotencyService` | one Redis entry per key | GET, SETNX, work, SET, DEL | races between the commands, lost answers, crashes, expiry |
| taxcalc-orders refund endpoint | `refunds` with a unique index | one transaction per call | concurrent retries, wait on the index, rollback of the winner, lost answers |
| agent api node and MCP `create_refund` | the tool-use loop of a conversation | propose, inject, call, cancel, replay | deadline against a call in flight, replay from a checkpoint, an untrusted proposal |
| agent graph, budget guard, SSE bridge | graph state and reducers, spend of a request | supervisor, parallel legs, synthesis with retries | two legs sharing one guard, cancelled legs |
| agent runtime | compiled graph, MCP session and its task | lazy open, reconnect, close | bursts before the first open, failed opens, cancelled callers |
| taxcalc-ai corpus, ingest DAG, answer cache | `doc_chunks`, Redis entries and an epoch per tenant | load, chunk, gate, embed, upsert, bump; look up, retrieve, generate, store | task retries after a partial effect, a model that changes, requests that overtake the bump |
| taxcalc-ai ranking | the reranker, two counters | dense and full-text search, rank fusion, MMR, rerank with a soft deadline | ties and duplicates in the fusion, degraded reranks, counters shared by threads |
| taxcalc-mcp-server | an identity per session, client dict, corpus connection, `ContextVar` of the last error | connect, four tools, error envelope, thread pool with a deadline | concurrent calls, threads that outlive their call, a partly filled client dict |
| LLM spend: `LlmProxyClient`, `llm.chat`, `/v1/completions` | token buckets, cost log | attempt, retry; limit, price, complete, log | an attempt that goes on after its client gave up, restarts, lost and crossed responses, responses without an id or a usage block, rounding |
| quality gates: trajectory eval, RAGAS, trace checks, latency replay | `last_run.json`, the report, LangSmith runs, the promoted baseline | one script per CI job | what an earlier job left behind, rows that are missing or unjudged, percentiles at small counts and rounded, stores that hang |
| read path, bracket resolvers, embeddings, Lambda, web | caches, metrics | sequential handlers | a stale cache, rounding |

Requests enter over HTTP; the Java service calls Postgres, Mongo, Redis and
Kafka; the agent calls the MCP server, which calls taxcalc-orders, taxcalc-ai's
pipeline and the Java service's LLM proxy. Processes
share state only through these stores, so every model interleaves at the
granularity of one command to one store.

## Modules

| module | models | checked by |
|---|---|---|
| `TaxpayerPipeline` | write path, outbox, topic, listener, Mongo | `MCTaxpayerPipeline`, proofs in `TaxpayerPipelineProofs` |
| `IdempotentPost` | `IdempotencyService.handle` as `summary` calls it | `MCIdempotentPost`, proofs in `IdempotencyProofs` |
| `RefundOnce` | what a refund endpoint promises (abstract) | refined by `RefundLedger` |
| `RefundLedger` | `POST /orders/{id}/refunds`, statement by statement | `MCRefundLedger`, proofs in `IdempotencyProofs` |
| `AgentRefund` | api node and MCP tool, composed with `RefundLedger` | `MCAgentRefund`, proofs in `IdempotencyProofs` |
| `AgentRuntime` | `Dependencies` of `runtime.py` and the lifespan | `MCAgentRuntime`, proofs in `AgentServiceProofs` |
| `AgentGraph` | supervisor, nodes, budget guard, reducers, SSE bridge | `MCAgentGraph`, proofs in `AgentServiceProofs` |
| `RagCorpus` | ingest DAG, `doc_chunks`, answer cache, requests meanwhile | `MCRagCorpus`, proofs in `RagCorpusProofs` |
| `Retrieval` | rank fusion, MMR, rerankers, the alert's counters | `MCRetrieval`, proofs in `RetrievalProofs` |
| `McpServer` | sessions, tools, error envelope, RAG threads | `MCMcpServer`, proofs in `McpServerProofs` |
| `LlmSpend` | clients, proxy, rate limiter, price book, cost log | `MCLlmSpend`, proofs in `LlmSpendProofs` |
| `QualityGates` | the four jobs that decide builds | `MCQualityGates`, proofs in `QualityGatesProofs` |

### TaxpayerPipeline

A request writes one taxpayer once, so the request's name also stands for the
version it writes, for its outbox row and for its event; what a document holds
is abstracted to the request it came from and its tenant. `SaveEntities`,
`WriteThrough` and `Commit` are the three points of `computeLiability` others
can see: the merge has read whether the row exists, Mongo is replaced, Postgres
commits both rows (or fails on a duplicate key if another request inserted the
taxpayer in between). `WriteFails` is every way out in between; what Mongo was
given stays there.

A sweep locks its page (`Sweep`), sends row by row (`Send`) and blocks in
`get(5s)`: the broker takes the record (`BrokerAppends`), the producer gives it
up (`SendFails`) or the wait ends first (`SendTimesOut`), and then the record is
still in the accumulator and may arrive later. `CommitSweep` and
`SweepRollsBack` end the transaction. The accumulator is a queue because the
producer is idempotent and keeps order within a partition; the broker and the
consumer group are external and modelled from how the code uses them.

The offset is committed per poll and not per record: `kafkaListenerContainerFactory`
(`KafkaErrorHandlingConfig.java:94-102`) builds the container factory from the
consumer factory and the error handler alone, so the `ack-mode: RECORD` of
`application.yml:80` does not reach it and the container's default, `BATCH`, holds.
`Poll` fetches some of the records behind the committed offset; each goes through
`Load` and `Save`; `NextRecord` turns to the next one, `Acknowledge` commits after
the last. When `onEvent` throws, what was handled before it is committed and the
rest of the poll is dropped (`Redeliver`, with its bounded attempts, then
`DeadLetter`). `Rebalance` hands the partition over from the committed offset, with
any number of saved records above it, while a slow consumer may go on with its own
poll.

Every replica of the deployment sweeps (`manifests/10-taxcalc-api.deployment.yaml:18`),
so nothing is stated for one publisher. `passedOver` collects, as history, the rows
a later write of their taxpayer may overtake: those whose own send failed or timed
out, and those another sweep held while a sweep took the newer row (`Skipped`).
`lateSaves` are the records saved by a consumer that had lost the partition. Order and
convergence are stated of everything else. The stamps that sweeps sort by are taken
from one clock; replicas whose clocks disagree are not modelled.

### IdempotentPost

Every Redis command of `handle` is a step: `Get`, `SetIfAbsent`, `DoWork`,
`Store`, `Forget`, and each may fail with or without its effect (`RedisFails`
and the disjuncts of `Store` and `Forget`). `Crash` loses the replica, `Expire`
ends the 24 hours of an entry. A cached body either parses as a JSON object or
does not; nothing else about it matters.

### RefundOnce, RefundLedger, AgentRefund

`RefundLedger` runs each call through the tenant filter and the request's
constructor (`Receive`), the order lookup (`CheckOrder`), the
`INSERT ... ON CONFLICT DO NOTHING` (`InsertIfAbsent`, which waits for a
transaction that holds the same slot), and `Commit` or `ReadBack`. A call may
roll back anywhere, and a commit may succeed while its answer is lost. The id,
amount and reason of a refund are those of the call that made it, so a row
carries that call instead. Its behaviours are those of `RefundOnce` (property
`AtMostOnce`, mapping `ledger <- refunds`, `answer <- view`, `asked` the slot a
call asked for once it was received).

`AgentRefund` adds the conversations: an api node that proposes, injects tenant
and key, calls and awaits, is cancelled by its deadline (the call goes on) and
is run again. What the model proposes is arbitrary: an order, a tenant and a
wording, which stands for the reason, the spelling of the amount and the
`idempotency_key` the published schema asks the model for. The key is a value
built from the thread and the whole proposal, as `uuid5` over their
serialisation is; collisions of the hash are left out.

### AgentRuntime

Coroutines of one event loop, so a step runs from one `await` to the next.
`Graph` is `graph()` (the look before and inside the lock, the build with its
bounded attempts), `Session` is `session()` (the lock, the task it starts, the
event it waits for, the error or the session it is handed), `Serve` is the
`_serve_session` task that opens the transport, parks, and unwinds. `initialize()` has
no read timeout, so an attempt may also hang (`TaskHangs`), and the server may answer
it later or never (`AnswersLate`). The lifespan
warms both up, keeps `reconnect_forever` running and closes them. Postgres and
the MCP server go away and come back (`PostgresChanges`, `McpServerChanges`,
external); a node deadline may cancel a caller while its task goes on. Requests
may come before `/readyz` says so, and none need ever come: readiness must not
depend on traffic. `Starts` gives the two ways the holder is used. The service
warms it up before it accepts requests, so `_session_up` is set by then and no
request ever waits for the session or its lock. The eval harness and the tests
open it on first use; there the lock and a deadline that cancels its holder
matter. The model lets their callers overlap, as the module's docstring promises
(the harness itself runs one scenario at a time).

### AgentGraph

One thread whose requests follow one another. `chat_stream` makes a fresh guard
and the supervisor's plan; each leg reads `spent_before` and checks the guard
without an `await` in between (`Enter`), and every completion is one step that
charges the guard and, where the code does not suspend, makes the next check
(`rewrite_query`, `run_pipeline`, `api_completion`, `call_tools`, `stream_once`).
`deadline` is the decorator with its sentinel, `NodeFails` any exception that is
not forgiven, `Raise` the end of the super-step and the error frame. `FanIn`
applies the reducers once every leg has returned; `Finish` writes the answer.
`CheckpointFails` and `HangUp` (a closed stream or a dead pod) are external. A
document or tool result is abstracted to the request it came from, an answer to
the attempt that wrote it, all the prose deltas of an attempt to one frame. The
price of a completion is computed as the code does, with its truncation.

LangGraph is modelled from how `graph.py` uses it: the steps of a super-step are
applied together or not at all, and a request with new inputs starts at `START`
over the channels of the last checkpoint.

### RagCorpus

One SQL statement or Redis command is one step. The DAG's tasks follow one
another; each may fail, what it has done stays done, and it is run again with the
retries of `default_args`. Meanwhile the corpus file is edited, the code is
deployed with another `MODEL_NAME`, and workers answer questions: they look up
the epoch and the entry, query both indexes, generate, and read the epoch once more
to store the answer under it. Entries expire on their own. A chunk is its document,
its position and its text; a text is a model value with the chunks the splitter
makes of it. Which of the retrieved chunks the ranking keeps is open here.

### Retrieval

`rrf_fuse`, `mmr_pick` and the two rerank backends are operators and actions over sequences
of chunks, with the scores as integers (reciprocal ranks over the common denominator
`Unit`, so that they are exact; similarities in tenths), and the threads that call them are actions from one
counter increment or model call to the next, because that is where threads
interleave. The first caller constructs the reranker; a rerank ends in scores, in
its soft deadline, in an error the code forgives or in one it does not.

### McpServer

An SSE session carries the identity of its handshake, the stdio session the
configured one. A call checks the tenant it names against the claim, then either
awaits an upstream (three statuses, a body that fits or does not, a timeout) or
queues work for the pool; the deadline ends the wait and not the thread. Every
exception leaves through the envelope, which reads the `ContextVar` slot that the
tool's own handler filled. Threads fill the client dict one key at a time, and
the corpus connection may break.

### LlmSpend

A call is an `estimate` with its retries or a single `llm.chat`. Each attempt is
a request of its own at the proxy and goes on there when the client has given
up: bucket, price check, provider, cost line, response header. The proxy may
restart (its buckets and what it was doing are lost), a response may be lost or
cross with that of another attempt. A response may come without a correlation id, which
`_read_completion` accepts (`echoed` remembers which ones had it), and the provider's
usage block may lack either token count, which `safeLong` reads as 0: `bill` is what was
charged, `usage` what `UpstreamResponse` says of it. Money is in millionths of a dollar, and both
roundings, of the cost line and of the MCP server's cents, are as in the code.

### QualityGates

One job runs at a time; what matters is what it finds of earlier ones. The eval
runs its scenarios, grades them, writes `last_run.json` and decides; RAGAS bumps
the epoch, fills a column through the answer cache that the service uses too and
writes the report; the two trace checks poll LangSmith; the replay computes
percentiles, rounded to the microsecond, and compares them with the promoted report.
A job may fail where its calls raise (`EvalFails`, `ReportFails`, `FlushFails`,
`ReplayFails`), and a store that it asks without a timeout may stop answering
(`StoreHangs`). A stubbed scenario costs what the nodes on its route cost. A scenario's outcome, a
judge's score, the arrival of a trace and a timing are chosen from small sets.
`trajectory_match` walks from each golden node to its next place in the visited ones
(`NextAt`); a percentile is the sample at a `Rank` of the sorted ones (`Ordered`), rounded.
`Grain` is the resolution of the clock: the units of a sample that make a microsecond.

## Runs

| run | instance | shows |
|---|---|---|
| `pipeline` | 2 requests of one taxpayer with different tenants, overlapping or one after the other, 2 publishers, 2 consumers that poll up to 2 records, 2 faults, fair | nothing dropped, nothing uncommitted announced, no duplicate without a fault, nothing acknowledged unhandled, tenant kept; order and convergence for all that was not passed over, dead-lettered or saved late; every committed write is delivered |
| `pipeline_order` (violation) | the same without faults | two sweeps reorder the events of a taxpayer, against the comment of `OutboxPublisher` |
| `idempotency_safety` | 3 requests on a key, one on another, one malformed, an expiry | the work runs once, retries get the same body |
| `refund_ledger` | 3 calls, 3 tenants (one without the order), 2 keys, blank headers and fields | the winner of a lost race is always readable; refinement of `RefundOnce` |
| `agent_refund` | 2 conversations of a tenant, 2 visits of 2 completions, 3 calls, 2 wordings | once per proposal, no mixed-up answers |
| `runtime` | warm-up or none, 2 requests, 3 tasks, 3 attempts, 3 outages, fair | one pool, no held session is unwound; waiting callers are released and the pod becomes ready once Postgres stays up, if no connection attempt hangs for ever |
| `graph` | 2 requests of a thread, a price of 0 and one of half the ceiling, 2 tool turns, 1 repair, fair | overshoot of one call per leg, no silent end, complete evidence, every request ends |
| `rag_corpus` | 2 tenants, one of them asking, 3 corpus files, 2 models, 2 runs, 1 edit, 1 retry, 2 faults, 1 worker, fair | a tenant is served its own text only; what the gate lets through is stored; the bump separates cached answers; a stale answer ages out |
| `retrieval` | 2 threads, every ranking of 3 chunks by both retrievers (and a row of an older model), 2 reranks, both backends | agreement wins the fusion; MMR passes over nothing that is better in both respects; the context says whether it was reranked; the alert's counters tell what was served |
| `mcp_server` | a stdio and an SSE session, 2 calls, 1 thread, 3 tools, 2 tenants, 3 statuses, 3 bearer headers, fair | every caller gets the outcome of its own call; nothing is done for a tenant the token does not name; every call is answered |
| `llm_spend` | 1 estimate and 1 chat, 2 retries, a bucket of 2, 2 faults, a known and an unpriced model, fair | every charge is logged or was lost to a fault; the log adds up to the invoice within its rounding where the usage was reported, and never to more; an estimate rests on its own trace where the response named one; every call ends |
| `quality_gates` | 2 jobs, 4 scenarios with 3 outcomes or an exception, gated online and offline, a price of 116 against 100, 3 columns, 1 question, 6 timing lists of 3 to 40 samples in tenths of a microsecond, 2 polls, a store that hangs, fair | a green gate measured what it stands for; no column grades another's answers; every job ends or waits for a store that hangs |

Bounds. Two requests of one taxpayer are enough for every order the pipeline's
properties speak of (they relate two writes of an aggregate at most; aggregates
do not interact). Two replicas give every pair of overlapping sweeps and
deliveries, a poll of two records leaves one saved and not committed, and two faults
let a failed or late send meet a rollback, a rebalance or a redelivery. Three racing calls are the smallest number with a winner that rolls
back, a second winner and a loser that waits. Two requests beside the warm-up
give a lock holder, a waiter and a late caller, and three outages a dependency
that fails, recovers and fails again. A ceiling of two calls makes every check of
the graph decisive, and two requests of a thread show all that a checkpoint can
carry over. Two runs of the ingest are a first load and a re-ingest of a changed
file or model, and one worker can overtake a bump or be overtaken by it. Three
chunks are the smallest number with a chunk of both lists, one of each, and a
choice left to MMR. One pool thread makes a second call wait for a thread whose
caller has left, and two calls are a pair that could mix up its errors. Two
attempts are a retry beside the attempt it gave up, in a bucket that the chat can
empty. Two jobs are one that leaves something behind and one that finds it; four
scenarios are the fewest of which one may fail under the floor of 70 percent, and
the timing lists straddle the limit, the noise floor and the counts where the
rank's rounding changes, with samples on both sides of the last digit. `MaxFaults`, `MaxExpiries`, `MaxVisits`,
`MaxIterations`, `MaxOutages`, `MaxRequests`, `MaxRuns`, `MaxEdits`, `MaxReranks` and
`MaxJobs` are the only bounds that are not in the code; all appear in guards.
`llm_spend` and `quality_gates` may stop: all calls end, and jobs are bounded.
Replicas, calls, conversations and wordings are interchangeable and are declared
symmetric in the safety runs.

Fairness. `pipeline`: weak fairness of each publisher's sweep, send and commit, of
its producer's sender, and of each consumer's poll, load, save, next record and
acknowledgement. The scheduled method runs every second for ever, the producer retries
until it succeeds or gives up, and the container polls for ever. Requests, faults,
failures and rebalances are owed no progress. `runtime`: the event loop runs what is
runnable and the reconnect loop never stops. A connection attempt that reaches a server
is owed no end, because `initialize()` (`runtime.py:252`) has no timeout: the two
liveness properties say what holds if every attempt ends (`AttemptsEnd`), and without
that condition they are refuted. Postgres is assumed to answer or refuse while the pool
is opened. Requests, deadlines, outages and the shutdown are owed nothing. `graph`: a
scheduled node starts, the super-steps end, and a deadline fires in the end
(`asyncio.wait_for`); nothing is assumed of the model, the tools, the pipeline or the MCP
session. `rag_corpus`: the scheduler takes the next task or gives it up, a worker ends its
request, and Redis expires an entry at its TTL; edits, deployments and questions are owed
nothing. `mcp_server`: each call's own coroutine goes on, since every wait in it has a
deadline or an httpx timeout; threads, the pool and the upstreams are owed nothing.
`llm_spend`: each client takes its next step (a request timeout ends a wait); nothing is
assumed of the proxy or the provider. `quality_gates`: the steps of a job whose stores
answer. The judge, the model and LangSmith are called with timeouts and the polls are
counted, but Redis (`run_ragas.py:192`), Postgres (`run_ragas.py:200`, `trajectory.py:537`)
and the MCP handshake are not, so a step that waits for a store that hangs is not enabled.
No job need ever start and none is owed a failure.

## What the documentation promises and the code does not keep

The modules also state properties that a comment, a docstring or a test suggests
and that the code does not have. They are marked `Refuted` and have no run of
their own; TLC finds a counterexample to each when it is added to the cfg of its
component's run. `AggregateOrderPreserved` has the run `pipeline_order`. Three need another instance:
`CollisionIsLoud` the files `SameText` of `MCRagCorpus`, `OwnAnswer` two estimates and
no chat, `CentsAddUp` two chats and no estimate.

| property | what the code does | the line it disagrees with |
|---|---|---|
| `AggregateOrderPreserved` | a sweep sends a taxpayer's newer row while another replica's sweep holds the older one | `OutboxPublisher.java:24-25` |
| `ReadModelConverges` | a row that is passed over, or a late save of a consumer that lost the partition, leaves Mongo behind Postgres | `TaxpayerReadModel.java:158` |
| `ReadModelIsCommitted` | Mongo is written before Postgres commits, and keeps a write that rolled back | `TaxLiabilityService.java:136` |
| `ConflictMeansInFlight` | 409 although no other request is in flight | `TaxpayerController.java:204` |
| `UnreadableIsRecomputed` | a cached body that does not parse is answered 409 | `IdempotencyService.java:52` |
| `ReissueCollapses` | the key covers the model's wording, so a retry that is worded differently is a second refund | `nodes/api.py:41-47`, `_deadline.py:87-89` |
| `WaitersAlwaysReleased` | a server that accepts and never answers holds a caller for ever | `runtime.py:262-263` ("a caller waiting on this event must be released"), against `:252` |
| `ReadyWhateverMcpDoes` | it also holds the warm-up, and with it the reconnect loop | `runtime.py:27` ("does **not** gate readiness") |
| `OneConnection` | `session()` starts a second task beside one that is connecting | `runtime.py:31` |
| `FailsAfterTrying` | a call fails at once with the error of an earlier open | `runtime.py:33-34` |
| `SessionReadyIsTrue` | `/readyz` goes on reporting a session the server dropped | `runtime.py:131`, `RUNBOOK.md:15-16` |
| `CostCountsOnce` | `cost_usd_e5` counts the overlap of two legs twice | `state.py:121` |
| `CostCoversSpend` | what a node spent before its deadline is not reported | `state.py:33-34` |
| `RefusesWhenLate` | legs that all time out leave an earlier request's documents to answer from | `nodes/synthesis.py:42-44` |
| `DeltasReassemble` | after a repair or a deadline the appended prose is not the answer | `test_answer_streaming.py:209` |
| `CollisionIsLoud` | a document with the id and text of another tenant's is skipped silently | `pgvector_loader.py:88-91`, `embedder.py:150` |
| `AnnouncedIsServed` | an answer whose request overtakes the bump is cached under the new epoch | `cache.py:210` |
| `CitesCurrentText` | full-text search also returns the rows of an older model, with text that was replaced | `hybrid.py:140`, no model in the query |
| `BothBeatEitherAlways` | such a row counts a chunk twice in the fusion | `hybrid.py:169` |
| `DegradesSoftly` | a 200 without usable JSON from Cohere is raised instead of degraded | `rerank.py:441` |
| `FilterHolds` | `metadata_filter` reaches the dense query only | `rag.py:330` |
| `KeyErrorMeansUnset` | a partly filled client dict is reported as an unset variable | `app.py:138-143` |
| `InvalidParamsMeansArguments` | an upstream body that does not fit is reported as the caller's mistake | `app.py:300` |
| `LogIsTheInvoice` | a charge whose usage block is missing is logged at 0 tokens | `AnthropicChatUpstream.java:66-68` says so itself |
| `NeverAnotherTrace` | a crossed response without the header is taken | `client.py:332` |
| `PaidOnce` | a timeout does not stop the attempt, and the retry buys another completion | `client.py`, retry of `estimate` |
| `OwnAnswer` | two estimates of one trace share the correlation id, so the echo cannot tell their responses apart | `client.py:332` |
| `CentsAddUp` | calls of less than a cent are zero in the log, however many | `numeric.py:131` |
| `BillsTheTenantAsked` | the proxy bills the token's claim, nothing compares it with the `tenant_id` argument | `LlmProxyController.java:140` |
| `RefusedLeavesBaseline` | `last_run.json` is written before the verdict, so a red eval is green the second time | `trajectory.py:470` |
| `FailedRowFailsTheGate` | up to 30 percent of the scenarios may raise, at a cost of zero | `trajectory.py:386` |
| `EveryRowJudged` | the mean passes over rows the judge could not grade | `trajectory.py:663` |
| `ColumnIsOwn` | a column grades answers that the service cached after the bump | `run_ragas.py:197` |
| `GreenMeansOwnTrace` | a trace of another job of the last ten minutes makes the check pass | `assert_langsmith_run_visible.py:73-75` |
| `JobsEndWhateverHangs` | a store that stops answering holds the job for ever | `run_ragas.py:192`, `:200`, `trajectory.py:537` |
| `NoMoreThanFiveAbove` | the p95 is rounded, so all samples may lie above it | `replay.py:217` |
| `PercentileIsNearest` | of 20 samples the 20th is taken for the 95th percentile, not the 19th | `replay.py:206` |

## Proofs

`tlapm` checks every theorem below for all values of the constants that satisfy
the named assumptions of the modules; the invariants were model-checked first.

* `TaxpayerPipelineProofs`. `DeliveryInv`: a delivery's record exists in the topic and
  lies within its poll, the owner of the partition is past the offset, and whatever lies
  between the offset and its record was saved or dead-lettered. That is what a batch
  commit needs: it gives `AcknowledgedHandled` and `OffsetMonotonic` (a late
  acknowledgement is refused because the group has another owner). `SweepInv`
  says that the record a sweep waits for is the newest of its producer's queue,
  so the row it marks is the one the broker took; with `RowInv` it gives
  `RowsExclusive`, `NoEventDropped` and `NoEventInvented`. `TenantInv` says that a
  request that may still commit has left a document behind, hence the listener
  never builds one with the default tenant: `TenantNeverDowngraded`.
  `SentOnceInv` says that until something fails a locked row is either still to be
  sent, awaited or marked, the producer's queue holds the awaited record alone, and
  the row of a record in the topic is published or marked by the sweep that still
  locks it, so nobody can send it again. It gives `ExactlyOnceUndisturbed`, for any
  number of publishers. For
  the order, `StampInv` says that a write begun after another's commit is stamped
  later, `CommitInv` that the taxpayer's row is a version no committed write came
  after, and `OrderInv` that what came before a row of the batch is in the batch,
  awaited, in the topic or passed over, and what came before a record of a producer or
  the topic is in front of it or passed over: `OrderKept`, for any number of publishers
  and faults. Duplicates make convergence harder than order, since an event sent again
  after a rollback may come behind a newer one. `HoldInv` says what an open sweep holds,
  `OvertakenInv` that what came before a row is published, marked and locked no later
  than the row, hence `LastInv`: a published row has a record behind all records of what
  came before it (`WrittenLast`). `ProjectionInv` says that of each record the group has
  passed, the document shows it or one further on, unless it was dead-lettered, saved
  over late, or written over by a request that its writer had not seen (`Shown`); a
  poll that is handled twice goes back (`Progress`) and comes to its last record again.
  At rest this gives `ConvergesInOrder`. Neither theorem has a hypothesis on the number
  of publishers or on faults.
* `IdempotencyProofs`, the service. One request at most is past its SETNX under an entry
  that was neither deleted nor expired, it is the only one that ran, and a
  stored body is its own: `PostInvariant`, from which `PostTypeCorrect`,
  `PostOnce` and `RetriesAgree` follow. `StoredResultStays` is about steps: a body,
  once stored, goes only when it expires or when the request that stored it was not
  told so and cleans up after itself; nobody else may still write under its entry.
* `IdempotencyProofs`, the refunds. At most one uncommitted insert per slot, and none where
  a committed row exists: `LedgerInvariant`. From it `LedgerDebitedOnce`,
  `LedgerAnswersTrue`, `IndexAndLookupAgree` (the `IllegalStateException` of
  `refund` is unreachable) and the refinement `LedgerImplementsOnce`. The agent
  adds only the choice of who calls and with what: every step of `AgentRefund` is a
  step of the ledger or leaves it alone, `AgentImplementsLedger`, so all of this
  holds of the composition. `IssuedInv` (a call in the ledger carries
  the tenant of the conversation and the key its proposal hashes to) then
  gives `TenantIsInjected`, `ProposalRefundedOnce` and `CallAnsweredItsOwn`.
* `AgentServiceProofs`, the runtime. `GraphInv` says that a builder holds the lock and that a
  pool exists only with a graph: `PoolOnce`. `SessionInv` says that the event is
  set only once an error or a session has been left behind, that a published
  session belongs to an open task, and that an open task unwinds only at shutdown:
  `AssertUnreachable` and `HeldStaysUp`.
* `AgentServiceProofs`, the graph. `PhaseInv` says which nodes can run in which super-step and
  that a node about to call has a call left in its loop; with `TypeOK` it is
  inductive (`GraphInvariant`, `GraphTypeCorrect`). `BudgetBounded`: a call in
  flight reserves `MaxCost`; a check needs a spend below the ceiling and at most
  one other call in flight, and a charge is paid from its reserve. `FrameInv` (a
  synthesis that returned has sent its answer last) gives `StreamsExplain`;
  `ReducersKeep` and `EvidenceReaches` follow because only `FanIn` writes the
  channels of evidence, and no leg runs beside synthesis. Assumed: the ceiling is
  positive (the constructor refuses any other) and no completion costs more than
  `MaxCost` (`max_tokens` and the context bound it).
* `LlmSpendProofs`. `SentInv` says that an attempt is sent once (those a call has not
  reached are unsent), `StageInv` that it is billed and logged in that order, only
  if its model has a price, and that a line holds the price of the counts its usage block
  carried, which are those of the charge or 0: `SpendInvariant`. From it
  `EveryChargeAccounted`, `LinesWithinHalf` (each line is within half a unit of what was
  reported, for all prices, and what was reported is not more than the charge),
  `SumWithinHalf` (so the log differs from the invoice by at most half a unit per line
  over the lines whose usage was reported in full, and over all lines claims at most half
  a unit per line too much: `FinitelyLogged` says that only finitely many attempts have a
  line, and `SumWithin` adds them up) and, because a response that names a correlation id
  must pass the check before it becomes an estimate, `EstimateKeepsTrace`. Assumed: a call is not both an estimate and a chat, and no
  cost line equals `None`.
* `McpServerProofs`. The invariant says that a bound identity is never replaced, that
  a call that runs has an empty error slot and a session with an identity, and that
  what was done was done for a call whose slot is still taken: `McpInvariant`, hence
  `CallersGetTheirs` and `TenancyHeld`. `QueueInv` says that a call is in the queue
  at most once, only while its caller waits and never while a thread has it, so a
  withdrawal leaves nothing of it: `GivenUpIsNotBegun` (no step starts the work of
  a call that was given up while it waited). Assumed: no identity and no call
  equals `None`.
* `RagCorpusProofs`. `CorpusText` says that every text in the rows of an ingest and
  in `doc_chunks` is one its tenant has had in the file, `ServedText` the same of
  what requests hold and what the cache stores, through the two snapshots a request
  reads and the fallbacks in between: `TenantsToldOwnText`. The chunks of a file have
  different ordinals (`OrdinalsApart`), hence the rows a run offers have different keys
  and none overwrites another: `GateInv`, and `GateStoresAll`. `EpochInv` says of
  every answer, being built or cached, that no commit has come since its corpus was
  read, or its tenant's epoch has moved on since, or the bump for that commit is
  still to come: `BumpsSeparateAnswers`. Assumed of the data: a file is a finite list of
  documents, a text is cut into finitely many pieces, and every tenant of the
  corpus is among those a run bumps.
* `RetrievalProofs`. The algorithms first, for lists of any length. `SortedIs`: the sort
  is a permutation, descending, and stable. `UnitsDivide`: each damped rank divides
  `Unit`, so a share is exactly the reciprocal, and two shares of the last rank exceed
  one of the first (`TwoSharesWin`), which with the fused list's order gives
  `BothFirst`. `PicksIs`: MMR's picks are distinct and each is the best of what its
  predecessors left, hence `NotDominated`. The invariant follows a request from stage to
  stage: what was retrieved is part of the indexes' rows, the fused list comes from it,
  the picks from the fused list, the scores are about the picks, the context is what they
  or the fallback say (`RequestInv`). `CountInv` relates the counters to the threads
  between two increments (`Awaiting`, `Flagged`). Results: `FusionPrefersBoth`,
  `MmrPassesOverNoBetter`, `ContextIsHonest`, `AlertIsARatio`. Assumed: a list is at most
  `K_CONST + 1` long (50 against 60 in the code; for longer lists the first statement is
  false), the dense list has a chunk once (its query names the model, and the table is
  unique in document, position and model), and the weight of MMR is between 0 and 1.
* `QualityGatesProofs`. `MatchIsSubsequence`: the walk of `trajectory_match` accepts
  exactly the paths with the golden nodes in their order. `RoundNear`: Python's round is
  within half of its divisor; with the rank (`RankHigh`) it gives `PercentileHolds`: at most
  five in a hundred samples are above the p95 that `replay` reports by more than half of its
  last digit, and some sample is no further from it. The limits of `GreenMeansGood` on a
  replay carry the same half.
  `TypeInv` says what a job holds at each of its labels. With it a green verdict is traced
  back to what was measured: `GreenIsGood`. `CacheInv` says that no entry is of an epoch
  to come and that those of the current one are the running column's or the service's:
  `ColumnsStayApart`. Assumed: there is a golden sequence, two columns at least, and no
  empty list of timings (`_run` makes a tool's list when it adds a sample to it).

Facts about what a recursive function computes are proved by induction on a set: the set
of the numbers for which the fact holds contains 0 and the successor of each of its
members, so it is `Nat` (`NatSetInduction`, from the well-foundedness of `<`). A
recursive function is a `CHOOSE` of a function that satisfies its equation, so the same
induction first shows that there is one. Sums over a set go by the size of its subsets.
For this, sorting and filtering are definitions of the models and not the library's
`SortSeq` and `SelectSeq`, of which the prover knows nothing.

Only model-checked: the liveness properties `CommittedIsDelivered`,
`CallersAreReleased`, `ReadyInTheEnd`, `EveryRequestEnds`, `EveryCallAnswered`,
`EveryCallEnds`, `StaleAgesOut` and `EveryJobEnds`; liveness under fairness and
`ENABLED` are out of the prover's reach. Every other property of every passing run is a
theorem.

## Not modelled

`PROJECT.json` lists every part with its reason. Left out for good: deployment
descriptors, load tests and shell scripts; security configuration, correlation ids
and tracing (declarative wiring); the GraphQL and MCP facades of the Java service
(delegations); wire types, settings and command lines; wording, formatting and
logging everywhere. In the agent graph: the recursion limit (the graph has no
cycle, three super-steps at most), `messages` and `visited_nodes` (no node reads
them), and two requests of one thread at the same time. In the MCP server: the
SDK's own protocol and the resources. In the LLM path: the services behind
`/explanation`, which goes through `CostMiddleware.observe` as the proxy does but is no
client of it (`LiabilityExplanationService.java:116`), and `/summary`, which calls the
provider without the middleware. In the gates: how a score or a trace comes about.

## Plan

1. The 60 s cache of the read path in front of Mongo and Postgres, added to
   `TaxpayerPipeline`. Stale reads are bounded by the expiry.
2. `InflightGauge` and worker shutdown; the embeddings ingest.
3. Bracket resolvers and the Lambda lookup as functions, checked over bounded
   inputs against the published definition.
4. `taxcalc-web`: reducer, chat store, responses that arrive after the page moved on.
