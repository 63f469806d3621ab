------------------------- MODULE TaxpayerPipeline -------------------------
(***************************************************************************)
(* The write path of the tax-liability service and its asynchronous half:  *)
(*                                                                         *)
(*   POST /taxpayers  ->  TaxLiabilityService.computeLiability             *)
(*     (Postgres row + outbox row in one transaction, Mongo written inside *)
(*      that transaction's scope, before it commits)                       *)
(*   OutboxPublisher.publishPending  ->  Kafka topic taxpayers.events      *)
(*   TaxpayerUpdatedListener.onEvent ->  Mongo read model, or the DLT.     *)
(*                                                                         *)
(* One request writes one aggregate once, so a request also names the      *)
(* version of the taxpayer it writes, its outbox row and its event.        *)
(***************************************************************************)
EXTENDS Naturals, Sequences, FiniteSets

CONSTANTS
  Requests,       \* POST requests; each writes one taxpayer once
  Aggregates,     \* taxpayer ids
  AggregateOf,    \* [Requests -> Aggregates]
  Tenants,        \* owning tenants a verified JWT can carry
  TenantOf,       \* [Requests -> Tenants]
  DefaultTenant,  \* TaxpayerReadModel.DEFAULT_TENANT_ID
  Publishers,     \* replicas that run the scheduled OutboxPublisher
  Consumers,      \* worker replicas in the read-model consumer group
  BatchSize,      \* OutboxPublisher.BATCH_SIZE
  MaxPoll,        \* max.poll.records of the listener's consumer
  MaxRetries,     \* FixedBackOff's attempts after the first delivery
  MaxFaults,      \* bound on the infrastructure faults of a behaviour
  None            \* no request, no document

ASSUME PipelineAssumption ==
  /\ AggregateOf \in [Requests -> Aggregates]
  /\ TenantOf \in [Requests -> Tenants]
  /\ BatchSize \in Nat \ {0}
  /\ MaxPoll \in Nat \ {0}
  /\ MaxRetries \in Nat
  /\ MaxFaults \in Nat
  /\ None \notin Requests
  /\ Consumers # {}

VARIABLES
  (* Postgres and the requests that write it *)
  reqPc,       \* where each request's transaction stands
  existed,     \* what JPA's merge SELECT saw: the row is there already
  prior,       \* history: requests of the same taxpayer committed before it began
  occurredAt,  \* the outbox row's stamp, what sweeps sort by
  clock,       \* the time stamps are taken from
  taxpayer,    \* committed row of each taxpayer, as the request that wrote it
  outbox,      \* committed outbox row of each request
  (* OutboxPublisher, one transaction per sweep *)
  batch,       \* rows locked and still to be sent
  locked,      \* rows the sweep's transaction holds FOR UPDATE
  marked,      \* rows markPublished was called on, not yet committed
  sending,     \* the row between its send() and the end of get(5s), or None
  producer,    \* records in the Kafka producer's accumulator
  (* Kafka *)
  log,         \* the partition of taxpayers.events
  offset,      \* committed offset of the group: records already acknowledged
  dlt,         \* offsets republished to taxpayers.events.DLT
  (* TaxpayerUpdatedListener *)
  owner,       \* the consumer the partition is assigned to
  conPc,       \* where each consumer's current delivery stands
  pos,         \* the record the current delivery is about (its index in log)
  upto,        \* the last record of the poll it belongs to
  loaded,      \* the document onEvent read or built
  attempts,    \* failed deliveries of the current record
  (* MongoDB *)
  mongo,       \* read-model document of each taxpayer
  (* history *)
  applied,     \* indices of log whose event has been saved to Mongo
  lateSaves,   \* those of them saved by a consumer that had lost the partition
  passedOver,  \* rows a later write of their taxpayer may overtake (see Sweep)
  faults       \* infrastructure faults so far

writerVars   == <<reqPc, existed, prior, occurredAt, clock, taxpayer>>
sweepVars    == <<batch, locked, marked, sending, passedOver>>
deliveryVars == <<owner, conPc, pos, upto, loaded, attempts>>
projectionVars == <<mongo, applied, lateSaves>>
vars == <<writerVars, outbox, sweepVars, producer, log, offset, dlt,
          deliveryVars, projectionVars, faults>>

Documents == [src : Requests, tenant : Tenants \cup {DefaultTenant}]

NoDoc == [src |-> None, tenant |-> DefaultTenant]

WriterType ==
  /\ reqPc \in [Requests -> {"new", "saved", "projected", "committed", "failed"}]
  /\ existed \in [Requests -> BOOLEAN]
  /\ prior \in [Requests -> SUBSET Requests]
  /\ occurredAt \in [Requests -> Nat]
  /\ clock \in Nat
  /\ taxpayer \in [Aggregates -> Requests \cup {None}]
  /\ outbox \in [Requests -> {"absent", "pending", "published"}]

SweepType ==
  /\ batch \in [Publishers -> SUBSET Requests]
  /\ locked \in [Publishers -> SUBSET Requests]
  /\ marked \in [Publishers -> SUBSET Requests]
  /\ sending \in [Publishers -> Requests \cup {None}]
  /\ producer \in [Publishers -> Seq(Requests)]
  /\ passedOver \in SUBSET Requests

TopicType ==
  /\ log \in Seq(Requests)
  /\ offset \in Nat
  /\ dlt \in SUBSET Nat
  /\ applied \in SUBSET Nat
  /\ lateSaves \in SUBSET Nat
  /\ faults \in Nat

ListenerType ==
  /\ owner \in Consumers
  /\ conPc \in [Consumers -> {"idle", "polled", "loaded", "saved"}]
  /\ pos \in [Consumers -> Nat]
  /\ upto \in [Consumers -> Nat]
  /\ attempts \in [Consumers -> Nat]

DocumentType ==
  /\ loaded \in [Consumers -> Documents \cup {NoDoc}]
  /\ mongo \in [Aggregates -> Documents \cup {NoDoc}]

TypeOK == WriterType /\ SweepType /\ TopicType /\ ListenerType /\ DocumentType

Init ==
  /\ reqPc = [r \in Requests |-> "new"]
  /\ existed = [r \in Requests |-> FALSE]
  /\ prior = [r \in Requests |-> {}]
  /\ occurredAt = [r \in Requests |-> 0]
  /\ clock = 0
  /\ taxpayer = [a \in Aggregates |-> None]
  /\ outbox = [r \in Requests |-> "absent"]
  /\ batch = [p \in Publishers |-> {}]
  /\ locked = [p \in Publishers |-> {}]
  /\ marked = [p \in Publishers |-> {}]
  /\ sending = [p \in Publishers |-> None]
  /\ producer = [p \in Publishers |-> <<>>]
  /\ log = <<>>
  /\ offset = 0
  /\ dlt = {}
  /\ owner \in Consumers
  /\ conPc = [c \in Consumers |-> "idle"]
  /\ pos = [c \in Consumers |-> 0]
  /\ upto = [c \in Consumers |-> 0]
  /\ loaded = [c \in Consumers |-> NoDoc]
  /\ attempts = [c \in Consumers |-> 0]
  /\ mongo = [a \in Aggregates |-> NoDoc]
  /\ applied = {}
  /\ lateSaves = {}
  /\ passedOver = {}
  /\ faults = 0

-----------------------------------------------------------------------------
(* computeLiability                                                          *)

\* Mutant of SaveEntities: the outbox row is inserted in a transaction of its own.
SaveEntities_OwnTransaction(r) ==
  /\ reqPc[r] = "new"
  /\ reqPc' = [reqPc EXCEPT ![r] = "saved"]
  /\ outbox' = [outbox EXCEPT ![r] = "pending"]
  /\ clock' = clock + 1
  /\ occurredAt' = [occurredAt EXCEPT ![r] = clock + 1]
  /\ UNCHANGED <<existed, prior, taxpayer, sweepVars, producer, log, offset, dlt,
                 deliveryVars, projectionVars, faults>>

\* Up to the two repository.save calls: the bracket resolved, merge has read
\* whether the taxpayer exists, and the outbox row has its occurredAt. Nothing
\* is written yet, Hibernate flushes at commit.
SaveEntities(r) ==
  /\ reqPc[r] = "new"
  /\ reqPc' = [reqPc EXCEPT ![r] = "saved"]
  /\ existed' = [existed EXCEPT ![r] = taxpayer[AggregateOf[r]] # None]
  /\ prior' = [prior EXCEPT ![r] = {q \in Requests : /\ AggregateOf[q] = AggregateOf[r]
                                                      /\ reqPc[q] = "committed"}]
  /\ clock' = clock + 1
  /\ occurredAt' = [occurredAt EXCEPT ![r] = clock + 1]
  /\ UNCHANGED <<taxpayer, outbox, sweepVars, producer, log, offset, dlt,
                 deliveryVars, projectionVars, faults>>

\* No bracket for the amount, a failing strategy, a failing Mongo write, a
\* dead pod: the transaction rolls back. What Mongo has already got stays.
WriteFails(r) ==
  /\ reqPc[r] \in {"new", "saved", "projected"}
  /\ reqPc' = [reqPc EXCEPT ![r] = "failed"]
  /\ UNCHANGED <<existed, prior, occurredAt, clock, taxpayer, outbox, sweepVars, producer,
                 log, offset, dlt, deliveryVars, projectionVars, faults>>

\* readModelRepository.save(toReadModel(saved, tenantId)): the whole document
\* is replaced, outside Postgres' transaction and before it commits.
WriteThrough(r) ==
  /\ reqPc[r] = "saved"
  /\ reqPc' = [reqPc EXCEPT ![r] = "projected"]
  /\ mongo' = [mongo EXCEPT ![AggregateOf[r]] = [src |-> r, tenant |-> TenantOf[r]]]
  /\ UNCHANGED <<existed, prior, occurredAt, clock, taxpayer, outbox, sweepVars, producer,
                 log, offset, dlt, deliveryVars, applied, lateSaves, faults>>

\* Mutant of Commit: Postgres may commit before Mongo is written.
Commit_BeforeWriteThrough(r) ==
  /\ reqPc[r] \in {"saved", "projected"}
  /\ reqPc' = [reqPc EXCEPT ![r] = "committed"]
  /\ taxpayer' = [taxpayer EXCEPT ![AggregateOf[r]] = r]
  /\ outbox' = [outbox EXCEPT ![r] = "pending"]
  /\ UNCHANGED <<existed, prior, occurredAt, clock, sweepVars, producer, log,
                 offset, dlt, deliveryVars, projectionVars, faults>>

\* Flush and commit: taxpayer row and outbox row together. An INSERT of a row
\* that another request inserted meanwhile is a duplicate key: it rolls back.
Commit(r) ==
  /\ reqPc[r] = "projected"
  /\ IF existed[r] \/ taxpayer[AggregateOf[r]] = None
     THEN /\ reqPc' = [reqPc EXCEPT ![r] = "committed"]
          /\ taxpayer' = [taxpayer EXCEPT ![AggregateOf[r]] = r]
          /\ outbox' = [outbox EXCEPT ![r] = "pending"]
     ELSE /\ reqPc' = [reqPc EXCEPT ![r] = "failed"]
          /\ UNCHANGED <<taxpayer, outbox>>
  /\ UNCHANGED <<existed, prior, occurredAt, clock, sweepVars, producer, log, offset, dlt,
                 deliveryVars, projectionVars, faults>>

-----------------------------------------------------------------------------
(* OutboxPublisher                                                           *)

Fault ==
  /\ faults < MaxFaults
  /\ faults' = faults + 1

Idle(p) == locked[p] = {}

\* Rows findUnpublishedForUpdate may return: unpublished, and not locked by
\* another sweep (SKIP LOCKED).
Lockable == {r \in Requests : /\ outbox[r] = "pending"
                              /\ \A q \in Publishers : r \notin locked[q]}

\* Mutant of Page: ORDER BY occurred_at DESC.
Page_NewestFirst(S) ==
  {r \in S : Cardinality({q \in S : occurredAt[q] > occurredAt[r]}) < 1}

\* ORDER BY occurred_at, and its first page of BATCH_SIZE rows.
Page(S) ==
  {r \in S : Cardinality({q \in S : occurredAt[q] < occurredAt[r]}) < BatchSize}

\* History: unpublished rows another sweep holds while the row of a write begun
\* after their commit is in this page.
Skipped == {r \in Requests \ Lockable : /\ outbox[r] = "pending"
                                        /\ \E q \in Page(Lockable) : r \in prior[q]}

\* The scheduled method starts its transaction and locks its batch.
Sweep(p) ==
  /\ Idle(p)
  /\ Page(Lockable) # {}
  /\ batch' = [batch EXCEPT ![p] = Page(Lockable)]
  /\ locked' = [locked EXCEPT ![p] = Page(Lockable)]
  /\ passedOver' = passedOver \cup Skipped
  /\ UNCHANGED <<writerVars, outbox, marked, sending, producer, log, offset,
                 dlt, deliveryVars, projectionVars, faults>>

\* kafkaTemplate.send of the oldest row left: the record enters the producer's
\* accumulator and the sweep blocks in get(5s).
Send(p) ==
  /\ sending[p] = None
  /\ \E r \in batch[p] :
       /\ \A q \in batch[p] : occurredAt[r] <= occurredAt[q]
       /\ batch' = [batch EXCEPT ![p] = @ \ {r}]
       /\ sending' = [sending EXCEPT ![p] = r]
       /\ producer' = [producer EXCEPT ![p] = Append(@, r)]
  /\ UNCHANGED <<writerVars, outbox, locked, marked, passedOver, log, offset, dlt,
                 deliveryVars, projectionVars, faults>>

\* The accumulator is a queue: the record get() waits for is its newest one, the
\* older ones were given up by an earlier get() and are still being delivered.
AwaitedIsNext(p) == sending[p] # None /\ Len(producer[p]) = 1

\* The broker appends the oldest record (acks=all, idempotent: in order, once).
\* If the sweep still waits for it, get() returns and the row is marked.
BrokerAppends(p) ==
  /\ producer[p] # <<>>
  /\ log' = Append(log, Head(producer[p]))
  /\ producer' = [producer EXCEPT ![p] = Tail(@)]
  /\ IF AwaitedIsNext(p)
     THEN /\ marked' = [marked EXCEPT ![p] = @ \cup {sending[p]}]
          /\ sending' = [sending EXCEPT ![p] = None]
     ELSE UNCHANGED <<marked, sending>>
  /\ UNCHANGED <<writerVars, outbox, batch, locked, passedOver, offset, dlt,
                 deliveryVars, projectionVars, faults>>

\* send() throws or the producer gives the record up: get() fails if it still
\* waits, the row is left unmarked and the sweep goes on with the next one.
SendFails(p) ==
  /\ producer[p] # <<>>
  /\ Fault
  /\ producer' = [producer EXCEPT ![p] = Tail(@)]
  /\ IF AwaitedIsNext(p)
     THEN /\ sending' = [sending EXCEPT ![p] = None]
          /\ passedOver' = passedOver \cup {sending[p]}
     ELSE UNCHANGED <<sending, passedOver>>
  /\ UNCHANGED <<writerVars, outbox, batch, locked, marked, log, offset, dlt,
                 deliveryVars, projectionVars>>

\* Mutant of SendTimesOut: the row is marked although get() timed out.
SendTimesOut_Marks(p) ==
  /\ sending[p] # None
  /\ Fault
  /\ marked' = [marked EXCEPT ![p] = @ \cup {sending[p]}]
  /\ sending' = [sending EXCEPT ![p] = None]
  /\ UNCHANGED <<writerVars, outbox, batch, locked, passedOver, producer, log, offset,
                 dlt, deliveryVars, projectionVars>>

\* get(5s) times out. The record stays in the accumulator: it may still reach
\* the broker, long after the row was left for the next sweep.
SendTimesOut(p) ==
  /\ sending[p] # None
  /\ Fault
  /\ sending' = [sending EXCEPT ![p] = None]
  /\ passedOver' = passedOver \cup {sending[p]}
  /\ UNCHANGED <<writerVars, outbox, batch, locked, marked, producer, log,
                 offset, dlt, deliveryVars, projectionVars>>

\* The loop over the batch has ended.
SweepDone(p) == ~Idle(p) /\ batch[p] = {} /\ sending[p] = None

\* Mutant of CommitSweep: the marks are made on detached rows and never flushed.
CommitSweep_MarksLost(p) ==
  /\ SweepDone(p)
  /\ locked' = [locked EXCEPT ![p] = {}]
  /\ marked' = [marked EXCEPT ![p] = {}]
  /\ UNCHANGED <<writerVars, outbox, batch, sending, passedOver, producer, log, offset,
                 dlt, deliveryVars, projectionVars, faults>>

\* The transaction commits the marks and frees the rows.
CommitSweep(p) ==
  /\ SweepDone(p)
  /\ outbox' = [r \in Requests |-> IF r \in marked[p] THEN "published" ELSE outbox[r]]
  /\ locked' = [locked EXCEPT ![p] = {}]
  /\ marked' = [marked EXCEPT ![p] = {}]
  /\ UNCHANGED <<writerVars, batch, sending, passedOver, producer, log, offset, dlt,
                 deliveryVars, projectionVars, faults>>

\* The transaction rolls back (its commit fails, or the pod dies, in which case
\* the accumulator dies with it): every mark of the sweep is lost.
SweepRollsBack(p) ==
  /\ ~Idle(p)
  /\ Fault
  /\ batch' = [batch EXCEPT ![p] = {}]
  /\ locked' = [locked EXCEPT ![p] = {}]
  /\ marked' = [marked EXCEPT ![p] = {}]
  /\ sending' = [sending EXCEPT ![p] = None]
  /\ \/ SweepDone(p) /\ UNCHANGED producer
     \/ producer' = [producer EXCEPT ![p] = <<>>]
  /\ UNCHANGED <<writerVars, outbox, passedOver, log, offset, dlt, deliveryVars,
                 projectionVars>>

-----------------------------------------------------------------------------
(* TaxpayerUpdatedListener and its container                                 *)

Event(c) == log[pos[c]]

\* The poll is over: nothing is left of it but the offset.
Drops(c) ==
  /\ conPc' = [conPc EXCEPT ![c] = "idle"]
  /\ pos' = [pos EXCEPT ![c] = 0]
  /\ upto' = [upto EXCEPT ![c] = 0]
  /\ loaded' = [loaded EXCEPT ![c] = NoDoc]

\* Mutant of Poll: enable-auto-commit, the offset is committed when polled.
Poll_AutoCommit(c) ==
  /\ owner = c
  /\ conPc[c] = "idle"
  /\ \E n \in offset + 1 .. Len(log) :
       /\ n <= offset + MaxPoll
       /\ upto' = [upto EXCEPT ![c] = n]
       /\ offset' = n
  /\ pos' = [pos EXCEPT ![c] = offset + 1]
  /\ conPc' = [conPc EXCEPT ![c] = "polled"]
  /\ UNCHANGED <<writerVars, outbox, sweepVars, producer, log, dlt, owner,
                 loaded, attempts, projectionVars, faults>>

\* The container fetches some of the records that follow the committed offset.
Poll(c) ==
  /\ owner = c
  /\ conPc[c] = "idle"
  /\ \E n \in offset + 1 .. Len(log) :
       /\ n <= offset + MaxPoll
       /\ upto' = [upto EXCEPT ![c] = n]
  /\ pos' = [pos EXCEPT ![c] = offset + 1]
  /\ conPc' = [conPc EXCEPT ![c] = "polled"]
  /\ UNCHANGED <<writerVars, outbox, sweepVars, producer, log, offset, dlt, owner,
                 loaded, attempts, projectionVars, faults>>

\* onEvent's findById, orElseGet a new document, which carries the default tenant.
Load(c) ==
  /\ conPc[c] = "polled"
  /\ LET d == mongo[AggregateOf[Event(c)]]
     IN  loaded' = [loaded EXCEPT ![c] =
                      IF d # NoDoc THEN d ELSE [src |-> Event(c), tenant |-> DefaultTenant]]
  /\ conPc' = [conPc EXCEPT ![c] = "loaded"]
  /\ UNCHANGED <<writerVars, outbox, sweepVars, producer, log, offset, dlt,
                 owner, pos, upto, attempts, projectionVars, faults>>

\* Mutant of applyEvent: the event is ignored.
applyEvent_Ignored(document, r) == document

\* applyEvent overwrites the scalar fields and keeps the tenant.
applyEvent(document, r) == [document EXCEPT !.src = r]

\* The save replaces the whole document with the one loaded before.
Save(c) ==
  /\ conPc[c] = "loaded"
  /\ mongo' = [mongo EXCEPT ![AggregateOf[Event(c)]] = applyEvent(loaded[c], Event(c))]
  /\ applied' = applied \cup {pos[c]}
  /\ lateSaves' = IF owner = c THEN lateSaves ELSE lateSaves \cup {pos[c]}
  /\ conPc' = [conPc EXCEPT ![c] = "saved"]
  /\ loaded' = [loaded EXCEPT ![c] = NoDoc]
  /\ UNCHANGED <<writerVars, outbox, sweepVars, producer, log, offset, dlt,
                 owner, pos, upto, attempts, faults>>

\* onEvent has returned: the listener is called with the next record of the poll.
NextRecord(c) ==
  /\ conPc[c] = "saved"
  /\ pos[c] < upto[c]
  /\ pos' = [pos EXCEPT ![c] = @ + 1]
  /\ conPc' = [conPc EXCEPT ![c] = "polled"]
  /\ attempts' = [attempts EXCEPT ![c] = 0]
  /\ UNCHANGED <<writerVars, outbox, sweepVars, producer, log, offset, dlt,
                 owner, upto, loaded, projectionVars, faults>>

\* The offset a consumer commits; one that lost the partition is refused.
CommittedBy(c, n) == IF owner = c THEN n ELSE offset

\* Mutant of Acknowledge: AckMode MANUAL with a listener that takes no Acknowledgment.
Acknowledge_Never(c) ==
  /\ conPc[c] = "saved"
  /\ pos[c] = upto[c]
  /\ Drops(c)
  /\ attempts' = [attempts EXCEPT ![c] = 0]
  /\ UNCHANGED <<writerVars, outbox, sweepVars, producer, log, offset, dlt,
                 owner, projectionVars, faults>>

\* AckMode BATCH, the default of the factory kafkaListenerContainerFactory
\* builds: the offset is committed once every record of the poll is handled.
Acknowledge(c) ==
  /\ conPc[c] = "saved"
  /\ pos[c] = upto[c]
  /\ offset' = CommittedBy(c, pos[c])
  /\ Drops(c)
  /\ attempts' = [attempts EXCEPT ![c] = 0]
  /\ UNCHANGED <<writerVars, outbox, sweepVars, producer, log, dlt, owner,
                 projectionVars, faults>>

\* onEvent throws (Mongo is unreachable, or the answer to a save is lost). The
\* container commits the records before this one and DefaultErrorHandler drops
\* the rest of the poll, to be fetched again.
DeliveryThrows(c) ==
  /\ conPc[c] \in {"polled", "loaded", "saved"}
  /\ Fault
  /\ offset' = CommittedBy(c, pos[c] - 1)
  /\ UNCHANGED <<writerVars, outbox, sweepVars, producer, log, owner, projectionVars>>

\* The record itself is delivered again too, up to MaxRetries times.
Redeliver(c) ==
  /\ DeliveryThrows(c)
  /\ attempts[c] < MaxRetries
  /\ attempts' = [attempts EXCEPT ![c] = @ + 1]
  /\ Drops(c)
  /\ UNCHANGED dlt

\* Out of attempts: DeadLetterPublishingRecoverer republishes it, and it counts
\* as handled; if that fails too the record is fetched again, its count afresh.
DeadLetter(c) ==
  /\ DeliveryThrows(c)
  /\ attempts[c] = MaxRetries
  /\ attempts' = [attempts EXCEPT ![c] = 0]
  /\ \/ /\ dlt' = dlt \cup {pos[c]}
        /\ upto' = [upto EXCEPT ![c] = pos[c]]
        /\ conPc' = [conPc EXCEPT ![c] = "saved"]
        /\ loaded' = [loaded EXCEPT ![c] = NoDoc]
        /\ UNCHANGED pos
     \/ Drops(c) /\ UNCHANGED dlt

\* A consumer crashes or overstays max.poll.interval: the partition goes to
\* another one, from the committed offset, whatever of the poll was handled. A
\* slow one goes on with its poll meanwhile.
Rebalance(c) ==
  /\ c # owner
  /\ conPc[c] = "idle"
  /\ Fault
  /\ owner' = c
  /\ Drops(owner) \/ UNCHANGED <<conPc, pos, upto, loaded>>
  /\ attempts' = [attempts EXCEPT ![owner] = 0, ![c] = 0]
  /\ UNCHANGED <<writerVars, outbox, sweepVars, producer, log, offset, dlt, projectionVars>>

-----------------------------------------------------------------------------
Write(r) == SaveEntities(r) \/ WriteFails(r) \/ WriteThrough(r) \/ Commit(r)

Publish(p) ==
  \/ Sweep(p) \/ Send(p) \/ BrokerAppends(p) \/ SendFails(p) \/ SendTimesOut(p)
  \/ CommitSweep(p) \/ SweepRollsBack(p)

Consume(c) ==
  \/ Poll(c) \/ Load(c) \/ Save(c) \/ NextRecord(c) \/ Acknowledge(c)
  \/ Redeliver(c) \/ DeadLetter(c) \/ Rebalance(c)

\* Every request has finished, every row is published and every record acknowledged.
Quiescent ==
  /\ \A r \in Requests : reqPc[r] \in {"committed", "failed"} /\ outbox[r] # "pending"
  /\ \A p \in Publishers : Idle(p) /\ producer[p] = <<>>
  /\ offset = Len(log)
  /\ \A c \in Consumers : conPc[c] = "idle"

\* The service runs on with nothing to do.
Rest == Quiescent /\ UNCHANGED vars

Next ==
  \/ \E r \in Requests : Write(r)
  \/ \E p \in Publishers : Publish(p)
  \/ \E c \in Consumers : Consume(c)
  \/ Rest

Spec == Init /\ [][Next]_vars

\* Each thread is scheduled: the sweep runs every second, the producer's sender
\* delivers what it holds, the container polls for ever. Requests, faults and
\* rebalances are owed no progress.
Fairness ==
  /\ \A p \in Publishers : /\ WF_vars(Sweep(p) \/ Send(p) \/ CommitSweep(p))
                           /\ WF_vars(BrokerAppends(p))
  /\ \A c \in Consumers :
       WF_vars(Poll(c) \/ Load(c) \/ Save(c) \/ NextRecord(c) \/ Acknowledge(c))

FairSpec == Spec /\ Fairness

-----------------------------------------------------------------------------
(* Safety                                                                    *)

\* Two sweeps never hold the same outbox row (findUnpublishedForUpdate's
\* FOR UPDATE SKIP LOCKED splits the unpublished rows between them).
RowsLockedOnce ==
  \A p, q \in Publishers : p # q => locked[p] \cap locked[q] = {}

\* A row whose published_at is set has reached Kafka: whatever sends fail, time
\* out or are rolled back, no event is silently dropped (OutboxPublisher).
PublishedIsInLog ==
  \A r \in Requests : outbox[r] = "published" => \E i \in DOMAIN log : log[i] = r

\* Only what Postgres committed is ever announced: neither the topic nor a
\* producer's accumulator holds the event of a request that rolled back.
OnlyCommittedEvents ==
  /\ \A i \in DOMAIN log : reqPc[log[i]] = "committed"
  /\ \A p \in Publishers : \A i \in DOMAIN producer[p] :
       reqPc[producer[p][i]] = "committed"

\* At-least-once is exactly-once while nothing fails: row locks and the
\* commit of the marks let no second sweep send a row again.
NoDuplicateWithoutFault ==
  faults = 0 => \A i, j \in DOMAIN log : log[i] = log[j] => i = j

\* An acknowledged record was saved to Mongo or republished to the DLT, across
\* consumer crashes, rebalances and retries (onEvent, DefaultErrorHandler).
AcknowledgedIsHandled ==
  \A i \in 1 .. offset : i \in applied \cup dlt

\* The document's tenant is one that a request for that taxpayer carried:
\* re-projecting events never downgrades it to the default, because Mongo is
\* written before the event can exist (computeLiability, onEvent).
TenantKept ==
  \A a \in Aggregates : mongo[a] # NoDoc =>
    \E r \in Requests : AggregateOf[r] = a /\ mongo[a].tenant = TenantOf[r]

\* Events of one taxpayer whose writes did not overlap reach the topic in the
\* order of the writes, whatever else fails, unless the older row was passed
\* over: its own send failed, or another sweep held it while a sweep took the
\* newer one (publishPending's catch, SKIP LOCKED).
OrderUnlessPassedOver ==
  \A j \in DOMAIN log : \A r \in prior[log[j]] :
    r \in passedOver \/ \E i \in 1 .. j - 1 : log[i] = r

\* Refuted: per-aggregate ordering is preserved (OutboxPublisher's class
\* comment). Two replicas sweeping at once break it without any fault.
AggregateOrderPreserved ==
  \A j \in DOMAIN log : \A r \in prior[log[j]] :
    \E i \in 1 .. j - 1 : log[i] = r

\* No two requests for the taxpayer overlapped and none failed.
WrittenSerially(a) ==
  LET R == {r \in Requests : AggregateOf[r] = a}
  IN  /\ \A r \in R : reqPc[r] = "committed"
      /\ \A r, q \in R : r # q => r \in prior[q] \/ q \in prior[r]

\* Refuted: once everything has been published and consumed, Mongo holds the version
\* Postgres holds (applyEvent's "at-least-once Kafka redelivery is safe").
ReadModelConverges ==
  Quiescent /\ dlt = {} =>
    \A a \in Aggregates : WrittenSerially(a) => mongo[a].src = taxpayer[a]

\* Refuted: at rest the read model shows only what Postgres committed. The
\* write-through precedes the commit and is not undone by a rollback.
ReadModelIsCommitted ==
  Quiescent => \A a \in Aggregates : mongo[a] # NoDoc => reqPc[mongo[a].src] = "committed"

\* None of the taxpayer's rows was passed over, none of its events dead-lettered
\* or saved by a consumer that had lost the partition.
HandledInOrder(a) ==
  /\ \A r \in passedOver : AggregateOf[r] # a
  /\ \A i \in dlt \cup lateSaves : AggregateOf[log[i]] # a

\* It does whatever crashes, rollbacks, retries and rebalances there were, of a
\* taxpayer whose events were handled in order: a poll handled twice ends with
\* its last event again (publishPending, onEvent).
ConvergesUnlessPassedOver ==
  Quiescent =>
    \A a \in Aggregates : WrittenSerially(a) /\ HandledInOrder(a) => mongo[a].src = taxpayer[a]

\* The group's offset only moves forward: the late acknowledgement of a
\* consumer that lost its partition cannot rewind it.
OffsetNeverGoesBack == [][offset' >= offset]_vars

-----------------------------------------------------------------------------
(* Liveness                                                                  *)

\* Every committed write is in the end published and its event acknowledged by
\* the read model's group (saved or dead-lettered): there is always a time to
\* come when none that has committed so far is left behind.
CommittedIsDelivered ==
  []<>(\A r \in Requests :
         reqPc[r] = "committed" =>
           outbox[r] = "published" /\ \E i \in 1 .. offset : log[i] = r)

=============================================================================
