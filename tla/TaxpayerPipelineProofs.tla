---------------------- MODULE TaxpayerPipelineProofs ----------------------
(***************************************************************************)
(* Proofs about TaxpayerPipeline for any number of requests, taxpayers,    *)
(* publishers, consumers, retries and faults.                              *)
(***************************************************************************)
EXTENDS TaxpayerPipeline, FiniteSetTheorems, TLAPS

-----------------------------------------------------------------------------
(* Type correctness                                                          *)

\* A queue that is not empty has a head of its element type and a tail.
LEMMA QueueTypes ==
  ASSUME NEW S, NEW q \in Seq(S), q # <<>>
  PROVE  /\ Head(q) \in S
         /\ Tail(q) \in Seq(S)
         /\ Len(q) \in Nat \ {0}
         /\ q[Len(q)] \in S
         /\ Len(Tail(q)) = Len(q) - 1
         /\ \A i \in 1 .. Len(q) - 1 : Tail(q)[i] = q[i + 1]
         /\ Head(q) = q[1]
  OBVIOUS

\* Serving a queue of two or more from the front keeps its newest element.
LEMMA LastOfTail ==
  ASSUME NEW S, NEW q \in Seq(S), q # <<>>, Len(q) # 1
  PROVE  Tail(q) # <<>> /\ Tail(q)[Len(Tail(q))] = q[Len(q)]
<1>1. PICK n \in Nat : n = Len(q)
  OBVIOUS
<1>2. n # 0 /\ n # 1
  BY <1>1
<1>3. n > 1 /\ n - 1 \in 1 .. n - 1
  BY <1>2
<1>4. Tail(q) \in Seq(S) /\ Len(Tail(q)) = n - 1 /\ Tail(q)[n - 1] = q[(n - 1) + 1]
  BY <1>1, <1>3, QueueTypes
<1>5. Tail(q) # <<>>
  <2>1. Len(<<>>) = 0
    OBVIOUS
  <2>2. n - 1 # 0
    BY <1>3
  <2>3. Len(Tail(q)) # Len(<<>>)
    BY <1>4, <2>1, <2>2
  <2>4. QED
    BY <2>3
<1>6. QED
  BY <1>1, <1>3, <1>4, <1>5

\* Requests: the writer's own state, and the document they replace.
LEMMA WriteType ==
  ASSUME TypeOK, NEW r \in Requests, Write(r) PROVE TypeOK'
<1> USE DEF sweepVars, deliveryVars, projectionVars
<1>1. WriterType'
  <2> USE DEF WriterType
  <2>1. CASE SaveEntities(r)
    BY <2>1 DEF SaveEntities, TypeOK
  <2>2. CASE WriteFails(r)
    BY <2>2 DEF WriteFails, TypeOK
  <2>3. CASE WriteThrough(r)
    BY <2>3 DEF WriteThrough, TypeOK
  <2>4. CASE Commit(r)
    <3>1. CASE existed[r] \/ taxpayer[AggregateOf[r]] = None
      BY <2>4, <3>1 DEF Commit, TypeOK
    <3>2. CASE ~(existed[r] \/ taxpayer[AggregateOf[r]] = None)
      BY <2>4, <3>2 DEF Commit, TypeOK
    <3>3. QED
      BY <3>1, <3>2
  <2>5. QED
    BY <2>1, <2>2, <2>3, <2>4 DEF Write
<1>2. SweepType' /\ TopicType' /\ ListenerType'
  BY DEF Write, SaveEntities, WriteFails, WriteThrough, Commit,
         TypeOK, SweepType, TopicType, ListenerType
<1>3. mongo' \in [Aggregates -> Documents \cup {NoDoc}] /\ loaded' = loaded
  BY PipelineAssumption DEF Write, SaveEntities, WriteFails, WriteThrough, Commit,
         TypeOK, DocumentType, Documents
<1>4. QED
  BY <1>1, <1>2, <1>3 DEF TypeOK, DocumentType

\* Sweeps: their own state, the rows' marks, and the topic they append to.
LEMMA PublishType ==
  ASSUME TypeOK, NEW p \in Publishers, Publish(p) PROVE TypeOK'
<1> USE DEF writerVars, deliveryVars, projectionVars
<1>1. SweepType'
  <2>1. SweepType
    BY DEF TypeOK
  <2> USE <2>1 DEF SweepType
  <2>2. CASE Sweep(p)
    <3>1. Page(Lockable) \subseteq Requests /\ Skipped \subseteq Requests
      BY DEF Page, Lockable, Skipped
    <3>2. QED
      BY <2>2, <3>1 DEF Sweep
  <2>3. CASE Send(p)
    BY <2>3 DEF Send
  <2>4. CASE BrokerAppends(p)
    <3>1. producer[p] \in Seq(Requests) /\ producer[p] # <<>>
      BY <2>4 DEF BrokerAppends
    <3>2. Tail(producer[p]) \in Seq(Requests)
      BY <3>1, QueueTypes
    <3>3. CASE AwaitedIsNext(p)
      <4>1. sending[p] \in Requests
        BY <3>3 DEF AwaitedIsNext
      <4>2. marked' = [marked EXCEPT ![p] = @ \cup {sending[p]}]
        BY <2>4, <3>3 DEF BrokerAppends
      <4>3. marked' \in [Publishers -> SUBSET Requests]
        BY <4>1, <4>2
      <4>4. QED
        BY <2>4, <3>2, <3>3, <4>3 DEF BrokerAppends
    <3>4. CASE ~AwaitedIsNext(p)
      BY <2>4, <3>2, <3>4 DEF BrokerAppends
    <3>5. QED
      BY <3>3, <3>4
  <2>5. CASE SendFails(p)
    <3>1. producer[p] \in Seq(Requests) /\ producer[p] # <<>>
      BY <2>5 DEF SendFails
    <3>2. Tail(producer[p]) \in Seq(Requests)
      BY <3>1, QueueTypes
    <3>3. CASE AwaitedIsNext(p)
      <4>1. sending[p] \in Requests
        BY <3>3 DEF AwaitedIsNext
      <4>2. QED
        BY <2>5, <3>2, <3>3, <4>1 DEF SendFails
    <3>4. CASE ~AwaitedIsNext(p)
      BY <2>5, <3>2, <3>4 DEF SendFails
    <3>5. QED
      BY <3>3, <3>4
  <2>6. CASE SendTimesOut(p)
    BY <2>6 DEF SendTimesOut
  <2>7. CASE CommitSweep(p)
    BY <2>7 DEF CommitSweep
  <2>8. CASE SweepRollsBack(p)
    <3>0. producer' = producer \/ producer' = [producer EXCEPT ![p] = <<>>]
      BY <2>8 DEF SweepRollsBack
    <3>1. producer' \in [Publishers -> Seq(Requests)]
      <4>1. <<>> \in Seq(Requests)
        OBVIOUS
      <4>2. CASE producer' = producer
        BY <4>2
      <4>3. CASE producer' = [producer EXCEPT ![p] = <<>>]
        BY <4>1, <4>3
      <4>4. QED
        BY <3>0, <4>2, <4>3
    <3>2. QED
      BY <2>8, <3>1 DEF SweepRollsBack
  <2>9. QED
    BY <2>2, <2>3, <2>4, <2>5, <2>6, <2>7, <2>8 DEF Publish
<1>2. WriterType'
  BY DEF Publish, Sweep, Send, BrokerAppends, SendFails, SendTimesOut,
         CommitSweep, SweepRollsBack, TypeOK, WriterType
<1>3. TopicType'
  <2>1. TopicType /\ producer \in [Publishers -> Seq(Requests)]
    BY DEF TypeOK, SweepType
  <2>2. CASE BrokerAppends(p)
    <3>1. producer[p] \in Seq(Requests) /\ producer[p] # <<>>
      BY <2>1, <2>2 DEF BrokerAppends
    <3>2. Head(producer[p]) \in Requests
      BY <3>1, QueueTypes
    <3>3. QED
      BY <2>1, <2>2, <3>2 DEF BrokerAppends, TopicType
  <2>3. CASE Sweep(p) \/ Send(p) \/ CommitSweep(p)
    BY <2>1, <2>3 DEF Sweep, Send, CommitSweep, TopicType
  <2>4. CASE SendFails(p) \/ SendTimesOut(p) \/ SweepRollsBack(p)
    <3>1. faults' = faults + 1 /\ UNCHANGED <<log, offset, dlt, applied, lateSaves>>
      BY <2>4 DEF SendFails, SendTimesOut, SweepRollsBack, Fault
    <3>2. QED
      BY <2>1, <3>1 DEF TopicType
  <2>5. QED
    BY <2>2, <2>3, <2>4 DEF Publish
<1>4. ListenerType' /\ DocumentType'
  BY DEF Publish, Sweep, Send, BrokerAppends, SendFails, SendTimesOut,
         CommitSweep, SweepRollsBack, TypeOK, ListenerType, DocumentType
<1>5. QED
  BY <1>1, <1>2, <1>3, <1>4 DEF TypeOK

\* No step of a consumer touches the requests, the outbox, the sweeps or the topic.
LEMMA ConsumeFrame ==
  ASSUME NEW c \in Consumers, Consume(c)
  PROVE  UNCHANGED <<writerVars, outbox, sweepVars, producer, log>>
  BY DEF Consume, Poll, Load, Save, NextRecord, Acknowledge, Redeliver, DeadLetter,
         DeliveryThrows, Rebalance

\* What a delivery in progress knows: the record it is about exists and lies
\* within its poll. The partition's owner is past the committed offset, and what
\* lies between it and the record was handled, as was the record once it is saved.
DeliveryInv ==
  /\ offset <= Len(log)
  /\ \A c \in Consumers :
       conPc[c] # "idle" => /\ pos[c] \in 1 .. Len(log)
                            /\ upto[c] \in pos[c] .. Len(log)
  /\ conPc[owner] # "idle" =>
       /\ pos[owner] > offset
       /\ \A i \in offset + 1 .. pos[owner] - 1 : i \in applied \cup dlt
  /\ conPc[owner] = "saved" => pos[owner] \in applied \cup dlt
  /\ AcknowledgedIsHandled

\* Consumers: the delivery's state, the group's offset and the documents. The
\* document saved is one of a request because the delivery's record exists.
LEMMA ConsumeType ==
  ASSUME TypeOK, DeliveryInv, NEW c \in Consumers, Consume(c) PROVE TypeOK'
<1>1. WriterType' /\ SweepType'
  BY ConsumeFrame DEF TypeOK, WriterType, SweepType, writerVars, sweepVars
<1>0. TopicType /\ ListenerType /\ log' = log
  BY ConsumeFrame DEF TypeOK
<1>2. TopicType'
  <2> USE <1>0 DEF TopicType, ListenerType
  <2>2. CASE Poll(c) \/ Load(c) \/ NextRecord(c)
    BY <2>2 DEF Poll, Load, NextRecord, projectionVars
  <2>3. CASE Save(c)
    BY <2>3 DEF Save
  <2>4. CASE Acknowledge(c)
    BY <2>4 DEF Acknowledge, CommittedBy, projectionVars
  <2>5. CASE Redeliver(c) \/ DeadLetter(c)
    <3>1. DeliveryThrows(c) /\ dlt' \in {dlt, dlt \cup {pos[c]}}
      <4>1. CASE Redeliver(c)
        BY <4>1 DEF Redeliver
      <4>2. CASE DeadLetter(c)
        BY <4>2 DEF DeadLetter
      <4>3. QED
        BY <2>5, <4>1, <4>2
    <3>2. pos[c] - 1 \in Nat
      <4>1. conPc[c] # "idle"
        BY <3>1 DEF DeliveryThrows
      <4>2. pos[c] \in 1 .. Len(log)
        BY <4>1 DEF DeliveryInv
      <4>3. QED
        BY <4>2
    <3>3. QED
      BY <3>1, <3>2 DEF DeliveryThrows, CommittedBy, Fault, projectionVars
  <2>6. CASE Rebalance(c)
    BY <2>6 DEF Rebalance, Fault, projectionVars
  <2>7. QED
    BY <2>2, <2>3, <2>4, <2>5, <2>6 DEF Consume
<1>3. ListenerType'
  <2> USE <1>0 DEF TopicType, ListenerType
  <2>1. CASE Poll(c)
    BY <2>1 DEF Poll
  <2>2. CASE Load(c) \/ Save(c) \/ NextRecord(c)
    <3>1. CASE Load(c)
      BY <3>1 DEF Load
    <3>2. CASE Save(c)
      BY <3>2 DEF Save
    <3>3. CASE NextRecord(c)
      BY <3>3 DEF NextRecord
    <3>4. QED
      BY <2>2, <3>1, <3>2, <3>3
  <2>3. CASE Acknowledge(c)
    BY <2>3 DEF Acknowledge, Drops
  <2>4. CASE Rebalance(c)
    <3>1. owner' = c /\ attempts' \in [Consumers -> Nat]
      BY <2>4 DEF Rebalance
    <3>2. CASE Drops(owner)
      BY <3>1, <3>2 DEF Drops
    <3>3. CASE UNCHANGED <<conPc, pos, upto, loaded>>
      BY <3>1, <3>3
    <3>4. QED
      BY <2>4, <3>2, <3>3 DEF Rebalance
  <2>5. CASE Redeliver(c)
    BY <2>5 DEF Redeliver, DeliveryThrows, Drops
  <2>6. CASE DeadLetter(c)
    <3>1. owner' = owner /\ attempts' \in [Consumers -> Nat]
      BY <2>6 DEF DeadLetter, DeliveryThrows
    <3>2. CASE Drops(c)
      BY <3>1, <3>2 DEF Drops
    <3>3. CASE ~Drops(c)
      BY <2>6, <3>1, <3>3 DEF DeadLetter
    <3>4. QED
      BY <3>2, <3>3
  <2>7. QED
    BY <2>1, <2>2, <2>3, <2>4, <2>5, <2>6 DEF Consume
<1>4. DocumentType'
  <2>1. DocumentType
    BY DEF TypeOK
  <2>2. CASE Load(c)
    <3>1. Event(c) \in Requests
      BY <1>0, <2>2 DEF Load, DeliveryInv, Event, TopicType
    <3>2. mongo[AggregateOf[Event(c)]] \in Documents \cup {NoDoc}
      BY <2>1, <3>1, PipelineAssumption DEF DocumentType
    <3>3. QED
      BY <2>1, <2>2, <3>1, <3>2 DEF Load, DocumentType, Documents, projectionVars
  <2>3. CASE Save(c)
    <3>1. Event(c) \in Requests
      BY <1>0, <2>3 DEF Save, DeliveryInv, Event, TopicType
    <3>2. loaded[c] \in Documents \cup {NoDoc}
      BY <2>1 DEF DocumentType
    <3>3. applyEvent(loaded[c], Event(c)) \in Documents
      BY <3>1, <3>2 DEF applyEvent, Documents, NoDoc
    <3>4. QED
      BY <2>1, <2>3, <3>3 DEF Save, DocumentType
  <2>4. CASE ~Load(c) /\ ~Save(c)
    <3>1. mongo' = mongo
      BY <2>4 DEF Consume, Poll, NextRecord, Acknowledge, Redeliver, DeadLetter, DeliveryThrows,
                  Rebalance, projectionVars
    <3>2. loaded' = loaded \/ \E d \in Consumers : loaded' = [loaded EXCEPT ![d] = NoDoc]
      <4>1. owner \in Consumers
        BY <1>0 DEF ListenerType
      <4>2. QED
        BY <2>4, <4>1 DEF Consume, Poll, NextRecord, Acknowledge, Redeliver, DeadLetter,
                    Rebalance, Drops
    <3>3. QED
      BY <2>1, <3>1, <3>2 DEF DocumentType
  <2>5. QED
    BY <2>2, <2>3, <2>4
<1>5. QED
  BY <1>1, <1>2, <1>3, <1>4 DEF TypeOK

-----------------------------------------------------------------------------
(* Deliveries                                                                *)

\* Appending keeps what the log holds.
LEMMA AppendKeeps ==
  ASSUME NEW S, NEW q \in Seq(S), NEW e \in S
  PROVE  /\ Append(q, e) \in Seq(S)
         /\ Len(Append(q, e)) = Len(q) + 1
         /\ \A i \in 1 .. Len(q) : Append(q, e)[i] = q[i]
         /\ Append(q, e)[Len(q) + 1] = e
  OBVIOUS

\* A step of a sweep appends at most one record to the topic.
LEMMA PublishAppends ==
  ASSUME TypeOK, NEW p \in Publishers, Publish(p)
  PROVE  \/ log' = log
         \/ \E r \in Requests : log' = Append(log, r) /\ producer[p] # <<>> /\ r = Head(producer[p])
<1>1. producer[p] \in Seq(Requests)
  BY DEF TypeOK, SweepType
<1>2. CASE BrokerAppends(p)
  <2>1. producer[p] # <<>>
    BY <1>2 DEF BrokerAppends
  <2>2. Head(producer[p]) \in Requests
    BY <1>1, <2>1, QueueTypes
  <2>3. QED
    BY <1>2, <2>1, <2>2 DEF BrokerAppends
<1>3. CASE Sweep(p) \/ Send(p) \/ CommitSweep(p) \/ SendFails(p) \/ SendTimesOut(p) \/ SweepRollsBack(p)
  BY <1>3 DEF Sweep, Send, CommitSweep, SendFails, SendTimesOut, SweepRollsBack
<1>4. QED
  BY <1>2, <1>3 DEF Publish

\* No step of a delivery skips a record or leaves its poll.
LEMMA DeliveryInvStep ==
  ASSUME TypeOK, DeliveryInv, [Next]_vars PROVE DeliveryInv'
<1>0. ListenerType /\ TopicType
  BY DEF TypeOK
<1>1. ASSUME NEW r \in Requests, Write(r) PROVE DeliveryInv'
  BY <1>1 DEF Write, SaveEntities, WriteFails, WriteThrough, Commit, deliveryVars, projectionVars,
              DeliveryInv, AcknowledgedIsHandled
<1>2. ASSUME NEW p \in Publishers, Publish(p) PROVE DeliveryInv'
  <2>1. Len(log) \in Nat /\ Len(log') \in Nat /\ Len(log') >= Len(log)
    BY <1>0, <1>2, PublishAppends, AppendKeeps DEF TopicType
  <2>2. UNCHANGED <<offset, dlt, applied, owner, conPc, pos, upto>>
    BY <1>2 DEF Publish, Sweep, Send, BrokerAppends, SendFails, SendTimesOut,
                CommitSweep, SweepRollsBack, deliveryVars, projectionVars
  <2>3. QED
    BY <1>0, <2>1, <2>2 DEF TopicType, ListenerType, DeliveryInv, AcknowledgedIsHandled
<1>3. ASSUME NEW c \in Consumers, Consume(c) PROVE DeliveryInv'
  <2>0. log' = log /\ Len(log) \in Nat
    BY <1>0, <1>3, ConsumeFrame DEF TopicType
  <2> USE <1>0 DEF TopicType, ListenerType, DeliveryInv, AcknowledgedIsHandled
  <2>1. CASE Poll(c)
    BY <2>0, <2>1 DEF Poll, projectionVars
  <2>2. CASE Load(c) \/ Save(c)
    BY <2>0, <2>2 DEF Load, Save, projectionVars
  <2>3. CASE NextRecord(c)
    <3>1. /\ UNCHANGED <<offset, dlt, applied, owner, upto>>
          /\ conPc[c] = "saved" /\ pos[c] < upto[c]
          /\ conPc' = [conPc EXCEPT ![c] = "polled"] /\ pos' = [pos EXCEPT ![c] = @ + 1]
      BY <2>3 DEF NextRecord, projectionVars
    <3>2. QED
      BY <2>0, <3>1, SMTT(40)
  <2>4. CASE Acknowledge(c)
    <3>1. /\ UNCHANGED <<dlt, applied, owner>> /\ conPc[c] = "saved"
          /\ offset' = IF owner = c THEN pos[c] ELSE offset
      BY <2>4 DEF Acknowledge, CommittedBy, projectionVars
    <3>2. \A d \in Consumers : d # c => /\ conPc'[d] = conPc[d] /\ pos'[d] = pos[d]
                                        /\ upto'[d] = upto[d]
      BY <2>4 DEF Acknowledge, Drops
    <3>3. conPc'[c] = "idle"
      BY <2>4 DEF Acknowledge, Drops
    <3>4. QED
      BY <2>0, <3>1, <3>2, <3>3, SMTT(40)
  <2>5. CASE Redeliver(c) \/ DeadLetter(c)
    <3>1. /\ UNCHANGED <<applied, owner>> /\ conPc[c] # "idle"
          /\ offset' = IF owner = c THEN pos[c] - 1 ELSE offset
      BY <2>5 DEF Redeliver, DeadLetter, DeliveryThrows, CommittedBy, projectionVars
    <3>2. \A d \in Consumers : d # c => /\ conPc'[d] = conPc[d] /\ pos'[d] = pos[d]
                                        /\ upto'[d] = upto[d]
      BY <2>5 DEF Redeliver, DeadLetter, Drops
    <3>3. \/ conPc'[c] = "idle" /\ dlt' = dlt
          \/ conPc'[c] = "saved" /\ pos'[c] = pos[c] /\ upto'[c] = pos[c] /\ dlt' = dlt \cup {pos[c]}
      BY <2>5 DEF Redeliver, DeadLetter, Drops
    <3>4. QED
      BY <2>0, <3>1, <3>2, <3>3, SMTT(40)
  <2>6. CASE Rebalance(c)
    <3>1. UNCHANGED <<offset, dlt, applied>> /\ owner' = c /\ conPc[c] = "idle" /\ c # owner
      BY <2>6 DEF Rebalance, projectionVars
    <3>2. \A d \in Consumers :
            conPc'[d] = "idle" \/ (conPc'[d] = conPc[d] /\ pos'[d] = pos[d] /\ upto'[d] = upto[d])
      BY <2>6 DEF Rebalance, Drops
    <3>3. conPc'[c] = "idle"
      BY <2>6, <3>1 DEF Rebalance, Drops
    <3>4. QED
      BY <2>0, <3>1, <3>2, <3>3
  <2>7. QED
    BY <1>3, <2>1, <2>2, <2>3, <2>4, <2>5, <2>6 DEF Consume
<1>4. CASE UNCHANGED vars
  BY <1>4 DEF vars, deliveryVars, projectionVars, DeliveryInv, AcknowledgedIsHandled
<1>5. QED
  BY <1>1, <1>2, <1>3, <1>4 DEF Next, Rest

-----------------------------------------------------------------------------
\* Nothing is published or delivered at first.
LEMMA TypeAndDeliveryInit == Init => TypeOK /\ DeliveryInv
  BY DEF Init, TypeOK, WriterType, SweepType, TopicType, ListenerType,
         DocumentType, DeliveryInv, AcknowledgedIsHandled

\* No step of a request, a sweep or a consumer leaves the types.
LEMMA TypeStep == ASSUME TypeOK, DeliveryInv, [Next]_vars PROVE TypeOK'
<1>1. CASE UNCHANGED vars
  BY <1>1 DEF vars, writerVars, sweepVars, deliveryVars, projectionVars, TypeOK, WriterType,
              SweepType, TopicType, ListenerType, DocumentType
<1>2. QED
  BY <1>1, WriteType, PublishType, ConsumeType DEF Next, Rest

\* Every variable keeps its type, for any number of requests, replicas and faults.
THEOREM TypeCorrect == Spec => []TypeOK
<1>1. Init => TypeOK /\ DeliveryInv
  BY TypeAndDeliveryInit
<1>2. TypeOK /\ DeliveryInv /\ [Next]_vars => (TypeOK /\ DeliveryInv)'
  BY TypeStep, DeliveryInvStep
<1>3. QED
  BY <1>1, <1>2, PTL DEF Spec

\* The listener's invariant holds in every state.
LEMMA DeliveryInvariant == Spec => [](TypeOK /\ DeliveryInv)
<1>1. Init => TypeOK /\ DeliveryInv
  BY TypeAndDeliveryInit
<1>2. TypeOK /\ DeliveryInv /\ [Next]_vars => (TypeOK /\ DeliveryInv)'
  BY TypeStep, DeliveryInvStep
<1>3. QED
  BY <1>1, <1>2, PTL DEF Spec

\* Every record below the group's offset was saved to Mongo or dead-lettered.
THEOREM AcknowledgedHandled == Spec => []AcknowledgedIsHandled
<1>1. DeliveryInv => AcknowledgedIsHandled
  BY DEF DeliveryInv
<1>2. QED
  BY <1>1, DeliveryInvariant, PTL

\* No step of any consumer, late or not, moves the group's offset back.
THEOREM OffsetMonotonic == Spec => OffsetNeverGoesBack
<1>1. TypeOK /\ DeliveryInv /\ [Next]_vars => [offset' >= offset]_vars
  <2> SUFFICES ASSUME TypeOK, DeliveryInv, Next PROVE offset' >= offset
    OBVIOUS
  <2>0. offset \in Nat /\ pos \in [Consumers -> Nat]
    BY DEF TypeOK, TopicType, ListenerType
  <2>1. ASSUME NEW c \in Consumers, Consume(c) PROVE offset' >= offset
    <3>1. \/ offset' = offset
          \/ offset' = CommittedBy(c, pos[c]) /\ conPc[c] = "saved"
          \/ offset' = CommittedBy(c, pos[c] - 1) /\ conPc[c] # "idle"
      BY <2>1 DEF Consume, Poll, Load, Save, NextRecord, Acknowledge, Redeliver, DeadLetter,
           DeliveryThrows, Rebalance
    <3>2. QED
      BY <2>0, <3>1 DEF CommittedBy, DeliveryInv
  <2>2. ASSUME NEW r \in Requests, Write(r) PROVE offset' >= offset
    BY <2>0, <2>2 DEF Write, SaveEntities, WriteFails, WriteThrough, Commit
  <2>3. ASSUME NEW p \in Publishers, Publish(p) PROVE offset' >= offset
    BY <2>0, <2>3 DEF Publish, Sweep, Send, BrokerAppends, SendFails,
                      SendTimesOut, CommitSweep, SweepRollsBack
  <2>4. CASE Rest
    BY <2>0, <2>4 DEF Rest, vars
  <2>5. QED
    BY <2>1, <2>2, <2>3, <2>4 DEF Next
<1>2. QED
  BY <1>1, DeliveryInvariant, PTL DEF Spec, OffsetNeverGoesBack

-----------------------------------------------------------------------------
(* The outbox                                                                *)

InLog(r) == \E i \in DOMAIN log : log[i] = r

\* What a sweep knows: the record it waits for is the newest of its producer's
\* queue, so the row it marks is the one the broker took; marked rows are in the
\* topic; batched and queued rows are committed; each row has one holder.
SweepInv ==
  /\ \A p \in Publishers : sending[p] # None =>
       producer[p] # <<>> /\ producer[p][Len(producer[p])] = sending[p]
  /\ \A p \in Publishers : \A r \in marked[p] : InLog(r)
  /\ \A p \in Publishers : \A r \in batch[p] : reqPc[r] = "committed"
  /\ RowsLockedOnce

\* Rows and events: what is published, and what the topic and the accumulator hold.
RowInv ==
  /\ \A r \in Requests : outbox[r] # "absent" => reqPc[r] = "committed"
  /\ PublishedIsInLog
  /\ OnlyCommittedEvents

\* No sweep is open and no event is under way at first.
LEMMA OutboxInit == Init => SweepInv /\ RowInv
  BY DEF Init, SweepInv, RowInv, RowsLockedOnce, PublishedIsInLog, OnlyCommittedEvents

\* No request leaves the state "committed", and the topic keeps its records.
LEMMA CommittedStays ==
  ASSUME TypeOK, [Next]_vars
  PROVE  /\ \A r \in Requests : reqPc[r] = "committed" => reqPc'[r] = "committed"
         /\ \A r \in Requests : InLog(r) => InLog(r)'
<1>1. \A r \in Requests : reqPc[r] = "committed" => reqPc'[r] = "committed"
  <2>1. reqPc \in [Requests -> {"new", "saved", "projected", "committed", "failed"}]
    BY DEF TypeOK, WriterType
  <2>2. ASSUME NEW q \in Requests, Write(q)
        PROVE  \A r \in Requests : reqPc[r] = "committed" => reqPc'[r] = "committed"
    BY <2>1, <2>2 DEF Write, SaveEntities, WriteFails, WriteThrough, Commit
  <2>3. ASSUME NEW p \in Publishers, Publish(p) PROVE reqPc' = reqPc
    BY <2>3 DEF Publish, Sweep, Send, BrokerAppends, SendFails, SendTimesOut,
                CommitSweep, SweepRollsBack, writerVars
  <2>4. ASSUME NEW c \in Consumers, Consume(c) PROVE reqPc' = reqPc
    BY <2>4, ConsumeFrame DEF writerVars
  <2>5. CASE UNCHANGED vars
    BY <2>5 DEF vars, writerVars
  <2>6. QED
    BY <2>2, <2>3, <2>4, <2>5 DEF Next, Rest
<1>2. log' = log \/ \E r \in Requests : log' = Append(log, r)
  <2>1. ASSUME NEW q \in Requests, Write(q) PROVE log' = log
    BY <2>1 DEF Write, SaveEntities, WriteFails, WriteThrough, Commit
  <2>2. ASSUME NEW c \in Consumers, Consume(c) PROVE log' = log
    BY <2>2, ConsumeFrame
  <2>3. CASE UNCHANGED vars
    BY <2>3 DEF vars
  <2>4. QED
    BY <2>1, <2>2, <2>3, PublishAppends DEF Next, Rest
<1>3. \A r \in Requests : InLog(r) => InLog(r)'
  <2>1. log \in Seq(Requests)
    BY DEF TypeOK, TopicType
  <2>2. CASE log' = log
    BY <2>2 DEF InLog
  <2>3. ASSUME NEW q \in Requests, log' = Append(log, q)
        PROVE  \A r \in Requests : InLog(r) => InLog(r)'
    BY <2>1, <2>3, AppendKeeps DEF InLog
  <2>4. QED
    BY <1>2, <2>2, <2>3
<1>4. QED
  BY <1>1, <1>3

\* Commits of requests and steps of the publisher keep RowInv.
LEMMA RowInvStep ==
  ASSUME TypeOK, TypeOK', SweepInv, RowInv, [Next]_vars PROVE RowInv'
<1>0. WriterType /\ SweepType /\ TopicType
  BY DEF TypeOK
<1>1. \A r \in Requests : outbox'[r] # "absent" => reqPc'[r] = "committed"
  <2>1. ASSUME NEW q \in Requests, Write(q)
        PROVE  \A r \in Requests : outbox'[r] # "absent" => reqPc'[r] = "committed"
    BY <1>0, <2>1 DEF Write, SaveEntities, WriteFails, WriteThrough, Commit, WriterType, RowInv
  <2>2. ASSUME NEW p \in Publishers, CommitSweep(p)
        PROVE  \A r \in Requests : outbox'[r] # "absent" => reqPc'[r] = "committed"
    <3>1. \A r \in marked[p] : reqPc[r] = "committed"
      BY <1>0 DEF SweepInv, RowInv, OnlyCommittedEvents, InLog
    <3>2. QED
      BY <1>0, <2>2, <3>1 DEF CommitSweep, WriterType, writerVars, RowInv
  <2>3. ASSUME NEW p \in Publishers, Publish(p), ~CommitSweep(p) PROVE UNCHANGED <<outbox, reqPc>>
    BY <2>3 DEF Publish, Sweep, Send, BrokerAppends, SendFails, SendTimesOut,
                SweepRollsBack, writerVars
  <2>4. ASSUME NEW c \in Consumers, Consume(c) PROVE UNCHANGED <<outbox, reqPc>>
    BY <2>4, ConsumeFrame DEF writerVars
  <2>5. CASE UNCHANGED vars
    BY <2>5 DEF vars, writerVars, RowInv
  <2>6. QED
    BY <2>1, <2>2, <2>3, <2>4, <2>5 DEF Next, Rest, RowInv
<1>2. PublishedIsInLog'
  <2>1. \A r \in Requests : outbox'[r] = "published" => InLog(r)
    <3>1. ASSUME NEW q \in Requests, Write(q)
          PROVE  \A r \in Requests : outbox'[r] = "published" => outbox[r] = "published"
      BY <1>0, <3>1 DEF Write, SaveEntities, WriteFails, WriteThrough, Commit, WriterType
    <3>2. ASSUME NEW p \in Publishers, CommitSweep(p)
          PROVE  \A r \in Requests : outbox'[r] = "published" => outbox[r] = "published" \/ r \in marked[p]
      BY <1>0, <3>2 DEF CommitSweep, WriterType
    <3>3. ASSUME NEW p \in Publishers, Publish(p), ~CommitSweep(p) PROVE outbox' = outbox
      BY <3>3 DEF Publish, Sweep, Send, BrokerAppends, SendFails, SendTimesOut, SweepRollsBack
    <3>4. ASSUME NEW c \in Consumers, Consume(c) PROVE outbox' = outbox
      BY <3>4, ConsumeFrame
    <3>5. CASE UNCHANGED vars
      BY <3>5 DEF vars, RowInv, PublishedIsInLog, InLog
    <3>6. QED
      BY <3>1, <3>2, <3>3, <3>4, <3>5 DEF Next, Rest, RowInv, PublishedIsInLog, SweepInv, InLog
  <2>2. QED
    BY <2>1, CommittedStays DEF PublishedIsInLog, InLog
<1>3. OnlyCommittedEvents'
  <2>1. \A i \in DOMAIN log' : reqPc[log'[i]] = "committed"
    <3>1. ASSUME NEW p \in Publishers, NEW r \in Requests, log' = Append(log, r),
                 producer[p] # <<>>, r = Head(producer[p])
          PROVE  \A i \in DOMAIN log' : reqPc[log'[i]] = "committed"
      <4>1. reqPc[r] = "committed"
        BY <1>0, <3>1, QueueTypes DEF RowInv, OnlyCommittedEvents, SweepType
      <4>2. QED
        BY <1>0, <3>1, <4>1, AppendKeeps DEF RowInv, OnlyCommittedEvents, TopicType
    <3>2. CASE log' = log
      BY <3>2 DEF RowInv, OnlyCommittedEvents
    <3>3. ASSUME NEW q \in Requests, Write(q) PROVE log' = log
      BY <3>3 DEF Write, SaveEntities, WriteFails, WriteThrough, Commit
    <3>4. ASSUME NEW c \in Consumers, Consume(c) PROVE log' = log
      BY <3>4, ConsumeFrame
    <3>5. CASE UNCHANGED vars
      BY <3>2, <3>5 DEF vars
    <3>6. QED
      BY <3>1, <3>2, <3>3, <3>4, <3>5, PublishAppends DEF Next, Rest
  <2>2. \A p \in Publishers : \A i \in DOMAIN producer'[p] :
          reqPc[producer'[p][i]] = "committed"
    <3>0. \A p \in Publishers : producer[p] \in Seq(Requests)
      BY <1>0 DEF SweepType
    <3>1. ASSUME NEW p \in Publishers, NEW q \in Publishers,
                 producer[p] # <<>>, producer' = [producer EXCEPT ![p] = Tail(@)]
          PROVE  \A i \in DOMAIN producer'[q] : reqPc[producer'[q][i]] = "committed"
      <4>1. CASE q = p
        <5>1. producer'[q] = Tail(producer[p])
          BY <1>0, <3>1, <4>1 DEF SweepType
        <5>2. QED
          BY <3>0, <3>1, <5>1, QueueTypes DEF RowInv, OnlyCommittedEvents
      <4>2. CASE q # p
        BY <1>0, <3>1, <4>2 DEF SweepType, RowInv, OnlyCommittedEvents
      <4>3. QED
        BY <4>1, <4>2
    <3>2. ASSUME NEW p \in Publishers, NEW q \in Publishers, Send(p)
          PROVE  \A i \in DOMAIN producer'[q] : reqPc[producer'[q][i]] = "committed"
      <4>1. PICK r \in batch[p] : producer' = [producer EXCEPT ![p] = Append(@, r)]
        BY <3>2 DEF Send
      <4>2. r \in Requests /\ reqPc[r] = "committed"
        BY <1>0, <4>1 DEF SweepType, SweepInv
      <4>3. CASE q = p
        <5>1. producer'[q] = Append(producer[p], r)
          BY <1>0, <4>1, <4>3 DEF SweepType
        <5>2. QED
          BY <3>0, <4>2, <5>1, AppendKeeps DEF RowInv, OnlyCommittedEvents
      <4>4. CASE q # p
        BY <1>0, <4>1, <4>4 DEF SweepType, RowInv, OnlyCommittedEvents
      <4>5. QED
        BY <4>3, <4>4
    <3>3. ASSUME NEW p \in Publishers, NEW q \in Publishers, SweepRollsBack(p)
          PROVE  \A i \in DOMAIN producer'[q] : reqPc[producer'[q][i]] = "committed"
      <4>1. producer'[q] = producer[q] \/ producer'[q] = <<>>
        BY <1>0, <3>3 DEF SweepRollsBack, SweepType
      <4>2. QED
        BY <4>1 DEF RowInv, OnlyCommittedEvents
    <3>4. ASSUME NEW p \in Publishers, Sweep(p) \/ SendTimesOut(p) \/ CommitSweep(p)
          PROVE  producer' = producer
      BY <3>4 DEF Sweep, SendTimesOut, CommitSweep
    <3>5. ASSUME NEW p \in Publishers, BrokerAppends(p) \/ SendFails(p)
          PROVE  producer[p] # <<>> /\ producer' = [producer EXCEPT ![p] = Tail(@)]
      BY <3>5 DEF BrokerAppends, SendFails
    <3>6. ASSUME NEW r \in Requests, Write(r) PROVE producer' = producer
      BY <3>6 DEF Write, SaveEntities, WriteFails, WriteThrough, Commit
    <3>7. ASSUME NEW c \in Consumers, Consume(c) PROVE producer' = producer
      BY <3>7, ConsumeFrame
    <3>8. CASE producer' = producer
      BY <3>8 DEF RowInv, OnlyCommittedEvents
    <3>9. CASE UNCHANGED vars
      BY <3>8, <3>9 DEF vars
    <3>10. QED
      BY <3>1, <3>2, <3>3, <3>4, <3>5, <3>6, <3>7, <3>8, <3>9 DEF Next, Rest, Publish
  <2>3. /\ \A i \in DOMAIN log' : log'[i] \in Requests
        /\ \A p \in Publishers : \A i \in DOMAIN producer'[p] : producer'[p][i] \in Requests
    <3>1. log' \in Seq(Requests) /\ producer' \in [Publishers -> Seq(Requests)]
      BY DEF TypeOK, TopicType, SweepType
    <3>2. QED
      BY <3>1
  <2>4. QED
    BY <2>1, <2>2, <2>3, CommittedStays DEF OnlyCommittedEvents
<1>4. QED
  BY <1>1, <1>2, <1>3 DEF RowInv

\* Rows may be locked by a sweep only while no other holds them, and a sweep
\* marks the record the broker has just taken.
LEMMA SweepInvStep ==
  ASSUME TypeOK, TypeOK', SweepInv, RowInv, [Next]_vars PROVE SweepInv'
<1>0. WriterType /\ SweepType /\ TopicType /\ TopicType'
  BY DEF TypeOK
<1>1. ASSUME NEW p \in Publishers, Publish(p) PROVE SweepInv'
  <2>1. ASSUME NEW q \in Publishers, sending'[q] # None
        PROVE  producer'[q] # <<>> /\ producer'[q][Len(producer'[q])] = sending'[q]
    <3>0. producer[p] \in Seq(Requests) /\ producer[q] \in Seq(Requests)
      BY <1>0 DEF SweepType
    <3>1. CASE q # p
      <4>1. sending'[q] = sending[q] /\ producer'[q] = producer[q]
        BY <1>0, <1>1, <3>1 DEF SweepType, Publish, Sweep, Send, BrokerAppends,
             SendFails, SendTimesOut, CommitSweep, SweepRollsBack
      <4>2. QED
        BY <2>1, <4>1 DEF SweepInv
    <3>2. CASE q = p
      <4>1. CASE Sweep(p) \/ CommitSweep(p)
        BY <2>1, <4>1 DEF Sweep, CommitSweep, SweepInv
      <4>2. CASE Send(p)
        <5>1. PICK r \in batch[p] : /\ producer' = [producer EXCEPT ![p] = Append(@, r)]
                                    /\ sending' = [sending EXCEPT ![p] = r]
          BY <4>2 DEF Send
        <5>2. /\ producer'[q] = Append(producer[p], r) /\ sending'[q] = r
              /\ r \in Requests
          BY <1>0, <3>2, <5>1 DEF SweepType
        <5>3. QED
          BY <3>0, <5>2, AppendKeeps
      <4>3. CASE BrokerAppends(p) \/ SendFails(p)
        <5>1. /\ sending'[p] = sending[p] /\ sending[p] # None
              /\ producer'[p] = Tail(producer[p])
          BY <1>0, <2>1, <3>2, <4>3 DEF BrokerAppends, SendFails, AwaitedIsNext, SweepType
        <5>2. Len(producer[p]) # 1
          BY <1>0, <2>1, <3>2, <4>3, <5>1 DEF BrokerAppends, SendFails, AwaitedIsNext, SweepType
        <5>3. producer[p] # <<>> /\ producer[p][Len(producer[p])] = sending[p]
          BY <5>1 DEF SweepInv
        <5>4. QED
          BY <3>0, <3>2, <5>1, <5>2, <5>3, LastOfTail
      <4>4. CASE SendTimesOut(p) \/ SweepRollsBack(p)
        BY <1>0, <2>1, <3>2, <4>4 DEF SendTimesOut, SweepRollsBack, SweepType
      <4>5. QED
        BY <1>1, <4>1, <4>2, <4>3, <4>4 DEF Publish
    <3>3. QED
      BY <3>1, <3>2
  <2>2. ASSUME NEW q \in Publishers, NEW r \in marked'[q] PROVE InLog(r)'
    <3>1. CASE r \in marked[q]
      BY <1>0, <3>1, CommittedStays DEF SweepInv, SweepType
    <3>2. CASE r \notin marked[q]
      <4>1. /\ BrokerAppends(p) /\ AwaitedIsNext(p) /\ q = p /\ r = sending[p]
        BY <1>0, <1>1, <2>2, <3>2 DEF SweepType, Publish, Sweep, Send,
             BrokerAppends, SendFails, SendTimesOut, CommitSweep, SweepRollsBack
      <4>2. producer[p] \in Seq(Requests) /\ producer[p] # <<>> /\ Len(producer[p]) = 1
        BY <1>0, <4>1 DEF SweepType, BrokerAppends, AwaitedIsNext
      <4>3. Head(producer[p]) = r /\ r \in Requests
        BY <4>1, <4>2, QueueTypes DEF AwaitedIsNext, SweepInv
      <4>4. log' = Append(log, r) /\ log \in Seq(Requests)
        BY <1>0, <4>1, <4>3 DEF BrokerAppends, TopicType
      <4>5. QED
        BY <4>3, <4>4, AppendKeeps DEF InLog
    <3>3. QED
      BY <3>1, <3>2
  <2>3. ASSUME NEW q \in Publishers, NEW r \in batch'[q] PROVE reqPc'[r] = "committed"
    <3>1. reqPc' = reqPc
      BY <1>1 DEF Publish, Sweep, Send, BrokerAppends, SendFails, SendTimesOut,
                  CommitSweep, SweepRollsBack, writerVars
    <3>2. CASE Sweep(p)
      <4>1. r \in batch[q] \/ r \in Lockable
        BY <1>0, <2>3, <3>2 DEF Sweep, Page, SweepType
      <4>2. QED
        BY <3>1, <4>1 DEF Lockable, SweepInv, RowInv
    <3>3. CASE ~Sweep(p)
      <4>1. r \in batch[q]
        BY <1>0, <1>1, <2>3, <3>3 DEF SweepType, Publish, Send, BrokerAppends,
             SendFails, SendTimesOut, CommitSweep, SweepRollsBack
      <4>2. QED
        BY <3>1, <4>1 DEF SweepInv
    <3>4. QED
      BY <3>2, <3>3
  <2>4. RowsLockedOnce'
    <3>1. CASE Sweep(p)
      BY <1>0, <3>1 DEF Sweep, Page, Lockable, SweepType, SweepInv, RowsLockedOnce
    <3>2. CASE ~Sweep(p)
      <4>1. \A q \in Publishers : locked'[q] \subseteq locked[q]
        BY <1>0, <1>1, <3>2 DEF SweepType, Publish, Send, BrokerAppends,
             SendFails, SendTimesOut, CommitSweep, SweepRollsBack
      <4>2. QED
        BY <4>1 DEF SweepInv, RowsLockedOnce
    <3>3. QED
      BY <3>1, <3>2
  <2>5. QED
    BY <2>1, <2>2, <2>3, <2>4 DEF SweepInv
<1>2. CASE UNCHANGED <<sweepVars, producer, log>>
  <2>1. \A p \in Publishers : \A r \in batch[p] : r \in Requests
    BY <1>0 DEF SweepType
  <2>2. QED
    BY <1>2, <2>1, CommittedStays DEF SweepInv, RowsLockedOnce, InLog, sweepVars
<1>3. ASSUME NEW r \in Requests, Write(r) PROVE UNCHANGED <<sweepVars, producer, log>>
  BY <1>3 DEF Write, SaveEntities, WriteFails, WriteThrough, Commit
<1>4. ASSUME NEW c \in Consumers, Consume(c) PROVE UNCHANGED <<sweepVars, producer, log>>
  BY <1>4, ConsumeFrame
<1>5. CASE UNCHANGED vars
  BY <1>2, <1>5 DEF vars
<1>6. QED
  BY <1>1, <1>2, <1>3, <1>4, <1>5 DEF Next, Rest

\* The publisher's invariant holds in every state.
LEMMA OutboxInvariant == Spec => [](SweepInv /\ RowInv)
<1>1. Init => SweepInv /\ RowInv
  BY OutboxInit
<1>2. TypeOK /\ TypeOK' /\ SweepInv /\ RowInv /\ [Next]_vars => (SweepInv /\ RowInv)'
  BY RowInvStep, SweepInvStep
<1>3. QED
  BY <1>1, <1>2, TypeCorrect, PTL DEF Spec

\* Two sweeps never hold the same outbox row.
THEOREM RowsExclusive == Spec => []RowsLockedOnce
<1>1. SweepInv => RowsLockedOnce
  BY DEF SweepInv
<1>2. QED
  BY <1>1, OutboxInvariant, PTL

\* Whatever fails, a row marked published has its event in the topic.
THEOREM NoEventDropped == Spec => []PublishedIsInLog
<1>1. RowInv => PublishedIsInLog
  BY DEF RowInv
<1>2. QED
  BY <1>1, OutboxInvariant, PTL

\* The topic and the producers' queues hold events of committed requests only.
THEOREM NoEventInvented == Spec => []OnlyCommittedEvents
<1>1. RowInv => OnlyCommittedEvents
  BY DEF RowInv
<1>2. QED
  BY <1>1, OutboxInvariant, PTL

-----------------------------------------------------------------------------
(* The owning tenant                                                         *)

Carried(a, t) == \E r \in Requests : AggregateOf[r] = a /\ t = TenantOf[r]

\* A request that may still commit, or has, left a document behind; so the
\* listener never builds one, and the tenant it copies is one a request carried.
TenantInv ==
  /\ \A r \in Requests :
       reqPc[r] \in {"projected", "committed"} => mongo[AggregateOf[r]] # NoDoc
  /\ \A a \in Aggregates : mongo[a] # NoDoc => Carried(a, mongo[a].tenant)
  /\ \A c \in Consumers :
       conPc[c] = "loaded" => Carried(AggregateOf[Event(c)], loaded[c].tenant)

\* No request has written and nothing is loaded at first.
LEMMA TenantInit == Init => TenantInv
  BY PipelineAssumption DEF Init, TenantInv

\* Write-through, the listener's save and every failure keep TenantInv.
LEMMA TenantInvStep ==
  ASSUME TypeOK, DeliveryInv, RowInv, TenantInv, [Next]_vars PROVE TenantInv'
<1>0. WriterType /\ TopicType /\ ListenerType /\ DocumentType
  BY DEF TypeOK
<1>1. ASSUME NEW r \in Requests, Write(r) PROVE TenantInv'
  <2>1. UNCHANGED <<log, pos, conPc, loaded>>
    BY <1>1 DEF Write, SaveEntities, WriteFails, WriteThrough, Commit, deliveryVars
  <2>2. \A c \in Consumers :
          conPc'[c] = "loaded" => Carried(AggregateOf[Event(c)'], loaded'[c].tenant)
    BY <2>1 DEF TenantInv, Event
  <2>3. CASE WriteThrough(r)
    <3>1. AggregateOf[r] \in Aggregates /\ [src |-> r, tenant |-> TenantOf[r]] # NoDoc
      BY PipelineAssumption DEF NoDoc
    <3>2. \A a \in Aggregates : mongo'[a] = IF a = AggregateOf[r]
                                            THEN [src |-> r, tenant |-> TenantOf[r]]
                                            ELSE mongo[a]
      BY <1>0, <2>3 DEF WriteThrough, DocumentType
    <3>3. \A q \in Requests : reqPc'[q] \in {"projected", "committed"} =>
            q = r \/ reqPc[q] \in {"projected", "committed"}
      BY <1>0, <2>3 DEF WriteThrough, WriterType
    <3>4. \A q \in Requests : AggregateOf[q] \in Aggregates
      BY PipelineAssumption
    <3>5. \A q \in Requests :
            reqPc'[q] \in {"projected", "committed"} => mongo'[AggregateOf[q]] # NoDoc
      BY <3>1, <3>2, <3>3, <3>4 DEF TenantInv
    <3>6. \A a \in Aggregates : mongo'[a] # NoDoc => Carried(a, mongo'[a].tenant)
      BY <3>1, <3>2 DEF TenantInv, Carried
    <3>7. QED
      BY <2>2, <3>5, <3>6 DEF TenantInv
  <2>4. CASE ~WriteThrough(r)
    <3>1. mongo' = mongo
      BY <1>1, <2>4 DEF Write, SaveEntities, WriteFails, Commit, projectionVars
    <3>2. \A q \in Requests : reqPc'[q] \in {"projected", "committed"} =>
            reqPc[q] \in {"projected", "committed"}
      BY <1>0, <1>1, <2>4 DEF Write, SaveEntities, WriteFails, Commit, WriterType
    <3>3. QED
      BY <2>2, <3>1, <3>2 DEF TenantInv
  <2>5. QED
    BY <2>3, <2>4
<1>2. ASSUME NEW p \in Publishers, Publish(p) PROVE TenantInv'
  <2>1. UNCHANGED <<reqPc, mongo, pos, conPc, loaded>>
    BY <1>2 DEF Publish, Sweep, Send, BrokerAppends, SendFails, SendTimesOut,
                CommitSweep, SweepRollsBack, writerVars, deliveryVars, projectionVars
  <2>2. \A i \in 1 .. Len(log) : log'[i] = log[i]
    BY <1>0, <1>2, PublishAppends, AppendKeeps DEF TopicType
  <2>3. \A c \in Consumers : conPc[c] = "loaded" => Event(c)' = Event(c)
    BY <2>1, <2>2 DEF DeliveryInv, Event
  <2>4. QED
    BY <2>1, <2>3 DEF TenantInv
<1>3. ASSUME NEW c \in Consumers, Consume(c) PROVE TenantInv'
  <2>0. UNCHANGED <<reqPc, log>>
    BY <1>3, ConsumeFrame DEF writerVars
  <2>1. CASE Load(c)
    <3> DEFINE r == Event(c)
    <3>1. r \in Requests /\ reqPc[r] = "committed" /\ AggregateOf[r] \in Aggregates
      <4>1. pos[c] \in DOMAIN log
        BY <1>0, <2>1 DEF Load, DeliveryInv, TopicType
      <4>2. QED
        BY <1>0, <4>1, PipelineAssumption DEF TopicType, RowInv, OnlyCommittedEvents, Event
    <3>2. mongo[AggregateOf[r]] # NoDoc /\ mongo' = mongo /\ pos' = pos
      BY <2>1, <3>1 DEF Load, TenantInv, projectionVars
    <3>3. /\ loaded' = [loaded EXCEPT ![c] = mongo[AggregateOf[r]]]
          /\ conPc' = [conPc EXCEPT ![c] = "loaded"]
      BY <2>1, <3>2 DEF Load
    <3>4. loaded'[c] = mongo[AggregateOf[r]] /\ Event(c)' = r
      BY <1>0, <2>0, <3>2, <3>3 DEF DocumentType, ListenerType, Event
    <3>5. Carried(AggregateOf[Event(c)'], loaded'[c].tenant)
      BY <3>1, <3>2, <3>4 DEF TenantInv
    <3>6. \A d \in Consumers : d # c =>
            conPc'[d] = conPc[d] /\ loaded'[d] = loaded[d] /\ Event(d)' = Event(d)
      BY <1>0, <2>0, <3>2, <3>3 DEF DocumentType, ListenerType, Event
    <3>7. QED
      BY <2>0, <3>2, <3>5, <3>6 DEF TenantInv
  <2>2. CASE Save(c)
    <3> DEFINE a == AggregateOf[Event(c)]
    <3>1. Event(c) \in Requests /\ a \in Aggregates
      BY <1>0, <2>2, PipelineAssumption DEF Save, DeliveryInv, Event, TopicType
    <3>2. loaded[c] \in Documents \cup {NoDoc} /\ Carried(a, loaded[c].tenant)
      BY <1>0, <2>2 DEF DocumentType, TenantInv, Save
    <3>3. /\ applyEvent(loaded[c], Event(c)).tenant = loaded[c].tenant
          /\ applyEvent(loaded[c], Event(c)) # NoDoc
      BY <3>1, <3>2, PipelineAssumption DEF applyEvent, Documents, NoDoc
    <3>4. \A b \in Aggregates : mongo'[b] = IF b = a THEN applyEvent(loaded[c], Event(c)) ELSE mongo[b]
      BY <1>0, <2>2, <3>1 DEF Save, DocumentType
    <3>5. \A b \in Aggregates : mongo'[b] # NoDoc => Carried(b, mongo'[b].tenant)
      BY <3>2, <3>3, <3>4 DEF TenantInv
    <3>6. \A r \in Requests : AggregateOf[r] \in Aggregates
      BY PipelineAssumption
    <3>7. \A r \in Requests :
            reqPc[r] \in {"projected", "committed"} => mongo'[AggregateOf[r]] # NoDoc
      BY <3>3, <3>4, <3>6 DEF TenantInv
    <3>8. \A d \in Consumers : conPc'[d] = "loaded" =>
            conPc[d] = "loaded" /\ loaded'[d] = loaded[d] /\ Event(d)' = Event(d)
      BY <1>0, <2>0, <2>2 DEF Save, ListenerType, DocumentType, Event
    <3>9. QED
      BY <2>0, <3>5, <3>7, <3>8 DEF TenantInv
  <2>3. CASE ~Load(c) /\ ~Save(c)
    <3>1. mongo' = mongo
      BY <1>3, <2>3 DEF Consume, Poll, NextRecord, Acknowledge, Redeliver, DeadLetter, DeliveryThrows,
           Rebalance, projectionVars
    <3>2. ASSUME NEW d \in Consumers, conPc'[d] = "loaded"
          PROVE  conPc[d] = "loaded" /\ loaded'[d] = loaded[d] /\ pos'[d] = pos[d]
      <4>1. CASE Poll(c) \/ NextRecord(c)
        BY <1>0, <3>2, <4>1 DEF Poll, NextRecord, ListenerType
      <4>2. CASE Acknowledge(c) \/ Redeliver(c) \/ DeadLetter(c) \/ Rebalance(c)
        BY <1>0, <3>2, <4>2 DEF Acknowledge, Redeliver, DeadLetter, Rebalance, Drops, ListenerType,
             DocumentType
      <4>3. QED
        BY <1>3, <2>3, <4>1, <4>2 DEF Consume
    <3>3. QED
      BY <2>0, <3>1, <3>2 DEF TenantInv, Event
  <2>4. QED
    BY <2>1, <2>2, <2>3
<1>4. CASE UNCHANGED vars
  BY <1>4 DEF vars, writerVars, deliveryVars, projectionVars, TenantInv, Event
<1>5. QED
  BY <1>1, <1>2, <1>3, <1>4 DEF Next, Rest

\* Re-projecting events never invents a tenant: the document of a taxpayer
\* carries the tenant of one of its requests, across redeliveries, rebalances,
\* late saves and rolled-back requests.
THEOREM TenantNeverDowngraded == Spec => []TenantKept
<1>1. TenantInv => TenantKept
  BY DEF TenantInv, TenantKept, Carried
<1>2. TypeOK /\ DeliveryInv /\ RowInv /\ TenantInv /\ [Next]_vars => TenantInv'
  BY TenantInvStep
<1>3. QED
  BY <1>1, <1>2, TenantInit, DeliveryInvariant, OutboxInvariant, PTL DEF Spec
-----------------------------------------------------------------------------
(* While nothing fails: each event once                                      *)

\* An open sweep: its producer's queue holds the awaited record and nothing
\* else, and a row it has locked is pending and either still to be sent, awaited,
\* or marked.
BatchInv ==
  \A p \in Publishers :
    /\ producer[p] = IF sending[p] = None THEN <<>> ELSE <<sending[p]>>
    /\ batch[p] \subseteq locked[p]
    /\ marked[p] \subseteq locked[p]
    /\ batch[p] \cap marked[p] = {}
    /\ sending[p] # None => sending[p] \in locked[p] \ (batch[p] \cup marked[p])
    /\ \A r \in locked[p] : outbox[r] = "pending"

\* The row of a record in the topic can no longer be sent: it is published, or
\* marked by the sweep that still locks it.
TopicInv ==
  /\ \A r \in Requests :
       InLog(r) => outbox[r] = "published" \/ \E p \in Publishers : r \in marked[p]
  /\ \A i, j \in DOMAIN log : log[i] = log[j] => i = j

SentOnceInv == faults = 0 => BatchInv /\ TopicInv

\* A step into a state without faults is not a fault, and starts without one.
LEMMA Undisturbed ==
  ASSUME TypeOK, [Next]_vars, faults' = 0
  PROVE  /\ faults = 0
         /\ \/ \E r \in Requests : Write(r)
            \/ \E p \in Publishers : Sweep(p) \/ Send(p) \/ BrokerAppends(p) \/ CommitSweep(p)
            \/ \E c \in Consumers : Consume(c)
            \/ UNCHANGED vars
<1>0. faults \in Nat
  BY DEF TypeOK, TopicType
<1>1. ~Fault
  BY <1>0 DEF Fault
<1>2. ASSUME NEW p \in Publishers, Publish(p)
      PROVE  faults' = faults /\ (Sweep(p) \/ Send(p) \/ BrokerAppends(p) \/ CommitSweep(p))
  BY <1>1, <1>2 DEF Publish, Sweep, Send, BrokerAppends, CommitSweep, SendFails, SendTimesOut,
                    SweepRollsBack
<1>3. ASSUME NEW c \in Consumers, Consume(c)
      PROVE  faults' = faults
  BY <1>1, <1>3 DEF Consume, Poll, Load, Save, NextRecord, Acknowledge, Redeliver, DeadLetter,
                    DeliveryThrows, Rebalance
<1>4. ASSUME NEW r \in Requests, Write(r) PROVE faults' = faults
  BY <1>4 DEF Write, SaveEntities, WriteFails, WriteThrough, Commit
<1>5. CASE UNCHANGED vars
  BY <1>5 DEF vars
<1>6. QED
  BY <1>2, <1>3, <1>4, <1>5 DEF Next, Rest

\* What a sweep and the requests do not touch keeps BatchInv and TopicInv.
LEMMA SentOnceFrame ==
  ASSUME BatchInv, TopicInv, UNCHANGED <<outbox, sweepVars, producer, log>>
  PROVE  BatchInv' /\ TopicInv'
  BY DEF BatchInv, TopicInv, InLog, sweepVars

\* A request's commit adds a pending row that nobody has locked or sent yet.
LEMMA SentOnceWrite ==
  ASSUME TypeOK, SweepInv, RowInv, BatchInv, TopicInv, NEW r \in Requests, Write(r)
  PROVE  BatchInv' /\ TopicInv'
<1>0. WriterType /\ SweepType /\ TopicType
  BY DEF TypeOK
<1>1. UNCHANGED <<sweepVars, producer, log>>
  BY DEF Write, SaveEntities, WriteFails, WriteThrough, Commit
<1>2. outbox' = outbox \/ (reqPc[r] = "projected" /\ outbox' = [outbox EXCEPT ![r] = "pending"])
  BY DEF Write, SaveEntities, WriteFails, WriteThrough, Commit
<1>3. CASE outbox' = outbox
  BY <1>1, <1>3, SentOnceFrame
<1>4. CASE reqPc[r] = "projected" /\ outbox' = [outbox EXCEPT ![r] = "pending"]
  <2>1. ~InLog(r)
    BY <1>4 DEF InLog, RowInv, OnlyCommittedEvents
  <2>2. \A q \in Requests : outbox'[q] = IF q = r THEN "pending" ELSE outbox[q]
    BY <1>0, <1>4 DEF WriterType
  <2>3. BatchInv'
    BY <1>0, <1>1, <2>2 DEF BatchInv, sweepVars, SweepType
  <2>4. TopicInv'
    BY <1>1, <2>1, <2>2 DEF TopicInv, InLog, sweepVars
  <2>5. QED
    BY <2>3, <2>4
<1>5. QED
  BY <1>2, <1>3, <1>4

\* The four steps of an undisturbed sweep keep each row in one place.
LEMMA SentOnceSweep ==
  ASSUME TypeOK, SweepInv, RowInv, BatchInv, TopicInv, NEW p \in Publishers,
         Sweep(p) \/ Send(p) \/ BrokerAppends(p) \/ CommitSweep(p)
  PROVE  BatchInv' /\ TopicInv'
<1>0. WriterType /\ SweepType /\ TopicType
  BY DEF TypeOK
<1>1. CASE Sweep(p)
  <2>1. UNCHANGED <<outbox, marked, sending, producer, log>>
    BY <1>1 DEF Sweep
  <2>2. locked[p] = {} /\ Page(Lockable) \subseteq Lockable
    BY <1>1 DEF Sweep, Idle, Page
  <2>3. \A q \in Publishers :
          /\ batch'[q] = IF q = p THEN Page(Lockable) ELSE batch[q]
          /\ locked'[q] = IF q = p THEN Page(Lockable) ELSE locked[q]
    BY <1>0, <1>1 DEF Sweep, SweepType
  <2>4. BatchInv'
    BY <2>1, <2>2, <2>3, ZenonT(40) DEF BatchInv, Lockable
  <2>5. TopicInv'
    BY <2>1 DEF TopicInv, InLog
  <2>6. QED
    BY <2>4, <2>5
<1>2. CASE Send(p)
  <2>1. PICK r \in batch[p] : /\ batch' = [batch EXCEPT ![p] = @ \ {r}]
                              /\ sending' = [sending EXCEPT ![p] = r]
                              /\ producer' = [producer EXCEPT ![p] = Append(@, r)]
    BY <1>2 DEF Send
  <2>2. UNCHANGED <<outbox, locked, marked, log>> /\ sending[p] = None /\ r \in Requests
    BY <1>0, <1>2, <2>1 DEF Send, SweepType
  <2>3. producer[p] = <<>> /\ Append(<<>>, r) = <<r>>
    <3>1. producer[p] = <<>>
      BY <2>2 DEF BatchInv
    <3>2. Append(<<>>, r) = <<r>>
      OBVIOUS
    <3>3. QED
      BY <3>1, <3>2
  <2>4. \A q \in Publishers :
          /\ batch'[q] = IF q = p THEN batch[p] \ {r} ELSE batch[q]
          /\ sending'[q] = IF q = p THEN r ELSE sending[q]
          /\ producer'[q] = IF q = p THEN <<r>> ELSE producer[q]
    BY <1>0, <2>1, <2>3 DEF SweepType
  <2>5. r # None
    BY <2>2, PipelineAssumption
  <2>6. BatchInv'
    <3>1. \A q \in Publishers :
            producer'[q] = IF sending'[q] = None THEN <<>> ELSE <<sending'[q]>>
      BY <2>4, <2>5 DEF BatchInv
    <3>2. \A q \in Publishers :
            /\ batch'[q] \subseteq locked'[q]
            /\ marked'[q] \subseteq locked'[q]
            /\ batch'[q] \cap marked'[q] = {}
            /\ \A s \in locked'[q] : outbox'[s] = "pending"
      BY <2>2, <2>4 DEF BatchInv
    <3>3. ASSUME NEW q \in Publishers, sending'[q] # None
          PROVE  sending'[q] \in locked'[q] \ (batch'[q] \cup marked'[q])
      <4>1. CASE q = p
        <5>1. r \in locked[p] /\ r \notin marked[p]
          BY <2>1 DEF BatchInv
        <5>2. QED
          BY <2>2, <2>4, <4>1, <5>1
      <4>2. CASE q # p
        BY <2>2, <2>4, <3>3, <4>2 DEF BatchInv
      <4>3. QED
        BY <4>1, <4>2
    <3>4. QED
      BY <3>1, <3>2, <3>3 DEF BatchInv
  <2>7. TopicInv'
    BY <2>2 DEF TopicInv, InLog
  <2>8. QED
    BY <2>6, <2>7
<1>3. CASE BrokerAppends(p)
  <2>1. producer[p] # <<>> /\ UNCHANGED <<outbox, batch, locked>>
    BY <1>3 DEF BrokerAppends
  <2>2. PICK r \in Requests : r = sending[p]
    BY <1>0, <2>1 DEF BatchInv, SweepType
  <2>3. r # None /\ producer[p] = <<r>>
    BY <2>1, <2>2, PipelineAssumption DEF BatchInv
  <2>4. Head(producer[p]) = r /\ Tail(producer[p]) = <<>> /\ Len(producer[p]) = 1
    BY <2>3
  <2>5. AwaitedIsNext(p)
    BY <2>2, <2>3, <2>4 DEF AwaitedIsNext
  <2>6. /\ log' = Append(log, r)
        /\ producer' = [producer EXCEPT ![p] = <<>>]
        /\ marked' = [marked EXCEPT ![p] = @ \cup {r}]
        /\ sending' = [sending EXCEPT ![p] = None]
    BY <1>3, <2>2, <2>4, <2>5 DEF BrokerAppends
  <2>7. \A q \in Publishers :
          /\ producer'[q] = IF q = p THEN <<>> ELSE producer[q]
          /\ marked'[q] = IF q = p THEN marked[p] \cup {r} ELSE marked[q]
          /\ sending'[q] = IF q = p THEN None ELSE sending[q]
    BY <1>0, <2>6 DEF SweepType
  <2>8. r \in locked[p] \ (batch[p] \cup marked[p]) /\ outbox[r] = "pending"
    BY <2>2, <2>3 DEF BatchInv
  <2>9. BatchInv'
    BY <2>1, <2>7, <2>8, ZenonT(40) DEF BatchInv
  <2>10. ~InLog(r)
    <3>1. ASSUME NEW q \in Publishers, r \in marked[q] PROVE FALSE
      <4>1. r \in locked[q]
        BY <3>1 DEF BatchInv
      <4>2. q = p
        BY <2>8, <4>1 DEF SweepInv, RowsLockedOnce
      <4>3. QED
        BY <2>8, <3>1, <4>2
    <3>2. QED
      BY <2>8, <3>1 DEF TopicInv
  <2>11. log \in Seq(Requests)
    BY <1>0 DEF TopicType
  <2>12. \A q \in Requests : InLog(q)' => InLog(q) \/ q = r
    BY <2>6, <2>11, AppendKeeps DEF InLog
  <2>13. \A i, j \in DOMAIN log' : log'[i] = log'[j] => i = j
    <3>1. /\ DOMAIN log' = 1 .. Len(log) + 1
          /\ \A i \in 1 .. Len(log) : log'[i] = log[i] /\ log'[i] # r
          /\ log'[Len(log) + 1] = r
      BY <2>6, <2>10, <2>11, AppendKeeps DEF InLog
    <3>2. \A i \in DOMAIN log' : i \in 1 .. Len(log) \/ i = Len(log) + 1
      BY <2>11, <3>1
    <3>3. QED
      BY <2>11, <3>1, <3>2 DEF TopicInv
  <2>14. TopicInv'
    BY <2>1, <2>7, <2>12, <2>13 DEF TopicInv
  <2>15. QED
    BY <2>9, <2>14
<1>4. CASE CommitSweep(p)
  <2>1. UNCHANGED <<batch, sending, producer, log>> /\ SweepDone(p)
    BY <1>4 DEF CommitSweep
  <2>2. \A q \in Publishers :
          /\ locked'[q] = IF q = p THEN {} ELSE locked[q]
          /\ marked'[q] = IF q = p THEN {} ELSE marked[q]
    BY <1>0, <1>4 DEF CommitSweep, SweepType
  <2>3. \A r \in Requests : outbox'[r] = IF r \in marked[p] THEN "published" ELSE outbox[r]
    BY <1>4 DEF CommitSweep
  <2>4. \A q \in Publishers : q # p => \A r \in locked[q] : r \in Requests /\ r \notin marked[p]
    BY <1>0 DEF BatchInv, SweepInv, RowsLockedOnce, SweepType
  <2>5. BatchInv'
    BY <2>1, <2>2, <2>3, <2>4 DEF BatchInv, SweepDone
  <2>6. TopicInv'
    BY <2>1, <2>2, <2>3 DEF TopicInv, InLog
  <2>7. QED
    BY <2>5, <2>6
<1>5. QED
  BY <1>1, <1>2, <1>3, <1>4

\* Nothing is sent at first.
LEMMA SentOnceInit == Init => SentOnceInv
  BY DEF Init, SentOnceInv, BatchInv, TopicInv, InLog

\* SentOnceInv is kept by every step.
LEMMA SentOnceStep ==
  ASSUME TypeOK, SweepInv, RowInv, SentOnceInv, [Next]_vars PROVE SentOnceInv'
<1> SUFFICES ASSUME faults' = 0 PROVE BatchInv' /\ TopicInv'
  BY DEF SentOnceInv
<1>1. BatchInv /\ TopicInv
  BY Undisturbed DEF SentOnceInv
<1>2. ASSUME NEW c \in Consumers, Consume(c)
      PROVE  UNCHANGED <<outbox, sweepVars, producer, log>>
  BY <1>2, ConsumeFrame
<1>3. CASE UNCHANGED <<outbox, sweepVars, producer, log>>
  BY <1>1, <1>3, SentOnceFrame
<1>4. CASE UNCHANGED vars
  BY <1>3, <1>4 DEF vars
<1>5. QED
  BY <1>1, <1>2, <1>3, <1>4, Undisturbed, SentOnceWrite, SentOnceSweep

\* The undisturbed publisher's invariant holds in every state.
LEMMA SentOnceInvariant == Spec => []SentOnceInv
<1>1. TypeOK /\ SweepInv /\ RowInv /\ SentOnceInv /\ [Next]_vars => SentOnceInv'
  BY SentOnceStep
<1>2. QED
  BY <1>1, SentOnceInit, TypeCorrect, OutboxInvariant, PTL DEF Spec

\* With any number of publishers, at-least-once delivery is exactly-once until the
\* first fault: row locks and the commit of the marks let no sweep send a row twice.
THEOREM ExactlyOnceUndisturbed == Spec => []NoDuplicateWithoutFault
<1>1. SentOnceInv => NoDuplicateWithoutFault
  BY DEF SentOnceInv, TopicInv, NoDuplicateWithoutFault
<1>2. QED
  BY <1>1, SentOnceInvariant, PTL

-----------------------------------------------------------------------------
(* The order of the writes                                                   *)

\* Requests that have begun: the bracket was resolved, or the attempt failed.
Begun == {r \in Requests : reqPc[r] # "new"}

\* A write that began after another had committed has the later stamp, and only
\* finitely many requests have begun.
StampInv ==
  /\ \A r \in Requests : occurredAt[r] <= clock
  /\ \A r \in Requests : reqPc[r] = "new" => prior[r] = {}
  /\ \A r \in Requests : \A q \in prior[r] :
       /\ reqPc[q] = "committed"
       /\ AggregateOf[q] = AggregateOf[r]
       /\ occurredAt[q] < occurredAt[r]
  /\ IsFiniteSet(Begun)

\* A committed request left both rows, and the taxpayer's row is the version of a
\* request that no committed one came after.
CommitInv ==
  /\ \A r \in Requests : reqPc[r] = "committed" =>
       outbox[r] # "absent" /\ taxpayer[AggregateOf[r]] # None
  /\ \A a \in Aggregates : taxpayer[a] # None =>
       /\ AggregateOf[taxpayer[a]] = a
       /\ reqPc[taxpayer[a]] = "committed"
       /\ \A r \in Requests : reqPc[r] = "committed" => taxpayer[a] \notin prior[r]

\* No request has begun at first.
LEMMA WriterInit == Init => StampInv /\ CommitInv
<1> SUFFICES ASSUME Init PROVE StampInv /\ CommitInv
  OBVIOUS
<1>1. Begun = {}
  BY DEF Init, Begun
<1>2. IsFiniteSet(Begun)
  BY <1>1, FS_EmptySet
<1>3. QED
  BY <1>2 DEF Init, StampInv, CommitInv

\* Only requests change the writer's state; CommitSweep publishes pending rows.
LEMMA WriterFrame ==
  ASSUME TypeOK, [Next]_vars, \A r \in Requests : ~Write(r)
  PROVE  /\ UNCHANGED writerVars
         /\ \A r \in Requests : outbox[r] # "absent" => outbox'[r] # "absent"
<1>0. WriterType
  BY DEF TypeOK
<1>1. ASSUME NEW p \in Publishers, Publish(p)
      PROVE  /\ UNCHANGED writerVars
             /\ \A r \in Requests : outbox[r] # "absent" => outbox'[r] # "absent"
  BY <1>0, <1>1 DEF Publish, Sweep, Send, BrokerAppends, SendFails, SendTimesOut,
                    CommitSweep, SweepRollsBack
<1>2. ASSUME NEW c \in Consumers, Consume(c) PROVE UNCHANGED <<writerVars, outbox>>
  BY <1>2, ConsumeFrame
<1>3. CASE UNCHANGED vars
  BY <1>3 DEF vars
<1>4. QED
  BY <1>1, <1>2, <1>3 DEF Next, Rest

\* A request takes its stamp after those it finds committed took theirs.
LEMMA StampStep ==
  ASSUME TypeOK, TypeOK', StampInv, [Next]_vars PROVE StampInv'
<1>0. WriterType /\ WriterType'
  BY DEF TypeOK
<1>1. ASSUME NEW r \in Requests, Write(r) PROVE StampInv'
  <2>1. Begun' \subseteq Begun \cup {r}
    BY <1>0, <1>1 DEF Begun, WriterType, Write, SaveEntities, WriteFails, WriteThrough, Commit
  <2>2. IsFiniteSet(Begun')
    <3>1. IsFiniteSet(Begun \cup {r})
      BY FS_AddElement DEF StampInv
    <3>2. QED
      BY <2>1, <3>1, FS_Subset
  <2>3. CASE SaveEntities(r)
    <3>1. /\ reqPc[r] = "new"
          /\ clock' = clock + 1 /\ clock \in Nat
          /\ \A q \in Requests : occurredAt[q] \in Nat
          /\ \A q \in Requests : occurredAt'[q] = IF q = r THEN clock + 1 ELSE occurredAt[q]
          /\ \A q \in Requests : reqPc'[q] = IF q = r THEN "saved" ELSE reqPc[q]
          /\ \A q \in Requests : q # r => prior'[q] = prior[q]
          /\ prior'[r] = {q \in Requests : /\ AggregateOf[q] = AggregateOf[r]
                                           /\ reqPc[q] = "committed"}
      BY <1>0, <2>3 DEF SaveEntities, WriterType
    <3>2. \A q \in Requests : occurredAt'[q] <= clock'
      BY <3>1 DEF StampInv
    <3>3. \A q \in Requests : reqPc'[q] = "new" => prior'[q] = {}
      BY <3>1 DEF StampInv
    <3>4. ASSUME NEW s \in Requests, NEW q \in prior'[s]
          PROVE  /\ reqPc'[q] = "committed"
                 /\ AggregateOf[q] = AggregateOf[s]
                 /\ occurredAt'[q] < occurredAt'[s]
      <4>1. q \in Requests
        BY <1>0, <3>4 DEF WriterType
      <4>2. CASE s = r
        <5>1. reqPc[q] = "committed" /\ q # r /\ AggregateOf[q] = AggregateOf[s]
          BY <3>1, <3>4, <4>2
        <5>2. occurredAt'[q] = occurredAt[q] /\ occurredAt[q] <= clock /\ occurredAt'[s] = clock + 1
          BY <3>1, <4>1, <4>2, <5>1 DEF StampInv
        <5>3. QED
          BY <3>1, <4>1, <5>1, <5>2
      <4>3. CASE s # r
        <5>1. q \in prior[s]
          BY <3>1, <3>4, <4>3
        <5>2. reqPc[q] = "committed" /\ q # r /\ AggregateOf[q] = AggregateOf[s] /\ occurredAt[q] < occurredAt[s]
          BY <3>1, <5>1 DEF StampInv
        <5>3. QED
          BY <3>1, <4>1, <4>3, <5>2
      <4>4. QED
        BY <4>2, <4>3
    <3>5. QED
      BY <2>2, <3>2, <3>3, <3>4 DEF StampInv
  <2>4. CASE ~SaveEntities(r)
    <3>1. UNCHANGED <<prior, occurredAt, clock>>
      BY <1>1, <2>4 DEF Write, WriteFails, WriteThrough, Commit
    <3>2. \A q \in Requests : reqPc'[q] = "new" => reqPc[q] = "new"
      BY <1>0, <1>1, <2>4 DEF Write, WriteFails, WriteThrough, Commit, WriterType
    <3>3. \A s \in Requests : \A q \in prior[s] : q \in Requests
      BY <1>0 DEF WriterType
    <3>4. QED
      BY <2>2, <3>1, <3>2, <3>3, CommittedStays DEF StampInv
  <2>5. QED
    BY <2>3, <2>4
<1>2. CASE \A r \in Requests : ~Write(r)
  BY <1>2, WriterFrame DEF StampInv, Begun, writerVars
<1>3. QED
  BY <1>1, <1>2

\* The request that commits last is the one the taxpayer's row names.
LEMMA CommitStep ==
  ASSUME TypeOK, TypeOK', StampInv, CommitInv, [Next]_vars PROVE CommitInv'
<1>0. WriterType /\ WriterType'
  BY DEF TypeOK
<1>1. ASSUME NEW r \in Requests, Write(r) PROVE CommitInv'
  <2>0. AggregateOf[r] \in Aggregates /\ r # None
    BY PipelineAssumption
  <2>1. CASE taxpayer' = taxpayer
    <3>1. /\ UNCHANGED outbox
          /\ \A q \in Requests : reqPc'[q] = "committed" => reqPc[q] = "committed"
          /\ \A q \in Requests : reqPc'[q] = "committed" => prior'[q] = prior[q]
      <4>1. CASE SaveEntities(r) \/ WriteFails(r) \/ WriteThrough(r)
        BY <1>0, <4>1 DEF SaveEntities, WriteFails, WriteThrough, WriterType
      <4>2. CASE Commit(r)
        <5>1. ~(existed[r] \/ taxpayer[AggregateOf[r]] = None) \/ taxpayer[AggregateOf[r]] = r
          BY <1>0, <2>0, <2>1, <4>2 DEF Commit, WriterType
        <5>2. reqPc[r] = "projected"
          BY <4>2 DEF Commit
        <5>3. taxpayer[AggregateOf[r]] # r
          BY <2>0, <5>2 DEF CommitInv
        <5>4. QED
          BY <1>0, <4>2, <5>1, <5>3 DEF Commit, WriterType
      <4>3. QED
        BY <1>1, <4>1, <4>2 DEF Write
    <3>2. \A a \in Aggregates : taxpayer[a] # None => taxpayer[a] \in Requests
      BY <1>0 DEF WriterType
    <3>3. QED
      BY <2>1, <3>1, <3>2, CommittedStays DEF CommitInv
  <2>2. CASE taxpayer' # taxpayer
    <3>1. /\ reqPc[r] = "projected"
          /\ prior' = prior
          /\ \A q \in Requests : reqPc'[q] = IF q = r THEN "committed" ELSE reqPc[q]
          /\ \A q \in Requests : outbox'[q] = IF q = r THEN "pending" ELSE outbox[q]
          /\ \A a \in Aggregates : taxpayer'[a] = IF a = AggregateOf[r] THEN r ELSE taxpayer[a]
      BY <1>0, <1>1, <2>0, <2>2 DEF Write, SaveEntities, WriteFails, WriteThrough, Commit, WriterType
    <3>2. \A q \in Requests : r \notin prior[q]
      BY <3>1 DEF StampInv
    <3>3. \A q \in Requests : AggregateOf[q] \in Aggregates
      BY PipelineAssumption
    <3>4. \A q \in Requests : reqPc'[q] = "committed" =>
            outbox'[q] # "absent" /\ taxpayer'[AggregateOf[q]] # None
      BY <2>0, <3>1, <3>3 DEF CommitInv
    <3>5. ASSUME NEW a \in Aggregates, taxpayer'[a] # None
          PROVE  /\ AggregateOf[taxpayer'[a]] = a
                 /\ reqPc'[taxpayer'[a]] = "committed"
                 /\ \A q \in Requests : reqPc'[q] = "committed" => taxpayer'[a] \notin prior'[q]
      <4>1. CASE a = AggregateOf[r]
        BY <3>1, <3>2, <4>1
      <4>2. CASE a # AggregateOf[r]
        <5>1. PICK w \in Requests : w = taxpayer[a] /\ taxpayer'[a] = w
          BY <1>0, <3>1, <3>5, <4>2 DEF WriterType
        <5>2. AggregateOf[w] = a /\ reqPc[w] = "committed"
          BY <3>5, <4>2, <5>1, <3>1 DEF CommitInv
        <5>3. w \notin prior[r]
          BY <4>2, <5>2 DEF StampInv
        <5>4. \A q \in Requests : reqPc[q] = "committed" => w \notin prior[q]
          BY <3>5, <5>1 DEF CommitInv
        <5>5. QED
          BY <3>1, <5>1, <5>2, <5>3, <5>4
      <4>3. QED
        BY <4>1, <4>2
    <3>6. QED
      BY <3>4, <3>5 DEF CommitInv
  <2>3. QED
    BY <2>1, <2>2
<1>2. CASE \A r \in Requests : ~Write(r)
  BY <1>2, WriterFrame DEF CommitInv, writerVars
<1>3. QED
  BY <1>1, <1>2

\* The writers' invariant holds in every state.
LEMMA WriterInvariant == Spec => [](StampInv /\ CommitInv)
<1>1. TypeOK /\ TypeOK' /\ StampInv /\ CommitInv /\ [Next]_vars => (StampInv /\ CommitInv)'
  BY StampStep, CommitStep
<1>2. QED
  BY <1>1, WriterInit, TypeCorrect, PTL DEF Spec

\* The first page of the rows by occurred_at holds, with a row, every older one.
LEMMA PageIsPrefix ==
  ASSUME TypeOK, StampInv, NEW S \in SUBSET Begun, NEW q \in Page(S), NEW r \in S,
         occurredAt[r] < occurredAt[q]
  PROVE  r \in Page(S)
<1> DEFINE Older(x) == {y \in S : occurredAt[y] < occurredAt[x]}
<1>1. Older(r) \subseteq Older(q)
  <2>1. q \in Requests /\ r \in Requests /\ \A y \in S : y \in Requests
    BY DEF Page, Begun
  <2>2. occurredAt[q] \in Nat /\ occurredAt[r] \in Nat /\ \A y \in S : occurredAt[y] \in Nat
    BY <2>1 DEF TypeOK, WriterType
  <2>3. QED
    BY <2>2
<1>2. IsFiniteSet(Older(q)) /\ IsFiniteSet(Older(r))
  <2>1. Older(q) \subseteq Begun /\ Older(r) \subseteq Begun /\ IsFiniteSet(Begun)
    BY DEF StampInv
  <2>2. QED
    BY <2>1, FS_Subset
<1>3. /\ Cardinality(Older(r)) \in Nat /\ Cardinality(Older(q)) \in Nat
      /\ Cardinality(Older(r)) <= Cardinality(Older(q))
  BY <1>1, <1>2, FS_Subset, FS_CardinalityType
<1>4. Cardinality(Older(q)) < BatchSize
  BY DEF Page
<1>5. Cardinality(Older(r)) < BatchSize
  BY <1>3, <1>4, PipelineAssumption
<1>6. QED
  BY <1>5 DEF Page

\* What a request found committed when it began is never changed later.
LEMMA PriorStays ==
  ASSUME TypeOK, [Next]_vars, NEW q \in Requests, reqPc[q] = "committed"
  PROVE  prior'[q] = prior[q] /\ \A r \in prior[q] : r \in Requests
<1>0. WriterType
  BY DEF TypeOK
<1>1. ASSUME NEW r \in Requests, Write(r) PROVE prior'[q] = prior[q]
  BY <1>0, <1>1 DEF Write, SaveEntities, WriteFails, WriteThrough, Commit, WriterType
<1>2. CASE \A r \in Requests : ~Write(r)
  BY <1>0, <1>2, WriterFrame DEF writerVars, WriterType
<1>3. QED
  BY <1>0, <1>1, <1>2 DEF WriterType

\* Rows and records under way belong to committed requests.
LEMMA UnderWayCommitted ==
  ASSUME TypeOK, SweepInv, RowInv
  PROVE  /\ \A i \in DOMAIN log : log[i] \in Requests /\ reqPc[log[i]] = "committed"
         /\ \A p \in Publishers : \A i \in DOMAIN producer[p] :
              producer[p][i] \in Requests /\ reqPc[producer[p][i]] = "committed"
         /\ \A p \in Publishers : \A q \in batch[p] : q \in Requests /\ reqPc[q] = "committed"
<1>0. SweepType /\ TopicType
  BY DEF TypeOK
<1>1. \A i \in DOMAIN log : log[i] \in Requests /\ reqPc[log[i]] = "committed"
  BY <1>0 DEF RowInv, OnlyCommittedEvents, TopicType
<1>2. ASSUME NEW p \in Publishers, NEW i \in DOMAIN producer[p]
      PROVE  producer[p][i] \in Requests /\ reqPc[producer[p][i]] = "committed"
  <2>1. producer[p] \in Seq(Requests)
    BY <1>0 DEF SweepType
  <2>2. QED
    BY <1>2, <2>1 DEF RowInv, OnlyCommittedEvents
<1>3. \A p \in Publishers : \A q \in batch[p] : q \in Requests /\ reqPc[q] = "committed"
  BY <1>0 DEF SweepInv, SweepType
<1>4. QED
  BY <1>1, <1>2, <1>3

\* The steps of the requests and the consumers leave the sweeps alone.
LEMMA SweepFrame ==
  ASSUME [Next]_vars, \A p \in Publishers : ~Publish(p)
  PROVE  UNCHANGED <<sweepVars, producer, log>>
<1>1. ASSUME NEW r \in Requests, Write(r) PROVE UNCHANGED <<sweepVars, producer, log>>
  BY <1>1 DEF Write, SaveEntities, WriteFails, WriteThrough, Commit
<1>2. CASE UNCHANGED vars
  BY <1>2 DEF vars
<1>3. QED
  BY <1>1, <1>2, ConsumeFrame DEF Next, Rest

\* Nothing holds a row back any more: its event is in the topic, or it was passed over.
Settled(r) == r \in passedOver \/ InLog(r)

\* A sweep sends what came before a row before it sends the row, or has passed
\* it over; what came before a record of an accumulator is settled.
OrderInv ==
  /\ \A p \in Publishers : \A i \in DOMAIN producer[p] :
       \A r \in prior[producer[p][i]] : Settled(r)
  /\ \A p \in Publishers : \A q \in batch[p] : \A r \in prior[q] :
       Settled(r) \/ r \in batch[p] \/ r = sending[p]
  /\ OrderUnlessPassedOver

\* What is settled stays so.
LEMMA SettledStays ==
  ASSUME TypeOK, [Next]_vars, NEW r \in Requests, Settled(r)
  PROVE  Settled(r)'
<1>1. passedOver \subseteq passedOver'
  <2>1. ASSUME NEW p \in Publishers, Publish(p) PROVE passedOver \subseteq passedOver'
    BY <2>1 DEF Publish, Sweep, Send, BrokerAppends, SendFails, SendTimesOut, CommitSweep,
                SweepRollsBack
  <2>2. QED
    BY <2>1, SweepFrame DEF sweepVars
<1>2. QED
  BY <1>1, CommittedStays DEF Settled

\* A page holds what came before its rows, unless it is settled or another sweep has it.
LEMMA PageIsClosed ==
  ASSUME TypeOK, RowInv, StampInv, CommitInv, NEW q \in Page(Lockable), NEW r \in prior[q]
  PROVE  outbox[r] = "published" \/ r \in Page(Lockable) \/ r \in Skipped
<1>0. WriterType
  BY DEF TypeOK
<1>1. q \in Lockable /\ q \in Requests
  BY DEF Page, Lockable
<1>2. r \in Requests /\ reqPc[r] = "committed" /\ occurredAt[r] < occurredAt[q]
  BY <1>0, <1>1 DEF StampInv, WriterType
<1>3. outbox[r] \in {"pending", "published"}
  BY <1>0, <1>2 DEF CommitInv, WriterType
<1>4. CASE outbox[r] = "pending" /\ r \in Lockable
  <2>1. Lockable \in SUBSET Begun
    BY DEF Lockable, RowInv, Begun
  <2>2. QED
    BY <1>2, <1>4, <2>1, PageIsPrefix
<1>5. CASE outbox[r] = "pending" /\ r \notin Lockable
  BY <1>2, <1>5 DEF Skipped
<1>6. QED
  BY <1>3, <1>4, <1>5

\* Every step of a sweep keeps the order, faults and other sweeps included.
LEMMA OrderSweep ==
  ASSUME TypeOK, SweepInv, RowInv, StampInv, CommitInv, OrderInv, [Next]_vars,
         NEW p \in Publishers, Publish(p)
  PROVE  OrderInv'
<1>0. WriterType /\ SweepType /\ TopicType
  BY DEF TypeOK
<1>1. UNCHANGED prior
  BY DEF Publish, Sweep, Send, BrokerAppends, SendFails, SendTimesOut, CommitSweep,
         SweepRollsBack, writerVars
<1>2. \A q \in Requests : \A r \in prior[q] : r \in Requests /\ r # None
  BY <1>0, PipelineAssumption DEF WriterType
<1>3. \A p1 \in Publishers : p1 # p =>
        batch'[p1] = batch[p1] /\ sending'[p1] = sending[p1] /\ producer'[p1] = producer[p1]
  BY <1>0 DEF SweepType, Publish, Sweep, Send, BrokerAppends, SendFails, SendTimesOut,
       CommitSweep, SweepRollsBack
<1>4. producer[p] \in Seq(Requests)
  BY <1>0 DEF SweepType
<1>5. ASSUME NEW i \in DOMAIN producer'[p]
      PROVE  \A r \in prior[producer'[p][i]] : Settled(r)'
  <2>1. CASE Send(p)
    <3>1. PICK q \in batch[p] : /\ \A s \in batch[p] : occurredAt[q] <= occurredAt[s]
                                /\ producer' = [producer EXCEPT ![p] = Append(@, q)]
      BY <2>1 DEF Send
    <3>2. q \in Requests /\ sending[p] = None
      BY <1>0, <2>1, <3>1 DEF Send, SweepType
    <3>3. ASSUME NEW r \in prior[q] PROVE Settled(r)
      <4>1. r \in Requests /\ r # None /\ occurredAt[r] < occurredAt[q]
        BY <1>2, <3>2, <3>3 DEF StampInv
      <4>2. occurredAt[r] \in Nat /\ occurredAt[q] \in Nat
        BY <1>0, <3>2, <4>1 DEF WriterType
      <4>3. r \notin batch[p]
        BY <3>1, <4>1, <4>2
      <4>4. QED
        BY <3>1, <3>2, <3>3, <4>1, <4>3 DEF OrderInv
    <3>4. producer'[p] = Append(producer[p], q)
      BY <1>0, <3>1 DEF SweepType
    <3>5. CASE i \in DOMAIN producer[p]
      BY <1>2, <1>4, <3>2, <3>4, <3>5, SettledStays, AppendKeeps, UnderWayCommitted DEF OrderInv
    <3>6. CASE i \notin DOMAIN producer[p]
      <4>1. producer'[p][i] = q
        BY <1>4, <1>5, <3>2, <3>4, <3>6
      <4>2. QED
        BY <1>2, <3>2, <3>3, <4>1, SettledStays
    <3>7. QED
      BY <3>5, <3>6
  <2>2. CASE BrokerAppends(p) \/ SendFails(p)
    <3>1. producer[p] # <<>> /\ producer'[p] = Tail(producer[p])
      BY <1>0, <2>2 DEF BrokerAppends, SendFails, SweepType
    <3>2. i + 1 \in DOMAIN producer[p] /\ producer'[p][i] = producer[p][i + 1]
      BY <1>4, <1>5, <3>1, QueueTypes
    <3>3. QED
      BY <1>2, <3>2, SettledStays, UnderWayCommitted DEF OrderInv
  <2>3. CASE ~Send(p) /\ ~BrokerAppends(p) /\ ~SendFails(p)
    <3>1. producer'[p] = producer[p] \/ producer'[p] = <<>>
      BY <1>0, <2>3 DEF SweepType, Publish, Sweep, SendTimesOut, CommitSweep, SweepRollsBack
    <3>2. producer'[p] = producer[p]
      BY <1>5, <3>1
    <3>3. QED
      BY <1>2, <1>5, <3>2, SettledStays, UnderWayCommitted DEF OrderInv
  <2>4. QED
    BY <2>1, <2>2, <2>3
<1>6. ASSUME NEW q \in batch'[p], NEW r \in prior[q]
      PROVE  Settled(r)' \/ r \in batch'[p] \/ r = sending'[p]
  <2>1. CASE Sweep(p)
    <3>1. batch'[p] = Page(Lockable) /\ passedOver' = passedOver \cup Skipped /\ UNCHANGED <<log, outbox>>
      BY <1>0, <2>1 DEF Sweep, SweepType
    <3>2. outbox[r] = "published" \/ r \in Page(Lockable) \/ r \in Skipped
      BY <1>6, <3>1, PageIsClosed
    <3>3. q \in Requests
      BY <1>6, <3>1 DEF Page, Lockable
    <3>4. outbox[r] = "published" => InLog(r)
      BY <1>2, <1>6, <3>3 DEF RowInv, PublishedIsInLog, InLog
    <3>5. QED
      BY <3>1, <3>2, <3>4 DEF Settled, InLog
  <2>2. CASE ~Sweep(p)
    <3>1. q \in batch[p] /\ q \in Requests
      BY <1>0, <1>6, <2>2 DEF SweepType, Publish, Send, BrokerAppends, SendFails, SendTimesOut,
           CommitSweep, SweepRollsBack
    <3>2. r \in Requests /\ r # None
      BY <1>2, <1>6, <3>1
    <3>3. CASE Settled(r)
      BY <3>2, <3>3, SettledStays
    <3>4. CASE r \in batch[p]
      <4>1. r \in batch'[p] \/ r = sending'[p]
        BY <1>0, <1>6, <2>2, <3>4 DEF SweepType, Publish, Send, BrokerAppends, SendFails, SendTimesOut,
             CommitSweep, SweepRollsBack
      <4>2. QED
        BY <4>1
    <3>5. CASE r = sending[p]
      <4>1. CASE BrokerAppends(p) /\ AwaitedIsNext(p)
        <5>1. producer[p] # <<>> /\ Len(producer[p]) = 1 /\ producer[p][Len(producer[p])] = r
          BY <3>2, <3>5, <4>1 DEF BrokerAppends, AwaitedIsNext, SweepInv
        <5>2. Head(producer[p]) = r
          BY <1>4, <5>1, QueueTypes
        <5>3. log' = Append(log, r) /\ log \in Seq(Requests)
          BY <1>0, <4>1, <5>2 DEF BrokerAppends, TopicType
        <5>4. QED
          BY <3>2, <5>3, AppendKeeps DEF Settled, InLog
      <4>2. CASE (SendFails(p) /\ AwaitedIsNext(p)) \/ SendTimesOut(p)
        BY <3>5, <4>2 DEF SendFails, SendTimesOut, Settled
      <4>3. CASE SweepRollsBack(p)
        BY <1>0, <1>6, <4>3 DEF SweepRollsBack, SweepType
      <4>4. CASE sending'[p] = sending[p]
        BY <3>5, <4>4
      <4>5. CASE Send(p)
        BY <3>2, <3>5, <4>5 DEF Send
      <4>6. CASE CommitSweep(p)
        BY <4>4, <4>6 DEF CommitSweep
      <4>7. CASE (BrokerAppends(p) \/ SendFails(p)) /\ ~AwaitedIsNext(p)
        BY <4>4, <4>7 DEF BrokerAppends, SendFails
      <4>8. QED
        BY <2>2, <4>1, <4>2, <4>3, <4>5, <4>6, <4>7 DEF Publish
    <3>6. QED
      BY <1>6, <3>1, <3>3, <3>4, <3>5 DEF OrderInv
  <2>3. QED
    BY <2>1, <2>2
<1>7. OrderUnlessPassedOver'
  <2>1. passedOver \subseteq passedOver'
    BY DEF Publish, Sweep, Send, BrokerAppends, SendFails, SendTimesOut, CommitSweep, SweepRollsBack
  <2>2. CASE log' = log
    BY <1>1, <2>1, <2>2 DEF OrderInv, OrderUnlessPassedOver
  <2>3. ASSUME NEW h \in Requests, log' = Append(log, h), producer[p] # <<>>, h = Head(producer[p])
        PROVE  OrderUnlessPassedOver'
    <3>1. /\ Len(log') = Len(log) + 1 /\ Len(log) \in Nat
          /\ DOMAIN log' = 1 .. Len(log) + 1 /\ DOMAIN log = 1 .. Len(log)
          /\ \A i \in 1 .. Len(log) : log'[i] = log[i]
          /\ log'[Len(log) + 1] = h
      BY <1>0, <2>3, AppendKeeps DEF TopicType
    <3>2. \A r \in prior[h] : Settled(r)
      <4>1. 1 \in DOMAIN producer[p] /\ producer[p][1] = h
        BY <1>4, <2>3, QueueTypes
      <4>2. QED
        BY <4>1 DEF OrderInv
    <3>3. ASSUME NEW j \in 1 .. Len(log), NEW r \in prior[log[j]]
          PROVE  r \in passedOver' \/ \E i \in 1 .. j - 1 : log'[i] = r
      <4>1. r \in passedOver \/ \E i \in 1 .. j - 1 : log[i] = r
        BY <3>1, <3>3 DEF OrderInv, OrderUnlessPassedOver
      <4>2. 1 .. j - 1 \subseteq 1 .. Len(log)
        BY <3>1, <3>3
      <4>3. QED
        BY <2>1, <3>1, <4>1, <4>2
    <3>4. ASSUME NEW r \in prior[h]
          PROVE  r \in passedOver' \/ \E i \in 1 .. (Len(log) + 1) - 1 : log'[i] = r
      <4>1. (Len(log) + 1) - 1 = Len(log)
        BY <3>1
      <4>2. QED
        BY <2>1, <3>1, <3>2, <3>4, <4>1 DEF Settled, InLog
    <3>5. \A j \in DOMAIN log' : j \in 1 .. Len(log) \/ j = Len(log) + 1
      BY <3>1
    <3>6. QED
      BY <1>1, <3>1, <3>3, <3>4, <3>5 DEF OrderUnlessPassedOver
  <2>4. QED
    BY <2>2, <2>3, PublishAppends
<1>8. \A p1 \in Publishers : \A i \in DOMAIN producer'[p1] :
        \A r \in prior[producer'[p1][i]] : Settled(r)'
  BY <1>2, <1>3, <1>5, SettledStays, UnderWayCommitted DEF OrderInv
<1>9. \A p1 \in Publishers : \A q \in batch'[p1] : \A r \in prior[q] :
        Settled(r)' \/ r \in batch'[p1] \/ r = sending'[p1]
  BY <1>2, <1>3, <1>6, SettledStays, UnderWayCommitted DEF OrderInv
<1>10. QED
  BY <1>1, <1>7, <1>8, <1>9 DEF OrderInv

\* Steps that leave the sweeps and the topic alone keep the order.
LEMMA OrderFrame ==
  ASSUME TypeOK, SweepInv, RowInv, OrderInv, [Next]_vars, UNCHANGED <<sweepVars, producer, log>>
  PROVE  OrderInv'
<1>1. OrderUnlessPassedOver'
  BY UnderWayCommitted, PriorStays DEF OrderInv, OrderUnlessPassedOver, sweepVars
<1>2. \A p \in Publishers : \A i \in DOMAIN producer[p] :
        \A r \in prior'[producer[p][i]] : Settled(r)
  BY UnderWayCommitted, PriorStays DEF OrderInv
<1>3. \A p \in Publishers : \A q \in batch[p] : \A r \in prior'[q] :
        Settled(r) \/ r \in batch[p] \/ r = sending[p]
  BY UnderWayCommitted, PriorStays DEF OrderInv
<1>4. QED
  BY <1>1, <1>2, <1>3 DEF OrderInv, Settled, InLog, sweepVars

\* The order invariant holds in every state.
LEMMA OrderInvariant == Spec => []OrderInv
<1>1. Init => OrderInv
  BY DEF Init, OrderInv, OrderUnlessPassedOver
<1>2. TypeOK /\ SweepInv /\ RowInv /\ StampInv /\ CommitInv /\ OrderInv /\ [Next]_vars => OrderInv'
  BY OrderSweep, OrderFrame, SweepFrame
<1>3. QED
  BY <1>1, <1>2, TypeCorrect, OutboxInvariant, WriterInvariant, PTL DEF Spec

\* For any number of publishers and faults: an event overtakes that of an earlier
\* write of its taxpayer only if the earlier row was passed over.
THEOREM OrderKept == Spec => []OrderUnlessPassedOver
<1>1. OrderInv => OrderUnlessPassedOver
  BY DEF OrderInv
<1>2. QED
  BY <1>1, OrderInvariant, PTL

-----------------------------------------------------------------------------
(* The rows of a taxpayer that are not passed over                           *)

\* An open sweep: the rows it has locked are pending, and each is still to be
\* sent, awaited, marked, or passed over; it sends them oldest first. What an
\* accumulator holds is awaited or was given up.
HoldInv ==
  \A p \in Publishers :
    /\ \A r \in locked[p] :
         /\ outbox[r] = "pending"
         /\ r \in batch[p] \/ r = sending[p] \/ r \in marked[p] \/ r \in passedOver
    /\ batch[p] \subseteq locked[p] /\ marked[p] \subseteq locked[p]
    /\ batch[p] \cap marked[p] = {}
    /\ sending[p] # None =>
         /\ sending[p] \in locked[p] \ (batch[p] \cup marked[p])
         /\ \A q \in batch[p] : occurredAt[sending[p]] <= occurredAt[q]
    /\ \A i \in DOMAIN producer[p] :
         \/ producer[p][i] \in passedOver
         \/ sending[p] # None /\ i = Len(producer[p])

\* No rows are held at first.
LEMMA HoldInit == Init => HoldInv
  BY DEF Init, HoldInv

\* What the sweeps and the rows do not touch keeps HoldInv.
LEMMA HoldFrame ==
  ASSUME HoldInv, UNCHANGED <<outbox, sweepVars, producer, occurredAt>> PROVE HoldInv'
  BY DEF HoldInv, sweepVars

\* Requests add rows and stamps; a locked row's are not among them.
LEMMA HoldWrite ==
  ASSUME TypeOK, SweepInv, RowInv, HoldInv, NEW r \in Requests, Write(r) PROVE HoldInv'
<1>0. WriterType /\ SweepType
  BY DEF TypeOK
<1>1. UNCHANGED <<sweepVars, producer>>
  BY DEF Write, SaveEntities, WriteFails, WriteThrough, Commit
<1>2. reqPc[r] # "committed"
  BY DEF Write, SaveEntities, WriteFails, WriteThrough, Commit
<1>3. \A q \in Requests : q # r => outbox'[q] = outbox[q] /\ occurredAt'[q] = occurredAt[q]
  BY <1>0 DEF Write, SaveEntities, WriteFails, WriteThrough, Commit, WriterType
<1>4. \A p \in Publishers : \A q \in locked[p] : q \in Requests /\ q # r
  BY <1>0, <1>2 DEF HoldInv, RowInv, SweepType
<1>5. \A p \in Publishers : /\ batch[p] \subseteq locked[p]
                            /\ sending[p] # None => sending[p] \in locked[p]
  BY DEF HoldInv
<1>6. QED
  BY <1>1, <1>3, <1>4, <1>5 DEF HoldInv, sweepVars

\* The sweep's own steps.
LEMMA HoldSweep ==
  ASSUME TypeOK, TypeOK', SweepInv, RowInv, HoldInv, NEW p \in Publishers, Publish(p)
  PROVE  HoldInv'
<1>0. WriterType /\ SweepType
  BY DEF TypeOK
<1>1. UNCHANGED occurredAt
  BY DEF Publish, Sweep, Send, BrokerAppends, SendFails, SendTimesOut, CommitSweep,
         SweepRollsBack, writerVars
<1>2. passedOver \subseteq passedOver'
  BY DEF Publish, Sweep, Send, BrokerAppends, SendFails, SendTimesOut, CommitSweep, SweepRollsBack
<1>3. \A p1 \in Publishers : p1 # p =>
        /\ batch'[p1] = batch[p1] /\ sending'[p1] = sending[p1] /\ producer'[p1] = producer[p1]
        /\ locked'[p1] = locked[p1] /\ marked'[p1] = marked[p1]
  BY <1>0 DEF SweepType, Publish, Sweep, Send, BrokerAppends, SendFails, SendTimesOut,
       CommitSweep, SweepRollsBack
<1>4. ASSUME NEW p1 \in Publishers, p1 # p, NEW r \in locked[p1] PROVE outbox'[r] = outbox[r]
  <2>1. r \in Requests /\ r \notin marked[p]
    BY <1>0, <1>4 DEF HoldInv, SweepInv, RowsLockedOnce, SweepType
  <2>2. QED
    BY <1>0, <2>1 DEF Publish, Sweep, Send, BrokerAppends, SendFails, SendTimesOut, CommitSweep,
         SweepRollsBack
<1>5. producer[p] \in Seq(Requests) /\ sending[p] \in Requests \cup {None} /\ None \notin Requests
  BY <1>0, PipelineAssumption DEF SweepType
<1> DEFINE Held(p1) ==
      /\ \A r \in locked[p1] :
           /\ outbox[r] = "pending"
           /\ r \in batch[p1] \/ r = sending[p1] \/ r \in marked[p1] \/ r \in passedOver
      /\ batch[p1] \subseteq locked[p1] /\ marked[p1] \subseteq locked[p1]
      /\ batch[p1] \cap marked[p1] = {}
      /\ sending[p1] # None =>
           /\ sending[p1] \in locked[p1] \ (batch[p1] \cup marked[p1])
           /\ \A q \in batch[p1] : occurredAt[sending[p1]] <= occurredAt[q]
    Queued(p1) ==
      \A i \in DOMAIN producer[p1] :
        \/ producer[p1][i] \in passedOver
        \/ sending[p1] # None /\ i = Len(producer[p1])
<1>6. \A p1 \in Publishers : Held(p1) /\ Queued(p1)
  BY DEF HoldInv
<1>7. Held(p)' /\ Queued(p)'
  <2>0. Held(p) /\ Queued(p)
    BY <1>6
  <2>1. CASE Sweep(p)
    <3>1. /\ UNCHANGED <<outbox, marked, sending, producer>> /\ locked[p] = {}
          /\ batch'[p] = Page(Lockable) /\ locked'[p] = Page(Lockable)
      BY <1>0, <2>1 DEF Sweep, Idle, SweepType
    <3>2. sending[p] = None /\ marked[p] = {}
      BY <2>0, <3>1
    <3>3. \A r \in Page(Lockable) : outbox[r] = "pending"
      BY DEF Page, Lockable
    <3>4. QED
      BY <1>2, <2>0, <3>1, <3>2, <3>3
  <2>2. CASE Send(p)
    <3>1. PICK r \in batch[p] : /\ \A q \in batch[p] : occurredAt[r] <= occurredAt[q]
                                /\ batch' = [batch EXCEPT ![p] = @ \ {r}]
                                /\ sending' = [sending EXCEPT ![p] = r]
                                /\ producer' = [producer EXCEPT ![p] = Append(@, r)]
      BY <2>2 DEF Send
    <3>2. /\ UNCHANGED <<outbox, locked, marked, passedOver>> /\ sending[p] = None
          /\ batch'[p] = batch[p] \ {r} /\ sending'[p] = r
          /\ producer'[p] = Append(producer[p], r)
      BY <1>0, <2>2, <3>1 DEF Send, SweepType
    <3>3. r \in Requests /\ r # None
      BY <1>0, <1>5, <3>1 DEF SweepType
    <3>4. Held(p)'
      <4>1. r \in locked[p] /\ r \notin marked[p]
        BY <2>0, <3>1
      <4>2. \A x \in locked[p] : x # None
        BY <1>0, <1>5 DEF SweepType
      <4>3. ASSUME NEW x \in locked[p]
            PROVE  /\ outbox[x] = "pending"
                   /\ x \in batch'[p] \/ x = sending'[p] \/ x \in marked[p] \/ x \in passedOver
        BY <2>0, <3>2, <4>2, <4>3
      <4>4. batch'[p] \subseteq locked[p] /\ marked[p] \subseteq locked[p] /\ batch'[p] \cap marked[p] = {}
        BY <2>0, <3>2
      <4>5. sending'[p] \in locked[p] \ (batch'[p] \cup marked[p])
        BY <3>2, <4>1
      <4>6. \A q \in batch'[p] : occurredAt'[sending'[p]] <= occurredAt'[q]
        BY <1>1, <3>1, <3>2
      <4>7. QED
        BY <3>2, <4>3, <4>4, <4>5, <4>6
    <3>5. Queued(p)'
      <4>1. /\ Len(producer'[p]) = Len(producer[p]) + 1
            /\ DOMAIN producer'[p] = 1 .. Len(producer[p]) + 1
            /\ DOMAIN producer[p] = 1 .. Len(producer[p])
            /\ \A i \in 1 .. Len(producer[p]) : producer'[p][i] = producer[p][i]
        BY <1>5, <3>2, <3>3, AppendKeeps
      <4>2. \A i \in 1 .. Len(producer[p]) : producer[p][i] \in passedOver
        BY <2>0, <3>2, <4>1
      <4>3. QED
        BY <1>5, <3>2, <3>3, <4>1, <4>2
    <3>6. QED
      BY <3>4, <3>5
  <2>3. CASE BrokerAppends(p) \/ SendFails(p)
    <3>1. /\ producer[p] # <<>> /\ producer'[p] = Tail(producer[p])
          /\ UNCHANGED <<outbox, batch, locked>>
      BY <1>0, <2>3 DEF BrokerAppends, SendFails, SweepType
    <3>2. CASE AwaitedIsNext(p)
      <4>1. Len(producer[p]) = 1 /\ sending[p] # None /\ sending'[p] = None
        BY <1>0, <2>3, <3>2 DEF AwaitedIsNext, BrokerAppends, SendFails, SweepType
      <4>2. \/ marked'[p] = marked[p] \cup {sending[p]} /\ passedOver' = passedOver
            \/ marked'[p] = marked[p] /\ passedOver' = passedOver \cup {sending[p]}
        BY <1>0, <2>3, <3>2 DEF BrokerAppends, SendFails, SweepType
      <4>3. Held(p)'
        <5>1. sending[p] \in locked[p] \ (batch[p] \cup marked[p])
          BY <2>0, <4>1
        <5>2. ASSUME NEW x \in locked[p]
              PROVE  /\ outbox[x] = "pending"
                     /\ x \in batch[p] \/ x \in marked'[p] \/ x \in passedOver'
          BY <2>0, <4>2, <5>2
        <5>3. marked'[p] \subseteq locked[p] /\ batch[p] \cap marked'[p] = {}
          BY <2>0, <4>2, <5>1
        <5>4. batch[p] \subseteq locked[p]
          BY <2>0
        <5>5. QED
          BY <3>1, <4>1, <5>2, <5>3, <5>4
      <4>4. DOMAIN producer'[p] = {}
        <5>1. producer'[p] \in Seq(Requests) /\ Len(producer'[p]) = 0
          BY <1>5, <3>1, <4>1, QueueTypes
        <5>2. DOMAIN producer'[p] = 1 .. Len(producer'[p])
          BY <5>1
        <5>3. QED
          BY <5>1, <5>2
      <4>5. QED
        BY <4>3, <4>4
    <3>3. CASE ~AwaitedIsNext(p)
      <4>1. UNCHANGED <<marked, sending, passedOver>>
        BY <2>3, <3>3 DEF BrokerAppends, SendFails
      <4>2. Held(p)'
        BY <1>1, <2>0, <3>1, <4>1
      <4>3. Queued(p)'
        <5>1. /\ Len(producer'[p]) = Len(producer[p]) - 1 /\ Len(producer[p]) \in Nat \ {0}
              /\ DOMAIN producer'[p] = 1 .. Len(producer[p]) - 1
              /\ \A i \in 1 .. Len(producer[p]) - 1 : producer'[p][i] = producer[p][i + 1]
          BY <1>5, <3>1, QueueTypes
        <5>2. ASSUME NEW i \in DOMAIN producer'[p]
              PROVE  producer'[p][i] \in passedOver \/ (sending[p] # None /\ i = Len(producer'[p]))
          <6>1. i + 1 \in DOMAIN producer[p]
            BY <1>5, <5>1, <5>2
          <6>2. producer[p][i + 1] \in passedOver \/ (sending[p] # None /\ i + 1 = Len(producer[p]))
            BY <2>0, <6>1
          <6>3. QED
            BY <5>1, <5>2, <6>2
        <5>3. QED
          BY <4>1, <5>2
      <4>4. QED
        BY <4>2, <4>3
    <3>4. QED
      BY <3>2, <3>3
  <2>4. CASE SendTimesOut(p)
    <3>1. /\ UNCHANGED <<outbox, batch, locked, marked, producer>> /\ sending'[p] = None
          /\ sending[p] # None /\ passedOver' = passedOver \cup {sending[p]}
      BY <1>0, <2>4 DEF SendTimesOut, SweepType
    <3>2. producer[p][Len(producer[p])] = sending[p]
      BY <3>1 DEF SweepInv
    <3>3. QED
      BY <2>0, <3>1, <3>2
  <2>5. CASE CommitSweep(p) \/ SweepRollsBack(p)
    <3>1. /\ locked'[p] = {} /\ marked'[p] = {} /\ batch'[p] = {} /\ sending'[p] = None
          /\ passedOver' = passedOver
      BY <1>0, <2>5 DEF CommitSweep, SweepRollsBack, SweepDone, SweepType
    <3>2. producer'[p] = <<>> \/ (producer'[p] = producer[p] /\ sending[p] = None)
      BY <1>0, <2>5 DEF CommitSweep, SweepRollsBack, SweepDone, SweepType
    <3>3. QED
      BY <2>0, <3>1, <3>2
  <2>6. QED
    BY <2>1, <2>2, <2>3, <2>4, <2>5 DEF Publish
<1>8. \A p1 \in Publishers : p1 # p => Held(p1)' /\ Queued(p1)'
  BY <1>1, <1>2, <1>3, <1>4, <1>6
<1>9. QED
  BY <1>7, <1>8 DEF HoldInv

\* The rows of open sweeps stay accounted for, whatever the sweeps meet.
LEMMA HoldInvariant == Spec => []HoldInv
<1>1. ASSUME TypeOK, TypeOK', SweepInv, RowInv, HoldInv, [Next]_vars PROVE HoldInv'
  <2>1. ASSUME NEW c \in Consumers, Consume(c) PROVE HoldInv'
    <3>1. UNCHANGED <<outbox, sweepVars, producer, occurredAt>>
      BY <2>1, ConsumeFrame DEF writerVars
    <3>2. QED
      BY <1>1, <3>1, HoldFrame
  <2>2. CASE UNCHANGED vars
    <3>1. UNCHANGED <<outbox, sweepVars, producer, occurredAt>>
      BY <2>2 DEF vars, writerVars
    <3>2. QED
      BY <1>1, <3>1, HoldFrame
  <2>3. QED
    BY <1>1, <2>1, <2>2, HoldWrite, HoldSweep DEF Next, Rest
<1>2. QED
  BY <1>1, HoldInit, TypeCorrect, OutboxInvariant, PTL DEF Spec

\* What came before a row, passed over rows aside, is published before the row
\* is, is marked by the sweep that marks it, and is locked by the sweep that locks it.
OvertakenInv ==
  \A w \in Requests : \A r \in prior[w] \ passedOver :
    /\ outbox[w] = "published" => outbox[r] = "published"
    /\ \A p \in Publishers :
         /\ w \in marked[p] => outbox[r] = "published" \/ r \in marked[p]
         /\ w \in locked[p] => outbox[r] = "published" \/ r \in locked[p]

\* Some record of the row is behind all those of what came before it.
WrittenLast(w) ==
  \E i \in DOMAIN log :
    /\ log[i] = w
    /\ \A k \in DOMAIN log : log[k] \in prior[w] \ passedOver => k < i

LastInv ==
  \A w \in Requests :
    outbox[w] = "published" \/ (\E p \in Publishers : w \in marked[p]) => WrittenLast(w)

\* No row is locked, marked or published at first.
LEMMA LastInit == Init => OvertakenInv /\ LastInv
  BY DEF Init, OvertakenInv, LastInv

\* Passed over rows stay so.
LEMMA PassedOverStays == ASSUME [Next]_vars PROVE passedOver \subseteq passedOver'
<1>1. ASSUME NEW p \in Publishers, Publish(p) PROVE passedOver \subseteq passedOver'
  BY <1>1 DEF Publish, Sweep, Send, BrokerAppends, SendFails, SendTimesOut, CommitSweep,
              SweepRollsBack
<1>2. QED
  BY <1>1, SweepFrame DEF sweepVars

\* A request adds rows and changes what came before it, of rows no sweep holds.
LEMMA LastWrite ==
  ASSUME TypeOK, SweepInv, RowInv, StampInv, HoldInv, OvertakenInv, LastInv,
         NEW q \in Requests, Write(q)
  PROVE  OvertakenInv' /\ LastInv'
<1>0. WriterType /\ SweepType
  BY DEF TypeOK
<1>1. UNCHANGED <<sweepVars, log>>
  BY DEF Write, SaveEntities, WriteFails, WriteThrough, Commit
<1>2. reqPc[q] # "committed"
  BY DEF Write, SaveEntities, WriteFails, WriteThrough, Commit
<1>3. \A w \in Requests : w # q => outbox'[w] = outbox[w] /\ prior'[w] = prior[w]
  BY <1>0 DEF Write, SaveEntities, WriteFails, WriteThrough, Commit, WriterType
<1>4. outbox'[q] # "published" /\ outbox[q] = "absent"
  BY <1>0, <1>2 DEF Write, SaveEntities, WriteFails, WriteThrough, Commit, WriterType, RowInv
<1>5. \A p \in Publishers : q \notin locked[p] /\ q \notin marked[p]
  BY <1>4 DEF HoldInv
<1>6. \A w \in Requests : \A r \in prior[w] : r \in Requests /\ r # q
  BY <1>0, <1>2 DEF StampInv, WriterType
<1>7. OvertakenInv'
  BY <1>1, <1>3, <1>4, <1>5, <1>6 DEF OvertakenInv, sweepVars
<1>8. LastInv'
  BY <1>1, <1>3, <1>4, <1>5 DEF LastInv, WrittenLast, sweepVars
<1>9. QED
  BY <1>7, <1>8

\* A sweep locks, sends and marks what came before a row before the row itself.
LEMMA OvertakenSweep ==
  ASSUME TypeOK, SweepInv, RowInv, StampInv, CommitInv, HoldInv, OvertakenInv, [Next]_vars,
         NEW p \in Publishers, Publish(p)
  PROVE  OvertakenInv'
<1>0. WriterType /\ SweepType
  BY DEF TypeOK
<1>1. UNCHANGED prior
  BY DEF Publish, Sweep, Send, BrokerAppends, SendFails, SendTimesOut, CommitSweep,
         SweepRollsBack, writerVars
<1>2. ASSUME NEW w \in Requests, NEW r \in prior'[w] \ passedOver'
      PROVE  /\ outbox'[w] = "published" => outbox'[r] = "published"
             /\ \A p1 \in Publishers :
                  /\ w \in marked'[p1] => outbox'[r] = "published" \/ r \in marked'[p1]
                  /\ w \in locked'[p1] => outbox'[r] = "published" \/ r \in locked'[p1]
  <2>0. /\ r \in prior[w] /\ r \notin passedOver /\ r \in Requests /\ r # w
        /\ occurredAt[r] < occurredAt[w]
        /\ occurredAt[r] \in Nat /\ occurredAt[w] \in Nat
    BY <1>0, <1>1, <1>2, PassedOverStays DEF StampInv, WriterType
  <2>1. /\ outbox[w] = "published" => outbox[r] = "published"
        /\ \A p1 \in Publishers :
             /\ w \in marked[p1] => outbox[r] = "published" \/ r \in marked[p1]
             /\ w \in locked[p1] => outbox[r] = "published" \/ r \in locked[p1]
    BY <2>0 DEF OvertakenInv
  <2>2. CASE Sweep(p)
    <3>1. /\ UNCHANGED <<outbox, marked>> /\ passedOver' = passedOver \cup Skipped
          /\ \A p1 \in Publishers : locked'[p1] = IF p1 = p THEN Page(Lockable) ELSE locked[p1]
      BY <1>0, <2>2 DEF Sweep, SweepType
    <3>2. w \in Page(Lockable) => outbox[r] = "published" \/ r \in Page(Lockable)
      BY <1>2, <2>0, <3>1, PageIsClosed
    <3>3. QED
      BY <2>1, <3>1, <3>2
  <2>3. CASE BrokerAppends(p)
    <3>1. UNCHANGED <<outbox, locked>>
      BY <2>3 DEF BrokerAppends
    <3>2. CASE AwaitedIsNext(p)
      <4>1. /\ sending[p] # None
            /\ \A p1 \in Publishers :
                 marked'[p1] = IF p1 = p THEN marked[p] \cup {sending[p]} ELSE marked[p1]
        BY <1>0, <2>3, <3>2 DEF BrokerAppends, AwaitedIsNext, SweepType
      <4>2. w = sending[p] => outbox[r] = "published" \/ r \in marked[p]
        <5>1. SUFFICES ASSUME w = sending[p], outbox[r] # "published" PROVE r \in marked[p]
          OBVIOUS
        <5>2. w \in locked[p] /\ \A x \in batch[p] : occurredAt[w] <= occurredAt[x]
          BY <4>1, <5>1 DEF HoldInv
        <5>3. r \in locked[p]
          BY <2>1, <5>1, <5>2
        <5>4. r \notin batch[p]
          BY <2>0, <5>2
        <5>5. QED
          BY <2>0, <5>1, <5>3, <5>4 DEF HoldInv
      <4>3. QED
        BY <2>1, <3>1, <4>1, <4>2
    <3>3. CASE ~AwaitedIsNext(p)
      <4>1. marked' = marked
        BY <2>3, <3>3 DEF BrokerAppends
      <4>2. QED
        BY <2>1, <3>1, <4>1
    <3>4. QED
      BY <3>2, <3>3
  <2>4. CASE CommitSweep(p) \/ SweepRollsBack(p)
    <3>1. /\ \A p1 \in Publishers : locked'[p1] = IF p1 = p THEN {} ELSE locked[p1]
          /\ \A p1 \in Publishers : marked'[p1] = IF p1 = p THEN {} ELSE marked[p1]
      BY <1>0, <2>4 DEF CommitSweep, SweepRollsBack, SweepType
    <3>2. CASE outbox' = outbox
      BY <2>1, <3>1, <3>2
    <3>3. CASE \A x \in Requests : outbox'[x] = IF x \in marked[p] THEN "published" ELSE outbox[x]
      BY <2>0, <2>1, <3>1, <3>3
    <3>4. QED
      BY <2>4, <3>2, <3>3 DEF CommitSweep, SweepRollsBack
  <2>5. CASE Send(p) \/ SendFails(p) \/ SendTimesOut(p)
    <3>1. UNCHANGED <<outbox, locked, marked>>
      BY <2>5 DEF Send, SendFails, SendTimesOut
    <3>2. QED
      BY <2>1, <3>1
  <2>6. QED
    BY <2>2, <2>3, <2>4, <2>5 DEF Publish
<1>3. QED
  BY <1>2 DEF OvertakenInv

\* Once a row is marked no record of what came before it is appended any more.
LEMMA LastSweep ==
  ASSUME TypeOK, SweepInv, RowInv, StampInv, HoldInv, OvertakenInv, LastInv, [Next]_vars,
         NEW p \in Publishers, Publish(p)
  PROVE  LastInv'
<1>0. WriterType /\ SweepType /\ TopicType
  BY DEF TypeOK
<1>1. UNCHANGED prior /\ passedOver \subseteq passedOver'
  BY PassedOverStays
     DEF Publish, Sweep, Send, BrokerAppends, SendFails, SendTimesOut, CommitSweep,
         SweepRollsBack, writerVars
<1>2. CASE ~BrokerAppends(p)
  <2>1. /\ log' = log
        /\ \A p1 \in Publishers : marked'[p1] \subseteq marked[p1]
    BY <1>0, <1>2 DEF Publish, Sweep, Send, SendFails, SendTimesOut, CommitSweep,
         SweepRollsBack, SweepType
  <2>2. \A w \in Requests : outbox'[w] = "published" => outbox[w] = "published" \/ w \in marked[p]
    BY <1>0, <1>2 DEF Publish, Sweep, Send, SendFails, SendTimesOut, CommitSweep,
         SweepRollsBack, WriterType
  <2>3. QED
    BY <1>1, <2>1, <2>2 DEF LastInv, WrittenLast
<1>3. CASE BrokerAppends(p)
  <2>1. producer[p] # <<>> /\ outbox' = outbox /\ log' = Append(log, Head(producer[p]))
    BY <1>3 DEF BrokerAppends
  <2>2. PICK h \in Requests : h = Head(producer[p]) /\ producer[p][1] = h
    BY <1>0, <2>1, QueueTypes DEF SweepType
  <2>3. /\ Len(log) \in Nat /\ DOMAIN log = 1 .. Len(log) /\ DOMAIN log' = 1 .. Len(log) + 1
        /\ \A i \in 1 .. Len(log) : log'[i] = log[i]
        /\ log'[Len(log) + 1] = h
    BY <1>0, <2>1, <2>2, AppendKeeps DEF TopicType
  <2>4. ASSUME NEW w \in Requests, WrittenLast(w), h \notin prior[w] \ passedOver
        PROVE  WrittenLast(w)'
    <3>1. PICK i \in 1 .. Len(log) :
            log[i] = w /\ \A k \in 1 .. Len(log) : log[k] \in prior[w] \ passedOver => k < i
      BY <2>3, <2>4 DEF WrittenLast
    <3>2. i \in DOMAIN log' /\ log'[i] = w
      BY <2>3, <3>1
    <3>3. ASSUME NEW k \in DOMAIN log', log'[k] \in prior'[w] \ passedOver' PROVE k < i
      <4>1. log'[k] # h /\ log'[k] \in prior[w] \ passedOver
        BY <1>1, <2>4, <3>3
      <4>2. k \in 1 .. Len(log)
        BY <2>3, <3>3, <4>1
      <4>3. QED
        BY <2>3, <3>1, <4>1, <4>2
    <3>4. QED
      BY <3>2, <3>3 DEF WrittenLast
  <2>5. ASSUME NEW w \in Requests, NEW p1 \in Publishers,
               outbox[w] = "published" \/ w \in marked[p1], h \in prior[w] \ passedOver
        PROVE  FALSE
    <3>1. 1 \in DOMAIN producer[p]
      BY <1>0, <2>1, QueueTypes DEF SweepType
    <3>2. sending[p] # None /\ 1 = Len(producer[p])
      BY <2>2, <2>5, <3>1 DEF HoldInv
    <3>3. sending[p] = h
      BY <2>1, <2>2, <3>2 DEF SweepInv
    <3>4. h \in locked[p] /\ h \notin marked[p] /\ outbox[h] = "pending"
      BY <3>2, <3>3 DEF HoldInv
    <3>5. w \in marked[p1] /\ h \in marked[p1]
      BY <2>5, <3>4 DEF OvertakenInv
    <3>6. h \in locked[p1] /\ p1 # p
      BY <3>4, <3>5 DEF HoldInv
    <3>7. QED
      BY <3>4, <3>6 DEF SweepInv, RowsLockedOnce
  <2>6. ASSUME NEW w \in Requests, w = h PROVE WrittenLast(w)'
    <3>1. Len(log) + 1 \in DOMAIN log' /\ log'[Len(log) + 1] = w
      BY <2>3, <2>6
    <3>2. ASSUME NEW k \in DOMAIN log', log'[k] \in prior'[w] \ passedOver' PROVE k < Len(log) + 1
      <4>1. log'[k] \in prior[w]
        BY <1>1, <3>2
      <4>2. w \notin prior[w]
        BY <1>0 DEF StampInv, WriterType
      <4>3. k # Len(log) + 1
        BY <3>1, <4>1, <4>2
      <4>4. QED
        BY <2>3, <3>2, <4>3
    <3>3. QED
      BY <3>1, <3>2 DEF WrittenLast
  <2>7. ASSUME NEW w \in Requests, NEW p1 \in Publishers, w \in marked'[p1]
        PROVE  w \in marked[p1] \/ w = h
    <3>1. CASE AwaitedIsNext(p)
      <4>1. sending[p] # None /\ Len(producer[p]) = 1
        BY <3>1 DEF AwaitedIsNext
      <4>2. sending[p] = h
        BY <2>1, <2>2, <4>1 DEF SweepInv
      <4>3. marked' = [marked EXCEPT ![p] = @ \cup {h}]
        BY <1>3, <3>1, <4>2 DEF BrokerAppends
      <4>4. QED
        BY <1>0, <2>7, <4>3 DEF SweepType
    <3>2. CASE ~AwaitedIsNext(p)
      BY <1>3, <2>7, <3>2 DEF BrokerAppends
    <3>3. QED
      BY <3>1, <3>2
  <2>8. ASSUME NEW w \in Requests, outbox'[w] = "published" \/ \E p1 \in Publishers : w \in marked'[p1]
        PROVE  WrittenLast(w)'
    <3>1. CASE w = h
      BY <2>6, <3>1
    <3>2. CASE w # h
      <4>1. outbox[w] = "published" \/ \E p1 \in Publishers : w \in marked[p1]
        BY <2>1, <2>7, <2>8, <3>2
      <4>2. h \notin prior[w] \ passedOver
        BY <2>5, <4>1
      <4>3. QED
        BY <2>4, <4>1, <4>2 DEF LastInv
    <3>3. QED
      BY <3>1, <3>2
  <2>9. QED
    BY <2>8 DEF LastInv
<1>4. QED
  BY <1>2, <1>3

\* Both hold in every state.
LEMMA LastInvariant == Spec => [](OvertakenInv /\ LastInv)
<1>1. ASSUME TypeOK, SweepInv, RowInv, StampInv, CommitInv, HoldInv, OvertakenInv, LastInv, [Next]_vars
      PROVE  OvertakenInv' /\ LastInv'
  <2>1. ASSUME NEW c \in Consumers, Consume(c) PROVE UNCHANGED <<outbox, sweepVars, prior, log>>
    BY <2>1, ConsumeFrame DEF writerVars
  <2>2. CASE UNCHANGED vars
    BY <2>2, <1>1 DEF vars, writerVars, sweepVars, OvertakenInv, LastInv, WrittenLast
  <2>3. CASE UNCHANGED <<outbox, sweepVars, prior, log>>
    BY <2>3, <1>1 DEF sweepVars, OvertakenInv, LastInv, WrittenLast
  <2>4. QED
    BY <1>1, <2>1, <2>2, <2>3, LastWrite, OvertakenSweep, LastSweep DEF Next, Rest
<1>2. QED
  BY <1>1, LastInit, TypeCorrect, OutboxInvariant, WriterInvariant, HoldInvariant, PTL DEF Spec

-----------------------------------------------------------------------------
(* The read model converges                                                  *)

\* How far the owner of the partition has got in the topic: the poll under way
\* counts up to the record it is at.
Progress ==
  IF conPc[owner] = "idle" THEN offset
  ELSE IF conPc[owner] = "saved" THEN pos[owner] ELSE pos[owner] - 1

\* A request that the event's writer had not seen committed has written Mongo.
Overwritten(i) ==
  \E q \in Requests :
    /\ AggregateOf[q] = AggregateOf[log[i]]
    /\ q # log[i]
    /\ q \notin prior[log[i]]
    /\ reqPc[q] \in {"projected", "committed", "failed"}

\* The taxpayer's document shows the event or one further on in the topic, unless
\* the event was dead-lettered, a late save came in, or a request wrote it.
Shown(i) ==
  \/ i \in dlt
  \/ \E k \in lateSaves : AggregateOf[log[k]] = AggregateOf[log[i]]
  \/ \E k \in i .. Len(log) : /\ AggregateOf[log[k]] = AggregateOf[log[i]]
                              /\ mongo[AggregateOf[log[i]]].src = log[k]
  \/ Overwritten(i)

ProjectionInv ==
  /\ lateSaves \subseteq 1 .. Len(log)
  /\ \A i \in 1 .. Progress : Shown(i)

\* The owner is past the committed offset and within the topic.
LEMMA ProgressBounds ==
  ASSUME TypeOK, DeliveryInv
  PROVE  Progress \in Nat /\ Len(log) \in Nat /\ offset <= Progress /\ Progress <= Len(log)
<1>1. /\ offset \in Nat /\ Len(log) \in Nat /\ owner \in Consumers /\ pos[owner] \in Nat
  BY DEF TypeOK, TopicType, ListenerType
<1>2. CASE conPc[owner] = "idle"
  BY <1>1, <1>2 DEF Progress, DeliveryInv
<1>3. CASE conPc[owner] # "idle"
  <2>1. pos[owner] \in 1 .. Len(log) /\ pos[owner] > offset
    BY <1>1, <1>3 DEF DeliveryInv
  <2>2. Progress \in {pos[owner], pos[owner] - 1}
    BY <1>3 DEF Progress
  <2>3. QED
    BY <1>1, <2>1, <2>2
<1>4. QED
  BY <1>2, <1>3

\* The topic keeps its records.
LEMMA LogKeeps ==
  ASSUME TypeOK, [Next]_vars
  PROVE  /\ Len(log) \in Nat /\ Len(log') \in Nat /\ Len(log) <= Len(log')
         /\ \A k \in 1 .. Len(log) : log'[k] = log[k] /\ log[k] \in Requests
<1>0. log \in Seq(Requests)
  BY DEF TypeOK, TopicType
<1>1. CASE log' = log
  BY <1>0, <1>1
<1>2. ASSUME NEW p \in Publishers, Publish(p), NEW r \in Requests, log' = Append(log, r)
      PROVE  /\ Len(log) \in Nat /\ Len(log') \in Nat /\ Len(log) <= Len(log')
             /\ \A k \in 1 .. Len(log) : log'[k] = log[k] /\ log[k] \in Requests
  BY <1>0, <1>2, AppendKeeps
<1>3. QED
  BY <1>1, <1>2, PublishAppends, SweepFrame

\* An event that is shown stays so until its taxpayer's document changes.
LEMMA ShownStays ==
  ASSUME TypeOK, RowInv, [Next]_vars, lateSaves \subseteq 1 .. Len(log),
         dlt \subseteq dlt', lateSaves \subseteq lateSaves',
         NEW i \in 1 .. Len(log), Shown(i),
         mongo'[AggregateOf[log[i]]] = mongo[AggregateOf[log[i]]]
  PROVE  Shown(i)'
<1>1. /\ Len(log) \in Nat /\ Len(log') \in Nat /\ Len(log) <= Len(log')
      /\ \A k \in 1 .. Len(log) : log'[k] = log[k] /\ log[k] \in Requests
  BY LogKeeps
<1>2. log[i] \in Requests /\ log'[i] = log[i]
  BY <1>1
<1>3. CASE i \in dlt
  BY <1>3 DEF Shown
<1>4. CASE \E k \in lateSaves : AggregateOf[log[k]] = AggregateOf[log[i]]
  BY <1>1, <1>2, <1>4 DEF Shown
<1>5. CASE \E k \in i .. Len(log) : /\ AggregateOf[log[k]] = AggregateOf[log[i]]
                                    /\ mongo[AggregateOf[log[i]]].src = log[k]
  <2>1. PICK k \in i .. Len(log) : /\ AggregateOf[log[k]] = AggregateOf[log[i]]
                                   /\ mongo[AggregateOf[log[i]]].src = log[k]
    BY <1>5
  <2>2. k \in 1 .. Len(log) /\ k \in i .. Len(log')
    BY <1>1, <2>1
  <2>3. QED
    BY <1>1, <1>2, <2>1, <2>2 DEF Shown
<1>6. ASSUME NEW q \in Requests, AggregateOf[q] = AggregateOf[log[i]], q # log[i],
             q \notin prior[log[i]], reqPc[q] \in {"projected", "committed", "failed"}
      PROVE  Shown(i)'
  <2>1. prior'[log[i]] = prior[log[i]]
    BY <1>2, PriorStays DEF RowInv, OnlyCommittedEvents
  <2>2. reqPc'[q] \in {"projected", "committed", "failed"}
    <3>1. ASSUME NEW r \in Requests, Write(r) PROVE reqPc'[q] \in {"projected", "committed", "failed"}
      BY <1>6, <3>1 DEF Write, SaveEntities, WriteFails, WriteThrough, Commit, TypeOK, WriterType
    <3>2. CASE \A r \in Requests : ~Write(r)
      BY <1>6, <3>2, WriterFrame DEF writerVars
    <3>3. QED
      BY <3>1, <3>2
  <2>3. QED
    BY <1>2, <1>6, <2>1, <2>2 DEF Shown, Overwritten
<1>7. QED
  BY <1>3, <1>4, <1>5, <1>6 DEF Shown, Overwritten

\* A request that writes a taxpayer's document began after, or along with, the
\* write of each of its events in the topic.
LEMMA ProjectionWrite ==
  ASSUME TypeOK, DeliveryInv, RowInv, StampInv, ProjectionInv, [Next]_vars,
         NEW r \in Requests, Write(r)
  PROVE  ProjectionInv'
<1>0. WriterType /\ DocumentType /\ AggregateOf[r] \in Aggregates
  BY PipelineAssumption DEF TypeOK
<1>1. UNCHANGED <<log, offset, owner, conPc, pos, dlt, lateSaves>>
  BY DEF Write, SaveEntities, WriteFails, WriteThrough, Commit, deliveryVars, projectionVars
<1>2. Progress' = Progress
  BY <1>1 DEF Progress
<1>3. ASSUME NEW i \in 1 .. Progress PROVE Shown(i)'
  <2>1. i \in 1 .. Len(log) /\ log[i] \in Requests /\ reqPc[log[i]] = "committed"
    BY <1>3, ProgressBounds, LogKeeps DEF RowInv, OnlyCommittedEvents
  <2>2. CASE mongo'[AggregateOf[log[i]]] = mongo[AggregateOf[log[i]]]
    BY <1>1, <1>3, <2>1, <2>2, ShownStays DEF ProjectionInv
  <2>3. CASE mongo'[AggregateOf[log[i]]] # mongo[AggregateOf[log[i]]]
    <3>1. WriteThrough(r)
      BY <2>3 DEF Write, SaveEntities, WriteFails, Commit, projectionVars
    <3>2. AggregateOf[r] = AggregateOf[log[i]]
      BY <1>0, <2>3, <3>1 DEF WriteThrough, DocumentType
    <3>3. reqPc[r] = "saved" /\ reqPc'[r] = "projected" /\ prior' = prior
      BY <1>0, <3>1 DEF WriteThrough, WriterType
    <3>4. r # log[i] /\ r \notin prior[log[i]]
      BY <2>1, <3>3 DEF StampInv
    <3>5. QED
      BY <1>1, <3>2, <3>3, <3>4 DEF Shown, Overwritten
  <2>4. QED
    BY <2>2, <2>3
<1>4. QED
  BY <1>1, <1>2, <1>3 DEF ProjectionInv

\* The sweeps only add records to the topic.
LEMMA ProjectionPublish ==
  ASSUME TypeOK, DeliveryInv, RowInv, ProjectionInv, [Next]_vars, NEW p \in Publishers, Publish(p)
  PROVE  ProjectionInv'
<1>1. UNCHANGED <<offset, owner, conPc, pos, dlt, mongo, lateSaves>>
  BY DEF Publish, Sweep, Send, BrokerAppends, SendFails, SendTimesOut, CommitSweep, SweepRollsBack,
         deliveryVars, projectionVars
<1>2. Progress' = Progress
  BY <1>1 DEF Progress
<1>3. ASSUME NEW i \in 1 .. Progress PROVE Shown(i)'
  <2>1. i \in 1 .. Len(log)
    BY <1>3, ProgressBounds
  <2>2. QED
    BY <1>1, <1>3, <2>1, ShownStays DEF ProjectionInv
<1>4. lateSaves' \subseteq 1 .. Len(log')
  BY <1>1, LogKeeps DEF ProjectionInv
<1>5. QED
  BY <1>2, <1>3, <1>4 DEF ProjectionInv

\* But for Save, a step of a consumer gets no further than before, unless it
\* dead-letters the record the owner is at.
LEMMA ProgressStep ==
  ASSUME TypeOK, DeliveryInv, NEW c \in Consumers, Consume(c), ~Save(c)
  PROVE  /\ UNCHANGED <<mongo, lateSaves>> /\ dlt \subseteq dlt'
         /\ \A i \in 1 .. Progress' : i \in 1 .. Progress \/ i \in dlt'
<1>0. ListenerType /\ TopicType
  BY DEF TypeOK
<1>1. UNCHANGED <<mongo, lateSaves>> /\ dlt \subseteq dlt'
  BY DEF Consume, Poll, Load, NextRecord, Acknowledge, Redeliver, DeadLetter, DeliveryThrows,
         Rebalance, projectionVars
<1>2. /\ Progress \in Nat /\ offset \in Nat /\ offset <= Progress /\ pos[c] \in Nat
      /\ owner \in Consumers
  BY <1>0, ProgressBounds DEF ListenerType, TopicType
<1>3. CASE Poll(c)
  <2>1. owner' = c /\ owner = c /\ conPc[c] = "idle" /\ conPc'[c] = "polled" /\ pos'[c] = offset + 1
    BY <1>0, <1>3 DEF Poll, ListenerType
  <2>2. Progress' = Progress
    BY <1>2, <2>1 DEF Progress
  <2>3. QED
    BY <1>1, <2>2
<1>4. CASE Load(c)
  <2>1. UNCHANGED <<offset, owner, pos>> /\ conPc[c] = "polled" /\ conPc' = [conPc EXCEPT ![c] = "loaded"]
    BY <1>4 DEF Load
  <2>2. Progress' = Progress
    BY <1>0, <1>2, <2>1 DEF Progress, ListenerType
  <2>3. QED
    BY <1>1, <2>2
<1>5. CASE NextRecord(c)
  <2>1. /\ UNCHANGED <<offset, owner>> /\ conPc[c] = "saved"
        /\ conPc' = [conPc EXCEPT ![c] = "polled"] /\ pos' = [pos EXCEPT ![c] = @ + 1]
    BY <1>5 DEF NextRecord
  <2>2. Progress' = Progress
    BY <1>0, <1>2, <2>1 DEF Progress, ListenerType
  <2>3. QED
    BY <1>1, <2>2
<1>6. CASE Acknowledge(c)
  <2>1. /\ owner' = owner /\ conPc[c] = "saved"
        /\ offset' = IF owner = c THEN pos[c] ELSE offset
        /\ conPc' = [conPc EXCEPT ![c] = "idle"] /\ pos' = [pos EXCEPT ![c] = 0]
    BY <1>6 DEF Acknowledge, CommittedBy, Drops
  <2>2. Progress' = Progress
    BY <1>0, <1>2, <2>1 DEF Progress, ListenerType
  <2>3. QED
    BY <1>1, <2>2
<1>7. CASE Redeliver(c) \/ DeadLetter(c)
  <2>1. /\ owner' = owner /\ conPc[c] \in {"polled", "loaded", "saved"}
        /\ offset' = IF owner = c THEN pos[c] - 1 ELSE offset
    BY <1>7 DEF Redeliver, DeadLetter, DeliveryThrows, CommittedBy
  <2>2. pos[c] \in 1 .. Len(log)
    BY <2>1 DEF DeliveryInv
  <2>3. CASE Drops(c)
    <3>1. conPc' = [conPc EXCEPT ![c] = "idle"] /\ pos' = [pos EXCEPT ![c] = 0]
      BY <2>3 DEF Drops
    <3>2. Progress' \in Int /\ Progress' <= Progress
      <4>1. CASE c = owner
        <5>1. Progress' = pos[c] - 1 /\ Progress \in {pos[c], pos[c] - 1}
          BY <1>0, <2>1, <3>1, <4>1 DEF Progress, ListenerType
        <5>2. QED
          BY <1>2, <5>1
      <4>2. CASE c # owner
        <5>1. Progress' = Progress
          BY <1>0, <2>1, <3>1, <4>2 DEF Progress, ListenerType
        <5>2. QED
          BY <1>2, <5>1
      <4>3. QED
        BY <4>1, <4>2
    <3>3. QED
      BY <1>1, <1>2, <3>2
  <2>4. CASE ~Drops(c)
    <3>1. /\ conPc' = [conPc EXCEPT ![c] = "saved"] /\ pos' = pos
          /\ dlt' = dlt \cup {pos[c]}
      BY <1>7, <2>4 DEF Redeliver, DeadLetter
    <3>2. CASE c = owner
      <4>1. Progress' = pos[c] /\ Progress \in {pos[c], pos[c] - 1}
        BY <1>0, <2>1, <3>1, <3>2 DEF Progress, ListenerType
      <4>2. \A i \in 1 .. pos[c] : i \in 1 .. pos[c] - 1 \/ i = pos[c]
        BY <1>2
      <4>3. QED
        BY <1>1, <3>1, <4>1, <4>2
    <3>3. CASE c # owner
      <4>1. Progress' = Progress
        BY <1>0, <2>1, <3>1, <3>3 DEF Progress, ListenerType
      <4>2. QED
        BY <1>1, <4>1
    <3>4. QED
      BY <3>2, <3>3
  <2>5. QED
    BY <2>3, <2>4
<1>8. CASE Rebalance(c)
  <2>1. c # owner /\ owner' = c /\ conPc[c] = "idle" /\ offset' = offset
    BY <1>8 DEF Rebalance
  <2>2. conPc'[c] = "idle"
    BY <1>0, <1>8, <2>1 DEF Rebalance, Drops, ListenerType
  <2>3. Progress' = offset
    BY <2>1, <2>2 DEF Progress
  <2>4. QED
    BY <1>1, <1>2, <2>3
<1>9. QED
  BY <1>3, <1>4, <1>5, <1>6, <1>7, <1>8 DEF Consume

\* The owner's save shows its record, and with it all it has handled so far of
\* that taxpayer.
LEMMA ProjectionSave ==
  ASSUME TypeOK, DeliveryInv, RowInv, ProjectionInv, [Next]_vars, NEW c \in Consumers, Save(c)
  PROVE  ProjectionInv'
<1>0. ListenerType /\ TopicType /\ DocumentType
  BY DEF TypeOK
<1>1. /\ UNCHANGED <<log, owner, pos, offset, dlt>> /\ conPc[c] = "loaded"
      /\ conPc' = [conPc EXCEPT ![c] = "saved"]
      /\ lateSaves' = IF owner = c THEN lateSaves ELSE lateSaves \cup {pos[c]}
  BY DEF Save
<1>2. pos[c] \in 1 .. Len(log)
  BY <1>1 DEF DeliveryInv
<1>3. PICK e \in Requests : e = log[pos[c]] /\ e = Event(c)
  BY <1>0, <1>2 DEF TopicType, Event
<1>4. AggregateOf[e] \in Aggregates /\ applyEvent(loaded[c], e).src = e
  BY <1>0, PipelineAssumption DEF DocumentType, Documents, NoDoc, applyEvent
<1>5. \A a \in Aggregates :
        mongo'[a] = IF a = AggregateOf[e] THEN applyEvent(loaded[c], e) ELSE mongo[a]
  BY <1>0, <1>3, <1>4 DEF Save, DocumentType
<1>6. ASSUME NEW i \in 1 .. Progress'
      PROVE  i \in 1 .. Len(log) /\ (i \in 1 .. Progress \/ (i = pos[c] /\ owner = c))
                                 /\ (owner = c => i <= pos[c])
  <2>1. CASE owner = c
    <3>1. Progress' = pos[c] /\ Progress = pos[c] - 1
      BY <1>0, <1>1, <2>1 DEF Progress, ListenerType
    <3>2. QED
      BY <1>2, <1>6, <2>1, <3>1
  <2>2. CASE owner # c
    <3>1. Progress' = Progress
      BY <1>0, <1>1, <2>2 DEF Progress, ListenerType
    <3>2. QED
      BY <1>6, <2>2, <3>1, ProgressBounds
  <2>3. QED
    BY <2>1, <2>2
<1>7. ASSUME NEW i \in 1 .. Progress' PROVE Shown(i)'
  <2>1. i \in 1 .. Len(log) /\ log[i] \in Requests /\ AggregateOf[log[i]] \in Aggregates
    BY <1>0, <1>6, <1>7, PipelineAssumption DEF TopicType
  <2>2. CASE AggregateOf[log[i]] # AggregateOf[e]
    <3>1. i \in 1 .. Progress
      BY <1>3, <1>6, <1>7, <2>2
    <3>2. mongo'[AggregateOf[log[i]]] = mongo[AggregateOf[log[i]]]
      BY <1>5, <2>1, <2>2
    <3>3. QED
      BY <1>1, <2>1, <3>1, <3>2, ShownStays DEF ProjectionInv
  <2>3. CASE AggregateOf[log[i]] = AggregateOf[e] /\ owner = c
    <3>1. pos[c] \in i .. Len(log)
      BY <1>2, <1>6, <1>7, <2>3
    <3>2. mongo'[AggregateOf[log[i]]].src = log[pos[c]]
      BY <1>3, <1>4, <1>5, <2>3
    <3>3. QED
      BY <1>1, <1>3, <2>3, <3>1, <3>2 DEF Shown
  <2>4. CASE AggregateOf[log[i]] = AggregateOf[e] /\ owner # c
    BY <1>1, <1>3, <2>4 DEF Shown
  <2>5. QED
    BY <2>2, <2>3, <2>4
<1>8. lateSaves' \subseteq 1 .. Len(log')
  BY <1>1, <1>2 DEF ProjectionInv
<1>9. QED
  BY <1>7, <1>8 DEF ProjectionInv

\* What the owner has handled is shown, in every state.
LEMMA ProjectionInvariant == Spec => []ProjectionInv
<1>1. Init => ProjectionInv
  BY DEF Init, ProjectionInv, Progress
<1>2. ASSUME TypeOK, DeliveryInv, RowInv, StampInv, ProjectionInv, [Next]_vars PROVE ProjectionInv'
  <2>1. ASSUME NEW c \in Consumers, Consume(c), ~Save(c) PROVE ProjectionInv'
    <3>1. /\ UNCHANGED <<mongo, lateSaves>> /\ dlt \subseteq dlt' /\ log' = log
          /\ \A i \in 1 .. Progress' : i \in 1 .. Progress \/ i \in dlt'
      BY <1>2, <2>1, ProgressStep, ConsumeFrame
    <3>2. ASSUME NEW i \in 1 .. Progress' PROVE Shown(i)'
      <4>1. CASE i \in dlt'
        BY <4>1 DEF Shown
      <4>2. CASE i \in 1 .. Progress
        <5>1. i \in 1 .. Len(log)
          BY <1>2, <4>2, ProgressBounds
        <5>2. QED
          BY <1>2, <3>1, <4>2, <5>1, ShownStays DEF ProjectionInv
      <4>3. QED
        BY <3>1, <3>2, <4>1, <4>2
    <3>3. QED
      BY <1>2, <3>1, <3>2 DEF ProjectionInv
  <2>2. CASE UNCHANGED vars
    BY <1>2, <2>2 DEF vars, writerVars, deliveryVars, projectionVars, ProjectionInv, Progress,
                      Shown, Overwritten
  <2>3. QED
    BY <1>2, <2>1, <2>2, ProjectionWrite, ProjectionPublish, ProjectionSave DEF Next, Rest
<1>3. QED
  BY <1>1, <1>2, TypeCorrect, DeliveryInvariant, OutboxInvariant, WriterInvariant, PTL DEF Spec

\* At rest, the last event of a taxpayer written serially is that of the version
\* in Postgres: its document shows it, unless something was passed over or lost.
LEMMA LastVersionShown ==
  ASSUME TypeOK, DeliveryInv, RowInv, TenantInv, StampInv, CommitInv, LastInv, ProjectionInv,
         Quiescent, NEW a \in Aggregates, WrittenSerially(a), HandledInOrder(a)
  PROVE  mongo[a].src = taxpayer[a]
<1>0. WriterType /\ TopicType /\ ListenerType
  BY DEF TypeOK
<1> DEFINE R == {r \in Requests : AggregateOf[r] = a}
<1>1. CASE R = {}
  <2>1. mongo[a] = NoDoc
    BY <1>1 DEF TenantInv, Carried
  <2>2. taxpayer[a] = None
    BY <1>0, <1>1 DEF CommitInv, WriterType
  <2>3. QED
    BY <2>1, <2>2 DEF NoDoc
<1>2. CASE R # {}
  <2>1. PICK r \in Requests : AggregateOf[r] = a
    BY <1>2
  <2>2. \A q \in R : reqPc[q] = "committed"
    BY DEF WrittenSerially
  <2>3. taxpayer[a] # None
    BY <2>1, <2>2 DEF CommitInv
  <2>4. PICK w \in Requests : w = taxpayer[a]
    BY <1>0, <2>3 DEF WriterType
  <2>5. AggregateOf[w] = a /\ reqPc[w] = "committed" /\ \A q \in R : w \notin prior[q]
    BY <2>2, <2>3, <2>4 DEF CommitInv
  <2>6. \A q \in R : q # w => q \in prior[w]
    BY <2>5 DEF WrittenSerially
  <2>7. PICK i \in 1 .. Len(log) :
          log[i] = w /\ \A k \in 1 .. Len(log) : log[k] \in prior[w] \ passedOver => k < i
    <3>1. outbox[w] = "published"
      BY <1>0, <2>5 DEF Quiescent, CommitInv, WriterType
    <3>2. DOMAIN log = 1 .. Len(log)
      BY <1>0 DEF TopicType
    <3>3. QED
      BY <3>1, <3>2 DEF LastInv, WrittenLast
  <2>8. \A k \in 1 .. Len(log) : AggregateOf[log[k]] = a /\ k >= i => log[k] = w
    <3>1. ASSUME NEW k \in 1 .. Len(log), AggregateOf[log[k]] = a, k >= i, log[k] # w PROVE FALSE
      <4>1. log[k] \in R
        BY <1>0, <3>1 DEF TopicType
      <4>2. log[k] \in prior[w] \ passedOver
        BY <2>6, <3>1, <4>1 DEF HandledInOrder
      <4>3. QED
        BY <1>0, <2>7, <3>1, <4>2 DEF TopicType
    <3>2. QED
      BY <3>1
  <2>9. Shown(i)
    <3>1. Progress = Len(log)
      BY <1>0 DEF Progress, Quiescent, ListenerType
    <3>2. QED
      BY <2>7, <3>1 DEF ProjectionInv
  <2>10. i \notin dlt /\ ~\E k \in lateSaves : AggregateOf[log[k]] = AggregateOf[log[i]]
    BY <2>5, <2>7 DEF HandledInOrder
  <2>11. ~Overwritten(i)
    BY <2>5, <2>6, <2>7 DEF Overwritten
  <2>12. PICK k \in i .. Len(log) : AggregateOf[log[k]] = a /\ mongo[a].src = log[k]
    BY <2>5, <2>7, <2>9, <2>10, <2>11 DEF Shown
  <2>13. k \in 1 .. Len(log) /\ k >= i
    BY <1>0, <2>7, <2>12 DEF TopicType
  <2>14. QED
    BY <2>4, <2>8, <2>12, <2>13
<1>3. QED
  BY <1>1, <1>2

\* Once everything is published and consumed, whatever failed on the way and with any
\* number of replicas, the read model shows the version Postgres holds of each
\* taxpayer whose writes did not overlap and whose events were handled in order.
THEOREM ConvergesInOrder == Spec => []ConvergesUnlessPassedOver
<1>1. TypeOK /\ DeliveryInv /\ RowInv /\ TenantInv /\ StampInv /\ CommitInv /\ LastInv
        /\ ProjectionInv => ConvergesUnlessPassedOver
  BY LastVersionShown DEF ConvergesUnlessPassedOver
<1>2. TypeOK /\ DeliveryInv /\ RowInv /\ TenantInv /\ [Next]_vars => TenantInv'
  BY TenantInvStep
<1>3. Spec => []TenantInv
  BY <1>2, TenantInit, DeliveryInvariant, OutboxInvariant, PTL DEF Spec
<1>4. QED
  BY <1>1, <1>3, DeliveryInvariant, OutboxInvariant, WriterInvariant, LastInvariant,
     ProjectionInvariant, PTL
=============================================================================
