------------------------- MODULE IdempotencyProofs -------------------------
(***************************************************************************)
(* Proofs about the two endpoints that take an idempotency key.            *)
(*                                                                         *)
(* RefundLedger, for any calls, tenants, keys and orders. Of the           *)
(* transactions that have inserted a slot and not yet ended there is one   *)
(* at most, and none once the slot is on record, so a commit always adds a *)
(* new slot; a refused insert means that the slot is on record, and rows   *)
(* never leave it.                                                         *)
(*                                                                         *)
(* AgentRefund, for any conversations and proposals. Its steps are steps   *)
(* of the ledger, and a slot names the conversation and the proposal it    *)
(* was made for. AgentAssumption, that keys are pairs of a conversation    *)
(* and a proposal, is cited here only.                                     *)
(*                                                                         *)
(* IdempotentPost, for any set of requests and keys. While the entry of a  *)
(* key has been neither deleted nor expired, the one request that got past *)
(* SETNX keeps the entry occupied, so no other SETNX succeeds, and the     *)
(* entry and every 200 under that key stem from that request.              *)
(***************************************************************************)
EXTENDS AgentRefund, IdempotentPost, TLAPS

-----------------------------------------------------------------------------
(* RefundLedger and AgentRefund                                              *)

\* A call that passed the validation carries a tenant and a key.
CallInv ==
  \A c \in Calls :
    /\ callPc[c] # "free" => request[c] \in Requests
    /\ callPc[c] \in {"received", "checked", "inserted", "refused"} =>
         request[c].tenant \in Tenants /\ EffectiveKey(request[c]) \in Keys
    /\ callPc[c] # "done" => status[c] = 0
    /\ status[c] # 200 => view[c] = Nothing

\* The slot of an uncommitted insert is free and nobody else's.
InsertInv ==
  \A c \in Calls : callPc[c] = "inserted" =>
    /\ \A row \in refunds : SlotOf(row) # Slot(c)
    /\ \A d \in Calls : callPc[d] = "inserted" /\ Slot(d) = Slot(c) => d = c

LedgerInv ==
  LedgerTypeOK /\ CallInv /\ InsertInv /\ DebitedOnce /\ WinnerIsReadable /\ AnswersAreOnRecord

-----------------------------------------------------------------------------
\* The row a call inserts is a refund of the call's slot.
LEMMA RowFacts ==
  ASSUME NEW c \in Calls, request[c] \in Requests,
         request[c].tenant \in Tenants, EffectiveKey(request[c]) \in Keys
  PROVE  Row(c) \in Refunds /\ SlotOf(Row(c)) = Slot(c) /\ Row(c).by = c
  BY DEF Row, Refunds, Requests, SlotOf, Slot

\* Every step keeps the variables in their sets.
LEMMA LedgerTypeStep ==
  ASSUME LedgerTypeOK, CallInv, [LedgerNext]_ledgerVars
  PROVE  LedgerTypeOK'
<1>1. CASE UNCHANGED ledgerVars
  BY <1>1 DEF ledgerVars, LedgerTypeOK
<1>2. ASSUME NEW c \in Calls, NEW q \in Requests, Receive(c, q) PROVE LedgerTypeOK'
  BY <1>2 DEF Receive, Respond, Proceed, LedgerTypeOK
<1>3. ASSUME NEW c \in Calls, CheckOrder(c) PROVE LedgerTypeOK'
  BY <1>3 DEF CheckOrder, Respond, Proceed, LedgerTypeOK
<1>4. ASSUME NEW c \in Calls, InsertIfAbsent(c) PROVE LedgerTypeOK'
  BY <1>4 DEF InsertIfAbsent, Proceed, LedgerTypeOK
<1>5. ASSUME NEW c \in Calls, Commit(c) PROVE LedgerTypeOK'
  <2>1. Row(c) \in Refunds
    BY <1>5, RowFacts DEF Commit, CallInv
  <2>2. QED
    BY <1>5, <2>1 DEF Commit, Respond, LedgerTypeOK
<1>6. ASSUME NEW c \in Calls, ReadBack(c) PROVE LedgerTypeOK'
  BY <1>6 DEF ReadBack, Respond, LedgerTypeOK
<1>7. ASSUME NEW c \in Calls, RollBack(c) PROVE LedgerTypeOK'
  BY <1>7 DEF RollBack, Respond, LedgerTypeOK
<1>8. QED
  BY <1>1, <1>2, <1>3, <1>4, <1>5, <1>6, <1>7 DEF LedgerNext, Serve, Rest

\* Only validated calls get past Receive, and only a 200 carries a view.
LEMMA CallInvStep ==
  ASSUME LedgerTypeOK, CallInv, [LedgerNext]_ledgerVars
  PROVE  CallInv'
<1>1. CASE UNCHANGED ledgerVars
  BY <1>1 DEF ledgerVars, CallInv
<1>2. ASSUME NEW c \in Calls, NEW q \in Requests, Receive(c, q) PROVE CallInv'
  <2>1. q.tenant # Blank /\ q.bodyKey # Blank => q.tenant \in Tenants /\ EffectiveKey(q) \in Keys
    BY DEF Requests, EffectiveKey
  <2>2. QED
    BY <1>2, <2>1 DEF Receive, Respond, Proceed, LedgerTypeOK, CallInv
<1>3. ASSUME NEW c \in Calls, CheckOrder(c) PROVE CallInv'
  BY <1>3 DEF CheckOrder, Respond, Proceed, LedgerTypeOK, CallInv
<1>4. ASSUME NEW c \in Calls, InsertIfAbsent(c) PROVE CallInv'
  BY <1>4 DEF InsertIfAbsent, Proceed, LedgerTypeOK, CallInv
<1>5. ASSUME NEW c \in Calls, Commit(c) PROVE CallInv'
  BY <1>5 DEF Commit, Respond, LedgerTypeOK, CallInv
<1>6. ASSUME NEW c \in Calls, ReadBack(c) PROVE CallInv'
  BY <1>6 DEF ReadBack, Respond, LedgerTypeOK, CallInv
<1>7. ASSUME NEW c \in Calls, RollBack(c) PROVE CallInv'
  BY <1>7 DEF RollBack, Respond, LedgerTypeOK, CallInv
<1>8. QED
  BY <1>1, <1>2, <1>3, <1>4, <1>5, <1>6, <1>7 DEF LedgerNext, Serve, Rest

\* The index keeps the slots of open transactions and of the ledger apart, so
\* commits never repeat a slot, refusals are justified and answers are on record.
LEMMA SlotStep ==
  ASSUME LedgerInv, [LedgerNext]_ledgerVars
  PROVE  (InsertInv /\ DebitedOnce /\ WinnerIsReadable /\ AnswersAreOnRecord)'
<1> DEFINE Goal == (InsertInv /\ DebitedOnce /\ WinnerIsReadable /\ AnswersAreOnRecord)'
<1> USE DEF LedgerInv, InsertInv, DebitedOnce, WinnerIsReadable, AnswersAreOnRecord
<1>1. CASE UNCHANGED ledgerVars
  BY <1>1 DEF ledgerVars, Slot
<1>2. ASSUME NEW c \in Calls, NEW q \in Requests, Receive(c, q) PROVE Goal
  <2>1. \A d \in Calls \ {c} : Slot(d)' = Slot(d) /\ callPc'[d] = callPc[d] /\ status'[d] = status[d] /\ view'[d] = view[d]
    BY <1>2 DEF Receive, Respond, Proceed, LedgerTypeOK, Slot
  <2>2. callPc'[c] \in {"received", "done"} /\ status'[c] # 200 /\ refunds' = refunds
    BY <1>2 DEF Receive, Respond, Proceed, LedgerTypeOK, CallInv
  <2>3. QED
    BY <2>1, <2>2
<1>3. ASSUME NEW c \in Calls, CheckOrder(c) PROVE Goal
  BY <1>3 DEF CheckOrder, Respond, Proceed, LedgerTypeOK, CallInv, Slot
<1>4. ASSUME NEW c \in Calls, InsertIfAbsent(c) PROVE Goal
  BY <1>4 DEF InsertIfAbsent, Proceed, LedgerTypeOK, CallInv, Slot
<1>5. ASSUME NEW c \in Calls, Commit(c) PROVE Goal
  <2>1. Row(c) \in Refunds /\ SlotOf(Row(c)) = Slot(c)
    BY <1>5, RowFacts DEF Commit, CallInv
  <2>2. \A d \in Calls : Slot(d)' = Slot(d)
    BY <1>5 DEF Commit, Slot
  <2>3. callPc' = [callPc EXCEPT ![c] = "done"] /\ refunds' = refunds \cup {Row(c)}
    BY <1>5 DEF Commit, Respond
  <2>4. status'[c] = 200 => view'[c] = Row(c)
    BY <1>5 DEF Commit, Respond, LedgerTypeOK
  <2>5. \A d \in Calls \ {c} : status'[d] = status[d] /\ view'[d] = view[d]
    BY <1>5 DEF Commit, Respond, LedgerTypeOK
  <2>6. \A row \in refunds' : row \in refunds \/ row = Row(c)
    BY <2>3
  <2>7. callPc[c] = "inserted"
    BY <1>5 DEF Commit
  <2>8. InsertInv' /\ DebitedOnce'
    BY <2>1, <2>2, <2>3, <2>6, <2>7 DEF LedgerTypeOK
  <2>9. WinnerIsReadable' /\ AnswersAreOnRecord'
    BY <2>1, <2>2, <2>3, <2>4, <2>5 DEF LedgerTypeOK
  <2>10. QED
    BY <2>8, <2>9
<1>6. ASSUME NEW c \in Calls, ReadBack(c) PROVE Goal
  BY <1>6 DEF ReadBack, Respond, LedgerTypeOK, Slot
<1>7. ASSUME NEW c \in Calls, RollBack(c) PROVE Goal
  BY <1>7 DEF RollBack, Respond, LedgerTypeOK, Slot
<1>8. QED
  BY <1>1, <1>2, <1>3, <1>4, <1>5, <1>6, <1>7 DEF LedgerNext, Serve, Rest

\* The inductive invariant of the refund endpoint.
THEOREM LedgerInvariant == LedgerSpec => []LedgerInv
<1>1. LedgerInit => LedgerInv
  BY DEF LedgerInit, LedgerInv, LedgerTypeOK, CallInv, InsertInv, DebitedOnce, WinnerIsReadable, AnswersAreOnRecord
<1>2. LedgerInv /\ [LedgerNext]_ledgerVars => LedgerInv'
  BY LedgerTypeStep, CallInvStep, SlotStep DEF LedgerInv
<1>3. QED
  BY <1>1, <1>2, PTL DEF LedgerSpec

\* The ledger is debited at most once per tenant and idempotency key.
THEOREM LedgerDebitedOnce == LedgerSpec => []DebitedOnce
<1>1. LedgerInv => DebitedOnce
  BY DEF LedgerInv
<1>2. QED
  BY <1>1, LedgerInvariant, PTL

\* Every 200 of createRefund reports a committed refund of its own slot.
THEOREM LedgerAnswersTrue == LedgerSpec => []AnswersAreOnRecord
<1>1. LedgerInv => AnswersAreOnRecord
  BY DEF LedgerInv
<1>2. QED
  BY <1>1, LedgerInvariant, PTL

\* RefundService.refund never throws its IllegalStateException: a refused insert
\* finds the winning row.
THEOREM IndexAndLookupAgree == LedgerSpec => []WinnerIsReadable
<1>1. LedgerInv => WinnerIsReadable
  BY DEF LedgerInv
<1>2. QED
  BY <1>1, LedgerInvariant, PTL

-----------------------------------------------------------------------------
(* Refinement of RefundOnce                                                  *)

\* A step that neither answers a 200, nor commits, nor receives is a stutter.
LEMMA QuietStep ==
  ASSUME LedgerInv, NEW c \in Calls, callPc[c] # "free", request' = request,
         refunds' = refunds, view' = view,
         NEW label \in {"checked", "inserted", "refused", "done"},
         callPc' = [callPc EXCEPT ![c] = label]
  PROVE  asked' = asked /\ UNCHANGED <<refunds, view>>
<1>1. \A d \in Calls : (callPc'[d] = "free" <=> callPc[d] = "free") /\ request'[d] = request[d] /\ Slot(d)' = Slot(d)
  BY DEF LedgerInv, LedgerTypeOK, Slot
<1>2. QED
  BY <1>1 DEF asked

\* Every step of the endpoint is a step of RefundOnce or changes nothing there.
LEMMA RefinementStep ==
  ASSUME LedgerInv, [LedgerNext]_ledgerVars
  PROVE  [Abstract!Next]_(Abstract!vars)
<1> USE LedgerAssumption
<1>1. CASE UNCHANGED ledgerVars
  BY <1>1 DEF ledgerVars, Abstract!vars, asked, Slot
<1>2. ASSUME NEW c \in Calls, NEW q \in Requests, Receive(c, q)
      PROVE  [Abstract!Next]_(Abstract!vars)
  <2>1. view' = view /\ refunds' = refunds
    <3>1. view[c] = Nothing
      BY <1>2 DEF Receive, LedgerInv, CallInv
    <3>2. QED
      BY <1>2, <3>1 DEF Receive, Respond, Proceed, LedgerInv, LedgerTypeOK
  <2>2. request' = [request EXCEPT ![c] = q] /\ callPc'[c] # "free" /\ callPc[c] = "free"
    BY <1>2 DEF Receive, Respond, Proceed, LedgerInv, LedgerTypeOK
  <2>3. \A d \in Calls \ {c} : callPc'[d] = callPc[d] /\ request'[d] = request[d] /\ Slot(d)' = Slot(d)
    BY <1>2 DEF Receive, Respond, Proceed, LedgerInv, LedgerTypeOK, Slot
  <2>4. request'[c] = q /\ Slot(c)' = <<q.tenant, EffectiveKey(q)>>
    BY <2>2 DEF LedgerInv, LedgerTypeOK, Slot
  <2>5. asked[c] = Nothing
    BY <2>2 DEF asked
  <2>6. CASE q.tenant = Blank \/ EffectiveKey(q) = Blank
    <3>1. asked' = asked
      BY <2>2, <2>3, <2>4, <2>6 DEF asked
    <3>2. QED
      BY <2>1, <3>1 DEF Abstract!vars
  <2>7. CASE ~(q.tenant = Blank \/ EffectiveKey(q) = Blank)
    <3>1. asked' = [asked EXCEPT ![c] = <<q.tenant, EffectiveKey(q)>>]
      BY <2>2, <2>3, <2>4, <2>7 DEF asked
    <3>2. q.order \in Orders /\ q.tenant \in Tenants /\ EffectiveKey(q) \in Keys
      BY <2>7 DEF Requests, EffectiveKey
    <3>3. PICK row \in Refunds : Abstract!SlotOf(row) = <<q.tenant, EffectiveKey(q)>>
      <4> DEFINE r == [by |-> c, order |-> q.order, tenant |-> q.tenant, key |-> EffectiveKey(q)]
      <4>1. r \in Refunds /\ r.tenant = q.tenant /\ r.key = EffectiveKey(q)
        BY <3>2 DEF Refunds
      <4>2. QED
        BY <4>1 DEF Abstract!SlotOf
    <3>4. Abstract!Ask(c)
      BY <2>1, <2>5, <3>1, <3>3 DEF Abstract!Ask
    <3>5. QED
      BY <3>4 DEF Abstract!Next
  <2>8. QED
    BY <2>6, <2>7
<1>3. ASSUME NEW c \in Calls, CheckOrder(c) PROVE [Abstract!Next]_(Abstract!vars)
  <2>1. view[c] = Nothing
    BY <1>3 DEF CheckOrder, LedgerInv, CallInv
  <2>2. view' = view
    BY <1>3, <2>1 DEF CheckOrder, Respond, Proceed, LedgerInv, LedgerTypeOK
  <2>3. asked' = asked /\ UNCHANGED <<refunds, view>>
    BY <1>3, <2>2, QuietStep DEF CheckOrder, Respond, Proceed
  <2>4. QED
    BY <2>3 DEF Abstract!vars
<1>4. ASSUME NEW c \in Calls, InsertIfAbsent(c) PROVE [Abstract!Next]_(Abstract!vars)
  <2>1. asked' = asked /\ UNCHANGED <<refunds, view>>
    BY <1>4, QuietStep DEF InsertIfAbsent, Proceed
  <2>2. QED
    BY <2>1 DEF Abstract!vars
<1>5. ASSUME NEW c \in Calls, RollBack(c) PROVE [Abstract!Next]_(Abstract!vars)
  <2>1. view[c] = Nothing /\ callPc[c] # "free"
    BY <1>5 DEF RollBack, LedgerInv, CallInv
  <2>2. view' = view
    BY <1>5, <2>1 DEF RollBack, Respond, LedgerInv, LedgerTypeOK
  <2>3. asked' = asked /\ UNCHANGED <<refunds, view>>
    BY <1>5, <2>1, <2>2, QuietStep DEF RollBack, Respond
  <2>4. QED
    BY <2>3 DEF Abstract!vars
<1>6. ASSUME NEW c \in Calls, Commit(c) \/ ReadBack(c) PROVE [Abstract!Next]_(Abstract!vars)
  <2>1. /\ callPc[c] \in {"inserted", "refused"}
        /\ callPc' = [callPc EXCEPT ![c] = "done"]
        /\ request' = request
        /\ view[c] = Nothing
    BY <1>6 DEF Commit, ReadBack, Respond, LedgerInv, CallInv
  <2>2. \A d \in Calls : (callPc'[d] = "free" <=> callPc[d] = "free") /\ Slot(d)' = Slot(d)
    BY <2>1 DEF LedgerInv, LedgerTypeOK, Slot
  <2>3. asked' = asked
    BY <2>1, <2>2 DEF asked
  <2>4. asked[c] = Slot(c)
    BY <2>1 DEF asked, LedgerInv, CallInv
  <2>5. \A row : Abstract!SlotOf(row) = SlotOf(row)
    BY DEF Abstract!SlotOf, SlotOf
  <2>6. CASE Commit(c)
    <3>1. Row(c) \in Refunds /\ SlotOf(Row(c)) = Slot(c) /\ Row(c).by = c
      BY <2>6, RowFacts DEF Commit, LedgerInv, CallInv
    <3>2. \A other \in refunds : SlotOf(other) # SlotOf(Row(c))
      BY <2>6, <3>1 DEF Commit, LedgerInv, InsertInv
    <3>3. view' = [view EXCEPT ![c] = Row(c)] \/ view' = view
      BY <2>1, <2>6 DEF Commit, Respond, LedgerInv, LedgerTypeOK
    <3>4. Abstract!Debit(c)
      BY <2>1, <2>3, <2>4, <2>5, <2>6, <3>1, <3>2, <3>3 DEF Abstract!Debit, Abstract!Tell, Commit
    <3>5. QED
      BY <3>4 DEF Abstract!Next
  <2>7. CASE ReadBack(c)
    <3>1. PICK row \in refunds : SlotOf(row) = Slot(c) /\ Respond(c, 200, row)
      BY <2>7 DEF ReadBack, LedgerInv, WinnerIsReadable
    <3>2. Abstract!Replay(c)
      BY <2>1, <2>3, <2>4, <2>5, <2>7, <3>1 DEF Abstract!Replay, Abstract!Tell, ReadBack, Respond
    <3>3. QED
      BY <3>2 DEF Abstract!Next
  <2>8. QED
    BY <1>6, <2>6, <2>7
<1>7. QED
  BY <1>1, <1>2, <1>3, <1>4, <1>5, <1>6 DEF LedgerNext, Serve, Rest

\* The refund endpoint implements RefundOnce.
THEOREM LedgerImplementsOnce == LedgerSpec => AtMostOnce
<1>1. LedgerInit => Abstract!Init
  BY DEF LedgerInit, Abstract!Init, asked
<1>2. LedgerInv /\ [LedgerNext]_ledgerVars => [Abstract!Next]_(Abstract!vars)
  BY RefinementStep
<1>3. QED
  BY <1>1, <1>2, LedgerInvariant, PTL DEF LedgerSpec, AtMostOnce, Abstract!Spec

-----------------------------------------------------------------------------
(* The agent's tool-use loop on top of the endpoint                          *)

\* What the node injects is a request the endpoint accepts, under the key
\* <<thread, proposal>>.
LEMMA InjectedRequest ==
  ASSUME NEW t \in Threads, NEW p \in Proposals
  PROVE  /\ inject_context(t, p) \in Requests
         /\ inject_context(t, p).tenant = TenantOf[t]
         /\ TenantOf[t] \in Tenants
         /\ EffectiveKey(inject_context(t, p)) = <<t, p>>
<1>1. TenantOf[t] \in Tenants /\ p.order \in Orders
  BY AgentAssumption DEF Proposals
<1>2. <<t, p>> \in Keys /\ <<t, p>> # Blank
  BY AgentAssumption, LedgerAssumption
<1>3. QED
  BY <1>1, <1>2 DEF inject_context, idempotency_key, Requests, EffectiveKey

\* Every step of the agent and the endpoint is a step of the endpoint alone.
LEMMA AgentStepsLedger == ASSUME [Next]_vars PROVE [LedgerNext]_ledgerVars
<1>1. ASSUME NEW t \in Threads, ApiNode(t) PROVE [LedgerNext]_ledgerVars
  <2>1. ASSUME NEW c \in Calls, NEW p \in Proposals, CallTool(t, c, p) PROVE LedgerNext
    <3>1. PICK q \in Requests : q = inject_context(t, p)
      BY InjectedRequest
    <3>2. Receive(c, q)
      BY <2>1, <3>1 DEF CallTool
    <3>3. QED
      BY <3>2 DEF LedgerNext
  <2>2. CASE EnterNode(t) \/ Complete(t) \/ GetResult(t) \/ LeaveNode(t) \/ Cancelled(t)
    BY <2>2 DEF EnterNode, Complete, GetResult, LeaveNode, Cancelled
  <2>3. QED
    BY <1>1, <2>1, <2>2 DEF ApiNode
<1>2. ASSUME NEW c \in Calls, Serve(c) PROVE LedgerNext
  BY <1>2 DEF LedgerNext
<1>3. CASE UNCHANGED vars
  BY <1>3 DEF vars
<1>4. QED
  BY <1>1, <1>2, <1>3 DEF Next, Finished

\* The agent drives the endpoint as any client would: what is proved of every
\* behaviour of RefundLedger holds of the composition.
THEOREM AgentImplementsLedger == Spec => LedgerSpec
<1>1. Init => LedgerInit
  BY DEF Init
<1>2. [Next]_vars => [LedgerNext]_ledgerVars
  BY AgentStepsLedger
<1>3. QED
  BY <1>1, <1>2, PTL DEF Spec, LedgerSpec

\* A call in flight carries what its conversation injected for what the model
\* proposed; a row is the one its call asked for.
IssuedInv ==
  /\ \A c \in Calls : callPc[c] # "free" =>
       /\ issuer[c] \in Threads
       /\ proposal[c] \in Proposals
       /\ request[c] = inject_context(issuer[c], proposal[c])
  /\ \A row \in refunds : callPc[row.by] # "free" /\ row = Row(row.by)

\* A node that waits has a call to wait for.
WaitingInv == \A t \in Threads : nodePc[t] = "waiting" => pending[t] \in Calls

\* The agent's own variables keep their types.
LEMMA AgentTypeStep ==
  ASSUME AgentTypeOK, WaitingInv, LedgerTypeOK', [Next]_vars
  PROVE  AgentTypeOK' /\ WaitingInv'
<1> USE DEF AgentTypeOK, WaitingInv
<1>1. ASSUME NEW t \in Threads, EnterNode(t) PROVE AgentTypeOK' /\ WaitingInv'
  BY <1>1, AgentAssumption DEF EnterNode
<1>2. ASSUME NEW t \in Threads, Complete(t) PROVE AgentTypeOK' /\ WaitingInv'
  BY <1>2, AgentAssumption DEF Complete
<1>3. ASSUME NEW t \in Threads, GetResult(t) \/ LeaveNode(t) \/ Cancelled(t)
      PROVE  AgentTypeOK' /\ WaitingInv'
  BY <1>3 DEF GetResult, LeaveNode, Cancelled
<1>4. ASSUME NEW t \in Threads, NEW c \in Calls, NEW p \in Proposals, CallTool(t, c, p)
      PROVE  AgentTypeOK' /\ WaitingInv'
  BY <1>4 DEF CallTool
<1>5. CASE UNCHANGED agentVars
  BY <1>5 DEF agentVars
<1>6. CASE UNCHANGED vars
  BY <1>5, <1>6 DEF vars
<1>7. QED
  BY <1>1, <1>2, <1>3, <1>4, <1>5, <1>6 DEF Next, ApiNode, Finished

\* A call's issuer, proposal and request are fixed when it is sent, before any
\* row can name it.
LEMMA IssuedStep ==
  ASSUME LedgerInv, LedgerTypeOK', AgentTypeOK, IssuedInv, [Next]_vars PROVE IssuedInv'
<1>0. LedgerTypeOK /\ CallInv /\ \A row \in refunds : row.by \in Calls
  BY DEF LedgerInv, LedgerTypeOK, Refunds
<1>1. ASSUME NEW t \in Threads, NEW c \in Calls, NEW p \in Proposals, CallTool(t, c, p)
      PROVE  IssuedInv'
  <2>1. PICK q \in Requests : q = inject_context(t, p)
    BY InjectedRequest
  <2>2. Receive(c, q) /\ callPc[c] = "free"
    BY <1>1, <2>1 DEF CallTool, Receive
  <2>3. /\ refunds' = refunds
        /\ \A d \in Calls : request'[d] = IF d = c THEN q ELSE request[d]
        /\ \A d \in Calls : d # c => callPc'[d] = callPc[d]
    BY <1>0, <2>2 DEF Receive, Respond, Proceed, LedgerTypeOK
  <2>4. /\ \A d \in Calls : issuer'[d] = IF d = c THEN t ELSE issuer[d]
        /\ \A d \in Calls : proposal'[d] = IF d = c THEN p ELSE proposal[d]
    BY <1>1 DEF CallTool, AgentTypeOK
  <2>5. ASSUME NEW d \in Calls, callPc'[d] # "free"
        PROVE  /\ issuer'[d] \in Threads
               /\ proposal'[d] \in Proposals
               /\ request'[d] = inject_context(issuer'[d], proposal'[d])
    BY <2>1, <2>3, <2>4, <2>5 DEF IssuedInv
  <2>6. \A row \in refunds : row.by # c /\ callPc'[row.by] # "free" /\ row = Row(row.by)'
    BY <1>0, <2>2, <2>3 DEF IssuedInv, Row
  <2>7. QED
    BY <2>3, <2>5, <2>6 DEF IssuedInv, inject_context, idempotency_key
<1>2. ASSUME NEW c \in Calls, Serve(c), UNCHANGED agentVars PROVE IssuedInv'
  <2>1. request' = request /\ UNCHANGED <<issuer, proposal>>
    BY <1>2 DEF Serve, CheckOrder, InsertIfAbsent, Commit, ReadBack, RollBack, agentVars
  <2>2. callPc[c] # "free" /\ \A d \in Calls : callPc'[d] # "free" <=> callPc[d] # "free"
    BY <1>0, <1>2 DEF Serve, CheckOrder, InsertIfAbsent, Commit, ReadBack, RollBack, Respond,
         Proceed, LedgerTypeOK
  <2>3. refunds' = refunds \/ refunds' = refunds \cup {Row(c)}
    BY <1>2 DEF Serve, CheckOrder, InsertIfAbsent, Commit, ReadBack, RollBack
  <2>4. \A d \in Calls : Row(d)' = Row(d) /\ Row(d).by = d
    BY <2>1 DEF Row
  <2>5. \A row \in refunds' : callPc'[row.by] # "free" /\ row = Row(row.by)'
    <3>1. ASSUME NEW row \in refunds' PROVE callPc'[row.by] # "free" /\ row = Row(row.by)'
      <4>1. CASE row \in refunds
        <5>1. PICK d \in Calls : d = row.by
          BY <1>0, <4>1
        <5>2. callPc[d] # "free" /\ row = Row(d)
          BY <4>1, <5>1 DEF IssuedInv
        <5>3. row = Row(d)' /\ callPc'[d] # "free"
          BY <2>2, <2>4, <5>2
        <5>4. QED
          BY <2>1, <5>1, <5>3 DEF Row
      <4>2. CASE row = Row(c)
        <5>1. row.by = c /\ row = Row(c)' /\ callPc'[c] # "free"
          BY <2>2, <2>4, <4>2
        <5>2. QED
          BY <2>1, <5>1 DEF Row
      <4>3. QED
        BY <2>3, <3>1, <4>1, <4>2
    <3>2. QED
      BY <3>1
  <2>6. QED
    BY <2>1, <2>2, <2>5 DEF IssuedInv, inject_context, idempotency_key
<1>3. ASSUME NEW t \in Threads,
             EnterNode(t) \/ Complete(t) \/ GetResult(t) \/ LeaveNode(t) \/ Cancelled(t)
      PROVE  UNCHANGED <<ledgerVars, issuer, proposal>>
  BY <1>3 DEF EnterNode, Complete, GetResult, LeaveNode, Cancelled
<1>4. CASE UNCHANGED <<ledgerVars, issuer, proposal>>
  BY <1>4 DEF ledgerVars, IssuedInv, Row, inject_context, idempotency_key
<1>5. CASE UNCHANGED vars
  BY <1>4, <1>5 DEF vars, agentVars
<1>6. QED
  BY <1>1, <1>2, <1>3, <1>4, <1>5 DEF Next, ApiNode, Finished

\* The inductive invariant of the loop composed with the endpoint.
LEMMA AgentInvariant == Spec => [](LedgerInv /\ AgentTypeOK /\ WaitingInv /\ IssuedInv)
<1>1. Init => AgentTypeOK /\ WaitingInv /\ IssuedInv
  BY AgentAssumption DEF Init, LedgerInit, AgentTypeOK, LedgerTypeOK, WaitingInv, IssuedInv
<1>2. Spec => []LedgerInv
  BY AgentImplementsLedger, LedgerInvariant, PTL
<1>3. LedgerInv /\ LedgerInv' /\ AgentTypeOK /\ WaitingInv /\ IssuedInv /\ [Next]_vars
        => (AgentTypeOK /\ WaitingInv /\ IssuedInv)'
  <2> SUFFICES ASSUME LedgerInv, LedgerInv', AgentTypeOK, WaitingInv, IssuedInv, [Next]_vars
               PROVE  (AgentTypeOK /\ WaitingInv /\ IssuedInv)'
    OBVIOUS
  <2>1. LedgerTypeOK'
    BY DEF LedgerInv
  <2>2. QED
    BY <2>1, AgentTypeStep, IssuedStep
<1>4. QED
  BY <1>1, <1>2, <1>3, PTL DEF Spec

\* The slot a call debits names its conversation and its proposal.
LEMMA SlotNamesCall ==
  ASSUME LedgerInv, IssuedInv, NEW c \in Calls, callPc[c] # "free"
  PROVE  Slot(c) = <<TenantOf[issuer[c]], <<issuer[c], proposal[c]>>>>
  BY InjectedRequest DEF IssuedInv, Slot

\* A row on record: the call that made it, and that call's slot.
LEMMA RowNamesCall ==
  ASSUME LedgerInv, IssuedInv, NEW row \in refunds
  PROVE  /\ row.by \in Calls
         /\ SlotOf(row) = <<TenantOf[issuer[row.by]], <<issuer[row.by], proposal[row.by]>>>>
<1>1. PICK c \in Calls : c = row.by
  BY DEF LedgerInv, LedgerTypeOK, Refunds
<1>2. callPc[c] # "free" /\ row = Row(c)
  BY <1>1 DEF IssuedInv
<1>3. SlotOf(row) = Slot(c)
  BY <1>2 DEF SlotOf, Slot, Row
<1>4. QED
  BY <1>1, <1>2, <1>3, SlotNamesCall

\* Every variable of the agent and of the endpoint keeps its type.
THEOREM AgentTypeCorrect == Spec => []AgentTypeOK
  BY AgentInvariant, PTL

\* Whatever tenant the model proposes, a conversation only debits its own.
THEOREM TenantIsInjected == Spec => []TenantBoundary
<1>1. LedgerInv /\ IssuedInv => TenantBoundary
  BY RowNamesCall DEF TenantBoundary, SlotOf
<1>2. QED
  BY <1>1, AgentInvariant, PTL

\* A conversation is refunded the same proposal once, whatever the loop issues
\* again, whichever visits are cancelled and whichever answers are lost.
THEOREM ProposalRefundedOnce == Spec => []SameProposalOnce
<1>1. LedgerInv /\ IssuedInv => SameProposalOnce
  <2> SUFFICES ASSUME LedgerInv, IssuedInv, NEW x \in refunds, NEW y \in refunds,
                      issuer[x.by] = issuer[y.by], proposal[x.by] = proposal[y.by]
               PROVE  x = y
    BY DEF SameProposalOnce
  <2>1. SlotOf(x) = SlotOf(y)
    BY RowNamesCall
  <2>2. QED
    BY <2>1 DEF LedgerInv, DebitedOnce
<1>2. QED
  BY <1>1, AgentInvariant, PTL

\* What a tool call is told is the refund of its own conversation and proposal.
THEOREM CallAnsweredItsOwn == Spec => []AnswersOwnCall
<1>1. LedgerInv /\ IssuedInv => AnswersOwnCall
  <2> SUFFICES ASSUME LedgerInv, IssuedInv, NEW c \in Calls, status[c] = 200
               PROVE  issuer[view[c].by] = issuer[c] /\ proposal[view[c].by] = proposal[c]
    BY DEF AnswersOwnCall
  <2>1. callPc[c] # "free"
    BY DEF LedgerInv, CallInv
  <2>2. PICK row \in refunds : row = view[c] /\ SlotOf(row) = Slot(c)
    BY DEF LedgerInv, AnswersAreOnRecord
  <2>3. <<issuer[row.by], proposal[row.by]>> = <<issuer[c], proposal[c]>>
    BY <2>1, <2>2, RowNamesCall, SlotNamesCall
  <2>4. QED
    BY <2>2, <2>3
<1>2. QED
  BY <1>1, AgentInvariant, PTL

-----------------------------------------------------------------------------
(* IdempotentPost                                                            *)

\* r has set the sentinel and not yet been answered, or its work has run.
Holds(r) == Working(r) \/ r \in ran

\* A request that works has a well-formed key; past doWork, it has run.
StageInv ==
  /\ \A r \in Posts : pc[r] \in {"missed", "acquired", "worked", "storeFailed"} => KeyOf[r] \in PostKeys
  /\ \A r \in Posts : pc[r] \in {"worked", "storeFailed"} => r \in ran

\* A live entry is occupied by the one request that holds it.
HolderInv ==
  /\ \A r \in Posts : Holds(r) /\ KeyOf[r] \in PostKeys \ released => redis[KeyOf[r]] # Absent
  /\ \A r, q \in Posts :
       Holds(r) /\ Holds(q) /\ KeyOf[r] = KeyOf[q] /\ KeyOf[r] \in PostKeys \ released => r = q

\* Bodies and successful answers come from work done under the same key.
SourceInv ==
  /\ \A k \in PostKeys : redis[k] \in Bodies => redis[k].by \in ran /\ KeyOf[redis[k].by] = k
  /\ \A r \in Posts : reply[r].status = 200 =>
       /\ KeyOf[r] \in PostKeys
       /\ reply[r].by \in ran
       /\ KeyOf[reply[r].by] = KeyOf[r]
       /\ reply[r] = Ok(reply[r].by)
  /\ \A r \in ran : KeyOf[r] \in PostKeys

PostInv == TypeOK /\ StageInv /\ HolderInv /\ SourceInv

-----------------------------------------------------------------------------
\* What an entry can be: absent, the sentinel and a body are told apart, and a
\* body names the request that computed it.
LEMMA EntryValues ==
  /\ Absent # InFlight
  /\ Absent \notin Bodies
  /\ InFlight \notin Bodies
  /\ \A r \in Posts : \A form \in {"object", "other"} :
       Body(r, form) \in Bodies /\ Body(r, form).by = r
  /\ \A b \in Bodies : b.by \in Posts
<1>1. Absent # InFlight
  BY DEF Absent, InFlight
<1>2. \A r \in Posts : \A form \in {"object", "other"} : Body(r, form) \in Bodies /\ Body(r, form).by = r
  BY DEF Body, Bodies
<1>3. \A b \in Bodies : b.by \in Posts /\ b.kind = "body"
  BY DEF Body, Bodies
<1>4. Absent.kind # "body" /\ InFlight.kind # "body"
  BY DEF Absent, InFlight
<1>5. QED
  BY <1>1, <1>2, <1>3, <1>4

\* What an answer can be: a 200 names the computation whose body it carries.
LEMMA ReplyValues ==
  /\ \A r \in Posts : Ok(r) \in Replies /\ Ok(r).status = 200 /\ Ok(r).by = r
  /\ \A a \in {NoReply, BadRequest, Conflict, ServerError} : a \in Replies /\ a.status # 200
<1>1. \A r \in Posts : Ok(r) \in Replies /\ Ok(r).status = 200 /\ Ok(r).by = r
  BY DEF Replies, Ok
<1>2. NoReply.status # 200 /\ BadRequest.status # 200 /\ Conflict.status # 200 /\ ServerError.status # 200
  BY DEF NoReply, BadRequest, Conflict, ServerError
<1>3. QED
  BY <1>1, <1>2 DEF Replies

\* Every step keeps the variables in their sets.
LEMMA TypeStep ==
  ASSUME TypeOK, StageInv, [PostNext]_postVars
  PROVE  TypeOK'
<1> USE IdempotencyAssumption
<1>1. CASE UNCHANGED postVars
  BY <1>1 DEF postVars, TypeOK
<1>2. ASSUME NEW r \in Posts, Refuse(r) PROVE TypeOK'
  BY <1>2, EntryValues, ReplyValues DEF Refuse, Answer, GoTo, TypeOK
<1>3. ASSUME NEW r \in Posts, Get(r) PROVE TypeOK'
  <2>1. CASE redis[KeyOf[r]] \in Bodies /\ redis[KeyOf[r]].form = "object"
    BY <1>3, <2>1, EntryValues, ReplyValues DEF Get, Answer, TypeOK
  <2>2. CASE ~(redis[KeyOf[r]] \in Bodies /\ redis[KeyOf[r]].form = "object")
    <3>1. (redis[KeyOf[r]] \in Bodies) \in BOOLEAN
      OBVIOUS
    <3>2. PICK b \in BOOLEAN : sawBody' = [sawBody EXCEPT ![r] = b]
      BY <1>3, <2>2, <3>1 DEF Get
    <3>3. QED
      BY <1>3, <2>2, <3>2 DEF Get, GoTo, TypeOK
  <2>3. QED
    BY <2>1, <2>2
<1>4. ASSUME NEW r \in Posts, SetIfAbsent(r) PROVE TypeOK'
  BY <1>4, EntryValues, ReplyValues DEF SetIfAbsent, Answer, GoTo, TypeOK
<1>5. ASSUME NEW r \in Posts, RedisFails(r) PROVE TypeOK'
  BY <1>5, EntryValues, ReplyValues DEF RedisFails, Answer, GoTo, TypeOK
<1>6. ASSUME NEW r \in Posts, DoWork(r) PROVE TypeOK'
  BY <1>6, EntryValues, ReplyValues DEF DoWork, Answer, GoTo, TypeOK
<1>7. ASSUME NEW r \in Posts, Store(r) PROVE TypeOK'
  BY <1>7, EntryValues, ReplyValues DEF Store, Answer, GoTo, TypeOK
<1>8. ASSUME NEW r \in Posts, Forget(r) PROVE TypeOK'
  <2>1. PICK a \in {Ok(r), ServerError} : Answer(r, a)
    BY <1>8 DEF Forget
  <2>2. KeyOf[r] \in PostKeys \cup {Malformed} /\ redis' \in {redis, [redis EXCEPT ![KeyOf[r]] = Absent]}
    BY <1>8 DEF Forget
  <2>3. released' \in {released, released \cup {KeyOf[r]}}
    BY <1>8 DEF Forget
  <2>4. QED
    BY <1>8, <2>1, <2>2, <2>3, EntryValues, ReplyValues DEF Forget, Answer, TypeOK, StageInv
<1>9. ASSUME NEW r \in Posts, Crash(r) PROVE TypeOK'
  BY <1>9 DEF Crash, GoTo, TypeOK
<1>10. ASSUME NEW k \in PostKeys, Expire(k) PROVE TypeOK'
  BY <1>10, EntryValues DEF Expire, TypeOK
<1>11. QED
  BY <1>1, <1>2, <1>3, <1>4, <1>5, <1>6, <1>7, <1>8, <1>9, <1>10 DEF PostNext, Handle, AtRest

\* A request only moves past SETNX with a key, and past doWork by running it.
LEMMA StageStep ==
  ASSUME TypeOK, StageInv, [PostNext]_postVars
  PROVE  StageInv'
<1> USE IdempotencyAssumption
<1>1. CASE UNCHANGED postVars
  BY <1>1 DEF postVars, TypeOK, StageInv
<1>2. ASSUME NEW r \in Posts, Refuse(r) PROVE StageInv'
  BY <1>2, EntryValues, ReplyValues DEF Refuse, Answer, GoTo, TypeOK, StageInv
<1>3. ASSUME NEW r \in Posts, Get(r) PROVE StageInv'
  BY <1>3, EntryValues, ReplyValues DEF Get, Answer, GoTo, TypeOK, StageInv
<1>4. ASSUME NEW r \in Posts, SetIfAbsent(r) PROVE StageInv'
  BY <1>4, EntryValues, ReplyValues DEF SetIfAbsent, Answer, GoTo, TypeOK, StageInv
<1>5. ASSUME NEW r \in Posts, RedisFails(r) PROVE StageInv'
  BY <1>5, EntryValues, ReplyValues DEF RedisFails, Answer, GoTo, TypeOK, StageInv
<1>6. ASSUME NEW r \in Posts, DoWork(r) PROVE StageInv'
  BY <1>6, EntryValues, ReplyValues DEF DoWork, Answer, GoTo, TypeOK, StageInv
<1>7. ASSUME NEW r \in Posts, Store(r) PROVE StageInv'
  BY <1>7, EntryValues, ReplyValues DEF Store, Answer, GoTo, TypeOK, StageInv
<1>8. ASSUME NEW r \in Posts, Forget(r) PROVE StageInv'
  BY <1>8, EntryValues, ReplyValues DEF Forget, Answer, GoTo, TypeOK, StageInv
<1>9. ASSUME NEW r \in Posts, Crash(r) PROVE StageInv'
  BY <1>9 DEF Crash, GoTo, TypeOK, StageInv
<1>10. ASSUME NEW k \in PostKeys, Expire(k) PROVE StageInv'
  BY <1>10, EntryValues DEF Expire, TypeOK, StageInv
<1>11. QED
  BY <1>1, <1>2, <1>3, <1>4, <1>5, <1>6, <1>7, <1>8, <1>9, <1>10 DEF PostNext, Handle, AtRest

\* The holder of a live entry keeps it occupied and stays the only one.
LEMMA HolderStep ==
  ASSUME TypeOK, StageInv, HolderInv, [PostNext]_postVars
  PROVE  HolderInv'
<1> USE IdempotencyAssumption
<1>1. CASE UNCHANGED postVars
  BY <1>1 DEF postVars, TypeOK, StageInv, HolderInv, Holds, Working
<1>2. ASSUME NEW r \in Posts, Refuse(r) PROVE HolderInv'
  BY <1>2, EntryValues, ReplyValues DEF Refuse, Answer, GoTo, TypeOK, StageInv, HolderInv, Holds, Working
<1>3. ASSUME NEW r \in Posts, Get(r) PROVE HolderInv'
  BY <1>3, EntryValues, ReplyValues DEF Get, Answer, GoTo, TypeOK, StageInv, HolderInv, Holds, Working
<1>4. ASSUME NEW r \in Posts, SetIfAbsent(r) PROVE HolderInv'
  BY <1>4, EntryValues, ReplyValues DEF SetIfAbsent, Answer, GoTo, TypeOK, StageInv, HolderInv, Holds, Working
<1>5. ASSUME NEW r \in Posts, RedisFails(r) PROVE HolderInv'
  BY <1>5, EntryValues, ReplyValues DEF RedisFails, Answer, GoTo, TypeOK, StageInv, HolderInv, Holds, Working
<1>6. ASSUME NEW r \in Posts, DoWork(r) PROVE HolderInv'
  BY <1>6, EntryValues, ReplyValues DEF DoWork, Answer, GoTo, TypeOK, StageInv, HolderInv, Holds, Working
<1>7. ASSUME NEW r \in Posts, Store(r) PROVE HolderInv'
  BY <1>7, EntryValues, ReplyValues DEF Store, Answer, GoTo, TypeOK, StageInv, HolderInv, Holds, Working
<1>8. ASSUME NEW r \in Posts, Forget(r) PROVE HolderInv'
  BY <1>8, EntryValues, ReplyValues DEF Forget, Answer, GoTo, TypeOK, StageInv, HolderInv, Holds, Working
<1>9. ASSUME NEW r \in Posts, Crash(r) PROVE HolderInv'
  BY <1>9 DEF Crash, GoTo, TypeOK, StageInv, HolderInv, Holds, Working
<1>10. ASSUME NEW k \in PostKeys, Expire(k) PROVE HolderInv'
  BY <1>10, EntryValues DEF Expire, TypeOK, StageInv, HolderInv, Holds, Working
<1>11. QED
  BY <1>1, <1>2, <1>3, <1>4, <1>5, <1>6, <1>7, <1>8, <1>9, <1>10 DEF PostNext, Handle, AtRest

\* What is stored or answered comes from work under the same key.
LEMMA SourceStep ==
  ASSUME TypeOK, StageInv, SourceInv, [PostNext]_postVars
  PROVE  SourceInv'
<1> USE IdempotencyAssumption
<1>1. CASE UNCHANGED postVars
  BY <1>1 DEF postVars, TypeOK, StageInv, SourceInv
<1>2. ASSUME NEW r \in Posts, Refuse(r) PROVE SourceInv'
  BY <1>2, EntryValues, ReplyValues DEF Refuse, Answer, GoTo, TypeOK, StageInv, SourceInv
<1>3. ASSUME NEW r \in Posts, Get(r) PROVE SourceInv'
  BY <1>3, EntryValues, ReplyValues DEF Get, Answer, GoTo, TypeOK, StageInv, SourceInv
<1>4. ASSUME NEW r \in Posts, SetIfAbsent(r) PROVE SourceInv'
  BY <1>4, EntryValues, ReplyValues DEF SetIfAbsent, Answer, GoTo, TypeOK, StageInv, SourceInv
<1>5. ASSUME NEW r \in Posts, RedisFails(r) PROVE SourceInv'
  BY <1>5, EntryValues, ReplyValues DEF RedisFails, Answer, GoTo, TypeOK, StageInv, SourceInv
<1>6. ASSUME NEW r \in Posts, DoWork(r) PROVE SourceInv'
  BY <1>6, EntryValues, ReplyValues DEF DoWork, Answer, GoTo, TypeOK, StageInv, SourceInv
<1>7. ASSUME NEW r \in Posts, Store(r) PROVE SourceInv'
  BY <1>7, EntryValues, ReplyValues, SMTT(40) DEF Store, Answer, GoTo, TypeOK, StageInv, SourceInv
<1>8. ASSUME NEW r \in Posts, Forget(r) PROVE SourceInv'
  <2>1. PICK a \in {Ok(r), ServerError} : Answer(r, a)
    BY <1>8 DEF Forget
  <2>2. KeyOf[r] \in PostKeys \cup {Malformed} /\ redis' \in {redis, [redis EXCEPT ![KeyOf[r]] = Absent]}
    BY <1>8 DEF Forget
  <2>3. released' \in {released, released \cup {KeyOf[r]}}
    BY <1>8 DEF Forget
  <2>4. QED
    BY <1>8, <2>1, <2>2, <2>3, EntryValues, ReplyValues DEF Forget, Answer, TypeOK, StageInv, SourceInv
<1>9. ASSUME NEW r \in Posts, Crash(r) PROVE SourceInv'
  BY <1>9 DEF Crash, GoTo, TypeOK, StageInv, SourceInv
<1>10. ASSUME NEW k \in PostKeys, Expire(k) PROVE SourceInv'
  BY <1>10, EntryValues DEF Expire, TypeOK, StageInv, SourceInv
<1>11. QED
  BY <1>1, <1>2, <1>3, <1>4, <1>5, <1>6, <1>7, <1>8, <1>9, <1>10 DEF PostNext, Handle, AtRest

\* The whole invariant is inductive and holds from the start.
THEOREM PostInvariant == PostSpec => []PostInv
<1>1. PostInit => PostInv
  BY IdempotencyAssumption, EntryValues, ReplyValues
  DEF PostInit, PostInv, TypeOK, StageInv, HolderInv, SourceInv, Holds, Working
<1>2. PostInv /\ [PostNext]_postVars => PostInv'
  BY TypeStep, StageStep, HolderStep, SourceStep DEF PostInv
<1>3. QED
  BY <1>1, <1>2, PTL DEF PostSpec

\* Type correctness of IdempotencyService.handle's model.
THEOREM PostTypeCorrect == PostSpec => []TypeOK
<1>1. PostInv => TypeOK
  BY DEF PostInv
<1>2. QED
  BY <1>1, PostInvariant, PTL

\* doWork runs at most once per key while its entry lives, for any number of
\* concurrent requests, failing Redis commands and crashes.
THEOREM PostOnce == PostSpec => []WorkedOnce
<1>1. PostInv => WorkedOnce
  BY DEF PostInv, TypeOK, HolderInv, SourceInv, Holds, WorkedOnce
<1>2. QED
  BY <1>1, PostInvariant, PTL

\* Every 200 under a live key carries the body of one computation.
THEOREM RetriesAgree == PostSpec => []SameResult
<1>1. PostInv => SameResult
  BY DEF PostInv, TypeOK, HolderInv, SourceInv, Holds, SameResult
<1>2. QED
  BY <1>1, PostInvariant, PTL

-----------------------------------------------------------------------------
\* A body in the table was stored by a request that is past its SET: it will not
\* store another.
StoredInv == \A k \in PostKeys : redis[k] \in Bodies => pc[redis[k].by] \in {"storeFailed", "done", "crashed"}

\* Bodies only come from a SET, which takes its request on.
LEMMA StoredStep ==
  ASSUME PostInv, StoredInv, [PostNext]_postVars PROVE StoredInv'
<1> USE IdempotencyAssumption
<1>1. CASE UNCHANGED postVars
  BY <1>1 DEF postVars, StoredInv
<1>2. ASSUME NEW r \in Posts, Refuse(r) \/ Get(r) \/ DoWork(r) \/ Crash(r) PROVE StoredInv'
  <2>1. /\ UNCHANGED redis /\ pc[r] \in {"start", "missed", "acquired", "worked", "storeFailed"}
        /\ \E l \in {"missed", "worked", "done", "crashed"} :
             pc' = [pc EXCEPT ![r] = l] /\ (l \in {"missed", "worked"} => pc[r] \in {"start", "acquired"})
    BY <1>2 DEF Refuse, Get, DoWork, Crash, Answer, GoTo
  <2>2. QED
    BY <2>1, EntryValues DEF PostInv, TypeOK, StoredInv
<1>3. ASSUME NEW r \in Posts, SetIfAbsent(r) \/ RedisFails(r) PROVE StoredInv'
  <2>1. /\ pc[r] \in {"start", "missed"} /\ \E l \in {"acquired", "done"} : pc' = [pc EXCEPT ![r] = l]
        /\ \/ UNCHANGED redis
           \/ redis' = [redis EXCEPT ![KeyOf[r]] = InFlight]
    BY <1>3 DEF SetIfAbsent, RedisFails, Answer, GoTo
  <2>2. QED
    BY <2>1, EntryValues DEF PostInv, TypeOK, StoredInv
<1>4. ASSUME NEW r \in Posts, Store(r) PROVE StoredInv'
  <2>1. /\ \E l \in {"storeFailed", "done"} : pc' = [pc EXCEPT ![r] = l]
        /\ \/ UNCHANGED redis
           \/ \E form \in {"object", "other"} : redis' = [redis EXCEPT ![KeyOf[r]] = Body(r, form)]
    BY <1>4 DEF Store, Answer, GoTo
  <2>2. QED
    BY <2>1, EntryValues DEF PostInv, TypeOK, StoredInv
<1>5. ASSUME NEW r \in Posts, Forget(r) PROVE StoredInv'
  <2>1. /\ pc' = [pc EXCEPT ![r] = "done"]
        /\ redis' = redis \/ redis' = [redis EXCEPT ![KeyOf[r]] = Absent]
    BY <1>5 DEF Forget, Answer
  <2>2. QED
    BY <2>1, EntryValues DEF PostInv, TypeOK, StoredInv
<1>6. ASSUME NEW k \in PostKeys, Expire(k) PROVE StoredInv'
  BY <1>6, EntryValues DEF Expire, PostInv, TypeOK, StoredInv
<1>7. QED
  BY <1>1, <1>2, <1>3, <1>4, <1>5, <1>6 DEF PostNext, Handle, AtRest

\* A step that changes an entry with a body lets it expire, or is the clean-up of
\* the request that stored it.
LEMMA BodyTakenByOwner ==
  ASSUME PostInv, StoredInv, [PostNext]_postVars, NEW k \in PostKeys,
         redis[k] \in Bodies, k \notin released, redis'[k] # redis[k]
  PROVE  expiries' # expiries \/ pc[redis[k].by] = "storeFailed"
<1> USE IdempotencyAssumption
<1>0. redis[k] # Absent /\ redis[k].by \in Posts /\ redis[k].by \in ran /\ KeyOf[redis[k].by] = k
  BY EntryValues DEF PostInv, SourceInv
<1>1. ASSUME NEW r \in Posts, Store(r) \/ Forget(r) PROVE pc[redis[k].by] = "storeFailed"
  <2>1. pc[r] \in {"worked", "storeFailed"} /\ (pc[r] = "worked" => Store(r))
    BY <1>1 DEF Store, Forget
  <2>2. KeyOf[r] = k
    BY <1>1 DEF Store, Forget, PostInv, TypeOK
  <2>3. r = redis[k].by
    BY <1>0, <2>1, <2>2 DEF PostInv, HolderInv, Holds, Working
  <2>4. pc[r] # "worked"
    BY <2>3 DEF StoredInv
  <2>5. QED
    BY <2>1, <2>3, <2>4
<1>2. ASSUME NEW r \in Posts, SetIfAbsent(r) \/ RedisFails(r) PROVE FALSE
  <2>1. redis' = redis \/ (redis[KeyOf[r]] = Absent /\ redis' = [redis EXCEPT ![KeyOf[r]] = InFlight])
    BY <1>2 DEF SetIfAbsent, RedisFails
  <2>2. QED
    BY <1>0, <2>1 DEF PostInv, TypeOK
<1>3. ASSUME NEW r \in Posts, Refuse(r) \/ Get(r) \/ DoWork(r) \/ Crash(r) PROVE FALSE
  BY <1>3 DEF Refuse, Get, DoWork, Crash
<1>4. ASSUME NEW j \in PostKeys, Expire(j) PROVE expiries' # expiries
  BY <1>4 DEF Expire, PostInv, TypeOK
<1>5. CASE UNCHANGED postVars
  BY <1>5 DEF postVars
<1>6. QED
  BY <1>1, <1>2, <1>3, <1>4, <1>5 DEF PostNext, Handle, AtRest

\* A stored result stays for as long as its key lives: no late SETNX, no SET of a
\* request that was overtaken and no other request's clean-up removes or replaces
\* it.
THEOREM StoredResultStays == PostSpec => ResultStays
<1>1. PostInit => StoredInv
  BY EntryValues DEF PostInit, StoredInv
<1>2. PostInv /\ StoredInv /\ [PostNext]_postVars => StoredInv'
  BY StoredStep
<1>3. PostInv /\ StoredInv /\ [PostNext]_postVars =>
        [\A k \in PostKeys :
           redis[k] \in Bodies /\ k \notin released /\ redis'[k] # redis[k]
             => expiries' # expiries \/ pc[redis[k].by] = "storeFailed"]_postVars
  BY BodyTakenByOwner
<1>4. QED
  BY <1>1, <1>2, <1>3, PostInvariant, PTL DEF PostSpec, ResultStays
=============================================================================
