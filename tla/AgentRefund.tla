---------------------------- MODULE AgentRefund ---------------------------
(***************************************************************************)
(* The agent's api node, its tool-use loop and the orders.create_refund    *)
(* tool of the MCP server, composed with RefundLedger. A conversation      *)
(* (thread) may enter the node again after a deadline, a restart from its  *)
(* checkpoint or a second request. What the model proposes is arbitrary.   *)
(***************************************************************************)
EXTENDS RefundLedger

CONSTANTS
  Threads,       \* conversations
  TenantOf,      \* [Threads -> Tenants], the tenant of the request
  Wordings,      \* what the model writes freely: the reason, how it spells the
                 \* amount, the idempotency_key the published schema asks it for
  MaxIterations, \* MAX_TOOL_ITERATIONS
  MaxVisits      \* bound on the times a thread runs the node

\* The arguments of one proposed create_refund call.
Proposals == [order : Orders, tenant : Tenants, wording : Wordings]

ASSUME AgentAssumption ==
  /\ TenantOf \in [Threads -> Tenants]
  /\ Keys = Threads \X Proposals
  /\ MaxIterations \in Nat
  /\ MaxVisits \in Nat

VARIABLES
  nodePc,   \* where each thread's api node stands
  turn,     \* completions of the current visit
  visits,   \* visits so far
  pending,  \* the HTTP call the node awaits
  issuer,   \* history: the thread that issued a call
  proposal, \* history: what the model had proposed for it
  unseen    \* history: calls the node was cancelled in

agentVars == <<nodePc, turn, visits, pending, issuer, proposal, unseen>>
vars == <<ledgerVars, agentVars>>

AgentTypeOK ==
  /\ LedgerTypeOK
  /\ nodePc \in [Threads -> {"out", "calling", "waiting"}]
  /\ turn \in [Threads -> 0 .. MaxIterations]
  /\ visits \in [Threads -> 0 .. MaxVisits]
  /\ pending \in [Threads -> Calls \cup {Nothing}]
  /\ issuer \in [Calls -> Threads \cup {Nothing}]
  /\ proposal \in [Calls -> Proposals \cup {Nothing}]
  /\ unseen \in SUBSET Calls

Init ==
  /\ LedgerInit
  /\ nodePc = [t \in Threads |-> "out"]
  /\ turn = [t \in Threads |-> 0]
  /\ visits = [t \in Threads |-> 0]
  /\ pending = [t \in Threads |-> Nothing]
  /\ issuer = [c \in Calls |-> Nothing]
  /\ proposal = [c \in Calls |-> Nothing]
  /\ unseen = {}

-----------------------------------------------------------------------------
\* Mutants of idempotency_key: another key for every visit of the node (the key of
\* some other wording stands for it); the thread left out.
idempotency_key_PerVisit(t, p) ==
  IF visits[t] = 1 THEN <<t, p>>
  ELSE <<t, [p EXCEPT !.wording = CHOOSE w \in Wordings : w # p.wording]>>

idempotency_key_NoThread(t, p) == <<CHOOSE th \in Threads : TRUE, p>>

\* uuid5 over the thread, the tool and the arguments the model proposed.
idempotency_key(t, p) == <<t, p>>

\* The tenant is overwritten with the request's and the key added; _create_refund
\* sends the key in the header and in the body.
inject_context(t, p) ==
  [order |-> p.order, tenant |-> TenantOf[t],
   headerKey |-> idempotency_key(t, p), bodyKey |-> idempotency_key(t, p)]

\* The graph runs the node, for a new request or to replay a checkpoint.
EnterNode(t) ==
  /\ nodePc[t] = "out"
  /\ visits[t] < MaxVisits
  /\ nodePc' = [nodePc EXCEPT ![t] = "calling"]
  /\ visits' = [visits EXCEPT ![t] = @ + 1]
  /\ turn' = [turn EXCEPT ![t] = 0]
  /\ UNCHANGED <<ledgerVars, pending, issuer, proposal, unseen>>

\* A completion that asks for tools: its blocks are carried out one by one.
Complete(t) ==
  /\ nodePc[t] = "calling"
  /\ turn[t] < MaxIterations
  /\ turn' = [turn EXCEPT ![t] = @ + 1]
  /\ UNCHANGED <<ledgerVars, nodePc, visits, pending, issuer, proposal, unseen>>

\* call_tool of one block, up to the POST that reaches taxcalc-orders. (A call the
\* MCP server refuses, or that is lost before, changes nothing the node keeps.)
CallTool(t, c, p) ==
  /\ nodePc[t] = "calling"
  /\ turn[t] > 0
  /\ Receive(c, inject_context(t, p))
  /\ nodePc' = [nodePc EXCEPT ![t] = "waiting"]
  /\ pending' = [pending EXCEPT ![t] = c]
  /\ issuer' = [issuer EXCEPT ![c] = t]
  /\ proposal' = [proposal EXCEPT ![c] = p]
  /\ UNCHANGED <<turn, visits, unseen>>

\* The tool's result, a view or an error, is handed back to the model.
GetResult(t) ==
  /\ nodePc[t] = "waiting"
  /\ callPc[pending[t]] = "done"
  /\ nodePc' = [nodePc EXCEPT ![t] = "calling"]
  /\ pending' = [pending EXCEPT ![t] = Nothing]
  /\ UNCHANGED <<ledgerVars, turn, visits, issuer, proposal, unseen>>

\* The model is done, the turns or the budget are used up, or the deadline strikes
\* while no call is awaited.
LeaveNode(t) ==
  /\ nodePc[t] = "calling"
  /\ nodePc' = [nodePc EXCEPT ![t] = "out"]
  /\ UNCHANGED <<ledgerVars, turn, visits, pending, issuer, proposal, unseen>>

\* The deadline cancels the node, or the pod dies: the call it awaited goes on.
Cancelled(t) ==
  /\ nodePc[t] = "waiting"
  /\ nodePc' = [nodePc EXCEPT ![t] = "out"]
  /\ pending' = [pending EXCEPT ![t] = Nothing]
  /\ unseen' = unseen \cup {pending[t]}
  /\ UNCHANGED <<ledgerVars, turn, visits, issuer, proposal>>

ApiNode(t) ==
  \/ EnterNode(t) \/ Complete(t) \/ GetResult(t) \/ LeaveNode(t) \/ Cancelled(t)
  \/ \E c \in Calls, p \in Proposals : CallTool(t, c, p)

Finished ==
  /\ \A t \in Threads : nodePc[t] = "out" /\ visits[t] = MaxVisits
  /\ \A c \in Calls : callPc[c] \in {"free", "done"}
  /\ UNCHANGED vars

Next ==
  \/ \E t \in Threads : ApiNode(t)
  \/ \E c \in Calls : Serve(c) /\ UNCHANGED agentVars
  \/ Finished

Spec == Init /\ [][Next]_vars

-----------------------------------------------------------------------------
\* Tenancy is injected rather than trusted: whatever tenant the model proposes,
\* a conversation only ever debits its own.
TenantBoundary ==
  \A row \in refunds : row.tenant = TenantOf[issuer[row.by]]

\* The same proposal is refunded once per conversation, although the loop issues
\* it again, the node is replayed or a cancelled call still commits.
SameProposalOnce ==
  \A x, y \in refunds :
    issuer[x.by] = issuer[y.by] /\ proposal[x.by] = proposal[y.by] => x = y

\* Keys never mix up distinct calls: what a tool call is answered is the refund
\* of its own conversation and its own proposal.
AnswersOwnCall ==
  \A c \in Calls : status[c] = 200 =>
    issuer[view[c].by] = issuer[c] /\ proposal[view[c].by] = proposal[c]

\* Refuted: a refund whose result the node never saw, because it was cancelled or the
\* answer was lost, is not made a second time by the loop re-issuing it, by a
\* replay of the node or by the retry that follows.
ReissueCollapses ==
  \A x, y \in refunds :
    /\ x.by \in unseen \/ status[x.by] = 500
    /\ issuer[x.by] = issuer[y.by] /\ x.order = y.order
    => x = y
=============================================================================
