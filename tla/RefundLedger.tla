--------------------------- MODULE RefundLedger ---------------------------
(***************************************************************************)
(* taxcalc-orders: POST /orders/{orderId}/refunds, from the tenant filter  *)
(* through OrderController.createRefund to RefundService.refund, with the  *)
(* refunds table and its unique index on (tenant_id, idempotency_key).     *)
(* Calls run concurrently, each in a READ COMMITTED transaction, one SQL   *)
(* statement per step. A refund's id, amount and reason are those of the   *)
(* call that made it, so a row names that call.                            *)
(***************************************************************************)
EXTENDS Naturals

CONSTANTS
  Calls,    \* HTTP calls
  Orders,
  Tenants,
  Keys,     \* idempotency keys
  Owned,    \* the orders table: pairs <<order, tenant>>
  Blank,    \* a missing or blank header or field
  Nothing   \* no row

ASSUME LedgerAssumption ==
  /\ Owned \subseteq Orders \X Tenants
  /\ Blank \notin Keys \cup Tenants
  /\ Nothing \notin Tenants \X Keys

\* A blank bodyKey stands for any field CreateRefundRequest's constructor refuses.
Requests == [order : Orders, tenant : Tenants \cup {Blank},
             headerKey : Keys \cup {Blank}, bodyKey : Keys \cup {Blank}]

Refunds == [by : Calls, order : Orders, tenant : Tenants, key : Keys]

VARIABLES
  request,  \* what each call carries
  callPc,   \* where it stands
  status,   \* the HTTP status it was answered, 0 before
  view,     \* the refund its 200 reports
  refunds   \* committed rows of the refunds table

ledgerVars == <<request, callPc, status, view, refunds>>

NoRequest == [order |-> Blank]

LedgerTypeOK ==
  /\ request \in [Calls -> Requests \cup {NoRequest}]
  /\ callPc \in [Calls -> {"free", "received", "checked", "inserted", "refused", "done"}]
  /\ status \in [Calls -> {0, 200, 400, 401, 404, 500}]
  /\ view \in [Calls -> Refunds \cup {Nothing}]
  /\ refunds \in SUBSET Refunds

LedgerInit ==
  /\ request = [c \in Calls |-> NoRequest]
  /\ callPc = [c \in Calls |-> "free"]
  /\ status = [c \in Calls |-> 0]
  /\ view = [c \in Calls |-> Nothing]
  /\ refunds = {}

-----------------------------------------------------------------------------
\* createRefund: the Idempotency-Key header wins over the body field.
EffectiveKey(q) == IF q.headerKey # Blank THEN q.headerKey ELSE q.bodyKey

Slot(c) == <<request[c].tenant, EffectiveKey(request[c])>>

SlotOf(row) == <<row.tenant, row.key>>

\* The row insertIfAbsent writes for a call.
Row(c) == [by |-> c, order |-> request[c].order, tenant |-> request[c].tenant,
           key |-> EffectiveKey(request[c])]

Respond(c, code, row) ==
  /\ callPc' = [callPc EXCEPT ![c] = "done"]
  /\ status' = [status EXCEPT ![c] = code]
  /\ view' = [view EXCEPT ![c] = row]

Proceed(c, label) ==
  /\ callPc' = [callPc EXCEPT ![c] = label]
  /\ UNCHANGED <<status, view>>

\* TenantAuthFilter and the compact constructor of CreateRefundRequest.
Receive(c, q) ==
  /\ callPc[c] = "free"
  /\ request' = [request EXCEPT ![c] = q]
  /\ \/ q.tenant = Blank /\ Respond(c, 401, Nothing)
     \/ q.tenant # Blank /\ q.bodyKey = Blank /\ Respond(c, 400, Nothing)
     \/ q.tenant # Blank /\ q.bodyKey # Blank /\ Proceed(c, "received")
  /\ UNCHANGED refunds

\* orders.existsForTenant.
CheckOrder(c) ==
  /\ callPc[c] = "received"
  /\ IF <<request[c].order, request[c].tenant>> \in Owned
     THEN Proceed(c, "checked")
     ELSE Respond(c, 404, Nothing)
  /\ UNCHANGED <<request, refunds>>

\* Mutant of InsertIfAbsent: the read-then-insert RefundService's comment warns of.
InsertIfAbsent_ReadFirst(c) ==
  /\ callPc[c] = "checked"
  /\ IF \E row \in refunds : SlotOf(row) = Slot(c)
     THEN Proceed(c, "refused")
     ELSE Proceed(c, "inserted")
  /\ UNCHANGED <<request, refunds>>

\* Mutant of InsertIfAbsent: an uncommitted row refuses the insert at once.
InsertIfAbsent_NoWait(c) ==
  /\ callPc[c] = "checked"
  /\ IF \/ \E row \in refunds : SlotOf(row) = Slot(c)
        \/ \E d \in Calls \ {c} : callPc[d] = "inserted" /\ Slot(d) = Slot(c)
     THEN Proceed(c, "refused")
     ELSE Proceed(c, "inserted")
  /\ UNCHANGED <<request, refunds>>

\* INSERT ... ON CONFLICT DO NOTHING: waits for a transaction that has inserted
\* the same slot, then inserts or does nothing.
InsertIfAbsent(c) ==
  /\ callPc[c] = "checked"
  /\ \A d \in Calls \ {c} : callPc[d] = "inserted" => Slot(d) # Slot(c)
  /\ IF \E row \in refunds : SlotOf(row) = Slot(c)
     THEN Proceed(c, "refused")
     ELSE Proceed(c, "inserted")
  /\ UNCHANGED <<request, refunds>>

\* refund returns and the transaction commits. The answer may be lost with the
\* connection although the commit took place.
Commit(c) ==
  /\ callPc[c] = "inserted"
  /\ refunds' = refunds \cup {Row(c)}
  /\ Respond(c, 200, Row(c)) \/ Respond(c, 500, Nothing)
  /\ UNCHANGED request

\* findByIdempotencyKey after a refused insert, or the IllegalStateException.
ReadBack(c) ==
  /\ callPc[c] = "refused"
  /\ \/ \E row \in refunds : SlotOf(row) = Slot(c) /\ Respond(c, 200, row)
     \/ (\A row \in refunds : SlotOf(row) # Slot(c)) /\ Respond(c, 500, Nothing)
  /\ UNCHANGED <<request, refunds>>

\* A statement or the commit fails, or the replica dies: the transaction rolls back.
RollBack(c) ==
  /\ callPc[c] \in {"received", "checked", "inserted", "refused"}
  /\ Respond(c, 500, Nothing)
  /\ UNCHANGED <<request, refunds>>

Serve(c) == CheckOrder(c) \/ InsertIfAbsent(c) \/ Commit(c) \/ ReadBack(c) \/ RollBack(c)

\* Every call has been answered; the endpoint waits for more.
Rest == (\A c \in Calls : callPc[c] = "done") /\ UNCHANGED ledgerVars

LedgerNext ==
  \/ \E c \in Calls : Serve(c) \/ \E q \in Requests : Receive(c, q)
  \/ Rest

LedgerSpec == LedgerInit /\ [][LedgerNext]_ledgerVars

-----------------------------------------------------------------------------
\* The ledger is debited once per tenant and key, whichever concurrent retries
\* pass insertIfAbsent and whichever of them roll back (RefundService's comment).
DebitedOnce ==
  \A x, y \in refunds : SlotOf(x) = SlotOf(y) => x = y

\* Every 200 reports a committed refund of the slot that was asked for, so all
\* callers of a slot are told of the same one.
AnswersAreOnRecord ==
  \A c \in Calls : status[c] = 200 => view[c] \in refunds /\ SlotOf(view[c]) = Slot(c)

\* The unique index and the lookup agree: a call whose insert was refused finds
\* the winning row, so refund never throws its IllegalStateException.
WinnerIsReadable ==
  \A c \in Calls : callPc[c] = "refused" => \E row \in refunds : SlotOf(row) = Slot(c)

\* RefundLedger implements RefundOnce: what is abstracted are the statements of
\* the transaction, the refusals and the calls that fail.
asked == [c \in Calls |-> IF callPc[c] = "free" \/ request[c].tenant = Blank
                             \/ EffectiveKey(request[c]) = Blank
                          THEN Nothing ELSE Slot(c)]

Abstract == INSTANCE RefundOnce WITH ledger <- refunds, answer <- view

\* Every behaviour of the endpoint debits at most once and tells the truth.
AtMostOnce == Abstract!Spec
=============================================================================
