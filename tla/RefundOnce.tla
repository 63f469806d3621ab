---------------------------- MODULE RefundOnce ----------------------------
(***************************************************************************)
(* What the refund endpoint promises: a ledger that is debited at most     *)
(* once per tenant and idempotency key, and callers that are only ever     *)
(* told of the debit made under the slot they asked for.                   *)
(***************************************************************************)
CONSTANTS
  Calls,    \* HTTP calls
  Refunds,  \* ledger rows, records with fields by, order, tenant, key
  Nothing   \* no slot, no answer

VARIABLES
  ledger,   \* the refunds on record
  asked,    \* the slot each call asked for
  answer    \* the refund each call was told of

vars == <<ledger, asked, answer>>

SlotOf(row) == <<row.tenant, row.key>>

Init ==
  /\ ledger = {}
  /\ asked = [c \in Calls |-> Nothing]
  /\ answer = [c \in Calls |-> Nothing]

Ask(c) ==
  /\ asked[c] = Nothing
  /\ \E row \in Refunds : asked' = [asked EXCEPT ![c] = SlotOf(row)]
  /\ UNCHANGED <<ledger, answer>>

Tell(c, row) ==
  /\ answer[c] = Nothing
  /\ answer' = [answer EXCEPT ![c] = row]

\* The slot is debited for the first time; the caller may not get to hear of it.
Debit(c) ==
  \E row \in Refunds :
    /\ row.by = c
    /\ SlotOf(row) = asked[c]
    /\ \A other \in ledger : SlotOf(other) # SlotOf(row)
    /\ ledger' = ledger \cup {row}
    /\ Tell(c, row) \/ UNCHANGED answer
    /\ UNCHANGED asked

\* The slot was debited before: the caller is told of that debit.
Replay(c) ==
  \E row \in ledger :
    /\ SlotOf(row) = asked[c]
    /\ Tell(c, row)
    /\ UNCHANGED <<ledger, asked>>

Next == \E c \in Calls : Ask(c) \/ Debit(c) \/ Replay(c)

Spec == Init /\ [][Next]_vars
=============================================================================
