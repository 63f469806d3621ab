------------------------------ MODULE LlmSpend ------------------------------
(***************************************************************************)
(* What LLM calls cost, across three services: LlmProxyClient of           *)
(* taxcalc-ai (estimate, with retries) and llm.chat of the MCP server buy  *)
(* completions from the Java proxy at /v1/completions, which limits the    *)
(* rate per subject, prices and logs each one, and calls the provider. An  *)
(* attempt goes on at the server when its client has given up. Money is    *)
(* counted in millionths of a dollar, what the price book's rates are per  *)
(* token; httpx, tenacity, bucket4j, the servlet container and the         *)
(* provider are modelled as the code uses them.                            *)
(***************************************************************************)
EXTENDS Integers, FiniteSets, FiniteSetsExt

CONSTANTS
  Estimates,   \* calls of LlmProxyClient.estimate
  Chats,       \* calls of llm.chat
  TokenOf,     \* of each call: its JWT's subject and tenant claim, or None
  AskedOf,     \* of each chat: the tenant_id argument
  CorrOf,      \* of each call: its X-Correlation-Id
  Models,      \* model ids that callers name
  RATES,       \* PriceBook: model ids to [input, output] per token
  Usages,      \* token counts the provider may report: [input, output]
  MaxRetries,  \* Settings.proxy_max_retries
  Capacity,    \* REQUESTS_PER_MINUTE
  MaxFaults,   \* bound on restarts, lost and crossed responses
  None

Calls == Estimates \cup Chats
Attempts == Calls \X (1 .. MaxRetries)

ASSUME SpendAssumption ==
  /\ MaxRetries \in Nat \ {0} /\ Capacity \in Nat \ {0} /\ MaxFaults \in Nat
  /\ \A m \in DOMAIN RATES : RATES[m].input \in Nat /\ RATES[m].output \in Nat
  /\ \A u \in Usages : u.input \in Nat /\ u.output \in Nat
  /\ Estimates \cap Chats = {}
  /\ None \notin [tenant : {"shared"} \cup {TokenOf[c].tenant : c \in Calls}, e5 : Nat]

VARIABLES
  model,   \* of each call: the model id it names
  pc,      \* of each call: "ready", "waiting", "backoff", "ok" or "failed"
  try,     \* the number of its current attempt
  answer,  \* the attempt whose completion it returned
  echoed,  \* history: of each estimate, whether that response named a correlation id
  srv,     \* where each attempt stands at the server
  reply,   \* its response: [status, fits], None before
  bucket,  \* bucketsBySubject
  bill,    \* history: what the provider charged for each attempt
  usage,   \* the token counts that UpstreamResponse carries for it
  log,     \* the cost lines: of each attempt [tenant, e5], None without
  cents,   \* the sum of cost_usd_minor in the MCP server's log
  lost,    \* history: attempts whose bill a fault kept from the proxy
  faults

clientVars == <<model, pc, try, answer, echoed, cents>>
serverVars == <<srv, reply, bucket, bill, usage, log, lost, faults>>
vars == <<clientVars, serverVars>>

Current(c) == <<c, try[c]>>

-----------------------------------------------------------------------------
(* The price of a completion.                                              *)

Exact(m, u) == RATES[m].input * u.input + RATES[m].output * u.output

\* RoundingMode.HALF_UP of n / 10, for n >= 0.
HalfUp(n) == (n + 5) \div 10

\* Mutant of costUsdE5: each token class rounded on its own.
costUsdE5_Twice(m, u) ==
  HalfUp(RATES[m].input * u.input) + HalfUp(RATES[m].output * u.output)

\* Units of 1e-5 USD. The working scale of 8 holds every product of a rate and a count, so
\* the division there is exact and the setScale rounds once.
costUsdE5(m, u) == HalfUp(Exact(m, u))

\* safeLong: of the counts that were charged, those the provider's usage block leaves out
\* are 0.
safeLong(u, given) ==
  [input |-> IF "input" \in given THEN u.input ELSE 0,
   output |-> IF "output" \in given THEN u.output ELSE 0]

Readings(u) == {safeLong(u, given) : given \in SUBSET {"input", "output"}}
Counted == UNION {Readings(u) : u \in Usages}

\* The MCP server reads X-Cost-Usd: whole cents, the rest truncated.
as_minor_units(e5) == e5 \div 1000

tenantOf(token) == IF token.tenant = None THEN "shared" ELSE token.tenant

\* Mutant of requirePriceable: an unknown model is met only when its call is priced.
requirePriceable_Late(m) == TRUE

requirePriceable(m) == m \in DOMAIN RATES

-----------------------------------------------------------------------------
TypeOK ==
  /\ model \in [Calls -> Models]
  /\ pc \in [Calls -> {"ready", "waiting", "backoff", "ok", "failed"}]
  /\ try \in [Calls -> 1 .. MaxRetries]
  /\ answer \in [Calls -> Attempts \cup {None}]
  /\ echoed \in [Estimates -> BOOLEAN]
  /\ srv \in [Attempts -> {"unsent", "filter", "provider", "observe", "replied", "gone"}]
  /\ \A s \in DOMAIN bucket : bucket[s] \in 0 .. Capacity
  /\ bill \in [Attempts -> Usages \cup {None}]
  /\ usage \in [Attempts -> Counted \cup {None}]
  /\ lost \subseteq Attempts
  /\ cents \in Nat /\ faults \in 0 .. MaxFaults

Init ==
  /\ model \in [Calls -> Models]
  /\ pc = [c \in Calls |-> "ready"]
  /\ try = [c \in Calls |-> 1]
  /\ answer = [c \in Calls |-> None]
  /\ echoed = [c \in Estimates |-> FALSE]
  /\ srv = [a \in Attempts |-> "unsent"]
  /\ reply = [a \in Attempts |-> None]
  /\ bucket = [s \in {TokenOf[c].subject : c \in Calls} |-> Capacity]
  /\ bill = [a \in Attempts |-> None]
  /\ usage = [a \in Attempts |-> None]
  /\ log = [a \in Attempts |-> None]
  /\ cents = 0 /\ lost = {} /\ faults = 0

-----------------------------------------------------------------------------
(* The clients.                                                            *)

\* One attempt: estimate built its prompt and wire body before, _chat its request.
_post(c) ==
  /\ pc[c] = "ready"
  /\ pc' = [pc EXCEPT ![c] = "waiting"]
  /\ srv' = [srv EXCEPT ![Current(c)] = "filter"]
  /\ UNCHANGED <<model, try, answer, echoed, cents, reply, bucket, bill, usage, log, lost, faults>>

\* llm.chat has no retry around its one request.
stop_after_attempt(c) == c \in Chats \/ try[c] = MaxRetries

\* The attempt ended in an exception that is transient or not.
Raised(c, transient) ==
  /\ pc' = [pc EXCEPT ![c] = IF transient /\ ~stop_after_attempt(c) THEN "backoff" ELSE "failed"]
  /\ UNCHANGED <<answer, echoed>>

_is_transient(status) == status >= 500

\* Mutant of _read_completion: the echo is not compared.
_read_completion_Unchecked(c, a, named) == reply[a].fits

\* A correlation id that the response names is compared, one that it lacks is not missed;
\* then the body and the completion are validated.
_read_completion(c, a, named) == (named => CorrOf[a[1]] = CorrOf[c]) /\ reply[a].fits

\* Either client has the response of attempt a in hand. The proxy names the correlation id
\* on each (CorrelationIdFilter), and what stands between may drop it. llm.chat adds up the
\* cost header before it looks at the status, compares no id and takes any body.
Receive(c, a) ==
  /\ pc[c] = "waiting"
  /\ srv[a] = "replied"
  /\ srv' = [srv EXCEPT ![a] = "gone"] /\ reply' = [reply EXCEPT ![a] = None]
  /\ cents' = IF c \in Chats /\ log[a] # None THEN cents + as_minor_units(log[a].e5) ELSE cents
  /\ IF reply[a].status # 200
     THEN Raised(c, _is_transient(reply[a].status))
     ELSE \/ /\ c \in Chats
             /\ answer' = [answer EXCEPT ![c] = a] /\ pc' = [pc EXCEPT ![c] = "ok"]
             /\ UNCHANGED echoed
          \/ \E named \in BOOLEAN :
             /\ c \in Estimates
             /\ IF _read_completion(c, a, named)
                THEN /\ answer' = [answer EXCEPT ![c] = a] /\ pc' = [pc EXCEPT ![c] = "ok"]
                     /\ echoed' = [echoed EXCEPT ![c] = named]
                ELSE Raised(c, FALSE)
  /\ UNCHANGED <<model, try, bucket, bill, usage, log, lost>>

OwnResponse(c) == Receive(c, Current(c)) /\ UNCHANGED faults

\* A cache or a proxy between them hands c the response of another call in flight.
CrossedResponse(c, d) ==
  /\ c # d /\ pc[d] = "waiting"
  /\ faults < MaxFaults /\ faults' = faults + 1
  /\ Receive(c, Current(d))

\* Mutant of TransportError: the client llm.chat uses has no timeout.
TransportError_Estimates(c) ==
  /\ pc[c] = "waiting" /\ c \in Estimates
  /\ Raised(c, TRUE)
  /\ UNCHANGED <<model, try, cents, serverVars>>

\* httpx.TimeoutException or NetworkError. The attempt goes on at the server.
TransportError(c) ==
  /\ pc[c] = "waiting"
  /\ Raised(c, TRUE)
  /\ UNCHANGED <<model, try, cents, serverVars>>

\* tenacity waits, and calls _post again.
Backoff(c) ==
  /\ pc[c] = "backoff"
  /\ pc' = [pc EXCEPT ![c] = "ready"]
  /\ try' = [try EXCEPT ![c] = @ + 1]
  /\ UNCHANGED <<model, answer, echoed, cents, serverVars>>

-----------------------------------------------------------------------------
(* The proxy.                                                              *)

Replied(a, status, fits) ==
  /\ srv' = [srv EXCEPT ![a] = "replied"]
  /\ reply' = [reply EXCEPT ![a] = [status |-> status, fits |-> fits]]

\* Fail before spending.
completions(a) ==
  \/ /\ requirePriceable(model[a[1]])
     /\ srv' = [srv EXCEPT ![a] = "provider"]
     /\ UNCHANGED reply
  \/ ~requirePriceable(model[a[1]]) /\ Replied(a, 400, FALSE)

\* A token of the subject's bucket, and on to the controller.
RateLimitFilter(a) ==
  LET s == TokenOf[a[1]].subject IN
  /\ srv[a] = "filter"
  /\ \/ bucket[s] > 0 /\ bucket' = [bucket EXCEPT ![s] = @ - 1] /\ completions(a)
     \/ bucket[s] = 0 /\ Replied(a, 429, FALSE) /\ UNCHANGED bucket
  /\ UNCHANGED <<clientVars, bill, usage, log, lost, faults>>

\* The provider generates and charges, and its usage block names both token counts, one or
\* neither; or the call does not get that far.
complete(a) ==
  /\ srv[a] = "provider"
  /\ \/ /\ \E u \in Usages : \E read \in Readings(u) :
             bill' = [bill EXCEPT ![a] = u] /\ usage' = [usage EXCEPT ![a] = read]
        /\ srv' = [srv EXCEPT ![a] = "observe"]
        /\ UNCHANGED reply
     \/ Replied(a, 500, FALSE) /\ UNCHANGED <<bill, usage>>
  /\ UNCHANGED <<clientVars, bucket, log, lost, faults>>

\* The provider charges and its response is lost: complete rethrows, nothing is logged.
ResponseLost(a) ==
  /\ srv[a] = "provider"
  /\ faults < MaxFaults /\ faults' = faults + 1
  /\ \E u \in Usages : bill' = [bill EXCEPT ![a] = u]
  /\ lost' = lost \cup {a}
  /\ Replied(a, 500, FALSE)
  /\ UNCHANGED <<clientVars, bucket, usage, log>>

\* The rest of observe and completions: price, log, header, body. The text may be null or
\* not what the estimate asked for.
observe(a, fits) ==
  LET c == a[1] IN
  /\ srv[a] = "observe"
  /\ IF model[c] \in DOMAIN RATES
     THEN /\ log' = [log EXCEPT ![a] = [tenant |-> tenantOf(TokenOf[c]), e5 |-> costUsdE5(model[c], usage[a])]]
          /\ Replied(a, 200, fits)
     ELSE Replied(a, 400, FALSE) /\ UNCHANGED log
  /\ UNCHANGED <<clientVars, bucket, bill, usage, lost, faults>>

\* A minute is over. (Refill.intervally)
Refill(s) ==
  /\ bucket[s] < Capacity
  /\ bucket' = [bucket EXCEPT ![s] = Capacity]
  /\ UNCHANGED <<clientVars, srv, reply, bill, usage, log, lost, faults>>

\* The proxy restarts: what it was doing is gone, and the buckets are full.
Restart ==
  /\ faults < MaxFaults /\ faults' = faults + 1
  /\ lost' = lost \cup {a \in Attempts : srv[a] = "observe"}
  /\ srv' = [a \in Attempts |-> IF srv[a] = "unsent" THEN "unsent" ELSE "gone"]
  /\ reply' = [a \in Attempts |-> None]
  /\ bucket' = [s \in DOMAIN bucket |-> Capacity]
  /\ UNCHANGED <<clientVars, bill, usage, log>>

-----------------------------------------------------------------------------
ClientStep(c) ==
  _post(c) \/ OwnResponse(c) \/ TransportError(c) \/ Backoff(c)

ServerStep(a) ==
  RateLimitFilter(a) \/ complete(a) \/ \E fits \in BOOLEAN : observe(a, fits)

Next ==
  \/ \E c \in Calls : ClientStep(c) \/ \E d \in Calls : CrossedResponse(c, d)
  \/ \E a \in Attempts : ServerStep(a) \/ ResponseLost(a)
  \/ \E s \in DOMAIN bucket : Refill(s)
  \/ Restart

Spec == Init /\ [][Next]_vars

\* A client's own timeout goes off; nothing is assumed of the proxy or the provider.
FairSpec == Spec /\ \A c \in Calls : WF_vars(ClientStep(c))

-----------------------------------------------------------------------------
Billed == {a \in Attempts : bill[a] # None}
Logged == {a \in Attempts : log[a] # None}

SumOf(f, S) == MapThenSumSet(LAMBDA x : f[x], S)

\* Whatever the provider charged is in the cost log, however the client that caused it has
\* fared meanwhile, unless a fault kept it from the proxy: a completion whose model has no
\* price, that timed out or was bought by a retry is no exception.
AccountedFor == \A a \in Billed : a \in Logged \/ a \in lost \/ srv[a] = "observe"

\* What a cost line is off from the charge behind it, in units of 1e-6 USD.
Off == [a \in Logged |-> 10 * log[a].e5 - Exact(model[a[1]], bill[a])]

\* The lines of charges that the provider's usage block named in full.
ReportedInFull == {a \in Logged : usage[a] = bill[a]}

Adding(f, S) == LET bound == 5 * Cardinality(S) IN SumOf(f, S) \in -bound .. bound

\* The log adds up to the invoice as far as the provider said what it charged: over any
\* number of calls, whatever their token counts, the sum of the lines that rest on a full
\* usage block is off by at most half a unit per line. And the log as a whole, the lines
\* whose counts defaulted to 0 included, never claims more than that above the invoice.
LogAddsUp ==
  /\ Adding(Off, ReportedInFull)
  /\ SumOf(Off, Logged) <= 5 * Cardinality(Logged)

\* An estimate whose response named a correlation id never rests on the completion of
\* another trace, whatever stands between the client and the proxy mixes up.
OwnTrace ==
  \A c \in Estimates : answer[c] # None /\ echoed[c] => CorrOf[answer[c][1]] = CorrOf[c]

\* Every call ends, with an answer or an error, even if the proxy never says a word, is
\* restarted in the middle or runs out of tokens on every attempt.
EveryCallEnds == \A c \in Calls : pc[c] = "ready" ~> pc[c] \in {"ok", "failed"}

-----------------------------------------------------------------------------
\* Refuted: a provider that reports no usage charges all the same, and the line says 0
\* ("a zero-cost call in the cost series").
LogIsTheInvoice == Adding(Off, Logged)

\* Refuted: a crossed response that lost its X-Correlation-Id on the way is taken.
NeverAnotherTrace ==
  \A c \in Estimates : answer[c] # None => CorrOf[answer[c][1]] = CorrOf[c]

\* Refuted: a timeout does not stop the attempt, and the retry buys another completion.
PaidOnce == \A c \in Estimates : Cardinality({a \in Billed : a[1] = c}) <= 1

\* Refuted: two estimates of one trace have the same correlation id, and the check of the
\* echo cannot tell their responses apart.
OwnAnswer == \A c \in Estimates : answer[c] # None => answer[c][1] = c

\* Refuted: calls of less than a cent each are zero in the MCP server's log, however many
\* they are.
CentsAddUp ==
  LET e5(c) == IF answer[c] # None /\ log[answer[c]] # None THEN log[answer[c]].e5 ELSE 0
  IN (\A c \in Chats : pc[c] = "ok") => cents = as_minor_units(MapThenSumSet(e5, Chats))

\* Refuted: the proxy bills the tenant claim of the token, and nothing compares it with the
\* tenant_id that llm.chat calls its billing tenant.
BillsTheTenantAsked ==
  \A a \in Logged : a[1] \in Chats => log[a].tenant = AskedOf[a[1]]
=============================================================================
