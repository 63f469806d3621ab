------------------------------ MODULE McpServer ------------------------------
(***************************************************************************)
(* taxcalc-mcp-server: callers connect over SSE (or are the one of stdio), *)
(* tool calls run concurrently as tasks of their session, the HTTP tools   *)
(* await an upstream, the RAG tool hands its work to a pool of threads     *)
(* under a deadline, and every exception passes the error envelope on its  *)
(* way out. The upstreams, asyncio and the SDK are modelled as the code    *)
(* uses them.                                                              *)
(***************************************************************************)
EXTENDS Integers, Sequences, FiniteSets, SequencesExt

CONSTANTS
  Sessions,    \* connections over SSE
  Calls,       \* slots for calls in flight
  Threads,     \* threads of the default executor
  Tools,       \* names of published tools
  Tenants,
  Bearers,     \* Authorization headers: [scheme, token, genuine, claim]
  Configured,  \* Settings.bearer_jwt
  Statuses,    \* statuses of the upstreams
  NoToken, None

ASSUME McpAssumption ==
  /\ [token |-> NoToken, claim |-> None] # None
  /\ None \notin Calls
  /\ \A b \in Bearers : \A claim \in {b.claim, None} : [token |-> b.token, claim |-> claim] # None

VARIABLES
  jwks,      \* Settings.jwks_url is set
  unset,     \* environment variables of the pipeline that are not set
  identity,  \* of each session: its token and tenant claim, or None
  pc,        \* where each call stands
  call,      \* its session, tool, tenant and arguments
  pending,   \* _PENDING_ERROR of its task
  reply,     \* what the caller got
  ended,     \* history: how its tool really ended
  queue,     \* calls whose work waits for a thread
  job,       \* the call each thread works for
  at,        \* where the thread stands
  clients,   \* keys of _RAG_CLIENTS
  conn,      \* the corpus connection: "none", "good" or "broken"
  acts       \* history: requests and retrievals made for a call

settings == <<jwks, unset>>
callVars == <<pc, call, pending, reply, ended>>
threadVars == <<queue, job, at, clients, conn>>
vars == <<settings, identity, callVars, threadVars, acts>>

-----------------------------------------------------------------------------
STATUS_TO_CODE ==
  [s \in {400, 401, 403, 404, 409, 429} |->
     CASE s = 400 -> 4001 [] s \in {401, 403} -> 4030 [] s = 404 -> 4040
       [] s = 409 -> 4090 [] s = 429 -> 4290]

\* How a tool ends: a result, an McpError with its code, a pydantic ValidationError or
\* any other exception.
Ok == [kind |-> "ok", code |-> 0]
Mcp(code) == [kind |-> "mcp", code |-> code]
Validation == [kind |-> "validation", code |-> 0]
Unmapped == [kind |-> "other", code |-> 0]

_map_http(s) == Mcp(IF s \in DOMAIN STATUS_TO_CODE THEN STATUS_TO_CODE[s] ELSE 5030)
rag_timeout == Mcp(5040)
tenant_mismatch == Mcp(STATUS_TO_CODE[403])

\* call_tool: the error it makes of an exception, INVALID_PARAMS for a ValidationError.
Structured(out) ==
  CASE out.kind = "mcp" -> out
    [] out.kind = "validation" -> Mcp(-32602)
    [] OTHER -> None

parse_bearer(b) == IF b.scheme = "bearer" THEN b.token ELSE NoToken

\* The middleware: without a JWKS url every token passes, with no claim.
_validate(b) == jwks => b.genuine
Admitted(b) == parse_bearer(b) # NoToken /\ _validate(b)
set_request_identity(b) == [token |-> parse_bearer(b), claim |-> IF jwks THEN b.claim ELSE None]

\* Mutant of cross_tenant_claim: a contradicting claim is only logged.
cross_tenant_claim_Logged(s, t) == FALSE

\* No claim is no opinion.
cross_tenant_claim(s, t) == identity[s].claim # None /\ identity[s].claim # t

\* The request's token before the configured one.
bearer_token(s) == IF identity[s].token # NoToken THEN identity[s].token ELSE Configured
auth_headers(s, t) == [tenant |-> t, token |-> bearer_token(s)]

\* How the arguments fare: the generated model, strict after enforce_strict_tool_schemas,
\* and the tool's own refuse "unfit" ones. An amount of more digits than the decimal
\* context has ("long") passes both as far as quantize, which raises InvalidOperation, and
\* pydantic lets that through.
Arguments == {"fit", "unfit", "long"}
Refusal(args) == IF args = "long" THEN Unmapped ELSE Validation

\* What a 200 becomes: the order tools validate the body as their view, llm.chat reads any
\* body with defaults for what it lacks.
model_validate(fits) == IF fits THEN Ok ELSE Validation
_parse_reply(fits) == Ok

NoCall == [session |-> None, tool |-> None, tenant |-> None, args |-> None]

-----------------------------------------------------------------------------
TypeOK ==
  /\ jwks \in BOOLEAN /\ unset \subseteq {"dsn", "redis"}
  /\ pc \in [Calls -> {"free", "validate", "observe", "http", "rag", "done"}]
  /\ \A c \in Calls : call[c] = NoCall \/ call[c].session \in Sessions
  /\ queue \in Seq(Calls)
  /\ job \in [Threads -> Calls \cup {None}]
  /\ at \in [Threads -> {"idle", "check", "anthropic", "conn", "redis", "read", "run"}]
  /\ clients \subseteq {"anthropic", "conn", "redis"}
  /\ conn \in {"none", "good", "broken"}

\* The stdio session, if there is one, is bound to no request.
Init ==
  /\ jwks \in BOOLEAN
  /\ unset \in SUBSET {"dsn", "redis"}
  /\ identity = [s \in Sessions |-> IF s = "stdio" THEN [token |-> NoToken, claim |-> None] ELSE None]
  /\ pc = [c \in Calls |-> "free"]
  /\ call = [c \in Calls |-> NoCall]
  /\ pending = [c \in Calls |-> None]
  /\ reply = [c \in Calls |-> None] /\ ended = [c \in Calls |-> None]
  /\ queue = <<>>
  /\ job = [t \in Threads |-> None] /\ at = [t \in Threads |-> "idle"]
  /\ clients = {} /\ conn = "none"
  /\ acts = {}

\* The handshake: BearerMiddleware binds the identity that the session's tasks inherit.
Connect(s, b) ==
  /\ identity[s] = None
  /\ Admitted(b)
  /\ identity' = [identity EXCEPT ![s] = set_request_identity(b)]
  /\ UNCHANGED <<settings, callVars, threadVars, acts>>

\* Mutant of Slot: an attribute of the server in place of the ContextVar.
Slot_Attribute(c) == CHOOSE d \in Calls : TRUE

\* Each task has a context of its own.
Slot(c) == c

\* A CallToolRequest. Over SSE its POST passes the middleware too, with a bearer that is
\* admitted and then not looked at again.
CallTool(c, s, tool, t, args) ==
  /\ pc[c] = "free"
  /\ args = "long" => tool = "orders.create_refund"
  /\ identity[s] # None
  /\ s # "stdio" => \E b \in Bearers : Admitted(b)
  /\ pc' = [pc EXCEPT ![c] = "validate"]
  /\ call' = [call EXCEPT ![c] = [session |-> s, tool |-> tool, tenant |-> t, args |-> args]]
  /\ pending' = [pending EXCEPT ![Slot(c)] = None]
  /\ UNCHANGED <<settings, identity, reply, ended, threadVars, acts>>

\* The call ends with out. call_tool records a structured error, the SDK's handler turns
\* every exception into a result, and the wrapper raises what was recorded.
Conclude(c, out) ==
  /\ pending' = [pending EXCEPT ![Slot(c)] = IF Structured(out) # None THEN Structured(out) ELSE @]
  /\ reply' = [reply EXCEPT ![c] = IF pending'[Slot(c)] # None THEN pending'[Slot(c)] ELSE out]
  /\ ended' = [ended EXCEPT ![c] = out]
  /\ pc' = [pc EXCEPT ![c] = "done"]
  /\ UNCHANGED call

Validate(c) ==
  /\ pc[c] = "validate"
  /\ IF call[c].args = "fit"
     THEN pc' = [pc EXCEPT ![c] = "observe"] /\ UNCHANGED <<call, pending, reply, ended>>
     ELSE Conclude(c, Refusal(call[c].args))
  /\ UNCHANGED <<settings, identity, threadVars, acts>>

\* observe refuses before the handler's body runs; the body sends its request with the
\* caller's token, or queues the pipeline.
Observe(c) ==
  /\ pc[c] = "observe"
  /\ LET s == call[c].session
         t == call[c].tenant
         rag == call[c].tool = "rag.retrieve_and_generate"
     IN IF cross_tenant_claim(s, t)
        THEN Conclude(c, tenant_mismatch) /\ UNCHANGED <<queue, acts>>
        ELSE /\ pc' = [pc EXCEPT ![c] = IF rag THEN "rag" ELSE "http"]
             /\ queue' = IF rag THEN Append(queue, c) ELSE queue
             /\ acts' = acts \cup {[call |-> c, for |-> IF rag THEN [tenant |-> t, token |-> None]
                                                           ELSE auth_headers(s, t)]}
             /\ UNCHANGED <<call, pending, reply, ended>>
  /\ UNCHANGED <<settings, identity, job, at, clients, conn>>

\* The upstream answers, with a body that fits the view or does not.
Answered(c, status, outcome) ==
  /\ Conclude(c, IF status = 200 THEN outcome ELSE _map_http(status))
  /\ UNCHANGED <<settings, identity, threadVars, acts>>

_create_refund(c, status, fits) ==
  /\ pc[c] = "http" /\ call[c].tool \in {"orders.get_order", "orders.create_refund"}
  /\ Answered(c, status, model_validate(fits))

_chat(c, status, fits) ==
  /\ pc[c] = "http" /\ call[c].tool = "llm.chat"
  /\ Answered(c, status, _parse_reply(fits))

\* httpx gives up after its timeout or fails to connect, or the body is no JSON.
TransportFails(c) ==
  /\ pc[c] = "http"
  /\ Conclude(c, Unmapped)
  /\ UNCHANGED <<settings, identity, threadVars, acts>>

\* wait_for cancels the future; work that has not begun leaves the queue.
Withdraw(c) == RemoveFirst(queue, c)

\* Mutant of Deadline: the tool waits for work that has begun.
Deadline_Queued(c) ==
  /\ pc[c] = "rag"
  /\ \A t \in Threads : job[t] # c
  /\ queue' = Withdraw(c)
  /\ Conclude(c, rag_timeout)
  /\ UNCHANGED <<settings, identity, job, at, clients, conn, acts>>

\* tool_timeout_rag_s are over. A thread that has begun goes on.
Deadline(c) ==
  /\ pc[c] = "rag"
  /\ queue' = Withdraw(c)
  /\ Conclude(c, rag_timeout)
  /\ UNCHANGED <<settings, identity, job, at, clients, conn, acts>>

\* The caller has its answer, the slot is used again when no thread works for it.
Forget(c) ==
  /\ pc[c] = "done"
  /\ \A t \in Threads : job[t] # c
  /\ pc' = [pc EXCEPT ![c] = "free"]
  /\ call' = [call EXCEPT ![c] = NoCall]
  /\ pending' = [pending EXCEPT ![c] = None]
  /\ reply' = [reply EXCEPT ![c] = None] /\ ended' = [ended EXCEPT ![c] = None]
  /\ acts' = {a \in acts : a.call # c}
  /\ UNCHANGED <<settings, identity, threadVars>>

-----------------------------------------------------------------------------
(* The threads: rag_entrypoint.                                            *)

\* A free thread takes the oldest work.
Begin(t) ==
  /\ at[t] = "idle" /\ queue # <<>>
  /\ job' = [job EXCEPT ![t] = Head(queue)]
  /\ queue' = Tail(queue)
  /\ at' = [at EXCEPT ![t] = "check"]
  /\ UNCHANGED <<settings, identity, callVars, clients, conn, acts>>

\* The work ends with out, which reaches the call if it still waits.
Return(t, out) ==
  /\ job' = [job EXCEPT ![t] = None]
  /\ at' = [at EXCEPT ![t] = "idle"]
  /\ IF pc[job[t]] = "rag" THEN Conclude(job[t], out) ELSE UNCHANGED callVars

\* if not _RAG_CLIENTS.
Check(t) ==
  /\ at[t] = "check"
  /\ at' = [at EXCEPT ![t] = IF clients = {} THEN "anthropic" ELSE "read"]
  /\ UNCHANGED <<settings, identity, callVars, queue, job, clients, conn, acts>>

\* The clients are put into the dict one by one, as far as they open.
OpenClient(t, key, then, fails) ==
  /\ at[t] = key
  /\ \/ /\ ~fails
        /\ clients' = clients \cup {key}
        /\ conn' = IF key = "conn" THEN "good" ELSE conn
        /\ at' = [at EXCEPT ![t] = then]
        /\ UNCHANGED <<callVars, job>>
     \/ fails /\ Return(t, Unmapped) /\ UNCHANGED <<clients, conn>>
  /\ UNCHANGED <<settings, identity, queue, acts>>

_rag_clients(t) ==
  \/ Check(t)
  \/ \E fails \in BOOLEAN : OpenClient(t, "anthropic", "conn", fails)
  \/ \E fails \in BOOLEAN : ("dsn" \in unset => fails) /\ OpenClient(t, "conn", "redis", fails)
  \/ OpenClient(t, "redis", "read", "redis" \in unset)

\* The two lookups after the if: a KeyError if one is not there.
ReadClients(t) ==
  /\ at[t] = "read"
  /\ IF {"conn", "redis"} \subseteq clients
     THEN at' = [at EXCEPT ![t] = "run"] /\ UNCHANGED <<callVars, job>>
     ELSE Return(t, Unmapped)
  /\ UNCHANGED <<settings, identity, queue, clients, conn, acts>>

\* retrieve_and_generate on the shared connection. A statement that fails leaves it in an
\* aborted transaction, a restart of the database leaves it closed; nothing replaces it.
Run(t) ==
  /\ at[t] = "run"
  /\ \/ conn = "good" /\ Return(t, Ok) /\ UNCHANGED conn
     \/ Return(t, Unmapped) /\ conn' \in {conn, "broken"}
  /\ UNCHANGED <<settings, identity, queue, clients, acts>>

ThreadStep(t) == Begin(t) \/ _rag_clients(t) \/ ReadClients(t) \/ Run(t)

-----------------------------------------------------------------------------
\* What a call can always do next, whatever upstreams and threads do.
OwnStep(c) ==
  Validate(c) \/ Observe(c) \/ TransportFails(c) \/ Deadline(c)

Next ==
  \/ \E s \in Sessions, b \in Bearers : Connect(s, b)
  \/ \E c \in Calls :
       \/ OwnStep(c) \/ Forget(c)
       \/ \E s \in Sessions, tool \in Tools, t \in Tenants, a \in Arguments : CallTool(c, s, tool, t, a)
       \/ \E status \in Statuses, fits \in BOOLEAN :
            _create_refund(c, status, fits) \/ _chat(c, status, fits)
  \/ \E t \in Threads : ThreadStep(t)

Spec == Init /\ [][Next]_vars

\* The event loop runs, and its timeouts go off. Nothing is assumed of upstreams or threads.
FairSpec == Spec /\ \A c \in Calls : WF_vars(OwnStep(c))

-----------------------------------------------------------------------------
\* Concurrent calls do not mix up how they ended: a caller gets the result or the error
\* of its own tool, with the code that belongs to it.
OwnOutcome ==
  \A c \in Calls : pc[c] = "done" =>
    reply[c] = IF Structured(ended[c]) # None THEN Structured(ended[c]) ELSE ended[c]

\* Whatever is sent or retrieved is for the tenant the session's token names, if it names
\* one, and is sent with that session's token or, on stdio, the configured one.
ActsForTheClaim ==
  \A a \in acts : LET i == identity[call[a.call].session] IN
    /\ i.claim # None => a.for.tenant = i.claim
    /\ a.for.token = None \/ a.for.token = (IF call[a.call].session = "stdio" THEN Configured ELSE i.token)

\* A retrieval that was given up before a thread took it is never begun: no money is
\* spent on it, and no thread is lost to it.
NoLateStart == [][\A t \in Threads : job'[t] # job[t] /\ job'[t] # None => pc[job'[t]] = "rag"]_vars

\* Every call is answered, even if all threads hang and no upstream says a word.
EveryCallAnswered == \A c \in Calls : pc[c] # "free" ~> pc[c] = "done"

-----------------------------------------------------------------------------
\* Refuted: after a connect that failed, or while another thread is opening them, the
\* dict is neither empty nor full, and a KeyError says a variable is unset that is set.
KeyErrorMeansUnset ==
  \A t \in Threads : at[t] = "read" /\ ~({"conn", "redis"} \subseteq clients) => unset # {}

\* Refuted: a 200 of the order service that does not fit the view is a ValidationError
\* as well, and a refund that was made is reported as INVALID_PARAMS.
InvalidParamsMeansArguments ==
  \A c \in Calls : pc[c] = "done" /\ reply[c] = Mcp(-32602) => call[c].args = "unfit"
=============================================================================
