-------------------------- MODULE McpServerProofs --------------------------
(***************************************************************************)
(* Proofs about McpServer, for any number of sessions, calls, threads,     *)
(* tenants and bearer headers. A session's identity, once bound, is never  *)
(* replaced; a call that runs has recorded no error yet; and what was done *)
(* for a call was done under the identity its session still has.           *)
(***************************************************************************)
EXTENDS McpServer, TLAPS

Live == {"validate", "observe", "http", "rag"}

\* What a session can be bound to.
Identities ==
  {None, [token |-> NoToken, claim |-> None]}
    \cup {[token |-> b.token, claim |-> b.claim] : b \in Bearers}
    \cup {[token |-> b.token, claim |-> None] : b \in Bearers}

\* The calls' variables are functions of the calls.
CallShape ==
  /\ pc \in [Calls -> Live \cup {"free", "done"}]
  /\ call = [c \in Calls |-> call[c]]
  /\ pending = [c \in Calls |-> pending[c]]
  /\ reply = [c \in Calls |-> reply[c]]
  /\ ended = [c \in Calls |-> ended[c]]

\* stdio is bound to no token from the start, a session over SSE to one when it connects.
IdentityInv ==
  /\ identity \in [Sessions -> Identities]
  /\ "stdio" \in Sessions => identity["stdio"] # None /\ identity["stdio"].token = NoToken
  /\ \A s \in Sessions \ {"stdio"} : identity[s] # None => identity[s].token # NoToken

\* A call that runs has a session with an identity, and an empty slot for its error.
CallInv ==
  \A c \in Calls :
    /\ pc[c] \in Live => pending[c] = None
    /\ pc[c] # "free" => call[c].session \in Sessions /\ identity[call[c].session] # None

\* What was done was done for a call whose slot is still taken.
ActInv == \A a \in acts : a.call \in Calls /\ pc[a.call] \in {"http", "rag", "done"}

McpInv == CallShape /\ IdentityInv /\ CallInv /\ ActInv /\ OwnOutcome /\ ActsForTheClaim

\* Nothing has happened yet.
LEMMA McpInit == Init => McpInv
<1> SUFFICES ASSUME Init PROVE McpInv
  OBVIOUS
<1>1. CallShape
  BY DEF Init, CallShape
<1>2. IdentityInv
  BY McpAssumption DEF Init, IdentityInv, Identities
<1>3. CallInv /\ ActInv /\ OwnOutcome /\ ActsForTheClaim
  BY DEF Init, CallInv, ActInv, OwnOutcome, ActsForTheClaim, Live
<1>4. QED
  BY <1>1, <1>2, <1>3 DEF McpInv

\* A thread or a setting that moves on its own disturbs nothing.
LEMMA CallsUntouched ==
  ASSUME McpInv, UNCHANGED <<callVars, identity, acts>>
  PROVE  McpInv'
<1>1. UNCHANGED <<pc, call, pending, reply, ended, identity, acts>>
  BY DEF callVars
<1>2. QED
  BY <1>1 DEF McpInv, CallShape, IdentityInv, CallInv, ActInv, OwnOutcome, ActsForTheClaim

\* A call that ends is answered with its own outcome, and no other call is touched.
LEMMA ConcludeKeeps ==
  ASSUME McpInv, NEW d, NEW out, d \in Calls => pc[d] \in Live,
         Conclude(d, out), UNCHANGED <<identity, acts>>
  PROVE  McpInv'
<1>1. /\ pending' = [pending EXCEPT ![d] = IF Structured(out) # None THEN Structured(out) ELSE pending[d]]
      /\ reply' = [reply EXCEPT ![d] = IF pending'[d] # None THEN pending'[d] ELSE out]
      /\ ended' = [ended EXCEPT ![d] = out]
      /\ pc' = [pc EXCEPT ![d] = "done"]
      /\ call' = call
  BY DEF Conclude, Slot
<1>2. CallShape'
  BY <1>1 DEF McpInv, CallShape
<1>3. \A c \in Calls \ {d} :
        /\ pc'[c] = pc[c] /\ pending'[c] = pending[c]
        /\ reply'[c] = reply[c] /\ ended'[c] = ended[c]
  BY <1>1 DEF McpInv, CallShape
<1>4. d \in Calls =>
        /\ pc'[d] = "done" /\ ended'[d] = out
        /\ reply'[d] = IF Structured(out) # None THEN Structured(out) ELSE out
  <2> HAVE d \in Calls
  <2>1. pending[d] = None
    BY DEF McpInv, CallInv
  <2>2. pending'[d] = IF Structured(out) # None THEN Structured(out) ELSE None
    BY <1>1, <2>1 DEF McpInv, CallShape
  <2>3. reply'[d] = IF pending'[d] # None THEN pending'[d] ELSE out
    BY <1>1 DEF McpInv, CallShape
  <2>4. pc'[d] = "done" /\ ended'[d] = out
    BY <1>1 DEF McpInv, CallShape
  <2>5. QED
    BY <2>2, <2>3, <2>4
<1>5. CallInv'
  BY <1>1, <1>3, <1>4 DEF McpInv, CallInv, Live
<1>6. ActInv'
  BY <1>3, <1>4 DEF McpInv, ActInv
<1>7. OwnOutcome'
  <2> SUFFICES ASSUME NEW c \in Calls, pc'[c] = "done"
               PROVE  reply'[c] = IF Structured(ended'[c]) # None THEN Structured(ended'[c]) ELSE ended'[c]
    BY DEF OwnOutcome, Structured, Mcp
  <2>1. CASE c = d
    BY <1>4, <2>1
  <2>2. CASE c # d
    BY <1>3, <2>2 DEF McpInv, OwnOutcome
  <2>3. QED
    BY <2>1, <2>2
<1>8. ActsForTheClaim'
  BY <1>1 DEF McpInv, ActsForTheClaim
<1>9. IdentityInv'
  BY DEF McpInv, IdentityInv
<1>10. QED
  BY <1>2, <1>5, <1>6, <1>7, <1>8, <1>9 DEF McpInv

-----------------------------------------------------------------------------
(* Sessions and calls                                                        *)

\* Only a session that is bound to nothing is bound, so no running call loses its identity.
LEMMA ConnectKeeps ==
  ASSUME McpInv, NEW s \in Sessions, NEW b \in Bearers, Connect(s, b)
  PROVE  McpInv'
<1> DEFINE i == set_request_identity(b)
<1>1. /\ identity[s] = None /\ identity' = [identity EXCEPT ![s] = i]
      /\ UNCHANGED <<pc, call, pending, reply, ended, acts>>
  BY DEF Connect, callVars
<1>2. parse_bearer(b) = b.token /\ b.token # NoToken
  BY DEF Connect, Admitted, parse_bearer
<1>3. i \in Identities /\ i # None /\ i.token # NoToken
  BY <1>2, McpAssumption DEF set_request_identity, Identities
<1> HIDE DEF i
<1>4. s # "stdio"
  BY <1>1 DEF McpInv, IdentityInv
<1>5. \A r \in Sessions : identity[r] # None => identity'[r] = identity[r]
  BY <1>1 DEF McpInv, IdentityInv
<1>6. IdentityInv'
  BY <1>1, <1>3, <1>4 DEF McpInv, IdentityInv
<1>7. CallShape' /\ ActInv' /\ OwnOutcome'
  BY <1>1 DEF McpInv, CallShape, ActInv, OwnOutcome
<1>8. CallInv'
  BY <1>1, <1>5 DEF McpInv, CallInv
<1>9. ActsForTheClaim'
  <2>1. \A a \in acts : identity'[call[a.call].session] = identity[call[a.call].session]
    BY <1>5 DEF McpInv, ActInv, CallInv
  <2>2. QED
    BY <1>1, <2>1 DEF McpInv, ActsForTheClaim
<1>10. QED
  BY <1>6, <1>7, <1>8, <1>9 DEF McpInv

\* A call starts in a slot that nothing was done for.
LEMMA CallToolKeeps ==
  ASSUME McpInv, NEW c \in Calls, NEW s \in Sessions, NEW tool \in Tools, NEW t \in Tenants,
         NEW args \in Arguments, CallTool(c, s, tool, t, args)
  PROVE  McpInv'
<1>1. /\ pc[c] = "free" /\ identity[s] # None
      /\ pc' = [pc EXCEPT ![c] = "validate"]
      /\ call' = [call EXCEPT ![c] = [session |-> s, tool |-> tool, tenant |-> t, args |-> args]]
      /\ pending' = [pending EXCEPT ![c] = None]
      /\ UNCHANGED <<identity, reply, ended, acts>>
  BY DEF CallTool, Slot
<1>2. CallShape'
  BY <1>1 DEF McpInv, CallShape, Live
<1>3. /\ pc'[c] = "validate" /\ pending'[c] = None /\ call'[c].session = s
      /\ \A d \in Calls \ {c} : pc'[d] = pc[d] /\ call'[d] = call[d] /\ pending'[d] = pending[d]
  BY <1>1 DEF McpInv, CallShape
<1>4. \A a \in acts : a.call \in Calls \ {c}
  BY <1>1 DEF McpInv, ActInv
<1>5. IdentityInv' /\ OwnOutcome'
  BY <1>1, <1>3 DEF McpInv, IdentityInv, OwnOutcome
<1>6. CallInv'
  BY <1>1, <1>3 DEF McpInv, CallInv
<1>7. ActInv' /\ ActsForTheClaim'
  BY <1>1, <1>3, <1>4 DEF McpInv, ActInv, ActsForTheClaim
<1>8. QED
  BY <1>2, <1>5, <1>6, <1>7 DEF McpInv

\* Arguments that fit let the call go on.
LEMMA ValidateKeeps ==
  ASSUME McpInv, NEW c \in Calls, Validate(c)
  PROVE  McpInv'
<1>1. pc[c] = "validate" /\ UNCHANGED <<identity, acts>>
  BY DEF Validate
<1>2. CASE Conclude(c, Refusal(call[c].args))
  BY <1>1, <1>2, ConcludeKeeps DEF Live
<1>3. CASE pc' = [pc EXCEPT ![c] = "observe"] /\ UNCHANGED <<call, pending, reply, ended>>
  <2>1. CallShape'
    BY <1>3 DEF McpInv, CallShape, Live
  <2>2. pc'[c] = "observe" /\ \A d \in Calls \ {c} : pc'[d] = pc[d]
    BY <1>3 DEF McpInv, CallShape
  <2>3. CallInv'
    BY <1>1, <1>3, <2>2 DEF McpInv, CallInv, Live
  <2>4. ActInv'
    BY <1>1, <2>2 DEF McpInv, ActInv
  <2>5. IdentityInv' /\ OwnOutcome' /\ ActsForTheClaim'
    BY <1>1, <1>3, <2>2 DEF McpInv, IdentityInv, OwnOutcome, ActsForTheClaim
  <2>6. QED
    BY <2>1, <2>3, <2>4, <2>5 DEF McpInv
<1>4. QED
  BY <1>2, <1>3 DEF Validate

\* The tool's body runs only for the tenant of the claim, with the token of the session.
LEMMA ObserveKeeps ==
  ASSUME McpInv, NEW c \in Calls, Observe(c)
  PROVE  McpInv'
<1> DEFINE s == call[c].session
           t == call[c].tenant
           rag == call[c].tool = "rag.retrieve_and_generate"
           for == IF rag THEN [tenant |-> t, token |-> None] ELSE auth_headers(s, t)
<1>1. pc[c] = "observe" /\ UNCHANGED identity
  BY DEF Observe
<1>2. CASE Conclude(c, tenant_mismatch) /\ UNCHANGED acts
  BY <1>1, <1>2, ConcludeKeeps DEF Live
<1>3. CASE /\ ~cross_tenant_claim(s, t)
           /\ pc' = [pc EXCEPT ![c] = IF rag THEN "rag" ELSE "http"]
           /\ acts' = acts \cup {[call |-> c, for |-> for]}
           /\ UNCHANGED <<call, pending, reply, ended>>
  <2>1. s \in Sessions /\ identity[s] # None
    BY <1>1 DEF McpInv, CallInv
  <2>2. identity[s].claim # None => t = identity[s].claim
    BY <1>3 DEF cross_tenant_claim
  <2>3. bearer_token(s) = IF s = "stdio" THEN Configured ELSE identity[s].token
    BY <2>1 DEF McpInv, IdentityInv, bearer_token
  <2>4. for.tenant = t /\ (for.token = None \/ for.token = bearer_token(s))
    BY DEF auth_headers
  <2>5. CallShape'
    BY <1>3 DEF McpInv, CallShape, Live
  <2>6. pc'[c] \in {"http", "rag"} /\ \A d \in Calls \ {c} : pc'[d] = pc[d]
    BY <1>3 DEF McpInv, CallShape
  <2>7. CallInv'
    BY <1>1, <1>3, <2>6 DEF McpInv, CallInv, Live
  <2>8. ActInv'
    <3> SUFFICES ASSUME NEW a \in acts' PROVE a.call \in Calls /\ pc'[a.call] \in {"http", "rag", "done"}
      BY DEF ActInv
    <3> HIDE DEF for
    <3>1. a \in acts \/ a = [call |-> c, for |-> for]
      BY <1>3
    <3>2. QED
      BY <2>6, <3>1 DEF McpInv, ActInv
  <2>9. ActsForTheClaim'
    <3> DEFINE Right(a) ==
          LET i == identity[call[a.call].session] IN
            /\ i.claim # None => a.for.tenant = i.claim
            /\ a.for.token = None \/ a.for.token = (IF call[a.call].session = "stdio" THEN Configured ELSE i.token)
    <3>1. \A a \in acts : Right(a)
      BY DEF McpInv, ActsForTheClaim
    <3>2. Right([call |-> c, for |-> for])
      <4> HIDE DEF for
      <4>1. QED
        BY <2>2, <2>3, <2>4
    <3>3. \A a \in acts' : Right(a)
      <4> HIDE DEF for, Right
      <4>1. QED
        BY <1>3, <3>1, <3>2
    <3>4. QED
      BY <1>1, <1>3, <3>3 DEF ActsForTheClaim
  <2>10. IdentityInv' /\ OwnOutcome'
    BY <1>1, <1>3, <2>6 DEF McpInv, IdentityInv, OwnOutcome
  <2>11. QED
    BY <2>5, <2>7, <2>8, <2>9, <2>10 DEF McpInv
<1>4. QED
  BY <1>2, <1>3 DEF Observe

\* An answer, a failure or the deadline ends a call that waits.
LEMMA EndKeeps ==
  ASSUME McpInv, NEW c \in Calls,
         \/ TransportFails(c) \/ Deadline(c)
         \/ \E status \in Statuses, fits \in BOOLEAN :
              _create_refund(c, status, fits) \/ _chat(c, status, fits)
  PROVE  McpInv'
<1>1. PICK out : Conclude(c, out) /\ pc[c] \in {"http", "rag"} /\ UNCHANGED <<identity, acts>>
  BY DEF TransportFails, Deadline, _create_refund, _chat, Answered
<1>2. QED
  BY <1>1, ConcludeKeeps DEF Live

\* A slot that is given back takes along what was done for it.
LEMMA ForgetKeeps ==
  ASSUME McpInv, NEW c \in Calls, Forget(c)
  PROVE  McpInv'
<1>1. /\ pc' = [pc EXCEPT ![c] = "free"] /\ call' = [call EXCEPT ![c] = NoCall]
      /\ pending' = [pending EXCEPT ![c] = None] /\ reply' = [reply EXCEPT ![c] = None]
      /\ ended' = [ended EXCEPT ![c] = None] /\ acts' = {a \in acts : a.call # c}
      /\ UNCHANGED identity
  BY DEF Forget
<1>2. CallShape'
  BY <1>1 DEF McpInv, CallShape
<1>3. /\ pc'[c] = "free"
      /\ \A d \in Calls \ {c} :
           /\ pc'[d] = pc[d] /\ call'[d] = call[d] /\ pending'[d] = pending[d]
           /\ reply'[d] = reply[d] /\ ended'[d] = ended[d]
  BY <1>1 DEF McpInv, CallShape
<1>4. CallInv'
  BY <1>1, <1>3 DEF McpInv, CallInv, Live
<1>5. ActInv' /\ ActsForTheClaim'
  BY <1>1, <1>3 DEF McpInv, ActInv, ActsForTheClaim
<1>6. IdentityInv' /\ OwnOutcome'
  BY <1>1, <1>3 DEF McpInv, IdentityInv, OwnOutcome
<1>7. QED
  BY <1>2, <1>4, <1>5, <1>6 DEF McpInv

\* Work that ends reaches the call that waits for it and no other.
LEMMA ReturnKeeps ==
  ASSUME McpInv, NEW t \in Threads, NEW out, Return(t, out), UNCHANGED <<identity, acts>>
  PROVE  McpInv'
<1>1. CASE pc[job[t]] = "rag" /\ Conclude(job[t], out)
  BY <1>1, ConcludeKeeps DEF Live
<1>2. CASE UNCHANGED callVars
  BY <1>2, CallsUntouched
<1>3. QED
  BY <1>1, <1>2 DEF Return

\* The threads touch calls in no other way.
LEMMA ThreadKeeps ==
  ASSUME McpInv, NEW t \in Threads, ThreadStep(t)
  PROVE  McpInv'
<1>1. UNCHANGED <<identity, acts>>
  BY DEF ThreadStep, Begin, _rag_clients, Check, OpenClient, ReadClients, Run
<1>2. UNCHANGED callVars \/ Return(t, Unmapped) \/ Return(t, Ok)
  BY DEF ThreadStep, Begin, _rag_clients, Check, OpenClient, ReadClients, Run
<1>3. QED
  BY <1>1, <1>2, ReturnKeeps, CallsUntouched

-----------------------------------------------------------------------------
(* The results                                                               *)

\* Every step keeps the invariant.
LEMMA McpStep == McpInv /\ [Next]_vars => McpInv'
<1> SUFFICES ASSUME McpInv, [Next]_vars PROVE McpInv'
  OBVIOUS
<1>1. ASSUME NEW c \in Calls, OwnStep(c) PROVE McpInv'
  BY <1>1, ValidateKeeps, ObserveKeeps, EndKeeps DEF OwnStep
<1>2. CASE UNCHANGED vars
  BY <1>2, CallsUntouched DEF vars
<1>3. QED
  BY <1>1, <1>2, ConnectKeeps, CallToolKeeps, ForgetKeeps, EndKeeps, ThreadKeeps DEF Next

\* The invariant that the results below rest on.
THEOREM McpInvariant == Spec => []McpInv
<1>1. QED
  BY McpInit, McpStep, PTL DEF Spec

\* However many calls run at once and threads return late, a caller gets the outcome of
\* its own tool: the slot of the error envelope belongs to one task.
THEOREM CallersGetTheirs == Spec => []OwnOutcome
<1>1. McpInv => OwnOutcome
  BY DEF McpInv
<1>2. QED
  BY <1>1, McpInvariant, PTL

\* For every set of sessions, tenants and headers, nothing is sent or retrieved for a tenant
\* that the token of the session does not name, nor with the token of another session.
THEOREM TenancyHeld == Spec => []ActsForTheClaim
<1>1. McpInv => ActsForTheClaim
  BY DEF McpInv
<1>2. QED
  BY <1>1, McpInvariant, PTL

-----------------------------------------------------------------------------
(* The pool of threads                                                       *)

\* A call waits in the queue once, while its tool waits, and not while a thread works
\* for it; a thread that works does so for a call that waits or was given up.
QueueInv ==
  /\ queue \in Seq(Calls)
  /\ job \in [Threads -> Calls \cup {None}]
  /\ at \in [Threads -> {"idle", "check", "anthropic", "conn", "redis", "read", "run"}]
  /\ \A t \in Threads : at[t] = "idle" <=> job[t] = None
  /\ \A i \in DOMAIN queue : pc[queue[i]] = "rag"
  /\ \A i, j \in DOMAIN queue : queue[i] = queue[j] => i = j
  /\ \A t \in Threads : job[t] # None =>
       pc[job[t]] \in {"rag", "done"} /\ \A i \in DOMAIN queue : queue[i] # job[t]

\* What is left of a queue when one position is taken out.
LEMMA RemoveAtRest ==
  ASSUME NEW S, NEW q \in Seq(S), NEW i \in 1 .. Len(q)
  PROVE  /\ RemoveAt(q, i) \in Seq(S) /\ Len(RemoveAt(q, i)) = Len(q) - 1
         /\ \A j \in 1 .. Len(q) - 1 : RemoveAt(q, i)[j] = IF j < i THEN q[j] ELSE q[j + 1]
<1>1. PICK n \in Nat : n = Len(q)
  OBVIOUS
<1>2. PICK a, b : a = SubSeq(q, 1, i - 1) /\ b = SubSeq(q, i + 1, n)
  OBVIOUS
<1>3. /\ a \in Seq(S) /\ Len(a) = i - 1 /\ \A j \in 1 .. i - 1 : a[j] = q[j]
  BY <1>1, <1>2
<1>4. /\ b \in Seq(S) /\ Len(b) = n - i /\ \A j \in 1 .. n - i : b[j] = q[i + j]
  BY <1>1, <1>2
<1>5. RemoveAt(q, i) = a \o b
  BY <1>1, <1>2 DEF RemoveAt
<1>6. /\ a \o b \in Seq(S) /\ Len(a \o b) = n - 1
      /\ \A j \in 1 .. n - 1 : (a \o b)[j] = IF j < i THEN a[j] ELSE b[j - (i - 1)]
  <2>1. PICK m \in Nat : m = Len(a) /\ m = i - 1
    BY <1>1, <1>3
  <2>2. PICK l \in Nat : l = Len(b) /\ l = n - i
    BY <1>1, <1>4
  <2>3. a \o b \in Seq(S) /\ Len(a \o b) = m + l
    BY <1>3, <1>4, <2>1, <2>2
  <2>4. \A j \in 1 .. m + l : (a \o b)[j] = IF j <= m THEN a[j] ELSE b[j - m]
    BY <1>3, <1>4, <2>1, <2>2
  <2>5. m + l = n - 1 /\ \A j \in 1 .. n - 1 : j <= m <=> j < i
    BY <1>1, <2>1, <2>2
  <2>6. QED
    BY <2>1, <2>3, <2>4, <2>5
<1>7. ASSUME NEW j \in 1 .. n - 1 PROVE (a \o b)[j] = IF j < i THEN q[j] ELSE q[j + 1]
  <2>1. CASE j < i
    BY <1>1, <1>3, <1>6, <1>7, <2>1
  <2>2. CASE ~(j < i)
    <3>1. j - (i - 1) \in 1 .. n - i /\ i + (j - (i - 1)) = j + 1
      BY <1>1, <1>7, <2>2
    <3>2. QED
      BY <1>4, <1>6, <1>7, <2>2, <3>1
  <2>3. QED
    BY <2>1, <2>2
<1>8. QED
  BY <1>1, <1>5, <1>6, <1>7

\* Withdrawing an element of a queue without repetitions leaves the others, each once.
LEMMA RemoveFirstRest ==
  ASSUME NEW S, NEW q \in Seq(S), NEW e, \A i, j \in DOMAIN q : q[i] = q[j] => i = j
  PROVE  /\ RemoveFirst(q, e) \in Seq(S)
         /\ \A j \in DOMAIN RemoveFirst(q, e) :
              RemoveFirst(q, e)[j] # e /\ \E i \in DOMAIN q : RemoveFirst(q, e)[j] = q[i]
         /\ \A i, j \in DOMAIN RemoveFirst(q, e) :
              RemoveFirst(q, e)[i] = RemoveFirst(q, e)[j] => i = j
<1>0. PICK n \in Nat : n = Len(q) /\ DOMAIN q = 1 .. n
  OBVIOUS
<1>1. CASE ~\E i \in 1 .. Len(q) : q[i] = e
  <2>1. RemoveFirst(q, e) = q
    BY <1>1 DEF RemoveFirst
  <2>2. QED
    BY <1>0, <1>1, <2>1
<1>2. CASE \E i \in 1 .. Len(q) : q[i] = e
  <2>1. PICK k \in 1 .. n : q[k] = e
    BY <1>0, <1>2
  <2>2. SelectInSeq(q, LAMBDA v : v = e) = k
    <3>1. {i \in 1 .. Len(q) : q[i] = e} = {k}
      BY <1>0, <2>1
    <3>2. Min({k}) = k
      BY DEF Min
    <3>3. QED
      BY <3>1, <3>2 DEF SelectInSeq
  <2>3. PICK r : r = RemoveAt(q, k)
    OBVIOUS
  <2>4. RemoveFirst(q, e) = r
    BY <1>2, <2>2, <2>3 DEF RemoveFirst
  <2>5. /\ r \in Seq(S) /\ Len(r) = n - 1 /\ DOMAIN r = 1 .. n - 1
        /\ \A j \in 1 .. n - 1 : r[j] = IF j < k THEN q[j] ELSE q[j + 1]
    BY <1>0, <2>1, <2>3, RemoveAtRest
  <2>6. \A j \in 1 .. n - 1 : \E i \in 1 .. n : r[j] = q[i] /\ i # k
    BY <1>0, <2>1, <2>5
  <2>7. \A i, j \in 1 .. n - 1 : r[i] = r[j] => i = j
    <3> SUFFICES ASSUME NEW i \in 1 .. n - 1, NEW j \in 1 .. n - 1, r[i] = r[j] PROVE i = j
      OBVIOUS
    <3>1. CASE i < k /\ j < k
      <4>1. q[i] = q[j] /\ i \in DOMAIN q /\ j \in DOMAIN q
        BY <1>0, <2>1, <2>5, <3>1
      <4>2. QED
        BY <4>1
    <3>2. CASE ~(i < k) /\ ~(j < k)
      <4>1. q[i + 1] = q[j + 1] /\ i + 1 \in DOMAIN q /\ j + 1 \in DOMAIN q
        BY <1>0, <2>5, <3>2
      <4>2. QED
        BY <4>1
    <3>3. CASE i < k /\ ~(j < k)
      <4>1. q[i] = q[j + 1] /\ i \in DOMAIN q /\ j + 1 \in DOMAIN q
        BY <1>0, <2>1, <2>5, <3>3
      <4>2. QED
        BY <2>1, <3>3, <4>1
    <3>4. CASE ~(i < k) /\ j < k
      <4>1. q[i + 1] = q[j] /\ j \in DOMAIN q /\ i + 1 \in DOMAIN q
        BY <1>0, <2>1, <2>5, <3>4
      <4>2. QED
        BY <2>1, <3>4, <4>1
    <3>5. QED
      BY <3>1, <3>2, <3>3, <3>4
  <2>8. \A j \in DOMAIN r : r[j] # e /\ \E i \in DOMAIN q : r[j] = q[i]
    <3> SUFFICES ASSUME NEW j \in DOMAIN r PROVE r[j] # e /\ \E i \in DOMAIN q : r[j] = q[i]
      OBVIOUS
    <3>1. PICK i \in 1 .. n : r[j] = q[i] /\ i # k
      BY <2>5, <2>6
    <3>2. i \in DOMAIN q /\ k \in DOMAIN q
      BY <1>0
    <3>3. q[i] # e
      BY <2>1, <3>1, <3>2
    <3>4. QED
      BY <3>1, <3>2, <3>3
  <2>9. QED
    BY <2>4, <2>5, <2>7, <2>8
<1>3. QED
  BY <1>1, <1>2

\* A call that is not queued may move, to its end or as long as no thread works for it.
LEMMA QueueKept ==
  ASSUME CallShape, QueueInv, UNCHANGED <<queue, job, at>>,
         NEW c \in Calls, NEW l, pc' = [pc EXCEPT ![c] = l],
         pc[c] # "rag" \/ \A i \in DOMAIN queue : queue[i] # c,
         l = "done" \/ \A t \in Threads : job[t] # c
  PROVE  QueueInv'
<1>1. pc'[c] = l /\ \A d \in Calls \ {c} : pc'[d] = pc[d]
  BY DEF CallShape
<1>2. \A i \in DOMAIN queue : queue[i] \in Calls /\ queue[i] # c
  BY DEF QueueInv
<1>3. \A i \in DOMAIN queue : pc'[queue[i]] = "rag"
  BY <1>1, <1>2 DEF QueueInv
<1>4. \A t \in Threads : job[t] # None => pc'[job[t]] \in {"rag", "done"}
  BY <1>1 DEF QueueInv
<1>5. QED
  BY <1>3, <1>4 DEF QueueInv

\* The end of a call that is not queued.
LEMMA QueueConclude ==
  ASSUME CallShape, QueueInv, UNCHANGED <<queue, job, at>>, NEW c \in Calls, NEW out,
         Conclude(c, out), pc[c] # "rag"
  PROVE  QueueInv'
<1>1. pc' = [pc EXCEPT ![c] = "done"]
  BY DEF Conclude
<1>2. QED
  BY <1>1, QueueKept

\* Retrieval queues a call that was not, refusal and the HTTP tools leave the queue.
LEMMA ObserveQueues ==
  ASSUME CallShape, QueueInv, NEW c \in Calls, Observe(c) PROVE QueueInv'
<1>1. pc[c] = "observe" /\ UNCHANGED <<job, at>>
  BY DEF Observe
<1>2. \A i \in DOMAIN queue : queue[i] # c
  BY <1>1 DEF QueueInv
<1>3. \A t \in Threads : job[t] # c
  BY <1>1, McpAssumption DEF QueueInv
<1>4. CASE Conclude(c, tenant_mismatch) /\ UNCHANGED queue
  BY <1>1, <1>4, QueueConclude
<1>5. CASE pc' = [pc EXCEPT ![c] = "http"] /\ UNCHANGED queue
  BY <1>1, <1>3, <1>5, QueueKept
<1>6. CASE pc' = [pc EXCEPT ![c] = "rag"] /\ queue' = Append(queue, c)
  <2>1. PICK n \in Nat : n = Len(queue) /\ DOMAIN queue = 1 .. n
    BY DEF QueueInv
  <2>2. /\ queue' \in Seq(Calls) /\ DOMAIN queue' = 1 .. n + 1 /\ queue'[n + 1] = c
        /\ \A i \in 1 .. n : queue'[i] = queue[i]
    BY <1>6, <2>1 DEF QueueInv
  <2>3. pc'[c] = "rag" /\ \A d \in Calls \ {c} : pc'[d] = pc[d]
    BY <1>6 DEF CallShape
  <2>4. \A i \in 1 .. n + 1 : i \in 1 .. n \/ i = n + 1
    BY <2>1
  <2>5. \A i \in 1 .. n : queue'[i] = queue[i] /\ queue[i] \in Calls /\ queue[i] # c /\ pc'[queue[i]] = "rag"
    BY <1>2, <2>1, <2>2, <2>3 DEF QueueInv
  <2>6. \A i \in DOMAIN queue' : pc'[queue'[i]] = "rag"
    BY <2>2, <2>3, <2>4, <2>5
  <2>7. \A i, j \in DOMAIN queue' : queue'[i] = queue'[j] => i = j
    <3> SUFFICES ASSUME NEW i \in 1 .. n + 1, NEW j \in 1 .. n + 1, queue'[i] = queue'[j] PROVE i = j
      BY <2>2
    <3>1. CASE i \in 1 .. n /\ j \in 1 .. n
      BY <2>1, <2>2, <3>1 DEF QueueInv
    <3>2. CASE i = n + 1 \/ j = n + 1
      BY <2>2, <2>4, <2>5, <3>2
    <3>3. QED
      BY <2>4, <3>1, <3>2
  <2>8. \A t \in Threads : job[t] # None =>
          pc'[job[t]] \in {"rag", "done"} /\ \A i \in DOMAIN queue' : queue'[i] # job[t]
    <3> SUFFICES ASSUME NEW t \in Threads, job[t] # None
                 PROVE  pc'[job[t]] \in {"rag", "done"} /\ \A i \in DOMAIN queue' : queue'[i] # job[t]
      OBVIOUS
    <3>1. job[t] \in Calls \ {c} /\ pc[job[t]] \in {"rag", "done"} /\ \A i \in 1 .. n : queue[i] # job[t]
      BY <1>3, <2>1 DEF QueueInv
    <3>2. QED
      BY <2>2, <2>3, <2>4, <3>1
  <2>9. QED
    BY <1>1, <2>2, <2>6, <2>7, <2>8 DEF QueueInv
<1>7. QED
  BY <1>4, <1>5, <1>6 DEF Observe

\* The deadline takes the work of its call out of the queue.
LEMMA DeadlineWithdraws ==
  ASSUME CallShape, QueueInv, NEW c \in Calls, Deadline(c) PROVE QueueInv'
<1>1. queue' = RemoveFirst(queue, c) /\ UNCHANGED <<job, at>> /\ pc' = [pc EXCEPT ![c] = "done"]
  BY DEF Deadline, Withdraw, Conclude
<1>2. /\ queue' \in Seq(Calls)
      /\ \A j \in DOMAIN queue' : queue'[j] # c /\ \E i \in DOMAIN queue : queue'[j] = queue[i]
      /\ \A i, j \in DOMAIN queue' : queue'[i] = queue'[j] => i = j
  <2>1. queue \in Seq(Calls) /\ \A i, j \in DOMAIN queue : queue[i] = queue[j] => i = j
    BY DEF QueueInv
  <2>2. QED
    BY <1>1, <2>1, RemoveFirstRest
<1>3. pc'[c] = "done" /\ \A d \in Calls \ {c} : pc'[d] = pc[d]
  BY <1>1 DEF CallShape
<1>4. \A j \in DOMAIN queue' : pc'[queue'[j]] = "rag"
  <2> SUFFICES ASSUME NEW j \in DOMAIN queue' PROVE pc'[queue'[j]] = "rag"
    OBVIOUS
  <2>1. PICK i \in DOMAIN queue : queue'[j] = queue[i]
    BY <1>2
  <2>2. queue[i] \in Calls \ {c} /\ pc[queue[i]] = "rag"
    BY <1>2, <2>1 DEF QueueInv
  <2>3. QED
    BY <1>3, <2>1, <2>2
<1>5. \A t \in Threads : job[t] # None =>
        pc'[job[t]] \in {"rag", "done"} /\ \A j \in DOMAIN queue' : queue'[j] # job[t]
  BY <1>2, <1>3 DEF QueueInv
<1>6. QED
  BY <1>1, <1>2, <1>4, <1>5 DEF QueueInv

\* A free thread takes the call that has waited longest.
LEMMA BeginTakes ==
  ASSUME QueueInv, NEW t \in Threads, Begin(t)
  PROVE  QueueInv' /\ job'[t] = queue[1] /\ 1 \in DOMAIN queue /\ \A u \in Threads \ {t} : job'[u] = job[u]
<1>1. PICK n \in Nat : n = Len(queue) /\ DOMAIN queue = 1 .. n /\ n # 0
  BY DEF QueueInv, Begin
<1>2. Head(queue) = queue[1] /\ queue[1] \in Calls /\ 1 \in DOMAIN queue
  BY <1>1 DEF QueueInv
<1>3. /\ queue' \in Seq(Calls) /\ DOMAIN queue' = 1 .. n - 1
      /\ \A i \in 1 .. n - 1 : queue'[i] = queue[i + 1] /\ i + 1 \in DOMAIN queue
  BY <1>1 DEF QueueInv, Begin
<1>4. /\ job' = [job EXCEPT ![t] = queue[1]] /\ at' = [at EXCEPT ![t] = "check"] /\ UNCHANGED pc
      /\ at[t] = "idle"
  BY <1>2 DEF Begin, callVars
<1>5. /\ job' \in [Threads -> Calls \cup {None}] /\ job'[t] = queue[1]
      /\ \A u \in Threads \ {t} : job'[u] = job[u]
      /\ at' \in [Threads -> {"idle", "check", "anthropic", "conn", "redis", "read", "run"}]
      /\ at'[t] = "check" /\ \A u \in Threads \ {t} : at'[u] = at[u]
  BY <1>2, <1>4 DEF QueueInv
<1>6. \A u \in Threads : at'[u] = "idle" <=> job'[u] = None
  BY <1>2, <1>5, McpAssumption DEF QueueInv
<1>7. \A i \in DOMAIN queue' : pc'[queue'[i]] = "rag"
  BY <1>3, <1>4 DEF QueueInv
<1>8. \A i, j \in DOMAIN queue' : queue'[i] = queue'[j] => i = j
  <2> SUFFICES ASSUME NEW i \in 1 .. n - 1, NEW j \in 1 .. n - 1, queue'[i] = queue'[j] PROVE i = j
    BY <1>3
  <2>1. i + 1 = j + 1
    BY <1>3 DEF QueueInv
  <2>2. QED
    BY <1>1, <2>1
<1>9. \A i \in DOMAIN queue' : queue'[i] # queue[1]
  <2> SUFFICES ASSUME NEW i \in 1 .. n - 1, queue'[i] = queue[1] PROVE FALSE
    BY <1>3
  <2>1. i + 1 = 1
    BY <1>2, <1>3 DEF QueueInv
  <2>2. QED
    BY <1>1, <2>1
<1>10. \A u \in Threads : job'[u] # None =>
         pc'[job'[u]] \in {"rag", "done"} /\ \A i \in DOMAIN queue' : queue'[i] # job'[u]
  <2> SUFFICES ASSUME NEW u \in Threads, job'[u] # None
               PROVE  pc'[job'[u]] \in {"rag", "done"} /\ \A i \in DOMAIN queue' : queue'[i] # job'[u]
    OBVIOUS
  <2>1. CASE u = t
    BY <1>2, <1>4, <1>5, <1>9, <2>1 DEF QueueInv
  <2>2. CASE u # t
    BY <1>3, <1>4, <1>5, <2>2 DEF QueueInv
  <2>3. QED
    BY <2>1, <2>2
<1>11. QED
  BY <1>2, <1>3, <1>5, <1>6, <1>7, <1>8, <1>10 DEF QueueInv

\* A thread that returns ends the call it worked for, which is in no queue.
LEMMA ReturnFrees ==
  ASSUME CallShape, QueueInv, UNCHANGED queue, NEW t \in Threads, NEW out, Return(t, out),
         at[t] # "idle"
  PROVE  QueueInv' /\ \A u \in Threads : job'[u] \in {job[u], None}
<1>1. job[t] \in Calls /\ pc[job[t]] \in {"rag", "done"} /\ \A i \in DOMAIN queue : queue[i] # job[t]
  BY DEF QueueInv
<1>2. job' = [job EXCEPT ![t] = None] /\ at' = [at EXCEPT ![t] = "idle"]
  BY DEF Return
<1>3. /\ job' \in [Threads -> Calls \cup {None}] /\ job'[t] = None
      /\ \A u \in Threads \ {t} : job'[u] = job[u] /\ at'[u] = at[u]
      /\ at' \in [Threads -> {"idle", "check", "anthropic", "conn", "redis", "read", "run"}]
      /\ at'[t] = "idle"
  BY <1>2 DEF QueueInv
<1>4. pc' = pc \/ pc' = [pc EXCEPT ![job[t]] = "done"]
  BY DEF Return, Conclude, callVars
<1>5. \A d \in Calls : pc'[d] = pc[d] \/ (d = job[t] /\ pc'[d] = "done")
  BY <1>4 DEF CallShape
<1>6. \A i \in DOMAIN queue : queue[i] \in Calls /\ pc'[queue[i]] = "rag"
  BY <1>1, <1>5 DEF QueueInv
<1>7. \A u \in Threads : job'[u] # None =>
        pc'[job'[u]] \in {"rag", "done"} /\ \A i \in DOMAIN queue : queue[i] # job'[u]
  BY <1>3, <1>5 DEF QueueInv
<1>8. \A u \in Threads : at'[u] = "idle" <=> job'[u] = None
  BY <1>3 DEF QueueInv
<1>9. QED
  BY <1>3, <1>6, <1>7, <1>8 DEF QueueInv

\* A step of a thread begins a call from the queue, gives one up or goes on.
LEMMA ThreadQueue ==
  ASSUME CallShape, QueueInv, NEW t \in Threads, ThreadStep(t)
  PROVE  /\ QueueInv'
         /\ \/ Begin(t)
            \/ \A u \in Threads : job'[u] \in {job[u], None}
<1>1. CASE Begin(t)
  BY <1>1, BeginTakes
<1>2. ASSUME NEW out, Return(t, out), UNCHANGED queue, at[t] # "idle"
      PROVE  QueueInv' /\ \A u \in Threads : job'[u] \in {job[u], None}
  BY <1>2, ReturnFrees
<1>3. ASSUME UNCHANGED <<callVars, queue, job>>, at[t] # "idle",
             NEW l \in {"anthropic", "conn", "redis", "read", "run"}, at' = [at EXCEPT ![t] = l]
      PROVE  QueueInv' /\ \A u \in Threads : job'[u] \in {job[u], None}
  <2>1. /\ at' \in [Threads -> {"idle", "check", "anthropic", "conn", "redis", "read", "run"}]
        /\ \A u \in Threads : at'[u] = "idle" <=> at[u] = "idle"
    BY <1>3 DEF QueueInv
  <2>2. UNCHANGED <<pc, queue, job>>
    BY <1>3 DEF callVars
  <2>3. QED
    BY <2>1, <2>2 DEF QueueInv
<1>4. CASE Check(t)
  BY <1>3, <1>4 DEF Check
<1>5. ASSUME NEW key \in {"anthropic", "conn", "redis"}, NEW l \in {"conn", "redis", "read"},
             NEW fails \in BOOLEAN, OpenClient(t, key, l, fails)
      PROVE  QueueInv' /\ \A u \in Threads : job'[u] \in {job[u], None}
  <2>1. at[t] # "idle" /\ UNCHANGED queue
    BY <1>5 DEF OpenClient
  <2>2. \/ Return(t, Unmapped)
        \/ UNCHANGED <<callVars, job>> /\ at' = [at EXCEPT ![t] = l]
    BY <1>5 DEF OpenClient
  <2>3. QED
    BY <1>2, <1>3, <2>1, <2>2
<1>6. CASE ReadClients(t)
  BY <1>2, <1>3, <1>6 DEF ReadClients
<1>7. CASE Run(t)
  <2>1. at[t] # "idle" /\ UNCHANGED queue /\ (Return(t, Ok) \/ Return(t, Unmapped))
    BY <1>7 DEF Run
  <2>2. QED
    BY <1>2, <2>1
<1>8. CASE _rag_clients(t)
  <2>1. CASE \E fails \in BOOLEAN : OpenClient(t, "anthropic", "conn", fails) \/ OpenClient(t, "conn", "redis", fails)
    BY <1>5, <2>1
  <2>2. CASE OpenClient(t, "redis", "read", "redis" \in unset)
    <3>1. PICK fails \in BOOLEAN : fails <=> "redis" \in unset
      OBVIOUS
    <3>2. OpenClient(t, "redis", "read", fails)
      BY <2>2, <3>1 DEF OpenClient
    <3>3. QED
      BY <1>5, <3>2
  <2>3. QED
    BY <1>4, <1>8, <2>1, <2>2 DEF _rag_clients
<1>9. QED
  BY <1>1, <1>6, <1>7, <1>8 DEF ThreadStep

\* A call's own steps keep the queue in order and begin no work.
LEMMA CallQueue ==
  ASSUME CallShape, QueueInv, NEW c \in Calls,
         \/ OwnStep(c) \/ Forget(c)
         \/ \E s \in Sessions, tool \in Tools, t \in Tenants, a \in Arguments : CallTool(c, s, tool, t, a)
         \/ \E status \in Statuses, fits \in BOOLEAN :
              _create_refund(c, status, fits) \/ _chat(c, status, fits)
  PROVE  QueueInv' /\ UNCHANGED job
<1>0. \A t \in Threads : job[t] = c => pc[c] \in {"rag", "done"}
  BY McpAssumption DEF QueueInv
<1>1. CASE Observe(c)
  BY <1>1, ObserveQueues DEF Observe
<1>2. CASE Deadline(c)
  BY <1>2, DeadlineWithdraws DEF Deadline
<1>3. ASSUME NEW out, Conclude(c, out), UNCHANGED threadVars, pc[c] # "rag" PROVE QueueInv' /\ UNCHANGED job
  BY <1>3, QueueConclude DEF threadVars
<1>4. CASE Validate(c)
  <2>1. pc[c] = "validate" /\ UNCHANGED threadVars
    BY <1>4 DEF Validate
  <2>2. CASE Conclude(c, Refusal(call[c].args))
    BY <1>3, <2>1, <2>2
  <2>3. CASE pc' = [pc EXCEPT ![c] = "observe"]
    BY <1>0, <2>1, <2>3, QueueKept DEF threadVars
  <2>4. QED
    BY <1>4, <2>2, <2>3 DEF Validate
<1>5. CASE TransportFails(c)
  BY <1>3, <1>5 DEF TransportFails
<1>6. CASE \E status \in Statuses, fits \in BOOLEAN : _create_refund(c, status, fits) \/ _chat(c, status, fits)
  BY <1>3, <1>6 DEF _create_refund, _chat, Answered
<1>7. CASE Forget(c)
  <2>1. /\ pc[c] = "done" /\ pc' = [pc EXCEPT ![c] = "free"] /\ UNCHANGED <<queue, job, at>>
        /\ \A t \in Threads : job[t] # c
    BY <1>7 DEF Forget, threadVars
  <2>2. QED
    BY <2>1, QueueKept
<1>8. CASE \E s \in Sessions, tool \in Tools, t \in Tenants, a \in Arguments : CallTool(c, s, tool, t, a)
  <2>1. pc[c] = "free" /\ pc' = [pc EXCEPT ![c] = "validate"] /\ UNCHANGED <<queue, job, at>>
    BY <1>8 DEF CallTool, threadVars
  <2>2. QED
    BY <1>0, <2>1, QueueKept
<1>9. QED
  BY <1>1, <1>2, <1>4, <1>5, <1>6, <1>7, <1>8 DEF OwnStep

\* Every step keeps the queue in order, and begins no work but that of a call that waits.
LEMMA QueueStep ==
  ASSUME McpInv, QueueInv, [Next]_vars
  PROVE  /\ QueueInv'
         /\ \A t \in Threads : job'[t] # job[t] /\ job'[t] # None => pc[job'[t]] = "rag"
<1>0. CallShape
  BY DEF McpInv
<1>1. CASE \E t \in Threads : ThreadStep(t)
  <2>1. PICK t \in Threads : ThreadStep(t)
    BY <1>1
  <2>2. CASE Begin(t)
    BY <2>2, BeginTakes DEF QueueInv
  <2>3. CASE \A u \in Threads : job'[u] \in {job[u], None}
    BY <1>0, <2>1, <2>3, ThreadQueue
  <2>4. QED
    BY <1>0, <2>1, <2>2, <2>3, ThreadQueue
<1>2. CASE (\E s \in Sessions, b \in Bearers : Connect(s, b)) \/ UNCHANGED vars
  <2>1. UNCHANGED <<pc, queue, job, at>>
    BY <1>2 DEF Connect, vars, callVars, threadVars
  <2>2. QED
    BY <2>1 DEF QueueInv
<1>3. ASSUME NEW c \in Calls,
             \/ OwnStep(c) \/ Forget(c)
             \/ \E s \in Sessions, tool \in Tools, t \in Tenants, a \in Arguments : CallTool(c, s, tool, t, a)
             \/ \E status \in Statuses, fits \in BOOLEAN :
                  _create_refund(c, status, fits) \/ _chat(c, status, fits)
      PROVE  QueueInv' /\ UNCHANGED job
  BY <1>0, <1>3, CallQueue
<1>4. QED
  BY <1>1, <1>2, <1>3 DEF Next

\* What the calls and the shared clients may be.
PlainInv ==
  /\ jwks \in BOOLEAN /\ unset \subseteq {"dsn", "redis"}
  /\ \A c \in Calls : call[c] = NoCall \/ call[c].session \in Sessions
  /\ clients \subseteq {"anthropic", "conn", "redis"}
  /\ conn \in {"none", "good", "broken"}

LEMMA PlainStep == ASSUME McpInv, PlainInv, [Next]_vars PROVE PlainInv'
<1>1. UNCHANGED <<jwks, unset>>
  BY DEF Next, OwnStep, ThreadStep, Connect, CallTool, Validate, Observe, _create_refund, _chat,
         Answered, TransportFails, Deadline, Forget, Begin, _rag_clients, Check, OpenClient,
         ReadClients, Run, settings, vars
<1>2. clients' \subseteq {"anthropic", "conn", "redis"} /\ conn' \in {"none", "good", "broken"}
  <2>1. ASSUME NEW t \in Threads, _rag_clients(t)
        PROVE  clients' \subseteq {"anthropic", "conn", "redis"} /\ conn' \in {"none", "good", "broken"}
    <3>1. ASSUME NEW key \in {"anthropic", "conn", "redis"}, NEW l, NEW fails, OpenClient(t, key, l, fails)
          PROVE  clients' \subseteq {"anthropic", "conn", "redis"} /\ conn' \in {"none", "good", "broken"}
      BY <3>1 DEF OpenClient, PlainInv
    <3>2. CASE Check(t)
      BY <3>2 DEF Check, PlainInv
    <3>3. QED
      BY <2>1, <3>1, <3>2 DEF _rag_clients
  <2>2. ASSUME NEW t \in Threads, Run(t)
        PROVE  clients' \subseteq {"anthropic", "conn", "redis"} /\ conn' \in {"none", "good", "broken"}
    BY <2>2 DEF Run, PlainInv
  <2>3. CASE UNCHANGED <<clients, conn>>
    BY <2>3 DEF PlainInv
  <2>4. ASSUME NEW t \in Threads, Begin(t) \/ ReadClients(t) PROVE UNCHANGED <<clients, conn>>
    BY <2>4 DEF Begin, ReadClients
  <2>5. CASE (\E t \in Threads : ThreadStep(t)) \/ UNCHANGED <<clients, conn>>
    BY <2>1, <2>2, <2>3, <2>4, <2>5 DEF ThreadStep
  <2>6. QED
    BY <2>3, <2>5 DEF Next, OwnStep, Connect, CallTool, Validate, Observe, _create_refund,
         _chat, Answered, TransportFails, Deadline, Forget, threadVars, vars
<1>3. \A c \in Calls : call'[c] = NoCall \/ call'[c].session \in Sessions
  <2>1. CASE call' = call
    BY <2>1 DEF PlainInv
  <2>2. ASSUME NEW c \in Calls, NEW s \in Sessions, NEW tool \in Tools, NEW t \in Tenants,
               NEW a \in Arguments, CallTool(c, s, tool, t, a)
        PROVE  \A d \in Calls : call'[d] = NoCall \/ call'[d].session \in Sessions
    BY <2>2 DEF CallTool, PlainInv, McpInv, CallShape
  <2>3. ASSUME NEW c \in Calls, Forget(c)
        PROVE  \A d \in Calls : call'[d] = NoCall \/ call'[d].session \in Sessions
    BY <2>3 DEF Forget, PlainInv, McpInv, CallShape
  <2>4. ASSUME NEW t \in Threads, ThreadStep(t) PROVE call' = call
    BY <2>4 DEF ThreadStep, Begin, _rag_clients, Check, OpenClient, ReadClients, Run, Return, Conclude, callVars
  <2>5. ASSUME NEW c \in Calls, OwnStep(c) PROVE call' = call
    BY <2>5 DEF OwnStep, Validate, Observe, TransportFails, Deadline, Conclude
  <2>6. ASSUME NEW c \in Calls, NEW status \in Statuses, NEW fits \in BOOLEAN,
               _create_refund(c, status, fits) \/ _chat(c, status, fits)
        PROVE  call' = call
    BY <2>6 DEF _create_refund, _chat, Answered, Conclude
  <2>7. ASSUME NEW s \in Sessions, NEW b \in Bearers, Connect(s, b) PROVE call' = call
    BY <2>7 DEF Connect, callVars
  <2>8. CASE UNCHANGED vars
    BY <2>1, <2>8 DEF vars, callVars
  <2>9. QED
    BY <2>1, <2>2, <2>3, <2>4, <2>5, <2>6, <2>7, <2>8 DEF Next
<1>4. QED
  BY <1>1, <1>2, <1>3 DEF PlainInv

\* The queue is in order from the start on.
LEMMA PoolInvariant == Spec => [](QueueInv /\ PlainInv)
<1>1. Init => QueueInv /\ PlainInv
  BY DEF Init, QueueInv, PlainInv
<1>2. McpInv /\ QueueInv /\ PlainInv /\ [Next]_vars => (QueueInv /\ PlainInv)'
  BY QueueStep, PlainStep
<1>3. QED
  BY <1>1, <1>2, McpInvariant, PTL DEF Spec

\* Every variable of the server, its calls and its threads keeps its type.
THEOREM McpTypeCorrect == Spec => []TypeOK
<1>1. McpInv /\ QueueInv /\ PlainInv => TypeOK
  BY DEF McpInv, CallShape, QueueInv, PlainInv, TypeOK, Live
<1>2. QED
  BY <1>1, McpInvariant, PoolInvariant, PTL

\* For any number of calls and threads, no thread begins a retrieval that its tool has
\* given up: wait_for's cancellation takes what still waits out of the executor's queue.
THEOREM GivenUpIsNotBegun == Spec => NoLateStart
<1>1. McpInv /\ QueueInv /\ [Next]_vars =>
        [\A t \in Threads : job'[t] # job[t] /\ job'[t] # None => pc[job'[t]] = "rag"]_vars
  BY QueueStep
<1>2. QED
  BY <1>1, McpInvariant, PoolInvariant, PTL DEF Spec, NoLateStart
=============================================================================
