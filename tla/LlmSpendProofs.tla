-------------------------- MODULE LlmSpendProofs --------------------------
(***************************************************************************)
(* Proofs about LlmSpend, for any number of calls, models, prices, token   *)
(* counts, retries and faults. An attempt is sent once (SentInv), it is    *)
(* billed and logged in that order and at most once, and what is logged    *)
(* is the price of what the provider reported of the bill (StageInv).      *)
(***************************************************************************)
EXTENDS LlmSpend, FiniteSetTheorems, WellFoundedInduction, TLAPS

\* What a cost line may hold.
Lines == [tenant : {"shared"} \cup {TokenOf[c].tenant : c \in Calls}, e5 : Nat]

-----------------------------------------------------------------------------
(* Prices                                                                    *)

\* A price is a number of millionths of a dollar, and grows with each count.
LEMMA ExactNat ==
  ASSUME NEW m \in DOMAIN RATES, NEW u, NEW v, u.input \in Nat, u.output \in Nat,
         v.input \in {0, u.input}, v.output \in {0, u.output}
  PROVE  Exact(m, u) \in Nat /\ Exact(m, v) \in Nat /\ Exact(m, v) <= Exact(m, u)
<1>1. RATES[m].input \in Nat /\ RATES[m].output \in Nat
  BY SpendAssumption
<1>2. \A x, y \in Nat : x * y \in Nat /\ x * 0 = 0
  OBVIOUS
<1>3. /\ RATES[m].input * u.input \in Nat /\ RATES[m].output * u.output \in Nat
      /\ RATES[m].input * 0 = 0 /\ RATES[m].output * 0 = 0
  BY <1>1, <1>2
<1>4. /\ RATES[m].input * v.input \in {0, RATES[m].input * u.input}
      /\ RATES[m].output * v.output \in {0, RATES[m].output * u.output}
  BY <1>3
<1>5. \A p, q \in Nat : \A x \in {0, p} : \A y \in {0, q} : x + y \in Nat /\ x + y <= p + q
  OBVIOUS
<1>6. QED
  BY <1>3, <1>4, <1>5 DEF Exact

\* What is read of a usage block is each count or 0.
LEMMA ReadingType ==
  ASSUME NEW u \in Usages, NEW v \in Readings(u)
  PROVE  /\ u.input \in Nat /\ u.output \in Nat
         /\ v.input \in {0, u.input} /\ v.output \in {0, u.output}
<1>1. PICK given \in SUBSET {"input", "output"} : v = safeLong(u, given)
  BY DEF Readings
<1>2. v.input \in {0, u.input} /\ v.output \in {0, u.output}
  BY <1>1 DEF safeLong
<1>3. QED
  BY <1>2, SpendAssumption

\* HALF_UP is off by half a unit at most.
LEMMA HalfUpNear ==
  ASSUME NEW n \in Nat
  PROVE  HalfUp(n) \in Nat /\ 10 * HalfUp(n) - n \in -5 .. 5
BY DEF HalfUp

\* The line of a charge is one the log can hold, and is told from no line.
LEMMA LineType ==
  ASSUME NEW c \in Calls, NEW m \in DOMAIN RATES, NEW u \in Usages, NEW v \in Readings(u)
  PROVE  /\ [tenant |-> tenantOf(TokenOf[c]), e5 |-> costUsdE5(m, v)] \in Lines
         /\ [tenant |-> tenantOf(TokenOf[c]), e5 |-> costUsdE5(m, v)] # None
<1>1. costUsdE5(m, v) \in Nat
  BY ExactNat, ReadingType, HalfUpNear DEF costUsdE5
<1>2. tenantOf(TokenOf[c]) \in {"shared"} \cup {TokenOf[d].tenant : d \in Calls}
  BY DEF tenantOf
<1>3. [tenant |-> tenantOf(TokenOf[c]), e5 |-> costUsdE5(m, v)] \in Lines
  BY <1>1, <1>2 DEF Lines
<1>4. None \notin Lines
  BY SpendAssumption DEF Lines
<1>5. QED
  BY <1>3, <1>4

-----------------------------------------------------------------------------
(* Type correctness                                                          *)

\* A call that waits to try again has an attempt left.
TypeInv ==
  /\ TypeOK
  /\ log \in [Attempts -> Lines \cup {None}]
  /\ \A c \in Calls : pc[c] = "backoff" => try[c] < MaxRetries

\* The attempt a call is at exists and is its own.
LEMMA CurrentType ==
  ASSUME TypeInv, NEW c \in Calls
  PROVE  Current(c) \in Attempts /\ Current(c)[1] = c
BY DEF TypeInv, TypeOK, Current, Attempts

\* An attempt belongs to a call.
LEMMA CallOf ==
  ASSUME NEW a \in Attempts
  PROVE  a[1] \in Calls
BY DEF Attempts

\* The initial state has the types.
LEMMA TypeInit == Init => TypeInv
<1> SUFFICES ASSUME Init PROVE TypeInv
  OBVIOUS
<1>1. 1 \in 1 .. MaxRetries /\ Capacity \in 0 .. Capacity /\ 0 \in 0 .. MaxFaults
  BY SpendAssumption
<1>2. /\ model \in [Calls -> Models]
      /\ pc \in [Calls -> {"ready", "waiting", "backoff", "ok", "failed"}]
      /\ try \in [Calls -> 1 .. MaxRetries]
      /\ answer \in [Calls -> Attempts \cup {None}]
      /\ echoed \in [Estimates -> BOOLEAN]
      /\ \A c \in Calls : pc[c] # "backoff"
  BY <1>1 DEF Init
<1>3. /\ srv \in [Attempts -> {"unsent", "filter", "provider", "observe", "replied", "gone"}]
      /\ bill \in [Attempts -> Usages \cup {None}]
      /\ usage \in [Attempts -> Counted \cup {None}]
      /\ log \in [Attempts -> Lines \cup {None}]
  BY DEF Init
<1>4. /\ \A s \in DOMAIN bucket : bucket[s] \in 0 .. Capacity
      /\ lost \subseteq Attempts /\ cents \in Nat /\ faults \in 0 .. MaxFaults
  BY <1>1 DEF Init
<1>5. QED
  BY <1>2, <1>3, <1>4 DEF TypeInv, TypeOK

\* An exception leaves a call in a place it may be in.
LEMMA RaisedType ==
  ASSUME TypeInv, NEW c \in Calls, NEW transient, Raised(c, transient)
  PROVE  /\ pc' \in [Calls -> {"ready", "waiting", "backoff", "ok", "failed"}]
         /\ \A d \in Calls : pc'[d] = "backoff" => try[d] < MaxRetries
         /\ pc'[c] # "ready"
         /\ \A d \in Calls \ {c} : pc'[d] = pc[d]
<1>1. try[c] \in 1 .. MaxRetries /\ MaxRetries \in Nat
  BY SpendAssumption DEF TypeInv, TypeOK
<1>2. try[c] # MaxRetries => try[c] < MaxRetries
  BY <1>1
<1>3. pc' = [pc EXCEPT ![c] = IF transient /\ ~stop_after_attempt(c) THEN "backoff" ELSE "failed"]
  BY DEF Raised
<1>4. ~stop_after_attempt(c) => try[c] < MaxRetries
  BY <1>2 DEF stop_after_attempt
<1>5. pc \in [Calls -> {"ready", "waiting", "backoff", "ok", "failed"}]
      /\ \A d \in Calls : pc[d] = "backoff" => try[d] < MaxRetries
  BY DEF TypeInv, TypeOK
<1>6. QED
  BY <1>3, <1>4, <1>5

\* A response that is read keeps the types, and of the calls it moves only the one that
\* reads it.
LEMMA ReceiveType ==
  ASSUME TypeInv, NEW c \in Calls, NEW a \in Attempts, Receive(c, a)
  PROVE  /\ pc' \in [Calls -> {"ready", "waiting", "backoff", "ok", "failed"}]
         /\ \A d \in Calls : pc'[d] = "backoff" => try[d] < MaxRetries
         /\ answer' \in [Calls -> Attempts \cup {None}] /\ echoed' \in [Estimates -> BOOLEAN]
         /\ cents' \in Nat
         /\ pc'[c] # "ready"
         /\ \A d \in Calls \ {c} : pc'[d] = pc[d]
<1>1. cents' \in Nat
  <2>1. CASE c \in Chats /\ log[a] # None
    <3>1. log[a].e5 \in Nat
      BY <2>1 DEF TypeInv, Lines
    <3>2. as_minor_units(log[a].e5) \in Nat
      BY <3>1 DEF as_minor_units
    <3>3. QED
      BY <2>1, <3>2 DEF Receive, TypeInv, TypeOK
  <2>2. CASE ~(c \in Chats /\ log[a] # None)
    BY <2>2 DEF Receive, TypeInv, TypeOK
  <2>3. QED
    BY <2>1, <2>2
<1>2. CASE Raised(c, _is_transient(reply[a].status)) \/ Raised(c, FALSE)
  <2>1. answer' = answer /\ echoed' = echoed
    BY <1>2 DEF Raised
  <2>2. /\ pc' \in [Calls -> {"ready", "waiting", "backoff", "ok", "failed"}]
        /\ \A d \in Calls : pc'[d] = "backoff" => try[d] < MaxRetries
        /\ pc'[c] # "ready"
        /\ \A d \in Calls \ {c} : pc'[d] = pc[d]
    BY <1>2, RaisedType
  <2>3. QED
    BY <1>1, <2>1, <2>2 DEF TypeInv, TypeOK
<1>3. CASE /\ answer' = [answer EXCEPT ![c] = a] /\ pc' = [pc EXCEPT ![c] = "ok"]
           /\ echoed' = echoed \/ \E named \in BOOLEAN : echoed' = [echoed EXCEPT ![c] = named]
  <2>1. echoed' \in [Estimates -> BOOLEAN]
    BY <1>3 DEF TypeInv, TypeOK
  <2>2. QED
    BY <1>1, <1>3, <2>1 DEF TypeInv, TypeOK
<1>4. QED
  BY <1>2, <1>3 DEF Receive

-----------------------------------------------------------------------------
(* The invariant                                                             *)

\* An attempt is sent once: those a call has not reached yet are unsent.
SentInv ==
  \A c \in Calls : \A n \in 1 .. MaxRetries :
    n > try[c] \/ (n = try[c] /\ pc[c] = "ready") => srv[<<c, n>>] = "unsent"

\* Nothing is billed before the provider is called, nothing logged before it is billed,
\* only what has a price gets that far, and a line holds the price of what was reported of
\* its charge.
StageOf(a) ==
  /\ srv[a] \in {"unsent", "filter", "provider"} => bill[a] = None
  /\ srv[a] \in {"unsent", "filter", "provider", "observe"} => log[a] = None
  /\ srv[a] \in {"provider", "observe"} => model[a[1]] \in DOMAIN RATES
  /\ srv[a] = "observe" => bill[a] \in Usages /\ usage[a] \in Readings(bill[a])
  /\ log[a] # None => /\ bill[a] \in Usages /\ usage[a] \in Readings(bill[a])
                      /\ model[a[1]] \in DOMAIN RATES
                      /\ log[a].e5 = costUsdE5(model[a[1]], usage[a])
  /\ bill[a] # None => log[a] # None \/ a \in lost \/ srv[a] = "observe"

StageInv == \A a \in Attempts : StageOf(a)

SpendInv == TypeInv /\ SentInv /\ StageInv

\* A step that concerns one attempt need only be looked at there.
LEMMA StageFrame ==
  ASSUME StageInv, NEW a \in Attempts, StageOf(a)', model' = model, lost \subseteq lost',
         \A b \in Attempts \ {a} : srv'[b] = srv[b] /\ bill'[b] = bill[b] /\ usage'[b] = usage[b] /\ log'[b] = log[b]
  PROVE  StageInv'
<1>1. ASSUME NEW b \in Attempts \ {a} PROVE StageOf(b)'
  BY <1>1 DEF StageInv, StageOf
<1>2. QED
  BY <1>1 DEF StageInv

\* A step at the server leaves the calls alone and moves an attempt that was sent.
LEMMA SentFrame ==
  ASSUME TypeInv, SentInv, NEW a \in Attempts, srv[a] # "unsent", pc' = pc, try' = try,
         \A b \in Attempts \ {a} : srv'[b] = srv[b]
  PROVE  SentInv'
<1> SUFFICES ASSUME NEW c \in Calls, NEW n \in 1 .. MaxRetries,
                    n > try[c] \/ (n = try[c] /\ pc[c] = "ready")
             PROVE  srv'[<<c, n>>] = "unsent"
  BY DEF SentInv
<1>1. srv[<<c, n>>] = "unsent"
  BY DEF SentInv
<1>2. <<c, n>> \in Attempts \ {a}
  BY <1>1 DEF Attempts
<1>3. QED
  BY <1>1, <1>2

\* The initial state.
LEMMA SpendInit == Init => SpendInv
<1> SUFFICES ASSUME Init PROVE SpendInv
  OBVIOUS
<1>1. SentInv
  BY DEF Init, SentInv, Attempts
<1>2. StageInv
  BY DEF Init, StageInv, StageOf
<1>3. QED
  BY <1>1, <1>2, TypeInit DEF SpendInv

-----------------------------------------------------------------------------
(* Steps of the clients                                                      *)

\* _post sends an attempt that was never sent.
LEMMA PostStep ==
  ASSUME SpendInv, NEW c \in Calls, _post(c)
  PROVE  SpendInv'
<1>0. PICK a \in Attempts : a = Current(c)
  BY CurrentType DEF SpendInv
<1>1. a[1] = c /\ a = <<c, try[c]>> /\ try[c] \in 1 .. MaxRetries
  BY <1>0, CurrentType DEF SpendInv, Current, TypeInv, TypeOK
<1>2. srv[a] = "unsent"
  <2>1. pc[c] = "ready"
    BY DEF _post
  <2>2. QED
    BY <1>1, <2>1 DEF SpendInv, SentInv
<1>3. srv' = [srv EXCEPT ![a] = "filter"] /\ pc' = [pc EXCEPT ![c] = "waiting"]
  BY <1>0 DEF _post
<1>4. TypeInv'
  <2>1. /\ srv' \in [Attempts -> {"unsent", "filter", "provider", "observe", "replied", "gone"}]
        /\ pc' \in [Calls -> {"ready", "waiting", "backoff", "ok", "failed"}]
        /\ \A d \in Calls : pc'[d] = "backoff" => try[d] < MaxRetries
    BY <1>3 DEF SpendInv, TypeInv, TypeOK
  <2>2. UNCHANGED <<model, try, answer, echoed, cents, bucket, bill, usage, log, lost, faults>>
    BY DEF _post
  <2>3. QED
    BY <2>1, <2>2 DEF SpendInv, TypeInv, TypeOK
<1>5. SentInv'
  <2> SUFFICES ASSUME NEW d \in Calls, NEW n \in 1 .. MaxRetries,
                      n > try[d] \/ (n = try[d] /\ pc'[d] = "ready")
               PROVE  srv'[<<d, n>>] = "unsent"
    BY DEF SentInv, _post
  <2>1. pc'[c] = "waiting" /\ (d # c => pc'[d] = pc[d])
    BY <1>3 DEF SpendInv, TypeInv, TypeOK
  <2>2. <<d, n>> # a
    <3> SUFFICES ASSUME <<d, n>> = <<c, try[c]>> PROVE FALSE
      BY <1>1
    <3>1. d = c /\ n = try[c]
      OBVIOUS
    <3>2. n \in Int /\ ~(n > n)
      OBVIOUS
    <3>3. QED
      BY <2>1, <3>1, <3>2
  <2>3. srv[<<d, n>>] = "unsent"
    BY <2>1 DEF SpendInv, SentInv
  <2>4. <<d, n>> \in Attempts
    BY DEF Attempts
  <2>5. QED
    BY <1>3, <2>2, <2>3, <2>4 DEF SpendInv, TypeInv, TypeOK
<1>6. StageInv'
  <2>1. \A b \in Attempts \ {a} : srv'[b] = srv[b] /\ bill'[b] = bill[b] /\ usage'[b] = usage[b] /\ log'[b] = log[b]
    BY <1>3 DEF SpendInv, TypeInv, TypeOK, _post
  <2>2. StageOf(a)'
    BY <1>1, <1>2, <1>3 DEF SpendInv, TypeInv, TypeOK, StageInv, StageOf, _post
  <2>3. model' = model /\ lost \subseteq lost'
    BY DEF _post
  <2>4. QED
    BY <1>1, <2>1, <2>2, <2>3, StageFrame DEF SpendInv
<1>7. QED
  BY <1>4, <1>5, <1>6 DEF SpendInv

\* Reading a response ends the attempt whose response it is.
LEMMA ReceiveStep ==
  ASSUME SpendInv, NEW c \in Calls, NEW a \in Attempts, Receive(c, a),
         faults' \in 0 .. MaxFaults
  PROVE  SpendInv'
<1>1. /\ srv[a] = "replied" /\ srv' = [srv EXCEPT ![a] = "gone"]
      /\ UNCHANGED <<model, try, bucket, bill, usage, log, lost>>
  BY DEF Receive
<1>2. /\ pc' \in [Calls -> {"ready", "waiting", "backoff", "ok", "failed"}]
      /\ \A d \in Calls : pc'[d] = "backoff" => try[d] < MaxRetries
      /\ answer' \in [Calls -> Attempts \cup {None}] /\ echoed' \in [Estimates -> BOOLEAN]
      /\ cents' \in Nat
      /\ pc'[c] # "ready"
      /\ \A d \in Calls \ {c} : pc'[d] = pc[d]
  BY ReceiveType DEF SpendInv
<1>3. \A b \in Attempts \ {a} : srv'[b] = srv[b]
  BY <1>1 DEF SpendInv, TypeInv, TypeOK
<1>4. TypeInv'
  BY <1>1, <1>2 DEF SpendInv, TypeInv, TypeOK
<1>5. SentInv'
  <2> SUFFICES ASSUME NEW d \in Calls, NEW n \in 1 .. MaxRetries,
                      n > try[d] \/ (n = try[d] /\ pc'[d] = "ready")
               PROVE  srv'[<<d, n>>] = "unsent"
    BY <1>1 DEF SentInv
  <2>1. srv[<<d, n>>] = "unsent"
    BY <1>2 DEF SpendInv, SentInv
  <2>2. <<d, n>> \in Attempts \ {a}
    BY <1>1, <2>1 DEF Attempts
  <2>3. QED
    BY <1>3, <2>1, <2>2
<1>6. StageInv'
  <2>1. StageOf(a)'
    BY <1>1 DEF SpendInv, TypeInv, TypeOK, StageInv, StageOf
  <2>2. QED
    BY <1>1, <1>3, <2>1, StageFrame DEF SpendInv
<1>7. QED
  BY <1>4, <1>5, <1>6 DEF SpendInv

\* A timeout moves the call alone: the attempt stays what it is at the server.
LEMMA TransportErrorStep ==
  ASSUME SpendInv, NEW c \in Calls, TransportError(c)
  PROVE  SpendInv'
<1>1. /\ Raised(c, TRUE) /\ answer' = answer /\ echoed' = echoed
      /\ UNCHANGED <<model, try, cents, srv, reply, bucket, bill, usage, log, lost, faults>>
  BY DEF TransportError, Raised, serverVars
<1>2. /\ pc' \in [Calls -> {"ready", "waiting", "backoff", "ok", "failed"}]
      /\ \A d \in Calls : pc'[d] = "backoff" => try[d] < MaxRetries
      /\ pc'[c] # "ready"
      /\ \A d \in Calls \ {c} : pc'[d] = pc[d]
  BY <1>1, RaisedType DEF SpendInv
<1>3. TypeInv'
  BY <1>1, <1>2 DEF SpendInv, TypeInv, TypeOK
<1>4. SentInv'
  BY <1>1, <1>2 DEF SpendInv, SentInv
<1>5. StageInv'
  BY <1>1 DEF SpendInv, StageInv, StageOf
<1>6. QED
  BY <1>3, <1>4, <1>5 DEF SpendInv

\* The next attempt of a call is one that was not sent.
LEMMA BackoffStep ==
  ASSUME SpendInv, NEW c \in Calls, Backoff(c)
  PROVE  SpendInv'
<1>1. /\ pc[c] = "backoff" /\ pc' = [pc EXCEPT ![c] = "ready"]
      /\ try' = [try EXCEPT ![c] = try[c] + 1]
      /\ UNCHANGED <<model, answer, echoed, cents, srv, bucket, bill, usage, log, lost, faults>>
  BY DEF Backoff, serverVars
<1>2. try[c] \in 1 .. MaxRetries /\ try[c] < MaxRetries /\ MaxRetries \in Nat
  BY <1>1, SpendAssumption DEF SpendInv, TypeInv, TypeOK
<1>3. try[c] + 1 \in 1 .. MaxRetries
  BY <1>2
<1>4. /\ try'[c] = try[c] + 1 /\ pc'[c] = "ready"
      /\ \A d \in Calls \ {c} : try'[d] = try[d] /\ pc'[d] = pc[d]
  BY <1>1 DEF SpendInv, TypeInv, TypeOK
<1>5. TypeInv'
  <2>1. try' \in [Calls -> 1 .. MaxRetries]
    BY <1>1, <1>3 DEF SpendInv, TypeInv, TypeOK
  <2>2. /\ pc' \in [Calls -> {"ready", "waiting", "backoff", "ok", "failed"}]
        /\ \A d \in Calls : pc'[d] = "backoff" => try'[d] < MaxRetries
    BY <1>1, <1>4 DEF SpendInv, TypeInv, TypeOK
  <2>3. QED
    BY <1>1, <2>1, <2>2 DEF SpendInv, TypeInv, TypeOK
<1>6. SentInv'
  <2> SUFFICES ASSUME NEW d \in Calls, NEW n \in 1 .. MaxRetries,
                      n > try'[d] \/ (n = try'[d] /\ pc'[d] = "ready")
               PROVE  srv[<<d, n>>] = "unsent"
    BY <1>1 DEF SentInv
  <2>1. CASE d = c
    <3>1. n > try[c]
      BY <1>2, <1>4, <2>1
    <3>2. QED
      BY <2>1, <3>1 DEF SpendInv, SentInv
  <2>2. CASE d # c
    BY <1>4, <2>2 DEF SpendInv, SentInv
  <2>3. QED
    BY <2>1, <2>2
<1>7. StageInv'
  BY <1>1 DEF SpendInv, StageInv, StageOf
<1>8. QED
  BY <1>5, <1>6, <1>7 DEF SpendInv

\* Every step of a client keeps the invariant.
LEMMA ClientKeeps ==
  ASSUME SpendInv, NEW c \in Calls, ClientStep(c)
  PROVE  SpendInv'
<1>1. CASE OwnResponse(c)
  <2>1. Receive(c, Current(c)) /\ faults' \in 0 .. MaxFaults
    BY <1>1 DEF OwnResponse, SpendInv, TypeInv, TypeOK
  <2>2. QED
    BY <2>1, CurrentType, ReceiveStep DEF SpendInv
<1>2. QED
  BY <1>1, PostStep, TransportErrorStep, BackoffStep DEF ClientStep

\* So does a response that reaches the wrong client.
LEMMA CrossedKeeps ==
  ASSUME SpendInv, NEW c \in Calls, NEW d \in Calls, CrossedResponse(c, d)
  PROVE  SpendInv'
<1>1. faults' \in 0 .. MaxFaults
  BY SpendAssumption DEF CrossedResponse, SpendInv, TypeInv, TypeOK
<1>2. Receive(c, Current(d))
  BY DEF CrossedResponse
<1>3. QED
  BY <1>1, <1>2, CurrentType, ReceiveStep DEF SpendInv

-----------------------------------------------------------------------------
(* Steps of the proxy                                                        *)

\* What a step of the proxy on one attempt has to show.
LEMMA ServerFrame ==
  ASSUME SpendInv, NEW a \in Attempts, srv[a] # "unsent", UNCHANGED clientVars,
         srv' \in [Attempts -> {"unsent", "filter", "provider", "observe", "replied", "gone"}],
         bill' \in [Attempts -> Usages \cup {None}],
         usage' \in [Attempts -> Counted \cup {None}],
         log' \in [Attempts -> Lines \cup {None}],
         \A s \in DOMAIN bucket' : bucket'[s] \in 0 .. Capacity,
         lost \subseteq lost', lost' \subseteq Attempts, faults' \in 0 .. MaxFaults,
         \A b \in Attempts \ {a} : srv'[b] = srv[b] /\ bill'[b] = bill[b] /\ usage'[b] = usage[b] /\ log'[b] = log[b],
         StageOf(a)'
  PROVE  SpendInv'
<1>1. UNCHANGED <<model, pc, try, answer, echoed, cents>>
  BY DEF clientVars
<1>2. TypeInv'
  BY <1>1 DEF SpendInv, TypeInv, TypeOK
<1>3. SentInv'
  BY <1>1, SentFrame DEF SpendInv
<1>4. StageInv'
  BY <1>1, StageFrame DEF SpendInv
<1>5. QED
  BY <1>2, <1>3, <1>4 DEF SpendInv

\* The limiter and the price check: only an attempt with a price goes on.
LEMMA FilterKeeps ==
  ASSUME SpendInv, NEW a \in Attempts, RateLimitFilter(a)
  PROVE  SpendInv'
<1>1. srv[a] = "filter" /\ UNCHANGED <<clientVars, bill, usage, log, lost, faults>>
  BY DEF RateLimitFilter
<1>2. \/ model[a[1]] \in DOMAIN RATES /\ srv' = [srv EXCEPT ![a] = "provider"]
      \/ srv' = [srv EXCEPT ![a] = "replied"]
  BY DEF RateLimitFilter, completions, requirePriceable, Replied
<1>3. \A s \in DOMAIN bucket' : bucket'[s] \in 0 .. Capacity
  <2> DEFINE s0 == TokenOf[a[1]].subject
  <2>1. CASE UNCHANGED bucket
    BY <2>1 DEF SpendInv, TypeInv, TypeOK
  <2>2. CASE bucket[s0] > 0 /\ bucket' = [bucket EXCEPT ![s0] = bucket[s0] - 1]
    <3> SUFFICES ASSUME NEW s \in DOMAIN bucket PROVE bucket'[s] \in 0 .. Capacity
      BY <2>2
    <3>1. bucket[s] \in 0 .. Capacity /\ Capacity \in Nat
      BY SpendAssumption DEF SpendInv, TypeInv, TypeOK
    <3>2. CASE s = s0
      BY <2>2, <3>1, <3>2
    <3>3. CASE s # s0
      BY <2>2, <3>1, <3>3
    <3>4. QED
      BY <3>2, <3>3
  <2>3. QED
    BY <2>1, <2>2 DEF RateLimitFilter
<1>4. /\ srv' \in [Attempts -> {"unsent", "filter", "provider", "observe", "replied", "gone"}]
      /\ \A b \in Attempts \ {a} : srv'[b] = srv[b]
      /\ srv'[a] \in {"provider", "replied"} /\ (srv'[a] = "provider" => model[a[1]] \in DOMAIN RATES)
  BY <1>2 DEF SpendInv, TypeInv, TypeOK
<1>5. bill[a] = None /\ log[a] = None /\ model' = model
  BY <1>1 DEF SpendInv, StageInv, StageOf, clientVars
<1>6. StageOf(a)'
  BY <1>1, <1>4, <1>5 DEF StageOf
<1>7. QED
  BY <1>1, <1>3, <1>4, <1>6, ServerFrame DEF SpendInv, TypeInv, TypeOK

\* The provider's charge is on the way to the log.
LEMMA CompleteKeeps ==
  ASSUME SpendInv, NEW a \in Attempts, complete(a)
  PROVE  SpendInv'
<1>1. srv[a] = "provider" /\ UNCHANGED <<clientVars, bucket, log, lost, faults>>
  BY DEF complete
<1>2. log[a] = None /\ bill[a] = None /\ model' = model /\ model[a[1]] \in DOMAIN RATES
  BY <1>1 DEF SpendInv, StageInv, StageOf, clientVars
<1>3. CASE /\ \E u \in Usages : \E read \in Readings(u) :
                bill' = [bill EXCEPT ![a] = u] /\ usage' = [usage EXCEPT ![a] = read]
           /\ srv' = [srv EXCEPT ![a] = "observe"]
  <2>1. PICK u \in Usages : \E read \in Readings(u) :
          bill' = [bill EXCEPT ![a] = u] /\ usage' = [usage EXCEPT ![a] = read]
    BY <1>3
  <2> PICK read \in Readings(u) :
          bill' = [bill EXCEPT ![a] = u] /\ usage' = [usage EXCEPT ![a] = read]
    BY <2>1
  <2>2. /\ bill' \in [Attempts -> Usages \cup {None}] /\ bill'[a] = u
        /\ \A b \in Attempts \ {a} : bill'[b] = bill[b]
    BY <2>1 DEF SpendInv, TypeInv, TypeOK
  <2>3. read \in Counted
    BY DEF Counted
  <2>4. /\ usage' \in [Attempts -> Counted \cup {None}] /\ usage'[a] = read
        /\ \A b \in Attempts \ {a} : usage'[b] = usage[b]
    BY <2>1, <2>3 DEF SpendInv, TypeInv, TypeOK
  <2>5. /\ srv' \in [Attempts -> {"unsent", "filter", "provider", "observe", "replied", "gone"}]
        /\ srv'[a] = "observe" /\ \A b \in Attempts \ {a} : srv'[b] = srv[b]
    BY <1>3 DEF SpendInv, TypeInv, TypeOK
  <2>6. StageOf(a)'
    BY <1>1, <1>2, <2>2, <2>4, <2>5 DEF StageOf
  <2>7. QED
    BY <1>1, <2>2, <2>4, <2>5, <2>6, ServerFrame DEF SpendInv, TypeInv, TypeOK
<1>4. CASE srv' = [srv EXCEPT ![a] = "replied"] /\ UNCHANGED <<bill, usage>>
  <2>1. /\ srv' \in [Attempts -> {"unsent", "filter", "provider", "observe", "replied", "gone"}]
        /\ srv'[a] = "replied" /\ \A b \in Attempts \ {a} : srv'[b] = srv[b]
    BY <1>4 DEF SpendInv, TypeInv, TypeOK
  <2>2. StageOf(a)'
    BY <1>1, <1>2, <1>4, <2>1 DEF StageOf
  <2>3. QED
    BY <1>1, <1>4, <2>1, <2>2, ServerFrame DEF SpendInv, TypeInv, TypeOK
<1>5. QED
  BY <1>3, <1>4 DEF complete, Replied

\* A charge whose response is lost is in lost.
LEMMA LostKeeps ==
  ASSUME SpendInv, NEW a \in Attempts, ResponseLost(a)
  PROVE  SpendInv'
<1>1. /\ srv[a] = "provider" /\ UNCHANGED <<clientVars, bucket, usage, log>>
      /\ lost' = lost \cup {a} /\ srv' = [srv EXCEPT ![a] = "replied"]
      /\ \E u \in Usages : bill' = [bill EXCEPT ![a] = u]
  BY DEF ResponseLost, Replied
<1>2. log[a] = None /\ model' = model
  BY <1>1 DEF SpendInv, StageInv, StageOf, clientVars
<1>3. faults' \in 0 .. MaxFaults
  BY SpendAssumption DEF ResponseLost, SpendInv, TypeInv, TypeOK
<1>4. /\ bill' \in [Attempts -> Usages \cup {None}]
      /\ \A b \in Attempts \ {a} : bill'[b] = bill[b]
  BY <1>1 DEF SpendInv, TypeInv, TypeOK
<1>5. /\ srv' \in [Attempts -> {"unsent", "filter", "provider", "observe", "replied", "gone"}]
      /\ srv'[a] = "replied" /\ \A b \in Attempts \ {a} : srv'[b] = srv[b]
  BY <1>1 DEF SpendInv, TypeInv, TypeOK
<1>6. lost \subseteq lost' /\ lost' \subseteq Attempts /\ a \in lost'
  BY <1>1 DEF SpendInv, TypeInv, TypeOK
<1>7. StageOf(a)'
  BY <1>1, <1>2, <1>5, <1>6 DEF StageOf
<1>8. QED
  BY <1>1, <1>3, <1>4, <1>5, <1>6, <1>7, ServerFrame DEF SpendInv, TypeInv, TypeOK

\* The line of a charge is written: the price check of before holds still, so observe
\* cannot fail on the model.
LEMMA ObserveKeeps ==
  ASSUME SpendInv, NEW a \in Attempts, NEW fits \in BOOLEAN, observe(a, fits)
  PROVE  SpendInv'
<1> DEFINE line == [tenant |-> tenantOf(TokenOf[a[1]]), e5 |-> costUsdE5(model[a[1]], usage[a])]
<1>1. srv[a] = "observe" /\ UNCHANGED <<clientVars, bucket, bill, usage, lost, faults>>
  BY DEF observe
<1>2. /\ log[a] = None /\ model' = model /\ model[a[1]] \in DOMAIN RATES /\ bill[a] \in Usages
      /\ usage[a] \in Readings(bill[a])
  BY <1>1 DEF SpendInv, StageInv, StageOf, clientVars
<1>3. srv' = [srv EXCEPT ![a] = "replied"] /\ log' = [log EXCEPT ![a] = line]
  BY <1>2 DEF observe, Replied
<1>4. line \in Lines /\ line # None
  BY <1>2, CallOf, LineType
<1>5. line.e5 = costUsdE5(model[a[1]], usage[a])
  OBVIOUS
<1> HIDE DEF line
<1>6. /\ log' \in [Attempts -> Lines \cup {None}] /\ log'[a] = line
      /\ \A b \in Attempts \ {a} : log'[b] = log[b]
  BY <1>3, <1>4 DEF SpendInv, TypeInv
<1>7. /\ srv' \in [Attempts -> {"unsent", "filter", "provider", "observe", "replied", "gone"}]
      /\ srv'[a] = "replied" /\ \A b \in Attempts \ {a} : srv'[b] = srv[b]
  BY <1>3 DEF SpendInv, TypeInv, TypeOK
<1>8. StageOf(a)'
  BY <1>1, <1>2, <1>4, <1>5, <1>6, <1>7 DEF StageOf
<1>9. QED
  BY <1>1, <1>6, <1>7, <1>8, ServerFrame DEF SpendInv, TypeInv, TypeOK

\* A restart loses the charges that were about to be logged, and says so in lost.
LEMMA RestartKeeps ==
  ASSUME SpendInv, Restart
  PROVE  SpendInv'
<1>1. /\ srv' = [a \in Attempts |-> IF srv[a] = "unsent" THEN "unsent" ELSE "gone"]
      /\ lost' = lost \cup {a \in Attempts : srv[a] = "observe"}
      /\ bucket' = [s \in DOMAIN bucket |-> Capacity]
      /\ UNCHANGED <<model, pc, try, answer, echoed, cents, bill, usage, log>>
  BY DEF Restart, clientVars
<1>2. faults' \in 0 .. MaxFaults
  BY SpendAssumption DEF Restart, SpendInv, TypeInv, TypeOK
<1>3. TypeInv'
  <2>1. srv' \in [Attempts -> {"unsent", "filter", "provider", "observe", "replied", "gone"}]
    BY <1>1
  <2>2. \A s \in DOMAIN bucket' : bucket'[s] \in 0 .. Capacity
    BY <1>1, SpendAssumption
  <2>3. lost' \subseteq Attempts
    BY <1>1 DEF SpendInv, TypeInv, TypeOK
  <2>4. QED
    BY <1>1, <1>2, <2>1, <2>2, <2>3 DEF SpendInv, TypeInv, TypeOK
<1>4. SentInv'
  <2> SUFFICES ASSUME NEW c \in Calls, NEW n \in 1 .. MaxRetries,
                      n > try[c] \/ (n = try[c] /\ pc[c] = "ready")
               PROVE  srv'[<<c, n>>] = "unsent"
    BY <1>1 DEF SentInv
  <2>1. srv[<<c, n>>] = "unsent" /\ <<c, n>> \in Attempts
    BY DEF SpendInv, SentInv, Attempts
  <2>2. QED
    BY <1>1, <2>1
<1>5. StageInv'
  <2> SUFFICES ASSUME NEW a \in Attempts PROVE StageOf(a)'
    BY DEF StageInv
  <2>1. StageOf(a) /\ srv'[a] \in {"unsent", "gone"} /\ (srv'[a] = "unsent" => srv[a] = "unsent")
    BY <1>1 DEF SpendInv, StageInv
  <2>2. (a \in lost \/ srv[a] = "observe") => a \in lost'
    BY <1>1
  <2>3. QED
    BY <1>1, <2>1, <2>2 DEF StageOf
<1>6. QED
  BY <1>3, <1>4, <1>5 DEF SpendInv

-----------------------------------------------------------------------------
(* The results                                                               *)

\* Every step keeps the invariant.
LEMMA SpendStep == SpendInv /\ [Next]_vars => SpendInv'
<1> SUFFICES ASSUME SpendInv, [Next]_vars PROVE SpendInv'
  OBVIOUS
<1>1. CASE \E c \in Calls : ClientStep(c) \/ \E d \in Calls : CrossedResponse(c, d)
  BY <1>1, ClientKeeps, CrossedKeeps
<1>2. CASE \E a \in Attempts : ServerStep(a) \/ ResponseLost(a)
  BY <1>2, FilterKeeps, CompleteKeeps, ObserveKeeps, LostKeeps DEF ServerStep
<1>3. CASE \E s \in DOMAIN bucket : Refill(s)
  <2>1. /\ UNCHANGED <<model, pc, try, answer, echoed, cents, srv, bill, usage, log, lost, faults>>
        /\ \E s \in DOMAIN bucket : bucket' = [bucket EXCEPT ![s] = Capacity]
    BY <1>3 DEF Refill, clientVars
  <2>2. \A s \in DOMAIN bucket' : bucket'[s] \in 0 .. Capacity
    BY <2>1, SpendAssumption DEF SpendInv, TypeInv, TypeOK
  <2>3. QED
    BY <2>1, <2>2 DEF SpendInv, TypeInv, TypeOK, SentInv, StageInv, StageOf
<1>4. CASE UNCHANGED vars
  <2>1. UNCHANGED <<model, pc, try, answer, echoed, cents, srv, bucket, bill, usage, log, lost, faults>>
    BY <1>4 DEF vars, clientVars, serverVars
  <2>2. QED
    BY <2>1 DEF SpendInv, TypeInv, TypeOK, SentInv, StageInv, StageOf
<1>5. QED
  BY <1>1, <1>2, <1>3, <1>4, RestartKeeps DEF Next

\* The invariant that the results below rest on.
THEOREM SpendInvariant == Spec => []SpendInv
<1>1. QED
  BY SpendInit, SpendStep, PTL DEF Spec

\* The state of clients and proxy keeps its types: no call tries more often than
\* proxy_max_retries allows, and no bucket runs below zero or over its capacity.
THEOREM SpendTypeCorrect == Spec => []TypeOK
<1>1. SpendInv => TypeOK
  BY DEF SpendInv, TypeInv
<1>2. QED
  BY <1>1, SpendInvariant, PTL

\* Whatever the provider charged is in the cost log, on its way there, or was lost to a
\* fault between provider and proxy, for any number of clients that time out and retry.
THEOREM EveryChargeAccounted == Spec => []AccountedFor
<1>1. SpendInv => AccountedFor
  BY DEF SpendInv, StageInv, StageOf, AccountedFor, Billed, Logged
<1>2. QED
  BY <1>1, SpendInvariant, PTL

\* Every cost line is within half a unit of 1e-5 USD of the price of the token counts that
\* the provider's response named, and those come to no more than what it charged.
LinesAccurate ==
  \A a \in Logged :
    LET m == model[a[1]] IN
    /\ bill[a] \in Usages /\ usage[a] \in Readings(bill[a])
    /\ 10 * log[a].e5 - Exact(m, usage[a]) \in -5 .. 5
    /\ Exact(m, usage[a]) \in Nat /\ Exact(m, bill[a]) \in Nat
    /\ Exact(m, usage[a]) <= Exact(m, bill[a])

\* It is so for all prices, token counts and usage blocks, which bounds what LogAddsUp sums
\* up: observe rounds once, and no charge is overwritten after its line was written.
THEOREM LinesWithinHalf == Spec => []LinesAccurate
<1>1. SpendInv => LinesAccurate
  <2> SUFFICES ASSUME SpendInv, NEW a \in Attempts, log[a] # None
               PROVE  /\ bill[a] \in Usages /\ usage[a] \in Readings(bill[a])
                      /\ 10 * log[a].e5 - Exact(model[a[1]], usage[a]) \in -5 .. 5
                      /\ Exact(model[a[1]], usage[a]) \in Nat /\ Exact(model[a[1]], bill[a]) \in Nat
                      /\ Exact(model[a[1]], usage[a]) <= Exact(model[a[1]], bill[a])
    BY DEF LinesAccurate, Logged
  <2>1. /\ bill[a] \in Usages /\ usage[a] \in Readings(bill[a])
        /\ model[a[1]] \in DOMAIN RATES
        /\ log[a].e5 = costUsdE5(model[a[1]], usage[a])
    BY DEF SpendInv, StageInv, StageOf
  <2>2. /\ Exact(model[a[1]], usage[a]) \in Nat /\ Exact(model[a[1]], bill[a]) \in Nat
        /\ Exact(model[a[1]], usage[a]) <= Exact(model[a[1]], bill[a])
    BY <2>1, ReadingType, ExactNat
  <2>3. QED
    BY <2>1, <2>2, HalfUpNear DEF costUsdE5
<1>2. QED
  BY <1>1, SpendInvariant, PTL

\* Only a response that passed the check of the id it names becomes an estimate.
LEMMA TraceReceive ==
  ASSUME SpendInv, OwnTrace, NEW c \in Calls, NEW a \in Attempts, Receive(c, a)
  PROVE  OwnTrace'
<1> SUFFICES ASSUME NEW e \in Estimates, answer'[e] # None, echoed'[e]
             PROVE  CorrOf[answer'[e][1]] = CorrOf[e]
  BY DEF OwnTrace
<1>1. /\ e \in Calls /\ e \notin Chats /\ answer \in [Calls -> Attempts \cup {None}]
      /\ echoed \in [Estimates -> BOOLEAN]
  BY SpendAssumption DEF Calls, SpendInv, TypeInv, TypeOK
<1>2. CASE UNCHANGED <<answer, echoed>>
  BY <1>2 DEF OwnTrace
<1>3. CASE c \in Chats /\ answer' = [answer EXCEPT ![c] = a] /\ UNCHANGED echoed
  <2>1. answer'[e] = answer[e]
    BY <1>1, <1>3
  <2>2. QED
    BY <1>3, <2>1 DEF OwnTrace
<1>4. ASSUME NEW named \in BOOLEAN, c \in Estimates, _read_completion(c, a, named),
             answer' = [answer EXCEPT ![c] = a], echoed' = [echoed EXCEPT ![c] = named]
      PROVE  CorrOf[answer'[e][1]] = CorrOf[e]
  <2>1. CASE e = c
    <3>1. answer'[e] = a /\ echoed'[e] = named
      BY <1>1, <1>4, <2>1
    <3>2. QED
      BY <1>4, <2>1, <3>1 DEF _read_completion
  <2>2. CASE e # c
    <3>1. answer'[e] = answer[e] /\ echoed'[e] = echoed[e]
      BY <1>1, <1>4, <2>2
    <3>2. QED
      BY <3>1 DEF OwnTrace
  <2>3. QED
    BY <2>1, <2>2
<1>5. QED
  BY <1>2, <1>3, <1>4 DEF Receive, Raised

\* No other step answers a call.
LEMMA TraceStep == SpendInv /\ OwnTrace /\ [Next]_vars => OwnTrace'
<1> SUFFICES ASSUME SpendInv, OwnTrace, [Next]_vars PROVE OwnTrace'
  OBVIOUS
<1>1. ASSUME NEW c \in Calls, OwnResponse(c) PROVE OwnTrace'
  BY <1>1, CurrentType, TraceReceive DEF OwnResponse, SpendInv
<1>2. ASSUME NEW c \in Calls, NEW d \in Calls, CrossedResponse(c, d) PROVE OwnTrace'
  BY <1>2, CurrentType, TraceReceive DEF CrossedResponse, SpendInv
<1>3. ASSUME NEW c \in Calls, _post(c) \/ TransportError(c) \/ Backoff(c) PROVE OwnTrace'
  <2>1. UNCHANGED <<answer, echoed>>
    BY <1>3 DEF _post, TransportError, Backoff, Raised
  <2>2. QED
    BY <2>1 DEF OwnTrace
<1>4. ASSUME NEW a \in Attempts, ServerStep(a) \/ ResponseLost(a) PROVE OwnTrace'
  <2>1. UNCHANGED <<answer, echoed>>
    BY <1>4 DEF ServerStep, RateLimitFilter, complete, observe, ResponseLost, clientVars
  <2>2. QED
    BY <2>1 DEF OwnTrace
<1>5. CASE (\E s \in DOMAIN bucket : Refill(s)) \/ Restart \/ UNCHANGED vars
  <2>1. UNCHANGED <<answer, echoed>>
    BY <1>5 DEF Refill, Restart, vars, clientVars
  <2>2. QED
    BY <2>1 DEF OwnTrace
<1>6. QED
  BY <1>1, <1>2, <1>3, <1>4, <1>5 DEF Next, ClientStep

\* An estimate whose response named a correlation id never rests on a completion of another
\* trace, whoever mixes responses up.
THEOREM EstimateKeepsTrace == Spec => []OwnTrace
<1>1. Init => OwnTrace
  BY DEF Init, OwnTrace, Calls
<1>2. QED
  BY <1>1, TraceStep, SpendInvariant, PTL DEF Spec

-----------------------------------------------------------------------------
(* The sum of the log                                                        *)

\* Induction over the natural numbers, for a set: a least element outside of it has a
\* predecessor inside.
LEMMA NatSetInduction ==
  ASSUME NEW G, 0 \in G, \A n \in Nat : n \in G => n + 1 \in G
  PROVE  Nat \subseteq G
<1> DEFINE R == OpToRel(<, Nat)
           B == {n \in Nat : n \notin G}
<1>1. IsWellFoundedOn(R, Nat)
  BY NatLessThanWellFounded
<1>2. SUFFICES ASSUME B # {} PROVE FALSE
  OBVIOUS
<1>3. PICK n \in B : \A m \in B : ~(<<m, n>> \in R)
  <2> HIDE DEF R
  <2>1. QED
    BY <1>1, <1>2, WFMin
<1>4. n \in Nat /\ n # 0 /\ n \notin G
  OBVIOUS
<1>5. n - 1 \in Nat /\ n - 1 < n /\ (n - 1) + 1 = n
  BY <1>4
<1>6. <<n - 1, n>> \in R
  BY <1>4, <1>5 DEF OpToRel
<1>7. n - 1 \in G
  BY <1>3, <1>5, <1>6
<1>8. QED
  BY <1>4, <1>5, <1>7

\* The element MapThenSumSet takes out of a set next, and what it leaves.
Any(T) == CHOOSE x \in T : TRUE
Others(T) == T \ {Any(T)}

\* Its recursion, and the functions that satisfy it on the subsets of up to n elements.
Plus(f, g, T) == IF T = {} THEN 0 ELSE f[Any(T)] + g[Others(T)]
Level(S, n) == {T \in SUBSET S : Cardinality(T) <= n}
SumsTo(f, S, n) == {g \in [Level(S, n) -> Int] : \A T \in Level(S, n) : g[T] = Plus(f, g, T)}

\* What is left is one smaller.
LEMMA OthersSmaller ==
  ASSUME NEW S, IsFiniteSet(S), NEW n \in Nat, NEW T \in Level(S, n + 1), T # {}
  PROVE  Others(T) \in Level(S, n) /\ Any(T) \in T
<1>1. Any(T) \in T
  BY DEF Any
<1>2. T \in SUBSET S /\ Cardinality(T) <= n + 1 /\ IsFiniteSet(T)
  BY FS_Subset DEF Level
<1>3. Cardinality(Others(T)) = Cardinality(T) - 1 /\ Cardinality(T) \in Nat
  BY <1>1, <1>2, FS_RemoveElement, FS_CardinalityType DEF Others
<1>4. QED
  BY <1>1, <1>2, <1>3 DEF Level, Others

\* There is such a function, level by level.
LEMMA SumExists ==
  ASSUME NEW S, IsFiniteSet(S), NEW f, \A x \in S : f[x] \in Int, NEW n \in Nat
  PROVE  SumsTo(f, S, n) # {}
<1> DEFINE G == {m \in Nat : SumsTo(f, S, m) # {}}
<1>1. 0 \in G
  <2> DEFINE g == [T \in Level(S, 0) |-> 0]
  <2>1. \A T \in Level(S, 0) : T = {}
    BY FS_Subset, FS_EmptySet, FS_CardinalityType DEF Level
  <2>2. g \in SumsTo(f, S, 0)
    BY <2>1 DEF SumsTo, Plus
  <2>3. QED
    BY <2>2
<1>2. ASSUME NEW m \in Nat, m \in G PROVE m + 1 \in G
  <2>1. PICK g \in SumsTo(f, S, m) : TRUE
    BY <1>2
  <2> DEFINE h == [T \in Level(S, m + 1) |-> Plus(f, g, T)]
  <2>2. ASSUME NEW T \in Level(S, m + 1) PROVE h[T] \in Int /\ h[T] = Plus(f, h, T)
    <3>1. CASE T = {}
      BY <3>1 DEF Plus
    <3>2. CASE T # {}
      <4>1. Others(T) \in Level(S, m) /\ Any(T) \in T /\ T \in SUBSET S
        BY <3>2, OthersSmaller DEF Level
      <4>2. Others(T) \in Level(S, m + 1)
        BY <4>1, FS_Subset, FS_CardinalityType DEF Level
      <4>3. h[Others(T)] = g[Others(T)] /\ g[Others(T)] \in Int
        BY <4>1, <4>2 DEF SumsTo
      <4>4. h[T] = f[Any(T)] + g[Others(T)] /\ f[Any(T)] \in Int
        BY <3>2, <4>1 DEF Plus
      <4>5. QED
        BY <3>2, <4>3, <4>4 DEF Plus
    <3>3. QED
      BY <3>1, <3>2
  <2>3. h \in SumsTo(f, S, m + 1)
    <3> HIDE DEF h
    <3>1. h \in [Level(S, m + 1) -> Int]
      BY <2>2 DEF h
    <3>2. QED
      BY <2>2, <3>1 DEF SumsTo
  <2>4. QED
    BY <2>3
<1> HIDE DEF G
<1>3. Nat \subseteq G
  BY <1>1, <1>2, NatSetInduction
<1>4. QED
  BY <1>3 DEF G

\* So the sum satisfies its recursion.
LEMMA SumOfPlus ==
  ASSUME NEW S, IsFiniteSet(S), NEW f, \A x \in S : f[x] \in Int
  PROVE  \E g : /\ SumOf(f, S) = g[S]
                /\ \A T \in SUBSET S : g[T] = Plus(f, g, T)
<1> DEFINE n == Cardinality(S)
           Body(it) == [s \in SUBSET S |->
                          IF s = {} THEN 0
                          ELSE f[CHOOSE x \in s : TRUE] + it[s \ {CHOOSE x \in s : TRUE}]]
           iter == CHOOSE it : it = Body(it)
<1>1. n \in Nat /\ Level(S, n) = SUBSET S
  BY FS_Subset, FS_CardinalityType DEF Level
<1>2. PICK g \in SumsTo(f, S, n) : TRUE
  BY <1>1, SumExists
<1>3. g \in [SUBSET S -> Int] /\ g = [s \in SUBSET S |-> Plus(f, g, s)]
  BY <1>1, <1>2 DEF SumsTo
<1>4. g = Body(g)
  BY <1>3, Zenon DEF Plus, Any, Others
<1> HIDE DEF Body
<1>5. iter = Body(iter)
  BY <1>4, Zenon
<1> USE DEF Body
<1>6. SumOf(f, S) = iter[S]
  BY DEF SumOf, MapThenSumSet, MapThenFoldSet
<1> HIDE DEF iter
<1>7. iter = [s \in SUBSET S |-> Plus(f, iter, s)]
  BY <1>5, Zenon DEF Plus, Any, Others
<1>8. \A T \in SUBSET S : iter[T] = Plus(f, iter, T)
  BY <1>7, Zenon
<1>9. QED
  BY <1>6, <1>8

\* A sum of terms of at most five, and of at least minus five.
LEMMA SumWithin ==
  ASSUME NEW S, IsFiniteSet(S), NEW f, \A x \in S : f[x] \in Int, \A x \in S : f[x] <= 5
  PROVE  /\ SumOf(f, S) <= 5 * Cardinality(S)
         /\ (\A x \in S : -5 <= f[x]) =>
              SumOf(f, S) \in -(5 * Cardinality(S)) .. 5 * Cardinality(S)
<1>1. PICK g : SumOf(f, S) = g[S] /\ \A T \in SUBSET S : g[T] = Plus(f, g, T)
  BY SumOfPlus
<1> DEFINE Near(T) == /\ g[T] \in Int /\ g[T] <= 5 * Cardinality(T)
                      /\ (\A x \in S : -5 <= f[x]) => -(5 * Cardinality(T)) <= g[T]
           G == {n \in Nat : \A T \in Level(S, n) : Near(T)}
<1>2. 0 \in G
  <2>1. \A T \in Level(S, 0) : T = {}
    BY FS_Subset, FS_EmptySet, FS_CardinalityType DEF Level
  <2>2. g[{}] = 0 /\ Cardinality({}) = 0
    BY <1>1, FS_EmptySet DEF Plus
  <2>3. Near({})
    BY <2>2
  <2>4. QED
    BY <2>1, <2>3
<1>3. ASSUME NEW n \in Nat, n \in G PROVE n + 1 \in G
  <2>1. ASSUME NEW T \in Level(S, n + 1) PROVE Near(T)
    <3>1. CASE T = {}
      <4>1. g[T] = 0 /\ Cardinality(T) = 0
        BY <1>1, <3>1, FS_EmptySet DEF Plus
      <4>2. QED
        BY <4>1
    <3>2. CASE T # {}
      <4>1. Others(T) \in Level(S, n) /\ Any(T) \in T /\ T \in SUBSET S
        BY <3>2, OthersSmaller DEF Level
      <4>2. /\ Cardinality(Others(T)) = Cardinality(T) - 1 /\ Cardinality(T) \in Nat
        BY <4>1, FS_Subset, FS_RemoveElement, FS_CardinalityType DEF Others
      <4>3. /\ Near(Others(T)) /\ f[Any(T)] \in Int /\ f[Any(T)] <= 5
            /\ (\A x \in S : -5 <= f[x]) => -5 <= f[Any(T)]
            /\ g[T] = f[Any(T)] + g[Others(T)]
        BY <1>1, <1>3, <3>2, <4>1 DEF Plus
      <4>4. QED
        BY <4>2, <4>3
    <3>3. QED
      BY <3>1, <3>2
  <2>2. QED
    BY <2>1
<1> HIDE DEF G
<1>4. Nat \subseteq G
  BY <1>2, <1>3, NatSetInduction
<1>5. S \in Level(S, Cardinality(S)) /\ Cardinality(S) \in Nat
  BY FS_CardinalityType DEF Level
<1>6. QED
  BY <1>1, <1>4, <1>5 DEF G

\* observe writes one line, no other step writes any.
LEMMA OneLine ==
  ASSUME SpendInv, [Next]_vars
  PROVE  log' = log \/ \E a \in Attempts : \E line : log' = [log EXCEPT ![a] = line]
<1>1. ASSUME NEW c \in Calls, NEW d \in Calls, ClientStep(c) \/ CrossedResponse(c, d)
      PROVE  log' = log
  BY <1>1 DEF ClientStep, CrossedResponse, OwnResponse, Receive, _post, TransportError, Backoff,
              serverVars
<1>2. ASSUME NEW a \in Attempts, ServerStep(a) \/ ResponseLost(a)
      PROVE  log' = log \/ \E line : log' = [log EXCEPT ![a] = line]
  BY <1>2 DEF ServerStep, ResponseLost, RateLimitFilter, complete, observe
<1>3. CASE (\E s \in DOMAIN bucket : Refill(s)) \/ Restart \/ UNCHANGED vars
  BY <1>3 DEF Refill, Restart, vars, serverVars
<1>4. QED
  BY <1>1, <1>2, <1>3 DEF Next

\* However many calls there may be, finitely many have been logged.
FinitelyLogged == IsFiniteSet(Logged)

LEMMA FiniteLog == Spec => []FinitelyLogged
<1>1. Init => FinitelyLogged
  <2>1. Init => Logged = {}
    BY DEF Init, Logged
  <2>2. QED
    BY <2>1, FS_EmptySet DEF FinitelyLogged
<1>2. SpendInv /\ FinitelyLogged /\ [Next]_vars => FinitelyLogged'
  <2> SUFFICES ASSUME SpendInv, IsFiniteSet(Logged), [Next]_vars PROVE IsFiniteSet(Logged')
    BY DEF FinitelyLogged
  <2>1. log \in [Attempts -> Lines \cup {None}]
    BY DEF SpendInv, TypeInv
  <2>2. CASE log' = log
    BY <2>2 DEF Logged
  <2>3. ASSUME NEW a \in Attempts, NEW line, log' = [log EXCEPT ![a] = line]
        PROVE  IsFiniteSet(Logged')
    <3>1. Logged' \subseteq Logged \cup {a}
      BY <2>1, <2>3 DEF Logged
    <3>2. IsFiniteSet(Logged \cup {a})
      BY FS_AddElement
    <3>3. QED
      BY <3>1, <3>2, FS_Subset
  <2>4. QED
    BY <2>2, <2>3, OneLine
<1>3. QED
  BY <1>1, <1>2, SpendInvariant, PTL DEF Spec

\* Over any number of calls, whatever their models and token counts, the cost log is off from
\* the provider's invoice by at most half a unit per line that rests on a full usage block:
\* observe's errors do not pile up beyond that. The lines whose counts defaulted to 0 never
\* make the log claim more.
THEOREM SumWithinHalf == Spec => []LogAddsUp
<1>1. SpendInv /\ LinesAccurate /\ FinitelyLogged => LogAddsUp
  <2> SUFFICES ASSUME SpendInv, LinesAccurate, IsFiniteSet(Logged), IsFiniteSet(ReportedInFull)
               PROVE  LogAddsUp
    BY FS_Subset DEF FinitelyLogged, ReportedInFull
  <2>1. ASSUME NEW a \in Logged
        PROVE  /\ Off[a] \in Int /\ Off[a] <= 5
               /\ usage[a] = bill[a] => -5 <= Off[a]
    <3> DEFINE read == Exact(model[a[1]], usage[a])
               charged == Exact(model[a[1]], bill[a])
               line == 10 * log[a].e5
    <3>1. /\ line - read \in -5 .. 5 /\ read \in Nat /\ charged \in Nat /\ read <= charged
          /\ usage[a] = bill[a] => read = charged
      BY DEF LinesAccurate
    <3>2. line \in Int
      BY DEF SpendInv, TypeInv, Lines, Logged
    <3>3. Off[a] = line - charged
      BY DEF Off
    <3> HIDE DEF read, charged, line
    <3>4. QED
      BY <3>1, <3>2, <3>3
  <2>2. SumOf(Off, Logged) <= 5 * Cardinality(Logged)
    BY <2>1, SumWithin
  <2>3. \A a \in ReportedInFull : Off[a] \in Int /\ Off[a] <= 5 /\ -5 <= Off[a]
    BY <2>1 DEF ReportedInFull
  <2> HIDE DEF Off
  <2>4. SumOf(Off, ReportedInFull)
          \in -(5 * Cardinality(ReportedInFull)) .. 5 * Cardinality(ReportedInFull)
    BY <2>3, SumWithin
  <2>5. QED
    BY <2>2, <2>4 DEF LogAddsUp, Adding
<1>2. QED
  BY <1>1, SpendInvariant, LinesWithinHalf, FiniteLog, PTL
=============================================================================
