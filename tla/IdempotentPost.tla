-------------------------- MODULE IdempotentPost --------------------------
(***************************************************************************)
(* IdempotencyService.handle, as TaxpayerController.summary calls it:      *)
(* several requests, on several replicas, with keys that may be equal,     *)
(* around one Redis. Every Redis command is a step of its own, and may     *)
(* fail with or without its effect.                                        *)
(***************************************************************************)
EXTENDS Naturals, FiniteSets

CONSTANTS
  Posts,      \* POST /{id}/summary requests
  PostKeys,   \* Idempotency-Key values
  KeyOf,      \* [Posts -> PostKeys \cup {Malformed}]
  Malformed,  \* a header value that is no UUID
  MaxExpiries \* bound on the number of entries whose 24h pass

ASSUME IdempotencyAssumption ==
  /\ KeyOf \in [Posts -> PostKeys \cup {Malformed}]
  /\ Malformed \notin PostKeys
  /\ MaxExpiries \in Nat

VARIABLES
  redis,     \* value under idem:taxpayers.summary:<key>
  pc,        \* where each request stands in handle
  sawBody,   \* the request read a cached body that does not parse as an object
  reply,     \* what the request was answered
  ran,       \* history: requests whose doWork ran
  released,  \* history: keys whose entry was deleted or expired
  expiries   \* entries expired so far

postVars == <<redis, pc, sawBody, reply, ran, released, expiries>>

Absent == [kind |-> "absent"]
InFlight == [kind |-> "in flight"]
\* The serialised body of the request that computed it. handle takes a body of
\* any type T: one that is no JSON object is stored but not read back as a Map.
Body(r, form) == [kind |-> "body", by |-> r, form |-> form]
Bodies == {Body(r, form) : r \in Posts, form \in {"object", "other"}}

NoReply == [status |-> 0]
Ok(r) == [status |-> 200, by |-> r]
BadRequest == [status |-> 400]
Conflict == [status |-> 409]
ServerError == [status |-> 500]
Replies == {NoReply, BadRequest, Conflict, ServerError} \cup {Ok(r) : r \in Posts}

TypeOK ==
  /\ redis \in [PostKeys -> {Absent, InFlight} \cup Bodies]
  /\ pc \in [Posts -> {"start", "missed", "acquired", "worked", "storeFailed", "done", "crashed"}]
  /\ sawBody \in [Posts -> BOOLEAN]
  /\ reply \in [Posts -> Replies]
  /\ ran \in SUBSET Posts
  /\ released \in SUBSET PostKeys
  /\ expiries \in Nat

PostInit ==
  /\ redis = [k \in PostKeys |-> Absent]
  /\ pc = [r \in Posts |-> "start"]
  /\ sawBody = [r \in Posts |-> FALSE]
  /\ reply = [r \in Posts |-> NoReply]
  /\ ran = {}
  /\ released = {}
  /\ expiries = 0

-----------------------------------------------------------------------------
Answer(r, a) ==
  /\ pc' = [pc EXCEPT ![r] = "done"]
  /\ reply' = [reply EXCEPT ![r] = a]

GoTo(r, label) ==
  /\ pc' = [pc EXCEPT ![r] = label]
  /\ UNCHANGED reply

\* summary: a key that is no UUID is refused before Redis is touched.
Refuse(r) ==
  /\ pc[r] = "start"
  /\ KeyOf[r] = Malformed
  /\ Answer(r, BadRequest)
  /\ UNCHANGED <<redis, sawBody, ran, released, expiries>>

\* GET: a readable body is the answer; nothing, the sentinel and a body that
\* does not parse all fall through to the SETNX.
Get(r) ==
  /\ pc[r] = "start"
  /\ KeyOf[r] \in PostKeys
  /\ LET existing == redis[KeyOf[r]]
     IN  IF existing \in Bodies /\ existing.form = "object"
         THEN Answer(r, Ok(existing.by)) /\ UNCHANGED sawBody
         ELSE /\ GoTo(r, "missed")
              /\ sawBody' = [sawBody EXCEPT ![r] = existing \in Bodies]
  /\ UNCHANGED <<redis, ran, released, expiries>>

\* Mutant of SetIfAbsent: its answer is not looked at.
SetIfAbsent_Unchecked(r) ==
  /\ pc[r] = "missed"
  /\ redis' = [redis EXCEPT ![KeyOf[r]] = IF @ = Absent THEN InFlight ELSE @]
  /\ GoTo(r, "acquired")
  /\ UNCHANGED <<sawBody, ran, released, expiries>>

\* Mutant of SetIfAbsent: the loser of the race works too and answers with that.
SetIfAbsent_LoserAnswers(r) ==
  /\ pc[r] = "missed"
  /\ IF redis[KeyOf[r]] = Absent
     THEN /\ redis' = [redis EXCEPT ![KeyOf[r]] = InFlight]
          /\ GoTo(r, "acquired")
     ELSE /\ Answer(r, Ok(r))
          /\ UNCHANGED redis
  /\ UNCHANGED <<sawBody, ran, released, expiries>>

\* SETNX of the sentinel; whatever is there already means 409.
SetIfAbsent(r) ==
  /\ pc[r] = "missed"
  /\ IF redis[KeyOf[r]] = Absent
     THEN /\ redis' = [redis EXCEPT ![KeyOf[r]] = InFlight]
          /\ GoTo(r, "acquired")
     ELSE /\ Answer(r, Conflict)
          /\ UNCHANGED redis
  /\ UNCHANGED <<sawBody, ran, released, expiries>>

\* The GET or the SETNX throws: nothing in handle catches it. The sentinel may
\* have been set all the same.
RedisFails(r) ==
  /\ pc[r] \in {"start", "missed"}
  /\ KeyOf[r] \in PostKeys
  /\ \/ UNCHANGED redis
     \/ /\ pc[r] = "missed" /\ redis[KeyOf[r]] = Absent
        /\ redis' = [redis EXCEPT ![KeyOf[r]] = InFlight]
  /\ Answer(r, ServerError)
  /\ UNCHANGED <<sawBody, ran, released, expiries>>

\* doWork.get() returns, or throws: then the sentinel is left to its 24h.
DoWork(r) ==
  /\ pc[r] = "acquired"
  /\ ran' = ran \cup {r}
  /\ GoTo(r, "worked") \/ Answer(r, ServerError)
  /\ UNCHANGED <<redis, sawBody, released, expiries>>

\* The body is serialised and stored. Either may fail, a SET also when Redis has
\* carried it out.
Store(r) ==
  /\ pc[r] = "worked"
  /\ \/ /\ \E form \in {"object", "other"} :
             redis' = [redis EXCEPT ![KeyOf[r]] = Body(r, form)]
        /\ Answer(r, Ok(r)) \/ GoTo(r, "storeFailed")
     \/ /\ GoTo(r, "storeFailed")
        /\ UNCHANGED redis
  /\ UNCHANGED <<sawBody, ran, released, expiries>>

\* The catch block deletes the entry and the caller still gets its result; if
\* the DEL throws too, done or not, the exception is the answer.
Forget(r) ==
  /\ pc[r] = "storeFailed"
  /\ \/ /\ redis' = [redis EXCEPT ![KeyOf[r]] = Absent]
        /\ released' = released \cup {KeyOf[r]}
        /\ \E a \in {Ok(r), ServerError} : Answer(r, a)
     \/ /\ Answer(r, ServerError)
        /\ UNCHANGED <<redis, released>>
  /\ UNCHANGED <<sawBody, ran, expiries>>

\* The replica dies under the request.
Crash(r) ==
  /\ pc[r] \in {"missed", "acquired", "worked", "storeFailed"}
  /\ GoTo(r, "crashed")
  /\ UNCHANGED <<redis, sawBody, ran, released, expiries>>

\* The entry's 24h are over.
Expire(k) ==
  /\ expiries < MaxExpiries
  /\ redis[k] # Absent
  /\ redis' = [redis EXCEPT ![k] = Absent]
  /\ released' = released \cup {k}
  /\ expiries' = expiries + 1
  /\ UNCHANGED <<pc, sawBody, reply, ran>>

Handle(r) ==
  \/ Refuse(r) \/ Get(r) \/ SetIfAbsent(r) \/ RedisFails(r)
  \/ DoWork(r) \/ Store(r) \/ Forget(r)

AllAnswered == \A r \in Posts : pc[r] \in {"done", "crashed"}

\* Every request has been dealt with.
AtRest == AllAnswered /\ UNCHANGED postVars

PostNext ==
  \/ \E r \in Posts : Handle(r) \/ Crash(r)
  \/ \E k \in PostKeys : Expire(k)
  \/ AtRest

PostSpec == PostInit /\ [][PostNext]_postVars

-----------------------------------------------------------------------------
\* r is between its SETNX and the end of its work.
Working(r) == pc[r] \in {"acquired", "worked", "storeFailed"}

\* POST-once: while the entry of a key has neither been deleted nor expired, the
\* work of one request at most runs under it, however GETs and SETNXs
\* interleave, whichever Redis command fails and whoever crashes in between.
WorkedOnce ==
  \A r, q \in ran : KeyOf[r] = KeyOf[q] /\ KeyOf[r] \notin released => r = q

\* Retries return the same result: two successful answers under a key carry the
\* body of one and the same computation, as long as the entry lives.
SameResult ==
  \A r, q \in Posts :
    /\ KeyOf[r] = KeyOf[q] /\ KeyOf[r] \in PostKeys \ released
    /\ reply[r].status = 200 /\ reply[q].status = 200
    => reply[r] = reply[q]

\* Once an entry holds a body, nobody else's late SETNX, store or clean-up takes
\* it away: it goes when it expires, or when the request that stored it was not
\* told so and cleans up after itself.
ResultStays ==
  [][\A k \in PostKeys :
       redis[k] \in Bodies /\ k \notin released /\ redis'[k] # redis[k]
         => expiries' # expiries \/ pc[redis[k].by] = "storeFailed"]_postVars

\* Refuted: a 409 means that the key is in flight: when SETNX fails, another request is
\* working under that key.
ConflictMeansInFlight ==
  [][\A r \in Posts :
       reply'[r] = Conflict /\ reply[r] # Conflict
         => \E q \in Posts \ {r} : KeyOf[q] = KeyOf[r] /\ Working(q)]_postVars

\* Refuted: a cached body that cannot be read is recomputed.
UnreadableIsRecomputed ==
  \A r \in Posts : sawBody[r] => reply[r] # Conflict
=============================================================================
