----------------------------- MODULE AgentGraph -----------------------------
(***************************************************************************)
(* One conversation (thread) of taxcalc-agent-svc: the supervisor's plan,  *)
(* the retrieval and api legs that run side by side, the fan-in into       *)
(* synthesis, the budget guard all three charge, the node deadlines, the   *)
(* reducers of the checkpointed state and the frames of the SSE stream.    *)
(* The requests of a thread follow one another; each finds the channels    *)
(* the one before it left in the checkpoint.                               *)
(***************************************************************************)
EXTENDS Integers, Sequences

CONSTANTS
  Usages,            \* <<input, output>> tokens a completion may report
  Ceiling,           \* cost_ceiling_usd_e5
  MaxCost,           \* no completion costs more
  Tools,             \* the MCP catalogue
  MaxToolIterations, \* MAX_TOOL_ITERATIONS
  MaxRetries,        \* MAX_RETRIES
  MaxRequests        \* bound on the requests of the thread

Retrieval == "retrieval_agent"
Api == "api_agent"
Synthesis == "synthesis_agent"
Legs == {Retrieval, Api}
Nodes == Legs \cup {Synthesis}

-----------------------------------------------------------------------------
(* BudgetGuard: record_usage and check_or_raise.                           *)

PRICE_IN_E5_PER_KTOK == 300
PRICE_OUT_E5_PER_KTOK == 1500

\* What one completion adds to the tally: one division, truncating.
Price(u) == (u[1] * PRICE_IN_E5_PER_KTOK + u[2] * PRICE_OUT_E5_PER_KTOK) \div 1000

ASSUME GraphAssumption ==
  /\ Ceiling \in Nat \ {0}
  /\ MaxCost \in Nat
  /\ MaxToolIterations \in Nat \ {0}
  /\ MaxRetries \in Nat
  /\ MaxRequests \in Nat

\* max_tokens and the model's context bound what a completion can cost.
ASSUME PriceAssumption == \A u \in Usages : Price(u) \in 0 .. MaxCost

\* Mutant of check_or_raise: reaching the ceiling exactly is let through.
check_or_raise_Strict(s) == s <= Ceiling

\* The next call may be made.
check_or_raise(s) == s < Ceiling

-----------------------------------------------------------------------------
VARIABLES
  req,         \* number of the current (or last) request
  pc,          \* "idle" between requests, else the super-step: "legs", "synthesis"
  plan,        \* the legs the supervisor sent
  phase,       \* where each node stands
  calls,       \* completions of the node so far
  before,      \* its spent_before
  out,         \* the partial state it returns
  spent,       \* the request's BudgetGuard
  docs,        \* channel docs: the requests that contributed, in order
  toolResults, \* channel tool_results: the request a result is from, 0 if none
  cost,        \* channel cost_usd_e5
  answer,      \* channel answer: its request and the attempt that wrote it
  frames,      \* the SSE frames of the current request
  late,        \* history: nodes of this request that missed their deadline
  costBefore,  \* history: the channel cost when the request arrived
  gone         \* history: the client hung up (or the pod died)

nodeVars == <<phase, calls, before, out, spent>>
channels == <<docs, toolResults, cost, answer>>
history == <<late, costBefore, gone>>
vars == <<req, pc, plan, nodeVars, channels, frames, history>>

Attempts == 0 .. (MaxRetries + 1) \* 0 stands for the deadline's sentinel
Contributions == [docs : BOOLEAN, tools : SUBSET Tools, cost : Int, attempt : Attempts]
Nothing == [docs |-> FALSE, tools |-> {}, cost |-> 0, attempt |-> 0]
PhaseNames == {"off", "ready", "calling", "tools", "returned"}

Text(k) == [channel |-> "0", attempt |-> k, error |-> "none"]
Data(k) == [channel |-> "2", attempt |-> k, error |-> "none"]
Error(code) == [channel |-> "3", attempt |-> 0, error |-> code]
Frames == [channel : {"0", "2", "3"}, attempt : Attempts,
           error : {"none", "budget_exceeded", "internal"}]

TypeOK ==
  /\ req \in 0 .. MaxRequests
  /\ pc \in {"idle", "legs", "synthesis"}
  /\ plan \in SUBSET Legs
  /\ phase \in [Nodes -> PhaseNames]
  /\ calls \in [Nodes -> Nat]
  /\ calls[Api] <= MaxToolIterations
  /\ calls[Synthesis] <= MaxRetries + 1
  /\ before \in [Nodes -> Nat]
  /\ out \in [Nodes -> Contributions]
  /\ spent \in Nat
  /\ docs \in Seq(1 .. MaxRequests)
  /\ toolResults \in [Tools -> 0 .. MaxRequests]
  /\ cost \in Int
  /\ answer \in (0 .. MaxRequests) \X Attempts
  /\ frames \in Seq(Frames)
  /\ late \in SUBSET Nodes
  /\ costBefore \in Int
  /\ gone \in BOOLEAN

Init ==
  /\ req = 0
  /\ pc = "idle"
  /\ plan = {}
  /\ phase = [n \in Nodes |-> "off"]
  /\ calls = [n \in Nodes |-> 0]
  /\ before = [n \in Nodes |-> 0]
  /\ out = [n \in Nodes |-> Nothing]
  /\ spent = 0
  /\ docs = <<>>
  /\ toolResults = [t \in Tools |-> 0]
  /\ cost = 0
  /\ answer = <<0, 0>>
  /\ frames = <<>>
  /\ late = {}
  /\ costBefore = 0
  /\ gone = FALSE

-----------------------------------------------------------------------------
(* The request arrives.                                                    *)

\* The keyword table decides; a question that matches nothing is grounded in docs.
supervisor(needsDocs, needsApi) ==
  LET targets == {n \in Legs : \/ n = Retrieval /\ needsDocs
                               \/ n = Api /\ needsApi}
  IN IF targets = {} THEN {Retrieval} ELSE targets

\* chat_stream: a fresh guard, and a run from START over the thread's channels.
chat_stream(needsDocs, needsApi) ==
  /\ pc = "idle"
  /\ req < MaxRequests
  /\ req' = req + 1
  /\ pc' = "legs"
  /\ plan' = supervisor(needsDocs, needsApi)
  /\ phase' = [n \in Nodes |-> IF n \in plan' THEN "ready" ELSE "off"]
  /\ calls' = [n \in Nodes |-> 0]
  /\ before' = [n \in Nodes |-> 0]
  /\ out' = [n \in Nodes |-> Nothing]
  /\ spent' = 0
  /\ frames' = <<>>
  /\ late' = {}
  /\ costBefore' = cost
  /\ gone' = FALSE
  /\ UNCHANGED channels

-----------------------------------------------------------------------------
(* Steps the nodes share.                                                  *)

\* Mutant of Raise: the last except clause of event_stream is missing.
Raise_Uncaught(code) ==
  /\ frames' = IF code = "internal" THEN frames ELSE Append(frames, Error(code))
  /\ pc' = "idle"
  /\ phase' = [n \in Nodes |-> "off"]

\* An exception fails the super-step: the other leg is cancelled, nothing of the
\* step reaches the channels, and event_stream writes the error frame.
Raise(code) ==
  /\ frames' = Append(frames, Error(code))
  /\ pc' = "idle"
  /\ phase' = [n \in Nodes |-> "off"]

\* check_or_raise at spend s, then the call it guards.
CheckedCall(n, s) ==
  \/ /\ check_or_raise(s)
     /\ phase' = [phase EXCEPT ![n] = "calling"]
     /\ UNCHANGED <<pc, frames>>
  \/ /\ ~check_or_raise(s)
     /\ Raise("budget_exceeded")

\* The node returns its partial state; c.cost is completed with its spend.
Return(n, c, s) ==
  /\ out' = [out EXCEPT ![n] = [c EXCEPT !.cost = s - before[n]]]
  /\ phase' = [phase EXCEPT ![n] = "returned"]

\* Up to the first check: spent_before is read. The api node has awaited its session
\* and the catalogue; nothing is awaited between the reading and the check.
Enter(n) ==
  /\ phase[n] = "ready"
  /\ before' = [before EXCEPT ![n] = spent]
  /\ CheckedCall(n, spent)
  /\ UNCHANGED <<req, plan, calls, out, spent, channels, history>>

-----------------------------------------------------------------------------
(* retrieval_agent: rewrite_query, then the pipeline that generates.       *)

\* A rewrite that fails is forgiven and charges nothing: the usage <<0, 0>>.
rewrite_query(u) ==
  /\ phase[Retrieval] = "calling"
  /\ calls[Retrieval] = 0
  /\ spent' = spent + Price(u)
  /\ calls' = [calls EXCEPT ![Retrieval] = 1]
  /\ CheckedCall(Retrieval, spent')
  /\ UNCHANGED <<req, plan, before, out, channels, history>>

run_pipeline(u, found) ==
  /\ phase[Retrieval] = "calling"
  /\ calls[Retrieval] = 1
  /\ spent' = spent + Price(u)
  /\ calls' = [calls EXCEPT ![Retrieval] = 2]
  /\ Return(Retrieval, [Nothing EXCEPT !.docs = found], spent')
  /\ UNCHANGED <<req, pc, plan, before, channels, frames, history>>

-----------------------------------------------------------------------------
(* api_agent: the bounded tool-use loop.                                   *)

\* A completion that asks for tools, or one that ends the loop.
api_completion(u, toolUse) ==
  /\ phase[Api] = "calling"
  /\ spent' = spent + Price(u)
  /\ calls' = [calls EXCEPT ![Api] = @ + 1]
  /\ \/ toolUse /\ phase' = [phase EXCEPT ![Api] = "tools"] /\ UNCHANGED out
     \/ ~toolUse /\ Return(Api, out[Api], spent')
  /\ UNCHANGED <<req, pc, plan, before, channels, frames, history>>

\* The results of a turn's tool calls, and the next turn if one is left.
call_tools(names) ==
  /\ phase[Api] = "tools"
  /\ LET got == [out[Api] EXCEPT !.tools = @ \cup names] IN
       \/ /\ calls[Api] = MaxToolIterations
          /\ Return(Api, got, spent)
          /\ UNCHANGED <<pc, frames>>
       \/ /\ calls[Api] < MaxToolIterations
          /\ out' = [out EXCEPT ![Api] = got]
          /\ CheckedCall(Api, spent)
  /\ UNCHANGED <<req, plan, calls, before, spent, channels, history>>

-----------------------------------------------------------------------------
(* synthesis_agent: a streamed call, repaired at most MaxRetries times.    *)

\* The prose of the attempt under way reaches the client. (One frame stands for all
\* the deltas of an attempt.)
emit_delta ==
  LET f == Text(calls[Synthesis] + 1) IN
  /\ phase[Synthesis] = "calling"
  /\ \A i \in DOMAIN frames : frames[i] # f
  /\ frames' = Append(frames, f)
  /\ UNCHANGED <<req, pc, plan, nodeVars, channels, history>>

\* The attempt is charged, then validated: the answer, one more repair, or the error.
stream_once(u, valid) ==
  LET attempt == calls[Synthesis] + 1 IN
  /\ phase[Synthesis] = "calling"
  /\ spent' = spent + Price(u)
  /\ calls' = [calls EXCEPT ![Synthesis] = attempt]
  /\ \/ /\ valid
        /\ Return(Synthesis, [Nothing EXCEPT !.attempt = attempt], spent')
        /\ frames' = Append(frames, Data(attempt))
        /\ UNCHANGED pc
     \/ /\ ~valid
        /\ attempt <= MaxRetries
        /\ CheckedCall(Synthesis, spent')
        /\ UNCHANGED out
     \/ /\ ~valid
        /\ attempt > MaxRetries
        /\ Raise("internal")
        /\ UNCHANGED out
  /\ UNCHANGED <<req, plan, before, channels, history>>

-----------------------------------------------------------------------------
(* Deadlines, failures, and the ends of the super-steps.                   *)

\* Mutant of Awaiting: opening the session is outside the deadline.
Awaiting_CallsOnly(n) == phase[n] \in {"calling", "tools"}

\* The node is suspended inside wait_for; api awaits its session and its catalogue
\* before the first call, the other two start with the call.
Awaiting(n) ==
  \/ phase[n] \in {"calling", "tools"}
  \/ n = Api /\ phase[n] = "ready"

\* wait_for cancels the body; the sentinel is all the node contributes.
deadline(n) ==
  /\ Awaiting(n)
  /\ out' = [out EXCEPT ![n] = Nothing]
  /\ phase' = [phase EXCEPT ![n] = "returned"]
  /\ frames' = IF n = Synthesis THEN Append(frames, Data(0)) ELSE frames
  /\ late' = late \cup {n}
  /\ UNCHANGED <<req, pc, plan, calls, before, spent, channels, costBefore, gone>>

\* A session that cannot be opened, a tool, a pipeline or a completion that raises.
\* (rewrite_query forgives its own completion.)
NodeFails(n) ==
  /\ Awaiting(n)
  /\ ~(n = Retrieval /\ calls[n] = 0)
  /\ Raise("internal")
  /\ UNCHANGED <<req, plan, calls, before, out, spent, channels, history>>

\* Key-wise, the last write of a key winning.
merge_tool_results(old, new) == [t \in Tools |-> IF t \in new THEN req ELSE old[t]]

\* Mutant of FanIn: the edge into synthesis fires on the first leg that returns.
FanIn_First ==
  /\ pc = "legs"
  /\ \E n \in plan : phase[n] = "returned"
  /\ pc' = "synthesis"
  /\ phase' = [phase EXCEPT ![Synthesis] = "ready"]
  /\ docs' = IF out[Retrieval].docs THEN Append(docs, req) ELSE docs
  /\ toolResults' = merge_tool_results(toolResults, out[Api].tools)
  /\ cost' = cost + out[Retrieval].cost + out[Api].cost
  /\ UNCHANGED <<req, plan, calls, before, out, spent, answer, frames, history>>

\* Every leg has returned: the reducers merge what they contribute, the state is
\* checkpointed, and synthesis is scheduled.
FanIn ==
  /\ pc = "legs"
  /\ \A n \in plan : phase[n] = "returned"
  /\ pc' = "synthesis"
  /\ phase' = [n \in Nodes |-> IF n = Synthesis THEN "ready" ELSE "off"]
  /\ docs' = IF out[Retrieval].docs THEN Append(docs, req) ELSE docs
  /\ toolResults' = merge_tool_results(toolResults, out[Api].tools)
  /\ cost' = cost + out[Retrieval].cost + out[Api].cost
  /\ UNCHANGED <<req, plan, calls, before, out, spent, answer, frames, history>>

\* Synthesis has returned: its answer overwrites the slot, its spend is added.
Finish ==
  /\ pc = "synthesis"
  /\ phase[Synthesis] = "returned"
  /\ pc' = "idle"
  /\ phase' = [phase EXCEPT ![Synthesis] = "off"]
  /\ answer' = <<req, out[Synthesis].attempt>>
  /\ cost' = cost + out[Synthesis].cost
  /\ UNCHANGED <<req, plan, calls, before, out, spent, docs, toolResults, frames, history>>

\* The last checkpoint cannot be written: the run raises after the answer was sent.
CheckpointFails ==
  /\ pc = "synthesis"
  /\ phase[Synthesis] = "returned"
  /\ Raise("internal")
  /\ UNCHANGED <<req, plan, calls, before, out, spent, channels, history>>

\* The client closes the stream, or the pod dies: every task is cancelled and only
\* the last checkpoint is left.
HangUp ==
  /\ pc # "idle"
  /\ pc' = "idle"
  /\ phase' = [n \in Nodes |-> "off"]
  /\ gone' = TRUE
  /\ UNCHANGED <<req, plan, calls, before, out, spent, channels, frames, late, costBefore>>

Done ==
  /\ pc = "idle"
  /\ req = MaxRequests
  /\ UNCHANGED vars

Next ==
  \/ \E d, a \in BOOLEAN : chat_stream(d, a)
  \/ \E n \in Nodes : Enter(n) \/ deadline(n) \/ NodeFails(n)
  \/ \E u \in Usages : \/ rewrite_query(u)
                       \/ \E b \in BOOLEAN : \/ run_pipeline(u, b)
                                             \/ api_completion(u, b)
                                             \/ stream_once(u, b)
  \/ \E names \in SUBSET Tools : call_tools(names)
  \/ emit_delta
  \/ FanIn
  \/ Finish
  \/ CheckpointFails
  \/ HangUp
  \/ Done

Spec == Init /\ [][Next]_vars

\* The event loop runs what is runnable, and a deadline fires in the end: wait_for
\* bounds every suspension. Nothing is assumed of the model, the tools or the client,
\* nor of the MCP session the api node awaits before its first call.
Fairness ==
  /\ \A n \in Nodes : WF_vars(deadline(n))
  /\ \A n \in Nodes \ {Api} : WF_vars(Enter(n))
  /\ WF_vars(FanIn)
  /\ WF_vars(Finish \/ CheckpointFails)

LiveSpec == Spec /\ Fairness

-----------------------------------------------------------------------------
(* Properties.                                                             *)

Reserve(n) == IF phase[n] = "calling" THEN MaxCost ELSE 0

\* However the legs interleave, the guard lets a request overshoot its ceiling by at
\* most one call of each leg: a call in flight was checked before the other leg's
\* call was recorded (check_or_raise before, record_usage after the await).
OvershootBounded ==
  spent + Reserve(Retrieval) + Reserve(Api) + Reserve(Synthesis) < Ceiling + 2 * MaxCost

\* One leg cannot erase the other's work, nor a failed or late request that of an
\* earlier one: what the reducers of docs and tool_results hold is never dropped.
NothingErased ==
  [][/\ Len(docs) <= Len(docs')
     /\ \A i \in DOMAIN docs : docs'[i] = docs[i]
     /\ \A t \in Tools : toolResults[t] # 0 => toolResults'[t] # 0]_vars

\* Synthesis reads everything its own request found: no leg of the plan that kept its
\* deadline is missing from the state when the answer is written.
EvidenceComplete ==
  pc = "synthesis" =>
    /\ out[Retrieval].docs => \E i \in DOMAIN docs : docs[i] = req
    /\ \A t \in out[Api].tools : toolResults[t] = req

\* A stream that ends tells the client why: unless the client left, its last frame is
\* the typed answer or an error (event_stream's except clauses).
NoSilentEnd ==
  pc = "idle" /\ req > 0 /\ ~gone =>
    frames # <<>> /\ frames[Len(frames)].channel \in {"2", "3"}

\* Every request ends, whatever the model, the tools and the pipeline do or fail to do:
\* the three deadlines and the two bounded loops see to it.
EveryRequestEnds == (pc # "idle") ~> (pc = "idle")

\* The request was answered and its state saved.
Answered == pc = "idle" /\ answer[1] = req /\ req > 0

\* Refuted, state.py: two agents' spend must total, and under-reporting is the one direction a
\* budget must never round. The request's share of cost_usd_e5 covers what the guard saw.
CostCoversSpend == Answered => cost - costBefore >= spent

\* Refuted, state.py: cost_usd_e5 is the cumulative spend, so nothing is counted twice.
CostCountsOnce == Answered => cost - costBefore <= spent

\* Refuted, synthesis.py: when every leg timed out, docs and tool_results are both empty and the
\* prompt of the synthesis call asks for a refusal.
RefusesWhenLate ==
  phase[Synthesis] = "calling" /\ plan \subseteq late =>
    docs = <<>> /\ \A t \in Tools : toolResults[t] = 0

\* Refuted, test_answer_streaming.py: the deltas reassemble into the answer of the 2: frame.
DeltasReassemble ==
  \A i, j \in DOMAIN frames :
    frames[i].channel = "0" /\ frames[j].channel = "2" => frames[i].attempt = frames[j].attempt
=============================================================================
