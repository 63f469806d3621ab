------------------------- MODULE AgentServiceProofs -------------------------
(***************************************************************************)
(* Theorems about the two models of taxcalc-agent-svc.                     *)
(*                                                                         *)
(* AgentGraph, for every ceiling, price list, catalogue and loop bound.    *)
(* The invariant behind them all is PhaseInv: which nodes may be running   *)
(* in which super-step, and how many calls each has behind it.             *)
(*                                                                         *)
(* AgentRuntime, for any number of requests and tasks: GraphInv, about the *)
(* holder of the graph's lock, and SessionInv, about the session and the   *)
(* task that serves it.                                                    *)
(***************************************************************************)
EXTENDS AgentGraph, AgentRuntime, TLAPS

-----------------------------------------------------------------------------
(* AgentGraph                                                                *)

\* Synthesis never runs beside a leg, and a node that is about to call the model has
\* a call left in its loop.
PhaseInv ==
  /\ pc = "idle" => \A n \in Nodes : phase[n] = "off"
  /\ pc = "legs" => phase[Synthesis] = "off" /\ calls[Synthesis] = 0
  /\ pc = "synthesis" => phase[Retrieval] = "off" /\ phase[Api] = "off"
  /\ pc # "idle" => req >= 1
  /\ phase[Api] = "ready" => calls[Api] = 0
  /\ phase[Api] = "calling" => calls[Api] < MaxToolIterations
  /\ phase[Synthesis] = "ready" => calls[Synthesis] = 0
  /\ phase[Synthesis] = "calling" => calls[Synthesis] <= MaxRetries

\* A synthesis that has returned has sent its answer last.
FrameInv ==
  phase[Synthesis] = "returned" =>
    frames # <<>> /\ frames[Len(frames)].channel = "2"

TypeInv == TypeOK /\ PhaseInv

-----------------------------------------------------------------------------
\* Appending a frame (Raise, emit_delta, stream_once, deadline) makes it the last one.
LEMMA LastFrame ==
  ASSUME NEW S, NEW s \in Seq(S), NEW e \in S
  PROVE  /\ Append(s, e) \in Seq(S)
         /\ Append(s, e) # <<>>
         /\ Append(s, e)[Len(Append(s, e))] = e
  <1>1. /\ Append(s, e) \in Seq(S)
        /\ Len(Append(s, e)) = Len(s) + 1
        /\ Append(s, e)[Len(s) + 1] = e
    OBVIOUS
  <1>2. Append(s, e) # <<>>
    BY <1>1
  <1> QED BY <1>1, <1>2

\* The frames the bridge writes are frames, and an empty contribution is one.
LEMMA FrameTypes ==
  /\ \A k \in Attempts : Text(k) \in Frames /\ Data(k) \in Frames
  /\ \A code \in {"budget_exceeded", "internal"} : Error(code) \in Frames
  /\ Nothing \in Contributions
  /\ 0 \in Attempts
  <1>1. 0 \in Attempts
    BY GraphAssumption DEF Attempts
  <1>2. \A k \in Attempts : Text(k) \in Frames /\ Data(k) \in Frames
    BY DEF Text, Data, Frames
  <1>3. \A code \in {"budget_exceeded", "internal"} : Error(code) \in Frames
    BY <1>1 DEF Error, Frames
  <1>4. Nothing \in Contributions
    BY <1>1 DEF Nothing, Contributions
  <1> QED BY <1>1, <1>2, <1>3, <1>4

\* The price of a completion is a natural number (record_usage).
LEMMA PriceType ==
  ASSUME NEW u \in Usages
  PROVE  Price(u) \in Nat /\ Price(u) <= MaxCost
  <1>1. Price(u) \in 0 .. MaxCost
    BY PriceAssumption, Zenon
  <1> QED BY <1>1, GraphAssumption

\* Raise ends the request and leaves an error frame.
LEMMA RaiseFacts ==
  ASSUME TypeOK, NEW code \in {"budget_exceeded", "internal"}, Raise(code)
  PROVE  /\ frames' \in Seq(Frames)
         /\ frames' # <<>>
         /\ frames'[Len(frames')].channel = "3"
         /\ pc' = "idle"
         /\ phase' = [n \in Nodes |-> "off"]
  <1>1. Error(code) \in Frames /\ Error(code).channel = "3"
    BY FrameTypes DEF Error
  <1>2. frames \in Seq(Frames) /\ frames' = Append(frames, Error(code))
    BY DEF TypeOK, Raise
  <1> QED BY <1>1, <1>2, LastFrame DEF Raise

\* A checked call is made, at a spend below the ceiling, or fails the request.
LEMMA CheckedCallFacts ==
  ASSUME TypeOK, NEW n \in Nodes, NEW s \in Nat, CheckedCall(n, s)
  PROVE  \/ /\ s < Ceiling
            /\ phase' = [phase EXCEPT ![n] = "calling"]
            /\ pc' = pc
            /\ frames' = frames
         \/ /\ frames' \in Seq(Frames)
            /\ frames' # <<>>
            /\ frames'[Len(frames')].channel = "3"
            /\ pc' = "idle"
            /\ phase' = [m \in Nodes |-> "off"]
  BY RaiseFacts DEF CheckedCall, check_or_raise

\* A node that returns contributes a well-formed partial state.
LEMMA ReturnFacts ==
  ASSUME TypeOK, NEW n \in Nodes, NEW c \in Contributions, NEW s \in Nat, Return(n, c, s)
  PROVE  /\ out' \in [Nodes -> Contributions]
         /\ phase' = [phase EXCEPT ![n] = "returned"]
         /\ \A m \in Nodes \ {n} : out'[m] = out[m]
  <1>1. s - before[n] \in Int
    BY DEF TypeOK
  <1>2. [c EXCEPT !.cost = s - before[n]] \in Contributions
    BY <1>1 DEF Contributions
  <1> QED BY <1>2 DEF Return, TypeOK

-----------------------------------------------------------------------------
\* Names the nodes for the provers.
LEMMA NodeNames ==
  /\ Nodes = {Retrieval, Api, Synthesis}
  /\ Legs = {Retrieval, Api}
  /\ Retrieval # Api /\ Retrieval # Synthesis /\ Api # Synthesis
  BY DEF Nodes, Legs, Retrieval, Api, Synthesis

\* Initially nothing runs.
LEMMA InitTypeInv == Init => TypeInv
  <1> SUFFICES ASSUME Init PROVE TypeInv
    OBVIOUS
  <1>1. Nothing \in Contributions /\ 0 \in Attempts
    BY FrameTypes
  <1>2. docs \in Seq(1 .. MaxRequests) /\ frames \in Seq(Frames)
    BY DEF Init
  <1>a. /\ out \in [Nodes -> Contributions]
        /\ phase \in [Nodes -> PhaseNames]
        /\ calls \in [Nodes -> Nat]
        /\ before \in [Nodes -> Nat]
        /\ toolResults \in [Tools -> 0 .. MaxRequests]
    BY <1>1, GraphAssumption DEF Init, PhaseNames
  <1>b. answer \in (0 .. MaxRequests) \X Attempts
    BY <1>1, GraphAssumption DEF Init
  <1>c. calls[Api] <= MaxToolIterations /\ calls[Synthesis] <= MaxRetries + 1
    BY NodeNames, GraphAssumption DEF Init
  <1>d. /\ req \in 0 .. MaxRequests /\ pc \in {"idle", "legs", "synthesis"}
        /\ plan \in SUBSET Legs /\ spent \in Nat /\ cost \in Int /\ costBefore \in Int
        /\ late \in SUBSET Nodes
    BY GraphAssumption DEF Init
  <1>e. gone \in BOOLEAN
    BY Zenon DEF Init
  <1>3. TypeOK
    BY <1>2, <1>a, <1>b, <1>c, <1>d, <1>e, Zenon DEF TypeOK
  <1>4. PhaseInv
    BY DEF Init, PhaseInv, Nodes, Legs, Api, Synthesis, Retrieval
  <1> QED BY <1>3, <1>4 DEF TypeInv

\* Every step keeps the types and the phases.
LEMMA StepTypeInv == TypeInv /\ [Next]_vars => TypeInv'
  <1> SUFFICES ASSUME TypeInv, [Next]_vars PROVE TypeInv'
    OBVIOUS
  <1> USE NodeNames, GraphAssumption
  <1>t. TypeOK /\ PhaseInv
    BY DEF TypeInv
  <1>1. ASSUME NEW d \in BOOLEAN, NEW a \in BOOLEAN, chat_stream(d, a) PROVE TypeInv'
    <2>1. plan' \in SUBSET Legs
      BY <1>1 DEF chat_stream, supervisor
    <2>a. /\ out' \in [Nodes -> Contributions]
          /\ phase' \in [Nodes -> PhaseNames]
          /\ calls' \in [Nodes -> Nat]
          /\ before' \in [Nodes -> Nat]
          /\ calls'[Api] = 0 /\ calls'[Synthesis] = 0
      BY <1>1, FrameTypes DEF chat_stream, PhaseNames
    <2>b. /\ req' \in 0 .. MaxRequests
          /\ frames' \in Seq(Frames)
          /\ spent' = 0 /\ pc' = "legs" /\ late' = {} /\ gone' = FALSE
          /\ costBefore' \in Int
      BY <1>t, <1>1 DEF chat_stream, TypeOK
    <2>2. TypeOK'
      <3>1. UNCHANGED <<docs, toolResults, cost, answer>>
        BY <1>1 DEF chat_stream, channels
      <3>2. /\ gone' \in BOOLEAN /\ late' \in SUBSET Nodes
            /\ pc' \in {"idle", "legs", "synthesis"}
        BY <2>b
      <3>3. /\ spent' \in Nat
            /\ calls'[Api] <= MaxToolIterations /\ calls'[Synthesis] <= MaxRetries + 1
        BY <2>a, <2>b
      <3> QED BY <1>t, <2>1, <2>a, <2>b, <3>1, <3>2, <3>3 DEF TypeOK
    <2>3. PhaseInv'
      BY <1>t, <1>1, <2>1 DEF chat_stream, TypeOK, PhaseInv
    <2> QED BY <2>2, <2>3 DEF TypeInv
  <1>2. ASSUME NEW n \in Nodes, Enter(n) PROVE TypeInv'
    <2>1. spent \in Nat
      BY <1>t DEF TypeOK
    <2>2. CheckedCall(n, spent)
      BY <1>2 DEF Enter
    <2>3. CASE /\ phase' = [phase EXCEPT ![n] = "calling"]
               /\ pc' = pc /\ frames' = frames
      <3>1. TypeOK'
        BY <1>t, <1>2, <2>3 DEF Enter, TypeOK, PhaseNames, channels, history
      <3>2. PhaseInv'
        BY <1>t, <1>2, <2>3 DEF Enter, TypeOK, PhaseInv
      <3> QED BY <3>1, <3>2 DEF TypeInv
    <2>4. CASE /\ pc' = "idle" /\ phase' = [m \in Nodes |-> "off"]
               /\ frames' \in Seq(Frames)
      <3>1. TypeOK'
        BY <1>t, <1>2, <2>4 DEF Enter, TypeOK, PhaseNames, channels, history
      <3>2. PhaseInv'
        BY <1>t, <1>2, <2>4 DEF Enter, TypeOK, PhaseInv
      <3> QED BY <3>1, <3>2 DEF TypeInv
    <2> QED BY <1>t, <2>1, <2>2, <2>3, <2>4, CheckedCallFacts
  <1>3. ASSUME NEW n \in Nodes, deadline(n) PROVE TypeInv'
    <2>1. frames' \in Seq(Frames)
      BY <1>t, <1>3, FrameTypes, LastFrame DEF deadline, TypeOK
    <2>2. TypeOK'
      BY <1>t, <1>3, <2>1, FrameTypes DEF deadline, TypeOK, PhaseNames, channels
    <2>3. PhaseInv'
      BY <1>t, <1>3 DEF deadline, Awaiting, TypeOK, PhaseInv
    <2> QED BY <2>2, <2>3 DEF TypeInv
  <1>4. ASSUME NEW n \in Nodes, NodeFails(n) PROVE TypeInv'
    <2>1. /\ frames' \in Seq(Frames) /\ pc' = "idle" /\ phase' = [m \in Nodes |-> "off"]
      BY <1>t, <1>4, RaiseFacts DEF NodeFails
    <2>2. TypeOK'
      BY <1>t, <1>4, <2>1 DEF NodeFails, TypeOK, PhaseNames, channels, history
    <2>3. PhaseInv'
      BY <1>t, <1>4, <2>1 DEF NodeFails, TypeOK, PhaseInv
    <2> QED BY <2>2, <2>3 DEF TypeInv
  <1>5. ASSUME NEW u \in Usages, rewrite_query(u) PROVE TypeInv'
    <2>0. Price(u) \in Nat
      BY PriceType
    <2>s. spent' = spent + Price(u)
      BY <1>5, Zenon DEF rewrite_query
    <2>1. spent' \in Nat
      BY <1>t, <2>s, <2>0 DEF TypeOK
    <2>2. CheckedCall(Retrieval, spent')
      BY <1>5 DEF rewrite_query
    <2>3. CASE /\ phase' = [phase EXCEPT ![Retrieval] = "calling"]
               /\ pc' = pc /\ frames' = frames
      <3>1. TypeOK'
        BY <1>t, <1>5, <2>1, <2>3 DEF rewrite_query, TypeOK, PhaseNames, channels, history
      <3>2. PhaseInv'
        BY <1>t, <1>5, <2>3 DEF rewrite_query, TypeOK, PhaseInv
      <3> QED BY <3>1, <3>2 DEF TypeInv
    <2>4. CASE /\ pc' = "idle" /\ phase' = [m \in Nodes |-> "off"]
               /\ frames' \in Seq(Frames)
      <3>1. TypeOK'
        BY <1>t, <1>5, <2>1, <2>4 DEF rewrite_query, TypeOK, PhaseNames, channels, history
      <3>2. PhaseInv'
        BY <1>t, <1>5, <2>4 DEF rewrite_query, TypeOK, PhaseInv
      <3> QED BY <3>1, <3>2 DEF TypeInv
    <2> QED BY <1>t, <2>1, <2>2, <2>3, <2>4, CheckedCallFacts
  <1>6. ASSUME NEW u \in Usages, NEW b \in BOOLEAN, run_pipeline(u, b) PROVE TypeInv'
    <2>0. Price(u) \in Nat
      BY PriceType
    <2>s. spent' = spent + Price(u)
      BY <1>6, Zenon DEF run_pipeline
    <2>1. spent' \in Nat
      BY <1>t, <2>s, <2>0 DEF TypeOK
    <2>2. [Nothing EXCEPT !.docs = b] \in Contributions
      BY FrameTypes DEF Contributions
    <2>3. out' \in [Nodes -> Contributions] /\ phase' = [phase EXCEPT ![Retrieval] = "returned"]
      BY <1>t, <1>6, <2>1, <2>2, ReturnFacts DEF run_pipeline
    <2>4. TypeOK'
      BY <1>t, <1>6, <2>1, <2>3 DEF run_pipeline, TypeOK, PhaseNames, channels, history
    <2>5. PhaseInv'
      BY <1>t, <1>6, <2>3 DEF run_pipeline, TypeOK, PhaseInv
    <2> QED BY <2>4, <2>5 DEF TypeInv
  <1>7. ASSUME NEW u \in Usages, NEW b \in BOOLEAN, api_completion(u, b) PROVE TypeInv'
    <2>0. Price(u) \in Nat
      BY PriceType
    <2>s. spent' = spent + Price(u)
      BY <1>7, Zenon DEF api_completion
    <2>1. spent' \in Nat
      BY <1>t, <2>s, <2>0 DEF TypeOK
    <2>2. out[Api] \in Contributions
      BY <1>t DEF TypeOK
    <2>3. /\ out' \in [Nodes -> Contributions]
          /\ \/ phase' = [phase EXCEPT ![Api] = "returned"]
             \/ phase' = [phase EXCEPT ![Api] = "tools"]
      BY <1>t, <1>7, <2>1, <2>2, ReturnFacts DEF api_completion, TypeOK
    <2>4. TypeOK'
      BY <1>t, <1>7, <2>1, <2>3, SMTT(40) DEF api_completion, TypeOK, PhaseInv, PhaseNames, channels, history
    <2>5. PhaseInv'
      BY <1>t, <1>7, <2>3 DEF api_completion, TypeOK, PhaseInv
    <2> QED BY <2>4, <2>5 DEF TypeInv
  <1>8. ASSUME NEW names \in SUBSET Tools, call_tools(names) PROVE TypeInv'
    <2> DEFINE got == [out[Api] EXCEPT !.tools = @ \cup names]
    <2>o. out[Api] \in Contributions
      BY <1>t DEF TypeOK
    <2>1. got \in Contributions
      BY <2>o DEF Contributions
    <2>2. spent \in Nat
      BY <1>t DEF TypeOK
    <2> HIDE DEF got
    <2>3. CASE /\ calls[Api] = MaxToolIterations
               /\ Return(Api, got, spent)
               /\ UNCHANGED <<pc, frames>>
      <3>1. out' \in [Nodes -> Contributions] /\ phase' = [phase EXCEPT ![Api] = "returned"]
        BY <1>t, <2>1, <2>2, <2>3, ReturnFacts
      <3>2. TypeOK'
        BY <1>t, <1>8, <2>3, <3>1 DEF call_tools, TypeOK, PhaseNames, channels, history
      <3>3. PhaseInv'
        BY <1>t, <1>8, <2>3, <3>1 DEF call_tools, TypeOK, PhaseInv
      <3> QED BY <3>2, <3>3 DEF TypeInv
    <2>4. CASE /\ calls[Api] < MaxToolIterations
               /\ out' = [out EXCEPT ![Api] = got]
               /\ CheckedCall(Api, spent)
      <3>0. out' \in [Nodes -> Contributions]
        BY <1>t, <2>1, <2>4 DEF TypeOK
      <3>1. CASE /\ phase' = [phase EXCEPT ![Api] = "calling"]
                 /\ pc' = pc /\ frames' = frames
        <4>1. TypeOK'
          BY <1>t, <1>8, <3>0, <3>1 DEF call_tools, TypeOK, PhaseNames, channels, history
        <4>2. PhaseInv'
          BY <1>t, <1>8, <2>4, <3>1 DEF call_tools, TypeOK, PhaseInv
        <4> QED BY <4>1, <4>2 DEF TypeInv
      <3>2. CASE /\ pc' = "idle" /\ phase' = [m \in Nodes |-> "off"]
                 /\ frames' \in Seq(Frames)
        <4>1. TypeOK'
          BY <1>t, <1>8, <3>0, <3>2 DEF call_tools, TypeOK, PhaseNames, channels, history
        <4>2. PhaseInv'
          BY <1>t, <1>8, <3>2 DEF call_tools, TypeOK, PhaseInv
        <4> QED BY <4>1, <4>2 DEF TypeInv
      <3> QED BY <1>t, <2>2, <2>4, <3>1, <3>2, CheckedCallFacts
    <2> QED BY <1>8, <2>3, <2>4 DEF call_tools, got
  <1>9. ASSUME emit_delta PROVE TypeInv'
    <2>1. calls[Synthesis] + 1 \in Attempts
      BY <1>t, <1>9, SMTT(40) DEF emit_delta, TypeOK, PhaseInv, Attempts
    <2>2. frames' \in Seq(Frames)
      BY <1>t, <1>9, <2>1, FrameTypes, LastFrame DEF emit_delta, TypeOK
    <2>3. TypeOK'
      BY <1>t, <1>9, <2>2 DEF emit_delta, TypeOK, nodeVars, channels, history
    <2>4. PhaseInv'
      BY <1>t, <1>9 DEF emit_delta, PhaseInv, nodeVars
    <2> QED BY <2>3, <2>4 DEF TypeInv
  <1>10. ASSUME NEW u \in Usages, NEW b \in BOOLEAN, stream_once(u, b) PROVE TypeInv'
    <2>0. Price(u) \in Nat
      BY PriceType
    <2> DEFINE attempt == calls[Synthesis] + 1
    <2>s. /\ spent' = spent + Price(u)
          /\ calls' = [calls EXCEPT ![Synthesis] = attempt]
          /\ phase[Synthesis] = "calling"
      BY <1>10, Zenon DEF stream_once
    <2>1. spent' \in Nat /\ calls' \in [Nodes -> Nat] /\ calls'[Synthesis] = attempt
          /\ calls'[Api] = calls[Api]
      <3>1. calls \in [Nodes -> Nat] /\ spent \in Nat
        BY <1>t DEF TypeOK
      <3>2. attempt \in Nat
        BY <3>1
      <3> QED BY <2>s, <2>0, <3>1, <3>2
    <2>2. attempt \in Attempts /\ attempt <= MaxRetries + 1 /\ attempt >= 1
      <3>1. calls[Synthesis] \in Nat /\ calls[Synthesis] <= MaxRetries
        BY <1>t, <2>s DEF TypeOK, PhaseInv
      <3> QED BY <3>1 DEF Attempts
    <2> HIDE DEF attempt
    <2>3. CASE /\ Return(Synthesis, [Nothing EXCEPT !.attempt = attempt], spent')
               /\ frames' = Append(frames, Data(attempt))
               /\ pc' = pc
      <3>1. [Nothing EXCEPT !.attempt = attempt] \in Contributions
        BY <2>2, FrameTypes DEF Contributions
      <3>2. out' \in [Nodes -> Contributions]
            /\ phase' = [phase EXCEPT ![Synthesis] = "returned"]
        BY <1>t, <2>1, <2>3, <3>1, ReturnFacts
      <3>3. frames' \in Seq(Frames)
        BY <1>t, <2>2, <2>3, FrameTypes, LastFrame DEF TypeOK
      <3>4. TypeOK'
        BY <1>t, <1>10, <2>1, <2>2, <2>3, <3>2, <3>3
        DEF stream_once, TypeOK, PhaseNames, channels, history
      <3>5. PhaseInv'
        BY <1>t, <1>10, <2>1, <2>3, <3>2 DEF stream_once, TypeOK, PhaseInv
      <3> QED BY <3>4, <3>5 DEF TypeInv
    <2>4. CASE /\ attempt <= MaxRetries
               /\ CheckedCall(Synthesis, spent')
               /\ out' = out
      <3>1. CASE /\ phase' = [phase EXCEPT ![Synthesis] = "calling"]
                 /\ pc' = pc /\ frames' = frames
        <4>1. TypeOK'
          BY <1>t, <1>10, <2>1, <2>2, <2>4, <3>1
          DEF stream_once, TypeOK, PhaseNames, channels, history
        <4>2. PhaseInv'
          BY <1>t, <1>10, <2>1, <2>4, <3>1 DEF stream_once, TypeOK, PhaseInv
        <4> QED BY <4>1, <4>2 DEF TypeInv
      <3>2. CASE /\ pc' = "idle" /\ phase' = [m \in Nodes |-> "off"]
                 /\ frames' \in Seq(Frames)
        <4>1. TypeOK'
          BY <1>t, <1>10, <2>1, <2>2, <2>4, <3>2
          DEF stream_once, TypeOK, PhaseNames, channels, history
        <4>2. PhaseInv'
          BY <1>t, <1>10, <2>1, <3>2 DEF stream_once, TypeOK, PhaseInv
        <4> QED BY <4>1, <4>2 DEF TypeInv
      <3> QED BY <1>t, <2>1, <2>4, <3>1, <3>2, CheckedCallFacts
    <2>5. CASE Raise("internal") /\ out' = out
      <3>1. /\ frames' \in Seq(Frames) /\ pc' = "idle" /\ phase' = [m \in Nodes |-> "off"]
        BY <1>t, <2>5, RaiseFacts
      <3>2. TypeOK'
        BY <1>t, <1>10, <2>1, <2>2, <2>5, <3>1
        DEF stream_once, TypeOK, PhaseNames, channels, history
      <3>3. PhaseInv'
        BY <1>t, <1>10, <2>1, <3>1 DEF stream_once, TypeOK, PhaseInv
      <3> QED BY <3>2, <3>3 DEF TypeInv
    <2> QED BY <1>10, <2>3, <2>4, <2>5 DEF stream_once, attempt
  <1>11. ASSUME FanIn PROVE TypeInv'
    <2>1. req \in 1 .. MaxRequests
      BY <1>t, <1>11 DEF FanIn, TypeOK, PhaseInv
    <2>2. docs' \in Seq(1 .. MaxRequests)
      BY <1>t, <1>11, <2>1, LastFrame DEF FanIn, TypeOK
    <2>3. toolResults' \in [Tools -> 0 .. MaxRequests]
      BY <1>t, <1>11, <2>1 DEF FanIn, TypeOK, merge_tool_results
    <2>4. out[Retrieval].cost \in Int /\ out[Api].cost \in Int
      BY <1>t DEF TypeOK, Contributions
    <2>a. cost' \in Int
      BY <1>t, <1>11, <2>4 DEF FanIn, TypeOK
    <2>b. phase' \in [Nodes -> PhaseNames] /\ pc' \in {"idle", "legs", "synthesis"}
      BY <1>11 DEF FanIn, PhaseNames
    <2>c. UNCHANGED <<req, plan, calls, before, out, spent, answer, frames, history>>
      BY <1>11 DEF FanIn
    <2>5. TypeOK'
      BY <1>t, <2>2, <2>3, <2>a, <2>b, <2>c DEF TypeOK, history
    <2>6. PhaseInv'
      BY <1>t, <1>11, <2>1 DEF FanIn, TypeOK, PhaseInv
    <2> QED BY <2>5, <2>6 DEF TypeInv
  <1>12. ASSUME Finish PROVE TypeInv'
    <2>1. out[Synthesis].cost \in Int /\ out[Synthesis].attempt \in Attempts
      BY <1>t DEF TypeOK, Contributions
    <2>2. answer' \in (0 .. MaxRequests) \X Attempts
      BY <1>t, <1>12, <2>1 DEF Finish, TypeOK
    <2>3. TypeOK'
      <3>a. cost' \in Int
        BY <1>t, <1>12, <2>1 DEF Finish, TypeOK
      <3>b. phase' \in [Nodes -> PhaseNames] /\ pc' \in {"idle", "legs", "synthesis"}
        BY <1>t, <1>12 DEF Finish, TypeOK, PhaseNames
      <3>c. UNCHANGED <<req, plan, calls, before, out, spent, docs, toolResults, frames, history>>
        BY <1>12 DEF Finish
      <3> QED BY <1>t, <2>2, <3>a, <3>b, <3>c DEF TypeOK, history
    <2>4. PhaseInv'
      BY <1>t, <1>12 DEF Finish, TypeOK, PhaseInv
    <2> QED BY <2>3, <2>4 DEF TypeInv
  <1>13. ASSUME CheckpointFails PROVE TypeInv'
    <2>1. /\ frames' \in Seq(Frames) /\ pc' = "idle" /\ phase' = [m \in Nodes |-> "off"]
      BY <1>t, <1>13, RaiseFacts DEF CheckpointFails
    <2>2. TypeOK'
      BY <1>t, <1>13, <2>1 DEF CheckpointFails, TypeOK, PhaseNames, channels, history
    <2>3. PhaseInv'
      BY <1>t, <1>13, <2>1 DEF CheckpointFails, TypeOK, PhaseInv
    <2> QED BY <2>2, <2>3 DEF TypeInv
  <1>14. ASSUME HangUp PROVE TypeInv'
    <2>1. TypeOK'
      BY <1>t, <1>14 DEF HangUp, TypeOK, PhaseNames, channels
    <2>2. PhaseInv'
      BY <1>t, <1>14 DEF HangUp, TypeOK, PhaseInv
    <2> QED BY <2>1, <2>2 DEF TypeInv
  <1>15. ASSUME UNCHANGED vars PROVE TypeInv'
    BY <1>t, <1>15 DEF TypeInv, TypeOK, PhaseInv, vars, nodeVars, channels, history
  <1> QED
    BY <1>1, <1>2, <1>3, <1>4, <1>5, <1>6, <1>7, <1>8, <1>9, <1>10, <1>11, <1>12, <1>13,
       <1>14, <1>15 DEF Next, Done

\* The types hold, both loops stop at their bound, and no leg runs beside synthesis.
THEOREM GraphInvariant == Spec => []TypeInv
  <1>1. Init => TypeInv
    BY InitTypeInv
  <1>2. TypeInv /\ [Next]_vars => TypeInv'
    BY StepTypeInv
  <1> QED BY <1>1, <1>2, PTL DEF Spec

\* In particular the tool loop makes at most MAX_TOOL_ITERATIONS completions and
\* synthesis at most MAX_RETRIES + 1 attempts.
THEOREM GraphTypeCorrect == Spec => []TypeOK
  <1>1. TypeInv => TypeOK
    BY DEF TypeInv
  <1> QED BY <1>1, GraphInvariant, PTL

-----------------------------------------------------------------------------
\* The two sums of reserves that a step may leave.
LEMMA Sums ==
  ASSUME NEW s \in Nat, NEW c \in Nat
  PROVE  s + 0 + 0 + 0 = s /\ s + 0 + 0 + c = s + c
  OBVIOUS

\* A call that starts below the ceiling stays below the bound.
LEMMA SumBelow ==
  ASSUME NEW s \in Nat, NEW c \in Nat, NEW k \in Nat, s < k
  PROVE  s + c < k + 2 * c
  OBVIOUS

\* A call in flight reserves at most MaxCost, and each step of the guard keeps the sum
\* below the bound: a check needs spent < Ceiling and at most one other call in flight.
LEMMA OvershootStep == TypeInv /\ OvershootBounded /\ [Next]_vars => OvershootBounded'
  <1> SUFFICES ASSUME TypeInv, OvershootBounded, [Next]_vars PROVE OvershootBounded'
    OBVIOUS
  <1> USE NodeNames, GraphAssumption
  <1>t. /\ phase \in [Nodes -> PhaseNames] /\ spent \in Nat
        /\ Ceiling \in Nat /\ Ceiling > 0 /\ MaxCost \in Nat /\ PhaseInv /\ TypeOK
    BY DEF TypeInv, TypeOK
  <1>o. spent + Reserve(Retrieval) + Reserve(Api) + Reserve(Synthesis) < Ceiling + 2 * MaxCost
    BY DEF OvershootBounded
  <1>p. pc \in {"idle", "legs", "synthesis"}
    BY <1>t DEF TypeOK
  <1>r. \A m \in Nodes : Reserve(m) \in Nat /\ Reserve(m) <= MaxCost
    BY <1>t DEF Reserve
  \* A step that ends the request, or charges nothing and starts no call.
  <1>a. ASSUME spent' <= spent + MaxCost, spent' \in Nat, NEW n \in Nodes,
               phase[n] = "calling", phase' = [m \in Nodes |-> "off"]
        PROVE  OvershootBounded'
    <2>1. Reserve(Retrieval)' = 0 /\ Reserve(Api)' = 0 /\ Reserve(Synthesis)' = 0
      BY <1>a DEF Reserve
    <2>2. Reserve(n) = MaxCost
      BY <1>a DEF Reserve
    <2>3. Reserve(Retrieval) + Reserve(Api) + Reserve(Synthesis) >= MaxCost
      BY <1>t, <1>r, <2>2
    <2>4. Reserve(Retrieval) \in Nat /\ Reserve(Api) \in Nat /\ Reserve(Synthesis) \in Nat
      BY <1>r
    <2>5. spent' < Ceiling + 2 * MaxCost
      BY <1>t, <1>o, <1>a, <2>3, <2>4
    <2>6. spent' + Reserve(Retrieval)' + Reserve(Api)' + Reserve(Synthesis)' = spent'
      <3>1. spent' + 0 + 0 + 0 = spent'
        BY <1>a, Sums, Zenon
      <3> QED BY <2>1, <3>1, Zenon
    <2> QED BY <2>5, <2>6 DEF OvershootBounded
  <1>b. ASSUME spent' = spent, phase' = [m \in Nodes |-> "off"]
        PROVE  OvershootBounded'
    BY <1>t, <1>o, <1>b DEF OvershootBounded, Reserve
  <1>c. ASSUME spent' = spent, \A m \in Nodes : phase'[m] = "calling" => phase[m] = "calling"
        PROVE  OvershootBounded'
    BY <1>t, <1>o, <1>c DEF OvershootBounded, Reserve
  \* A call returns: its reserve pays for what it charges.
  <1>d. ASSUME NEW n \in Nodes, phase[n] = "calling", spent' \in Nat, spent' <= spent + MaxCost,
               NEW q \in PhaseNames, q # "calling", phase' = [phase EXCEPT ![n] = q]
        PROVE  OvershootBounded'
    <2>1. Reserve(n) = MaxCost /\ Reserve(n)' = 0
      BY <1>t, <1>d DEF Reserve
    <2>2. \A m \in Nodes \ {n} : Reserve(m)' = Reserve(m)
      BY <1>t, <1>d DEF Reserve
    <2>3. CASE n = Retrieval
      BY <1>t, <1>o, <1>r, <1>d, <2>1, <2>2, <2>3 DEF OvershootBounded
    <2>4. CASE n = Api
      BY <1>t, <1>o, <1>r, <1>d, <2>1, <2>2, <2>4 DEF OvershootBounded
    <2>5. CASE n = Synthesis
      BY <1>t, <1>o, <1>r, <1>d, <2>1, <2>2, <2>5 DEF OvershootBounded
    <2> QED BY <2>3, <2>4, <2>5
  \* A call starts below the ceiling.
  <1>e. ASSUME NEW n \in Nodes, phase[n] # "off", spent' \in Nat, spent' < Ceiling,
               phase' = [phase EXCEPT ![n] = "calling"]
        PROVE  OvershootBounded'
    <2>1. \/ phase[Synthesis] = "off"
          \/ phase[Retrieval] = "off" /\ phase[Api] = "off"
      BY <1>t, <1>p DEF PhaseInv
    <2>2. Reserve(n)' = MaxCost
      BY <1>t, <1>e DEF Reserve
    <2>3. \A m \in Nodes \ {n} : Reserve(m)' = Reserve(m)
      BY <1>t, <1>e DEF Reserve
    <2>4. \A m \in Nodes : phase[m] = "off" => Reserve(m) = 0
      BY DEF Reserve
    <2>5. CASE n = Synthesis
      <3>1. Reserve(Retrieval)' = 0 /\ Reserve(Api)' = 0 /\ Reserve(Synthesis)' = MaxCost
        BY <1>e, <2>1, <2>2, <2>3, <2>4, <2>5
      <3>2. spent' + Reserve(Retrieval)' + Reserve(Api)' + Reserve(Synthesis)' = spent' + MaxCost
        <4>1. spent' + 0 + 0 + MaxCost = spent' + MaxCost
          BY <1>t, <1>e, Sums, Zenon
        <4> QED BY <3>1, <4>1, Zenon
      <3>3. spent' + MaxCost < Ceiling + 2 * MaxCost
        BY <1>t, <1>e, SumBelow, Zenon
      <3> QED BY <3>2, <3>3 DEF OvershootBounded
    <2>6. CASE n \in Legs
      <3>1. Reserve(Synthesis)' = 0
        BY <1>e, <2>1, <2>3, <2>4, <2>6
      <3>2. CASE n = Retrieval
        BY <1>t, <1>r, <1>e, <2>2, <2>3, <3>1, <3>2 DEF OvershootBounded
      <3>3. CASE n = Api
        BY <1>t, <1>r, <1>e, <2>2, <2>3, <3>1, <3>3 DEF OvershootBounded
      <3> QED BY <2>6, <3>2, <3>3
    <2> QED BY <2>5, <2>6
  <1>1. ASSUME NEW d \in BOOLEAN, NEW a \in BOOLEAN, chat_stream(d, a) PROVE OvershootBounded'
    <2>1. spent' = 0
      BY <1>1 DEF chat_stream
    <2>2. \A m \in Nodes : phase'[m] # "calling"
      BY <1>1 DEF chat_stream
    <2> QED BY <1>t, <2>1, <2>2 DEF OvershootBounded, Reserve
  <1>2. ASSUME NEW n \in Nodes, Enter(n) PROVE OvershootBounded'
    <2>1. phase[n] = "ready" /\ spent' = spent /\ CheckedCall(n, spent)
      BY <1>2 DEF Enter
    <2> QED BY <1>t, <2>1, <1>b, <1>e, CheckedCallFacts
  <1>3. ASSUME NEW n \in Nodes, deadline(n) PROVE OvershootBounded'
    BY <1>t, <1>3, <1>c DEF deadline
  <1>4. ASSUME NEW n \in Nodes, NodeFails(n) PROVE OvershootBounded'
    BY <1>t, <1>4, <1>b, RaiseFacts DEF NodeFails
  <1>5. ASSUME NEW u \in Usages, rewrite_query(u) PROVE OvershootBounded'
    <2>1. /\ phase[Retrieval] = "calling" /\ spent' = spent + Price(u)
          /\ CheckedCall(Retrieval, spent')
      BY <1>5 DEF rewrite_query
    <2>2. spent' \in Nat /\ spent' <= spent + MaxCost
      BY <1>t, <2>1, PriceType
    <2> QED BY <1>t, <2>1, <2>2, <1>a, <1>e, CheckedCallFacts
  <1>6. ASSUME NEW u \in Usages, NEW b \in BOOLEAN, run_pipeline(u, b) PROVE OvershootBounded'
    <2>1. /\ phase[Retrieval] = "calling" /\ spent' = spent + Price(u)
          /\ phase' = [phase EXCEPT ![Retrieval] = "returned"]
      BY <1>6, Zenon DEF run_pipeline, Return
    <2>2. spent' \in Nat /\ spent' <= spent + MaxCost
      BY <1>t, <2>1, PriceType
    <2> QED BY <1>t, <2>1, <2>2, <1>d DEF PhaseNames
  <1>7. ASSUME NEW u \in Usages, NEW b \in BOOLEAN, api_completion(u, b) PROVE OvershootBounded'
    <2>1. /\ phase[Api] = "calling" /\ spent' = spent + Price(u)
          /\ \/ phase' = [phase EXCEPT ![Api] = "returned"]
             \/ phase' = [phase EXCEPT ![Api] = "tools"]
      BY <1>7, Zenon DEF api_completion, Return
    <2>2. spent' \in Nat /\ spent' <= spent + MaxCost
      BY <1>t, <2>1, PriceType
    <2> QED BY <1>t, <2>1, <2>2, <1>d DEF PhaseNames
  <1>8. ASSUME NEW names \in SUBSET Tools, call_tools(names) PROVE OvershootBounded'
    <2>1. /\ phase[Api] = "tools" /\ spent' = spent
          /\ \/ phase' = [phase EXCEPT ![Api] = "returned"]
             \/ CheckedCall(Api, spent)
      BY <1>8 DEF call_tools, Return
    <2> QED BY <1>t, <2>1, <1>b, <1>c, <1>e, CheckedCallFacts
  <1>9. ASSUME emit_delta PROVE OvershootBounded'
    BY <1>9, <1>c DEF emit_delta, nodeVars
  <1>10. ASSUME NEW u \in Usages, NEW b \in BOOLEAN, stream_once(u, b) PROVE OvershootBounded'
    <2>1. /\ phase[Synthesis] = "calling" /\ spent' = spent + Price(u)
          /\ \/ phase' = [phase EXCEPT ![Synthesis] = "returned"]
             \/ CheckedCall(Synthesis, spent')
             \/ phase' = [m \in Nodes |-> "off"]
      BY <1>10, Zenon DEF stream_once, Return, Raise
    <2>2. spent' \in Nat /\ spent' <= spent + MaxCost
      BY <1>t, <2>1, PriceType
    <2>3. CASE phase' = [phase EXCEPT ![Synthesis] = "returned"]
      BY <1>t, <2>1, <2>2, <2>3, <1>d DEF PhaseNames
    <2>4. CASE CheckedCall(Synthesis, spent')
      BY <1>t, <2>1, <2>2, <2>4, <1>a, <1>e, CheckedCallFacts
    <2>5. CASE phase' = [m \in Nodes |-> "off"]
      BY <1>t, <2>1, <2>2, <2>5, <1>a
    <2> QED BY <2>1, <2>3, <2>4, <2>5
  <1>11. ASSUME FanIn PROVE OvershootBounded'
    BY <1>t, <1>11, <1>c DEF FanIn
  <1>12. ASSUME Finish PROVE OvershootBounded'
    BY <1>t, <1>12, <1>c DEF Finish
  <1>13. ASSUME CheckpointFails PROVE OvershootBounded'
    BY <1>t, <1>13, <1>b, RaiseFacts DEF CheckpointFails
  <1>14. ASSUME HangUp PROVE OvershootBounded'
    BY <1>14, <1>b DEF HangUp
  <1>15. ASSUME UNCHANGED vars PROVE OvershootBounded'
    BY <1>15, <1>c DEF vars, nodeVars
  <1> QED
    BY <1>1, <1>2, <1>3, <1>4, <1>5, <1>6, <1>7, <1>8, <1>9, <1>10, <1>11, <1>12, <1>13,
       <1>14, <1>15 DEF Next, Done

\* Two legs that charge one guard overshoot its ceiling by one call each at most.
THEOREM BudgetBounded == Spec => []OvershootBounded
  <1>1. Init => OvershootBounded
    BY GraphAssumption, NodeNames DEF Init, OvershootBounded, Reserve
  <1>2. TypeInv /\ OvershootBounded /\ [Next]_vars => OvershootBounded'
    BY OvershootStep
  <1> QED BY <1>1, <1>2, GraphInvariant, PTL DEF Spec

-----------------------------------------------------------------------------
\* The super-step a node that has started belongs to.
LEMMA StepOfPhase ==
  ASSUME TypeInv
  PROVE  /\ \A n \in Nodes : phase[n] # "off" => pc # "idle"
         /\ \A n \in Legs : phase[n] # "off" => pc = "legs"
         /\ phase[Synthesis] # "off" => pc = "synthesis"
  BY NodeNames DEF TypeInv, TypeOK, PhaseInv

SilentInv == NoSilentEnd /\ FrameInv

\* Every way a request can end leaves the answer or an error as the last frame.
LEMMA SilentStep == TypeInv /\ SilentInv /\ [Next]_vars => SilentInv'
  <1> SUFFICES ASSUME TypeInv, SilentInv, [Next]_vars PROVE SilentInv'
    OBVIOUS
  <1> USE NodeNames
  <1>t. /\ TypeOK /\ phase \in [Nodes -> PhaseNames] /\ frames \in Seq(Frames) /\ spent \in Nat
    BY DEF TypeInv, TypeOK
  \* The request goes on, or fails.
  <1>k. ASSUME pc' # "idle", frames' = frames,
               phase'[Synthesis] = "returned" => phase[Synthesis] = "returned"
        PROVE  SilentInv'
    BY <1>k DEF SilentInv, NoSilentEnd, FrameInv
  <1>r. ASSUME frames' # <<>>, frames'[Len(frames')].channel = "3",
               phase' = [m \in Nodes |-> "off"]
        PROVE  SilentInv'
    BY <1>r DEF SilentInv, NoSilentEnd, FrameInv
  <1>c. ASSUME NEW n \in Nodes, NEW x \in Nat, phase[n] # "off", CheckedCall(n, x)
        PROVE  SilentInv'
    BY <1>t, <1>c, <1>k, <1>r, StepOfPhase, CheckedCallFacts
  <1>1. ASSUME NEW d \in BOOLEAN, NEW a \in BOOLEAN, chat_stream(d, a) PROVE SilentInv'
    <2>1. plan' \in SUBSET Legs
      BY <1>1 DEF chat_stream, supervisor
    <2>2. pc' = "legs" /\ phase'[Synthesis] = "off"
      BY <1>1, <2>1 DEF chat_stream
    <2> QED BY <2>2 DEF SilentInv, NoSilentEnd, FrameInv
  <1>2. ASSUME NEW n \in Nodes, Enter(n) PROVE SilentInv'
    BY <1>t, <1>2, <1>c DEF Enter
  <1>3. ASSUME NEW n \in Nodes, deadline(n) PROVE SilentInv'
    <2>1. phase[n] # "off" /\ pc' = pc /\ phase' = [phase EXCEPT ![n] = "returned"]
      BY <1>3 DEF deadline, Awaiting
    <2>2. CASE n = Synthesis
      <3>1. frames' = Append(frames, Data(0)) /\ Data(0) \in Frames /\ Data(0).channel = "2"
        BY <1>3, <2>2, FrameTypes DEF deadline, Data
      <3>2. frames' # <<>> /\ frames'[Len(frames')].channel = "2"
        BY <1>t, <3>1, LastFrame
      <3> QED BY <2>1, <3>2, StepOfPhase DEF SilentInv, NoSilentEnd, FrameInv
    <2>3. CASE n # Synthesis
      <3>1. frames' = frames
        BY <1>3, <2>3 DEF deadline
      <3> QED BY <1>t, <1>k, <2>1, <2>3, <3>1, StepOfPhase
    <2> QED BY <2>2, <2>3
  <1>4. ASSUME NEW n \in Nodes, NodeFails(n) PROVE SilentInv'
    BY <1>t, <1>4, <1>r, RaiseFacts DEF NodeFails
  <1>5. ASSUME NEW u \in Usages, rewrite_query(u) PROVE SilentInv'
    <2>0. Price(u) \in Nat
      BY PriceType
    <2>s. spent' = spent + Price(u)
      BY <1>5, Zenon DEF rewrite_query
    <2>1. spent' \in Nat
      BY <1>t, <2>s, <2>0
    <2> QED BY <1>5, <1>c, <2>1 DEF rewrite_query
  <1>6. ASSUME NEW u \in Usages, NEW b \in BOOLEAN, run_pipeline(u, b) PROVE SilentInv'
    <2>1. /\ phase[Retrieval] = "calling" /\ pc' = pc /\ frames' = frames
          /\ phase' = [phase EXCEPT ![Retrieval] = "returned"]
      BY <1>6, Zenon DEF run_pipeline, Return
    <2> QED BY <1>t, <1>k, <2>1, StepOfPhase
  <1>7. ASSUME NEW u \in Usages, NEW b \in BOOLEAN, api_completion(u, b) PROVE SilentInv'
    <2>1. /\ phase[Api] = "calling" /\ pc' = pc /\ frames' = frames
          /\ \/ phase' = [phase EXCEPT ![Api] = "returned"]
             \/ phase' = [phase EXCEPT ![Api] = "tools"]
      BY <1>7, Zenon DEF api_completion, Return
    <2> QED BY <1>t, <1>k, <2>1, StepOfPhase
  <1>8. ASSUME NEW names \in SUBSET Tools, call_tools(names) PROVE SilentInv'
    <2>1. /\ phase[Api] = "tools"
          /\ \/ phase' = [phase EXCEPT ![Api] = "returned"] /\ pc' = pc /\ frames' = frames
             \/ CheckedCall(Api, spent)
      BY <1>8 DEF call_tools, Return
    <2> QED BY <1>t, <1>k, <1>c, <2>1, StepOfPhase
  <1>9. ASSUME emit_delta PROVE SilentInv'
    <2>1. phase[Synthesis] = "calling" /\ phase' = phase /\ pc' = pc
      BY <1>9 DEF emit_delta, nodeVars
    <2> QED BY <2>1, StepOfPhase DEF SilentInv, NoSilentEnd, FrameInv
  <1>10. ASSUME NEW u \in Usages, NEW b \in BOOLEAN, stream_once(u, b) PROVE SilentInv'
    <2> DEFINE attempt == calls[Synthesis] + 1
    <2>1. /\ phase[Synthesis] = "calling" /\ spent' = spent + Price(u)
          /\ \/ pc' = pc /\ frames' = Append(frames, Data(attempt))
             \/ CheckedCall(Synthesis, spent')
             \/ Raise("internal")
      BY <1>10, Zenon DEF stream_once
    <2>2. spent' \in Nat
      BY <1>t, <2>1, PriceType
    <2>3. CASE pc' = pc /\ frames' = Append(frames, Data(attempt))
      <3>1. calls[Synthesis] \in Nat /\ calls[Synthesis] <= MaxRetries
        BY <2>1 DEF TypeInv, TypeOK, PhaseInv
      <3>2. attempt \in Attempts
        BY <3>1, GraphAssumption DEF Attempts
      <3>3. Data(attempt) \in Frames /\ Data(attempt).channel = "2"
        BY <3>2, FrameTypes DEF Data
      <3>4. frames' # <<>> /\ frames'[Len(frames')].channel = "2"
        BY <1>t, <2>3, <3>3, LastFrame
      <3> QED BY <2>1, <2>3, <3>4, StepOfPhase DEF SilentInv, NoSilentEnd, FrameInv
    <2>4. CASE CheckedCall(Synthesis, spent')
      BY <1>c, <2>1, <2>2, <2>4
    <2>5. CASE Raise("internal")
      BY <1>t, <1>r, <2>5, RaiseFacts
    <2> QED BY <2>1, <2>3, <2>4, <2>5
  <1>11. ASSUME FanIn PROVE SilentInv'
    <2>1. pc' = "synthesis" /\ phase'[Synthesis] = "ready"
      BY <1>11 DEF FanIn
    <2> QED BY <2>1 DEF SilentInv, NoSilentEnd, FrameInv
  <1>12. ASSUME Finish PROVE SilentInv'
    <2>1. phase[Synthesis] = "returned" /\ frames' = frames /\ phase'[Synthesis] = "off"
      BY <1>t, <1>12 DEF Finish
    <2> QED BY <2>1 DEF SilentInv, NoSilentEnd, FrameInv
  <1>13. ASSUME CheckpointFails PROVE SilentInv'
    BY <1>t, <1>13, <1>r, RaiseFacts DEF CheckpointFails
  <1>14. ASSUME HangUp PROVE SilentInv'
    <2>1. gone' /\ phase'[Synthesis] = "off"
      BY <1>14 DEF HangUp
    <2> QED BY <2>1 DEF SilentInv, NoSilentEnd, FrameInv
  <1>15. ASSUME UNCHANGED vars PROVE SilentInv'
    BY <1>15 DEF SilentInv, NoSilentEnd, FrameInv, vars, nodeVars, history
  <1> QED
    BY <1>1, <1>2, <1>3, <1>4, <1>5, <1>6, <1>7, <1>8, <1>9, <1>10, <1>11, <1>12, <1>13,
       <1>14, <1>15 DEF Next, Done

\* No stream ends without a word: unless the client left, its last frame is the typed
\* answer or an error.
THEOREM StreamsExplain == Spec => []NoSilentEnd
  <1>1. Init => SilentInv
    BY NodeNames DEF Init, SilentInv, NoSilentEnd, FrameInv
  <1>2. TypeInv /\ SilentInv /\ [Next]_vars => SilentInv'
    BY SilentStep
  <1>3. SilentInv => NoSilentEnd
    BY DEF SilentInv
  <1> QED BY <1>1, <1>2, <1>3, GraphInvariant, PTL DEF Spec

-----------------------------------------------------------------------------
\* Only FanIn writes docs and tool_results, and it only adds (the reducers).
LEMMA ChannelStep ==
  ASSUME TypeInv, [Next]_vars
  PROVE  FanIn \/ UNCHANGED <<docs, toolResults>>
  BY DEF Next, chat_stream, Enter, deadline, NodeFails, rewrite_query, run_pipeline,
     api_completion, stream_once, call_tools, emit_delta, Finish, CheckpointFails, HangUp,
     Done, vars, channels

\* What FanIn leaves in the channels: the old documents first, then this request's;
\* the new result of a tool, or the old one.
LEMMA FanInFacts ==
  ASSUME TypeInv, FanIn
  PROVE  /\ Len(docs) <= Len(docs')
         /\ \A i \in DOMAIN docs : docs'[i] = docs[i]
         /\ out[Retrieval].docs => Len(docs) + 1 \in DOMAIN docs' /\ docs'[Len(docs) + 1] = req
         /\ \A t \in out[Api].tools : toolResults'[t] = req
         /\ \A t \in Tools : toolResults[t] # 0 => toolResults'[t] # 0
  <1>1. docs \in Seq(1 .. MaxRequests) /\ req \in 1 .. MaxRequests /\ out[Api].tools \in SUBSET Tools
    BY NodeNames DEF TypeInv, TypeOK, PhaseInv, FanIn, Contributions
  <1>2. docs' = IF out[Retrieval].docs THEN Append(docs, req) ELSE docs
    BY DEF FanIn
  <1>3. toolResults' = [t \in Tools |-> IF t \in out[Api].tools THEN req ELSE toolResults[t]]
    BY DEF FanIn, merge_tool_results
  <1>4. /\ Len(Append(docs, req)) = Len(docs) + 1
        /\ DOMAIN Append(docs, req) = 1 .. (Len(docs) + 1)
        /\ \A i \in DOMAIN docs : Append(docs, req)[i] = docs[i]
        /\ Append(docs, req)[Len(docs) + 1] = req
        /\ Len(docs) \in Nat
    BY <1>1
  <1>5. CASE out[Retrieval].docs
    BY <1>1, <1>2, <1>3, <1>4, <1>5
  <1>6. CASE ~out[Retrieval].docs
    BY <1>1, <1>2, <1>3, <1>4, <1>6
  <1> QED BY <1>5, <1>6

\* No step of any node or of the client drops a document or a tool's result.
THEOREM ReducersKeep == Spec => NothingErased
  <1>1. ASSUME TypeInv, [Next]_vars
        PROVE  [/\ Len(docs) <= Len(docs')
                /\ \A i \in DOMAIN docs : docs'[i] = docs[i]
                /\ \A t \in Tools : toolResults[t] # 0 => toolResults'[t] # 0]_vars
    <2>1. CASE FanIn
      BY <1>1, <2>1, FanInFacts
    <2>2. CASE UNCHANGED <<docs, toolResults>>
      <3>1. Len(docs) \in Nat
        BY <1>1 DEF TypeInv, TypeOK
      <3> QED BY <2>2, <3>1
    <2> QED BY <1>1, <2>1, <2>2, ChannelStep
  <1> QED BY <1>1, GraphInvariant, PTL DEF Spec, NothingErased

\* The evidence is complete when FanIn starts synthesis, and stays so: no leg runs, and
\* no channel of evidence is written, beside synthesis.
LEMMA EvidenceStep == TypeInv /\ EvidenceComplete /\ [Next]_vars => EvidenceComplete'
  <1> SUFFICES ASSUME TypeInv, EvidenceComplete, [Next]_vars PROVE EvidenceComplete'
    OBVIOUS
  <1> USE NodeNames
  <1>t. TypeOK /\ spent \in Nat /\ out \in [Nodes -> Contributions]
    BY DEF TypeInv, TypeOK
  <1>k. ASSUME pc' = pc, req' = req, docs' = docs, toolResults' = toolResults,
               out'[Retrieval] = out[Retrieval], out'[Api] = out[Api]
        PROVE  EvidenceComplete'
    BY <1>k DEF EvidenceComplete
  <1>n. ASSUME pc' # "synthesis" PROVE EvidenceComplete'
    BY <1>n DEF EvidenceComplete
  <1>c. ASSUME NEW n \in Nodes, NEW x \in Nat, CheckedCall(n, x) PROVE pc' = pc \/ pc' = "idle"
    BY <1>t, <1>c, CheckedCallFacts
  <1>1. ASSUME NEW d \in BOOLEAN, NEW a \in BOOLEAN, chat_stream(d, a) PROVE EvidenceComplete'
    BY <1>1, <1>n DEF chat_stream
  <1>2. ASSUME NEW n \in Nodes, Enter(n) PROVE EvidenceComplete'
    BY <1>t, <1>2, <1>c, <1>k, <1>n DEF Enter, channels
  <1>3. ASSUME NEW n \in Nodes, deadline(n) PROVE EvidenceComplete'
    <2>1. phase[n] # "off" /\ pc' = pc /\ out' = [out EXCEPT ![n] = Nothing]
          /\ UNCHANGED <<req, docs, toolResults>>
      BY <1>3 DEF deadline, Awaiting, channels
    <2> QED BY <1>t, <1>k, <1>n, <2>1, StepOfPhase
  <1>4. ASSUME NEW n \in Nodes, NodeFails(n) PROVE EvidenceComplete'
    BY <1>4, <1>n DEF NodeFails, Raise
  <1>5. ASSUME NEW u \in Usages, rewrite_query(u) PROVE EvidenceComplete'
    <2>0. Price(u) \in Nat
      BY PriceType
    <2>s. spent' = spent + Price(u)
      BY <1>5, Zenon DEF rewrite_query
    <2>1. spent' \in Nat
      BY <1>t, <2>s, <2>0
    <2>2. pc = "legs"
      BY <1>5, StepOfPhase DEF rewrite_query
    <2> QED BY <1>5, <1>c, <1>n, <2>1, <2>2 DEF rewrite_query
  <1>6. ASSUME NEW u \in Usages, NEW b \in BOOLEAN, run_pipeline(u, b) PROVE EvidenceComplete'
    <2>1. phase[Retrieval] = "calling" /\ pc' = pc
      BY <1>6, Zenon DEF run_pipeline
    <2> QED BY <1>n, <2>1, StepOfPhase
  <1>7. ASSUME NEW u \in Usages, NEW b \in BOOLEAN, api_completion(u, b) PROVE EvidenceComplete'
    <2>1. phase[Api] = "calling" /\ pc' = pc
      BY <1>7, Zenon DEF api_completion
    <2> QED BY <1>n, <2>1, StepOfPhase
  <1>8. ASSUME NEW names \in SUBSET Tools, call_tools(names) PROVE EvidenceComplete'
    <2>1. phase[Api] = "tools" /\ (pc' = pc \/ CheckedCall(Api, spent))
      BY <1>8 DEF call_tools
    <2> QED BY <1>t, <1>c, <1>n, <2>1, StepOfPhase
  <1>9. ASSUME emit_delta PROVE EvidenceComplete'
    BY <1>9, <1>k DEF emit_delta, nodeVars, channels
  <1>10. ASSUME NEW u \in Usages, NEW b \in BOOLEAN, stream_once(u, b) PROVE EvidenceComplete'
    <2>1. /\ spent' = spent + Price(u) /\ UNCHANGED <<req, docs, toolResults>>
          /\ \/ pc' = pc
             \/ CheckedCall(Synthesis, spent')
             \/ pc' = "idle"
          /\ \/ out' = out
             \/ \E c : out' = [out EXCEPT ![Synthesis] = c]
      BY <1>10, Zenon DEF stream_once, Return, Raise, channels
    <2>2. spent' \in Nat
      BY <1>t, <2>1, PriceType
    <2>3. pc' = pc \/ pc' = "idle"
      BY <1>c, <2>1, <2>2
    <2>4. out'[Retrieval] = out[Retrieval] /\ out'[Api] = out[Api]
      BY <1>t, <2>1
    <2> QED BY <1>k, <1>n, <2>1, <2>3, <2>4
  <1>11. ASSUME FanIn PROVE EvidenceComplete'
    <2>1. req' = req /\ out' = out
      BY <1>11 DEF FanIn
    <2> QED BY <1>11, <2>1, FanInFacts DEF EvidenceComplete
  <1>12. ASSUME Finish PROVE EvidenceComplete'
    BY <1>12, <1>n DEF Finish
  <1>13. ASSUME CheckpointFails PROVE EvidenceComplete'
    BY <1>13, <1>n DEF CheckpointFails, Raise
  <1>14. ASSUME HangUp PROVE EvidenceComplete'
    BY <1>14, <1>n DEF HangUp
  <1>15. ASSUME UNCHANGED vars PROVE EvidenceComplete'
    BY <1>15, <1>k DEF vars, nodeVars, channels
  <1> QED
    BY <1>1, <1>2, <1>3, <1>4, <1>5, <1>6, <1>7, <1>8, <1>9, <1>10, <1>11, <1>12, <1>13,
       <1>14, <1>15 DEF Next, Done

\* Synthesis reads all that the legs of its request found in time.
THEOREM EvidenceReaches == Spec => []EvidenceComplete
  <1>1. Init => EvidenceComplete
    BY DEF Init, EvidenceComplete
  <1>2. TypeInv /\ EvidenceComplete /\ [Next]_vars => EvidenceComplete'
    BY EvidenceStep
  <1> QED BY <1>1, <1>2, GraphInvariant, PTL DEF Spec

-----------------------------------------------------------------------------
(* AgentRuntime                                                              *)

\* The parts the steps of RuntimeNext fall into, for the case splits below.
TaskStep(t) == Serve(t) \/ TaskHangs(t) \/ AnswersLate(t)

EnvironmentStep ==
  StartServing \/ Stop \/ Stopped \/ PostgresChanges \/ McpServerChanges \/ Rest

-----------------------------------------------------------------------------
(* Type correctness                                                          *)

\* A task that is still to open has an attempt left.
RuntimeTypeInv ==
  /\ RuntimeTypeOK
  /\ \A t \in Tasks : taskPc[t] \in {"unborn", "opening", "hung"} => taskTries[t] < OpenAttempts

\* The initial state has the types.
LEMMA TypeInit == RuntimeInit => RuntimeTypeInv
<1> SUFFICES ASSUME RuntimeInit PROVE RuntimeTypeInv
  OBVIOUS
<1>1. /\ place \in [Callers -> Places] /\ stage \in {"warmup", "serving", "stopping", "stopped"}
      /\ taskPc \in [Tasks -> {"unborn", "opening", "hung", "open", "lost", "failed", "closed"}]
  BY RuntimeAssumption DEF RuntimeInit, Places
<1>2. taskTries \in [Tasks -> 0 .. OpenAttempts] /\ \A t \in Tasks : taskTries[t] < OpenAttempts
  BY RuntimeAssumption DEF RuntimeInit
<1>3. outages \in 0 .. MaxOutages /\ tries \in 0 .. OpenAttempts - 1 /\ pools \in Nat
  BY RuntimeAssumption DEF RuntimeInit
<1>4. QED
  BY <1>1, <1>2, <1>3 DEF RuntimeInit, RuntimeTypeInv, RuntimeTypeOK

\* Steps of graph() keep the types.
LEMMA GraphType ==
  ASSUME RuntimeTypeInv, NEW p \in Callers, Graph(p)
  PROVE  RuntimeTypeInv'
<1> USE RuntimeAssumption DEF RuntimeTypeInv, RuntimeTypeOK, Places, envVars, sessionVars, Move
<1>1. CASE CallGraph(p) \/ GraphLocked(p)
  BY <1>1 DEF CallGraph, GraphLocked, BuildOrTake
<1>2. CASE BuildSucceeds(p)
  BY <1>2 DEF BuildSucceeds
<1>3. CASE BuildFails(p)
  BY <1>3 DEF BuildFails
<1>4. QED
  BY <1>1, <1>2, <1>3 DEF Graph

\* What OpenOrTake may assign.
LEMMA OpenOrTakeType ==
  ASSUME RuntimeTypeInv, NEW p \in Callers, OpenOrTake(p), taskTries' = taskTries
  PROVE  /\ place' \in [Callers -> Places]
         /\ handed' \in [Callers -> Tasks \cup {None}]
         /\ started' \in [Callers -> Tasks \cup {None}]
         /\ sessionLock' \in Callers \cup {None}
         /\ sessionTask' \in Tasks \cup {None}
         /\ taskPc' \in [Tasks -> {"unborn", "opening", "hung", "open", "lost", "failed", "closed"}]
         /\ \A t \in Tasks : taskPc'[t] \in {"unborn", "opening", "hung"} => taskTries'[t] < OpenAttempts
<1>1. CASE session # None
  BY <1>1 DEF OpenOrTake, Move, RuntimeTypeInv, RuntimeTypeOK, Places
<1>2. CASE session = None
  <2>1. PICK t \in Tasks :
          /\ taskPc[t] = "unborn"
          /\ taskPc' = [taskPc EXCEPT ![t] = "opening"]
          /\ sessionTask' = t
          /\ started' = [started EXCEPT ![p] = t]
          /\ IF up
             THEN Result(p) /\ UNCHANGED sessionLock
             ELSE Move(p, "awaiting") /\ sessionLock' = p /\ UNCHANGED handed
    BY <1>2 DEF OpenOrTake
  <2>2. CASE up
    BY <2>1, <2>2, <1>2 DEF Result, Move, RuntimeTypeInv, RuntimeTypeOK, Places
  <2>3. CASE ~up
    BY <2>1, <2>3 DEF Move, RuntimeTypeInv, RuntimeTypeOK, Places
  <2>4. QED
    BY <2>2, <2>3
<1>3. QED
  BY <1>1, <1>2

\* Steps of session(), and its cancellation, keep the types.
LEMMA SessionType ==
  ASSUME RuntimeTypeInv, NEW p \in Callers, Session(p) \/ Cancel(p)
  PROVE  RuntimeTypeInv'
<1>1. CASE OpenOrTake(p) /\ UNCHANGED <<stage, envVars, graphVars, session, up, error, closing, taskTries>>
  BY <1>1, OpenOrTakeType DEF RuntimeTypeInv, RuntimeTypeOK, envVars, graphVars
<1>2. CASE /\ Move(p, "sessionQueued")
           /\ UNCHANGED <<handed, started, sessionLock, sessionTask, taskPc>>
           /\ UNCHANGED <<stage, envVars, graphVars, session, up, error, closing, taskTries>>
  BY <1>2 DEF RuntimeTypeInv, RuntimeTypeOK, Places, envVars, graphVars, Move
<1>3. CASE SessionUp(p)
  BY <1>3 DEF SessionUp, Result, RuntimeTypeInv, RuntimeTypeOK, Places, envVars, graphVars, Move
<1>4. CASE Cancel(p)
  BY <1>4 DEF Cancel, RuntimeTypeInv, RuntimeTypeOK, Places, envVars, graphVars, Move
<1>5. QED
  BY <1>1, <1>2, <1>3, <1>4 DEF Session, CallSession, SessionLocked

\* Steps of the tasks keep the types.
LEMMA TaskType ==
  ASSUME RuntimeTypeInv, NEW t \in Tasks, TaskStep(t)
  PROVE  RuntimeTypeInv'
<1> USE RuntimeAssumption DEF RuntimeTypeInv, RuntimeTypeOK, envVars, graphVars
<1>1. CASE TaskOpens(t) \/ AnswersLate(t)
  BY <1>1 DEF TaskOpens, AnswersLate, Opens
<1>2. CASE TaskFails(t)
  <2>1. CASE taskTries[t] + 1 < OpenAttempts
    BY <1>2, <2>1 DEF TaskFails
  <2>2. CASE ~(taskTries[t] + 1 < OpenAttempts)
    <3>1. /\ taskTries' \in [Tasks -> 0 .. OpenAttempts]
          /\ taskPc' \in [Tasks -> {"unborn", "opening", "hung", "open", "lost", "failed", "closed"}]
      BY <1>2, <2>2 DEF TaskFails
    <3>2. \A u \in Tasks : taskPc'[u] \in {"unborn", "opening", "hung"} => taskTries'[u] < OpenAttempts
      BY <1>2, <2>2 DEF TaskFails
    <3>3. QED
      BY <1>2, <2>2, <3>1, <3>2 DEF TaskFails
  <2>3. QED
    BY <2>1, <2>2
<1>3. CASE TaskCloses(t)
  BY <1>3 DEF TaskCloses
<1>4. CASE TaskHangs(t)
  BY <1>4 DEF TaskHangs
<1>5. QED
  BY <1>1, <1>2, <1>3, <1>4 DEF TaskStep, Serve

\* The lifespan's own steps and the outages keep the types.
LEMMA EnvironmentType ==
  ASSUME RuntimeTypeInv, EnvironmentStep
  PROVE  RuntimeTypeInv'
<1> USE RuntimeAssumption DEF RuntimeTypeInv, RuntimeTypeOK, Places, Callers, envVars, graphVars, sessionVars, Move
<1>1. CASE StartServing
  BY <1>1 DEF StartServing
<1>2. CASE Stop
  BY <1>2 DEF Stop
<1>3. CASE Stopped
  BY <1>3 DEF Stopped
<1>4. CASE PostgresChanges
  BY <1>4 DEF PostgresChanges
<1>5. CASE McpServerChanges
  BY <1>5 DEF McpServerChanges
<1>6. CASE Rest
  BY <1>6 DEF Rest, runtimeVars
<1>7. QED
  BY <1>1, <1>2, <1>3, <1>4, <1>5, <1>6 DEF EnvironmentStep

\* Every step keeps the types.
LEMMA TypeStep == ASSUME RuntimeTypeInv, [RuntimeNext]_runtimeVars PROVE RuntimeTypeInv'
<1>1. CASE UNCHANGED runtimeVars
  BY <1>1 DEF runtimeVars, envVars, graphVars, sessionVars, RuntimeTypeInv, RuntimeTypeOK
<1>2. QED
  BY <1>1, GraphType, SessionType, TaskType, EnvironmentType DEF RuntimeNext, EnvironmentStep, TaskStep

\* Every variable keeps its type, and no dependency is tried more often than
\* OPEN_ATTEMPTS times in a row.
THEOREM RuntimeTypeCorrect == RuntimeSpec => []RuntimeTypeInv
<1>1. QED
  BY TypeInit, TypeStep, PTL DEF RuntimeSpec
-----------------------------------------------------------------------------
(* The graph                                                                 *)

\* Who builds holds the lock, nobody builds a second graph, and a pool is
\* registered only together with the graph.
GraphInv ==
  /\ \A p \in Callers : place[p] = "building" => graphLock = p
  /\ graphLock # None => place[graphLock] = "building" /\ ~graph
  /\ ~graph => pools = 0
  /\ OnePool

\* Moving a caller that does not build, to a place where it does not build,
\* leaves the graph's part alone.
LEMMA MoveKeeps ==
  ASSUME RuntimeTypeInv, GraphInv, NEW p \in Callers, NEW l \in Places,
         place[p] # "building", l # "building", Move(p, l), UNCHANGED graphVars
  PROVE  GraphInv'
  BY DEF RuntimeTypeInv, RuntimeTypeOK, GraphInv, OnePool, Move, graphVars

\* A caller past the lock finds the graph or becomes its only builder; a builder
\* publishes graph and pool together, or gives the lock back.
LEMMA GraphKeepsGraph ==
  ASSUME RuntimeTypeInv, GraphInv, NEW p \in Callers, Graph(p)
  PROVE  GraphInv'
<1> USE RuntimeAssumption DEF RuntimeTypeInv, RuntimeTypeOK, Places, GraphInv, OnePool, Move
<1>1. CASE CallGraph(p)
  <2>1. place[p] # "building" /\ UNCHANGED <<graph, pools>>
    BY <1>1 DEF CallGraph, AsksForGraph
  <2>2. CASE graph \/ graphLock = None
    BY <1>1, <2>1, <2>2 DEF CallGraph, BuildOrTake
  <2>3. CASE ~(graph \/ graphLock = None)
    BY <1>1, <2>1, <2>3 DEF CallGraph
  <2>4. QED
    BY <2>2, <2>3
<1>2. CASE GraphLocked(p)
  BY <1>2 DEF GraphLocked, BuildOrTake
<1>3. CASE BuildSucceeds(p)
  BY <1>3 DEF BuildSucceeds
<1>4. CASE BuildFails(p)
  BY <1>4 DEF BuildFails
<1>5. QED
  BY <1>1, <1>2, <1>3, <1>4 DEF Graph

\* session() moves its caller, and only its caller.
LEMMA SessionMoves ==
  ASSUME RuntimeTypeInv, NEW p \in Callers, Session(p) \/ Cancel(p)
  PROVE  /\ place[p] # "building"
         /\ \E l \in Places : l # "building" /\ Move(p, l)
         /\ UNCHANGED graphVars
<1>1. place[p] # "building" /\ UNCHANGED graphVars
  BY DEF Session, CallSession, SessionLocked, SessionUp, Cancel
<1>2. ASSUME Result(p) PROVE \E l \in Places : l # "building" /\ Move(p, l)
  BY <1>2 DEF Result, Places, RuntimeTypeInv, RuntimeTypeOK
<1>3. ASSUME OpenOrTake(p) PROVE \E l \in Places : l # "building" /\ Move(p, l)
  BY <1>2, <1>3 DEF OpenOrTake, Places
<1>4. QED
  BY <1>1, <1>2, <1>3 DEF Session, CallSession, SessionLocked, SessionUp, Cancel, Places

\* Every step keeps the graph's invariant.
LEMMA GraphInvStep == ASSUME RuntimeTypeInv, GraphInv, [RuntimeNext]_runtimeVars PROVE GraphInv'
<1>1. ASSUME NEW p \in Callers, Session(p) \/ Cancel(p) PROVE GraphInv'
  BY <1>1, SessionMoves, MoveKeeps
<1>2. ASSUME NEW t \in Tasks, TaskStep(t) PROVE GraphInv'
  BY <1>2 DEF TaskStep, Serve, TaskOpens, AnswersLate, Opens, TaskHangs, TaskFails, TaskCloses,
              GraphInv, OnePool, graphVars
<1>3. CASE StartServing
  <2>1. Lifespan \in Callers /\ place[Lifespan] # "building" /\ Move(Lifespan, "sleeping")
    BY <1>3 DEF StartServing, Callers
  <2>2. QED
    BY <1>3, <2>1, MoveKeeps DEF StartServing, Places
<1>4. CASE Stop
  <2>1. Lifespan \in Callers
    BY DEF Callers
  <2>2. QED
    BY <1>4, <2>1, RuntimeAssumption DEF Stop, RuntimeTypeInv, RuntimeTypeOK, GraphInv, OnePool, Move
<1>5. CASE Stopped
  BY <1>5 DEF Stopped, GraphInv, OnePool
<1>6. CASE PostgresChanges \/ McpServerChanges \/ Rest \/ UNCHANGED runtimeVars
  BY <1>6 DEF PostgresChanges, McpServerChanges, Rest, runtimeVars, GraphInv, OnePool, graphVars
<1>7. QED
  BY <1>1, <1>2, <1>3, <1>4, <1>5, <1>6, GraphKeepsGraph DEF RuntimeNext, TaskStep

\* However calls of graph() interleave, fail and queue, one Postgres pool is
\* registered at most.
THEOREM PoolOnce == RuntimeSpec => []OnePool
<1>1. RuntimeInit => GraphInv
  BY RuntimeAssumption DEF RuntimeInit, GraphInv, OnePool
<1>2. RuntimeTypeInv /\ GraphInv /\ [RuntimeNext]_runtimeVars => GraphInv'
  BY GraphInvStep
<1>3. GraphInv => OnePool
  BY DEF GraphInv
<1>4. QED
  BY <1>1, <1>2, <1>3, RuntimeTypeCorrect, PTL DEF RuntimeSpec

-----------------------------------------------------------------------------
(* The MCP session                                                           *)

\* Places of a caller that asks for nothing any more.
Ended == {"new", "noGraph", "got", "unavailable", "broken", "cancelled"}

\* A published session belongs to a task that has not unwound it; the event
\* without an error means that there is a session; and nobody asks for one once
\* the tasks are told to close.
SessionInv ==
  /\ session # None /\ ~closing => taskPc[session] \in {"open", "lost"}
  /\ up /\ ~error /\ ~closing => session # None
  /\ closing => stage \in {"stopping", "stopped"}
  /\ stage \in {"stopping", "stopped"} => \A p \in Callers : place[p] \in Ended
  /\ \A p \in Callers : place[p] = "got" => handed[p] \in Tasks
  /\ AssertHolds
  /\ HeldIsNotUnwound

\* Handing the published session to a caller.
LEMMA HandedKeeps ==
  ASSUME RuntimeTypeInv, SessionInv, NEW p \in Callers, session # None,
         stage \notin {"stopping", "stopped"}, Move(p, "got"),
         handed' = [handed EXCEPT ![p] = session],
         UNCHANGED <<stage, session, up, error, closing, taskPc>>
  PROVE  SessionInv'
  BY DEF RuntimeTypeInv, RuntimeTypeOK, SessionInv, AssertHolds, HeldIsNotUnwound, Move

\* Moving a caller to a place where it holds nothing, while the process runs.
LEMMA UnhandedKeeps ==
  ASSUME RuntimeTypeInv, SessionInv, NEW p \in Callers, NEW l \in Places \ {"got", "broken"},
         stage \notin {"stopping", "stopped"} \/ l \in Ended, Move(p, l),
         UNCHANGED <<stage, handed, session, up, error, closing, taskPc>>
  PROVE  SessionInv'
  BY DEF RuntimeTypeInv, RuntimeTypeOK, SessionInv, AssertHolds, HeldIsNotUnwound, Move

\* The event is set and read by a caller: it gets the session or the error.
LEMMA ResultKeeps ==
  ASSUME RuntimeTypeInv, SessionInv, NEW p \in Callers, up, Result(p),
         stage \notin {"stopping", "stopped"},
         UNCHANGED <<stage, session, up, error, closing, taskPc>>
  PROVE  SessionInv'
<1>1. ~closing
  BY DEF SessionInv
<1>2. CASE error
  <2>1. Move(p, "unavailable") /\ UNCHANGED handed
    BY <1>2 DEF Result, RuntimeTypeInv, RuntimeTypeOK
  <2>2. QED
    BY <2>1, UnhandedKeeps DEF Places
<1>3. CASE ~error
  <2>1. session # None
    BY <1>1, <1>3 DEF SessionInv
  <2>2. Move(p, "got") /\ handed' = [handed EXCEPT ![p] = session]
    BY <1>3, <2>1 DEF Result
  <2>3. QED
    BY <2>1, <2>2, HandedKeeps
<1>4. QED
  BY <1>2, <1>3

\* Steps of session() keep its invariant.
LEMMA SessionKeepsSession ==
  ASSUME RuntimeTypeInv, SessionInv, NEW p \in Callers, Session(p) \/ Cancel(p)
  PROVE  SessionInv'
<1>1. stage \notin {"stopping", "stopped"}
  BY DEF Session, CallSession, SessionLocked, SessionUp, Cancel, SessionInv, Ended
<1>2. ASSUME OpenOrTake(p), UNCHANGED <<stage, session, up, error, closing>> PROVE SessionInv'
  <2>1. CASE session # None
    BY <1>1, <1>2, <2>1, HandedKeeps DEF OpenOrTake
  <2>2. CASE session = None
    <3>1. PICK t \in Tasks :
            /\ taskPc[t] = "unborn"
            /\ taskPc' = [taskPc EXCEPT ![t] = "opening"]
            /\ IF up THEN Result(p) ELSE Move(p, "awaiting") /\ UNCHANGED handed
      BY <1>2, <2>2 DEF OpenOrTake
    <3>2. ~closing
      BY <1>1 DEF SessionInv
    <3>3. up => error
      BY <2>2, <3>2 DEF SessionInv, RuntimeTypeInv, RuntimeTypeOK
    <3>4. \E l \in {"unavailable", "awaiting"} : Move(p, l) /\ UNCHANGED handed
      BY <3>1, <3>3 DEF Result
    <3>5. QED
      BY <1>1, <1>2, <2>2, <3>1, <3>4
         DEF RuntimeTypeInv, RuntimeTypeOK, SessionInv, AssertHolds, HeldIsNotUnwound, Move
  <2>3. QED
    BY <2>1, <2>2
<1>3. CASE SessionUp(p)
  BY <1>1, <1>3, ResultKeeps DEF SessionUp
<1>4. CASE Cancel(p)
  <2>1. Move(p, "cancelled")
    BY <1>4 DEF Cancel
  <2>2. QED
    BY <1>1, <1>4, <2>1, UnhandedKeeps DEF Cancel, Places
<1>5. CASE Move(p, "sessionQueued") /\ UNCHANGED <<stage, handed, session, up, error, closing, taskPc>>
  BY <1>1, <1>5, UnhandedKeeps DEF Places
<1>6. QED
  BY <1>2, <1>3, <1>4, <1>5 DEF Session, CallSession, SessionLocked

\* Steps of graph() happen while the process runs, and hand nothing out.
LEMMA GraphKeepsSession ==
  ASSUME RuntimeTypeInv, SessionInv, GraphInv, NEW p \in Callers, Graph(p)
  PROVE  SessionInv'
<1>1. stage \notin {"stopping", "stopped"}
  BY DEF Graph, CallGraph, AsksForGraph, GraphLocked, BuildSucceeds, BuildFails, SessionInv, Ended
<1>2. UNCHANGED <<stage, handed, sessionVars>>
  BY DEF Graph, CallGraph, GraphLocked, BuildSucceeds, BuildFails
<1>3. \/ UNCHANGED place
      \/ \E l \in {"graphUp", "building", "graphQueued", "noGraph"} : Move(p, l)
  BY DEF Graph, CallGraph, GraphLocked, BuildOrTake, BuildSucceeds, BuildFails
<1>4. CASE UNCHANGED place
  BY <1>2, <1>4 DEF SessionInv, AssertHolds, HeldIsNotUnwound, sessionVars
<1>5. CASE \E l \in {"graphUp", "building", "graphQueued", "noGraph"} : Move(p, l)
  BY <1>1, <1>2, <1>5, UnhandedKeeps DEF Places, sessionVars
<1>6. QED
  BY <1>3, <1>4, <1>5

\* A task publishes its own session, or withdraws what is published together
\* with an error, or closes when the process does.
LEMMA TaskKeepsSession ==
  ASSUME RuntimeTypeInv, SessionInv, NEW t \in Tasks, TaskStep(t)
  PROVE  SessionInv'
<1> USE RuntimeAssumption DEF RuntimeTypeInv, RuntimeTypeOK, SessionInv, AssertHolds, HeldIsNotUnwound
<1>1. CASE TaskOpens(t) \/ AnswersLate(t)
  BY <1>1 DEF TaskOpens, AnswersLate, Opens
<1>2. CASE TaskFails(t)
  <2>1. CASE taskTries[t] + 1 < OpenAttempts
    BY <1>2, <2>1 DEF TaskFails
  <2>2. CASE ~(taskTries[t] + 1 < OpenAttempts)
    BY <1>2, <2>2 DEF TaskFails
  <2>3. QED
    BY <2>1, <2>2
<1>3. CASE TaskCloses(t)
  BY <1>3 DEF TaskCloses
<1>4. CASE TaskHangs(t)
  BY <1>4 DEF TaskHangs
<1>5. QED
  BY <1>1, <1>2, <1>3, <1>4 DEF TaskStep, Serve

\* Every step keeps the session's invariant.
LEMMA SessionInvStep ==
  ASSUME RuntimeTypeInv, GraphInv, SessionInv, [RuntimeNext]_runtimeVars
  PROVE  SessionInv'
<1> USE DEF SessionInv, AssertHolds, HeldIsNotUnwound
<1>1. CASE StartServing
  <2>1. Lifespan \in Callers /\ Move(Lifespan, "sleeping") /\ stage = "warmup" /\ stage' = "serving"
    BY <1>1 DEF StartServing, Callers
  <2>2. QED
    BY <1>1, <2>1 DEF StartServing, sessionVars, RuntimeTypeInv, RuntimeTypeOK, Move
<1>2. CASE Stop
  <2>1. Lifespan \in Callers /\ Move(Lifespan, "cancelled") /\ stage = "serving" /\ stage' = "stopping"
    BY <1>2 DEF Stop, Callers
  <2>2. \A p \in Callers : place'[p] \in Ended
    BY <1>2, <2>1 DEF Stop, Callers, Move, Ended, RuntimeTypeInv, RuntimeTypeOK
  <2>3. ~closing
    BY <2>1
  <2>4. QED
    BY <1>2, <2>1, <2>2, <2>3 DEF Stop, RuntimeTypeInv, RuntimeTypeOK, Move
<1>3. CASE Stopped
  BY <1>3 DEF Stopped
<1>4. CASE PostgresChanges \/ Rest \/ UNCHANGED runtimeVars
  BY <1>4 DEF PostgresChanges, Rest, runtimeVars, sessionVars
<1>5. CASE McpServerChanges
  BY <1>5 DEF McpServerChanges, RuntimeTypeInv, RuntimeTypeOK
<1>6. QED
  BY <1>1, <1>2, <1>3, <1>4, <1>5, SessionKeepsSession, GraphKeepsSession, TaskKeepsSession DEF RuntimeNext, TaskStep

\* What the two theorems below read off.
LEMMA SessionInvariant == RuntimeSpec => []SessionInv
<1>1. RuntimeInit => SessionInv /\ GraphInv
  BY RuntimeAssumption DEF RuntimeInit, SessionInv, AssertHolds, HeldIsNotUnwound, GraphInv, OnePool
<1>2. RuntimeTypeInv /\ SessionInv /\ GraphInv /\ [RuntimeNext]_runtimeVars => SessionInv' /\ GraphInv'
  BY SessionInvStep, GraphInvStep
<1>3. QED
  BY <1>1, <1>2, RuntimeTypeCorrect, PTL DEF RuntimeSpec

\* A caller of session() is never woken without a session and without an error,
\* so the assertion at the end of session() cannot fail.
THEOREM AssertUnreachable == RuntimeSpec => []AssertHolds
<1>1. SessionInv => AssertHolds
  BY DEF SessionInv
<1>2. QED
  BY <1>1, SessionInvariant, PTL

\* No session is unwound under the callers that hold it before the shutdown.
THEOREM HeldStaysUp == RuntimeSpec => []HeldIsNotUnwound
<1>1. SessionInv => HeldIsNotUnwound
  BY DEF SessionInv
<1>2. QED
  BY <1>1, SessionInvariant, PTL
=============================================================================
