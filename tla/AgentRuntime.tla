---------------------------- MODULE AgentRuntime --------------------------
(***************************************************************************)
(* taxcalc-agent-svc: Dependencies (runtime.py) as the lifespan and the    *)
(* requests of app.py use it. The compiled graph with its Postgres pool,   *)
(* and the MCP session with the task that serves it, are opened on first   *)
(* use. Coroutines of one event loop: a step runs from one await to the    *)
(* next.                                                                   *)
(***************************************************************************)
EXTENDS Naturals, FiniteSets

CONSTANTS
  Requests,     \* chat requests whose api node asks for the session
  Lifespan,     \* the warm-up and the reconnect loop
  Tasks,        \* _serve_session tasks, one per session() call at most
  None,
  OpenAttempts, \* OPEN_ATTEMPTS
  MaxOutages,   \* bound on the times Postgres or the MCP server change state
  Starts        \* how the holder is used: the service begins with the "warmup";
                \* the eval harness and the tests do not, they are "serving" at once

Callers == Requests \cup {Lifespan}

ASSUME RuntimeAssumption ==
  /\ Lifespan \notin Requests
  /\ None \notin Callers \cup Tasks
  /\ OpenAttempts \in Nat \ {0}
  /\ MaxOutages \in Nat
  /\ Starts \subseteq {"warmup", "serving"}

VARIABLES
  (* the process and what it depends on *)
  stage,       \* of the lifespan
  pgUp, mcpUp, \* whether Postgres and the MCP server can be reached
  outages,     \* changes of the two so far
  (* callers *)
  place,       \* where each caller stands
  handed,      \* the task whose session a caller was handed
  started,     \* history: the task a caller started
  (* the graph *)
  graph,       \* _graph is not None
  pools,       \* Postgres pools registered with _stack
  graphLock,   \* holder of _graph_lock
  tries,       \* failed attempts of the holder
  (* the MCP session *)
  session,     \* the task whose session _session is
  sessionLock, \* holder of _session_lock
  sessionTask, \* _session_task
  up,          \* _session_up
  error,       \* _session_error is not None
  closing,     \* _session_closing
  taskPc,      \* where each task stands
  taskTries    \* its failed attempts

envVars == <<pgUp, mcpUp, outages>>
graphVars == <<graph, pools, graphLock, tries>>
sessionVars == <<session, sessionLock, sessionTask, up, error, closing, taskPc, taskTries>>
runtimeVars == <<stage, envVars, place, handed, started, graphVars, sessionVars>>

\* Where a caller may stand: on its way to the graph, on its way to the session,
\* at an end.
Places == {"new", "graphQueued", "building", "graphUp", "noGraph",
           "sessionQueued", "awaiting", "sleeping",
           "got", "unavailable", "broken", "cancelled"}

RuntimeTypeOK ==
  /\ stage \in {"warmup", "serving", "stopping", "stopped"}
  /\ pgUp \in BOOLEAN /\ mcpUp \in BOOLEAN /\ outages \in 0 .. MaxOutages
  /\ place \in [Callers -> Places]
  /\ handed \in [Callers -> Tasks \cup {None}]
  /\ started \in [Callers -> Tasks \cup {None}]
  /\ graph \in BOOLEAN /\ pools \in Nat
  /\ graphLock \in Callers \cup {None} /\ tries \in 0 .. OpenAttempts - 1
  /\ session \in Tasks \cup {None} /\ sessionTask \in Tasks \cup {None}
  /\ sessionLock \in Callers \cup {None}
  /\ up \in BOOLEAN /\ error \in BOOLEAN /\ closing \in BOOLEAN
  /\ taskPc \in [Tasks -> {"unborn", "opening", "hung", "open", "lost", "failed", "closed"}]
  /\ taskTries \in [Tasks -> 0 .. OpenAttempts]

RuntimeInit ==
  /\ stage \in Starts
  /\ pgUp \in BOOLEAN /\ mcpUp \in BOOLEAN /\ outages = 0
  /\ place = [p \in Callers |-> IF p = Lifespan /\ stage = "serving" THEN "cancelled" ELSE "new"]
  /\ handed = [p \in Callers |-> None]
  /\ started = [p \in Callers |-> None]
  /\ graph = FALSE /\ pools = 0 /\ graphLock = None /\ tries = 0
  /\ session = None /\ sessionLock = None /\ sessionTask = None
  /\ up = FALSE /\ error = FALSE /\ closing = FALSE
  /\ taskPc = [t \in Tasks |-> "unborn"]
  /\ taskTries = [t \in Tasks |-> 0]

Move(p, label) == place' = [place EXCEPT ![p] = label]

-----------------------------------------------------------------------------
(* The graph                                                                 *)

\* Mutant of AsksForGraph: no reconnect_forever.
AsksForGraph_NoReconnect(p) ==
  \/ p = Lifespan /\ stage = "warmup" /\ place[p] = "new"
  \/ p \in Requests /\ stage = "serving" /\ place[p] = "new"

\* Who calls graph(): warmup, reconnect_forever until it is up, a request.
AsksForGraph(p) ==
  \/ p = Lifespan /\ stage = "warmup" /\ place[p] = "new"
  \/ p = Lifespan /\ stage = "serving" /\ place[p] \in {"sleeping", "noGraph"} /\ ~graph
  \/ p \in Requests /\ stage = "serving" /\ place[p] = "new"

\* Past the lock: the second look at _graph.
BuildOrTake(p) ==
  IF graph
  THEN Move(p, "graphUp") /\ UNCHANGED graphLock
  ELSE Move(p, "building") /\ graphLock' = p

CallGraph(p) ==
  /\ AsksForGraph(p)
  /\ IF graph \/ graphLock = None
     THEN BuildOrTake(p)
     ELSE Move(p, "graphQueued") /\ UNCHANGED graphLock
  /\ UNCHANGED <<stage, envVars, handed, started, graph, pools, tries, sessionVars>>

\* Mutant of GraphLocked: _graph is not looked at again inside the lock.
GraphLocked_NoRecheck(p) ==
  /\ place[p] = "graphQueued"
  /\ graphLock = None
  /\ Move(p, "building") /\ graphLock' = p
  /\ UNCHANGED <<stage, envVars, handed, started, graph, pools, tries, sessionVars>>

GraphLocked(p) ==
  /\ place[p] = "graphQueued"
  /\ graphLock = None
  /\ BuildOrTake(p)
  /\ UNCHANGED <<stage, envVars, handed, started, graph, pools, tries, sessionVars>>

\* build_taxcalc_agent_graph returns: its closer is registered, the graph published.
BuildSucceeds(p) ==
  /\ place[p] = "building"
  /\ pgUp
  /\ graph' = TRUE
  /\ pools' = pools + 1
  /\ graphLock' = None
  /\ tries' = 0
  /\ Move(p, "graphUp")
  /\ UNCHANGED <<stage, envVars, handed, started, sessionVars>>

\* An attempt fails; after the last one the caller gets DependencyUnavailable.
BuildFails(p) ==
  /\ place[p] = "building"
  /\ ~pgUp
  /\ IF tries + 1 < OpenAttempts
     THEN tries' = tries + 1 /\ UNCHANGED <<place, graphLock>>
     ELSE tries' = 0 /\ graphLock' = None /\ Move(p, "noGraph")
  /\ UNCHANGED <<stage, envVars, handed, started, graph, pools, sessionVars>>

-----------------------------------------------------------------------------
(* The MCP session                                                           *)

\* What session() does once _session_up is set.
Result(p) ==
  CASE error                      -> Move(p, "unavailable") /\ UNCHANGED handed
    [] ~error /\ session # None   -> Move(p, "got") /\ handed' = [handed EXCEPT ![p] = session]
    [] ~error /\ session = None   -> Move(p, "broken") /\ UNCHANGED handed

\* Inside the lock: take the session that is there, or start a task and wait for
\* _session_up. Event.wait does not yield when the event is set already.
OpenOrTake(p) ==
  IF session # None
  THEN /\ Move(p, "got")
       /\ handed' = [handed EXCEPT ![p] = session]
       /\ UNCHANGED <<started, sessionLock, sessionTask, taskPc>>
  ELSE \E t \in Tasks :
         /\ taskPc[t] = "unborn"
         /\ taskPc' = [taskPc EXCEPT ![t] = "opening"]
         /\ sessionTask' = t
         /\ started' = [started EXCEPT ![p] = t]
         /\ IF up
            THEN Result(p) /\ UNCHANGED sessionLock
            ELSE Move(p, "awaiting") /\ sessionLock' = p /\ UNCHANGED handed

\* session(), called by the warm-up whatever became of the graph, and by the api
\* node of a request that has one.
CallSession(p) ==
  /\ \/ place[p] = "graphUp" /\ (p = Lifespan => stage = "warmup")
     \/ p = Lifespan /\ stage = "warmup" /\ place[p] = "noGraph"
  /\ IF session # None \/ sessionLock = None
     THEN OpenOrTake(p)
     ELSE /\ Move(p, "sessionQueued")
          /\ UNCHANGED <<handed, started, sessionLock, sessionTask, taskPc>>
  /\ UNCHANGED <<stage, envVars, graphVars, session, up, error, closing, taskTries>>

SessionLocked(p) ==
  /\ place[p] = "sessionQueued"
  /\ sessionLock = None
  /\ OpenOrTake(p)
  /\ UNCHANGED <<stage, envVars, graphVars, session, up, error, closing, taskTries>>

\* The waiting caller is resumed.
SessionUp(p) ==
  /\ place[p] = "awaiting"
  /\ up
  /\ Result(p)
  /\ sessionLock' = None
  /\ UNCHANGED <<stage, envVars, started, graphVars, session, sessionTask, up, error,
                 closing, taskPc, taskTries>>

\* The api node's deadline cancels session().
Cancel(p) ==
  /\ p \in Requests
  /\ place[p] \in {"sessionQueued", "awaiting"}
  /\ Move(p, "cancelled")
  /\ sessionLock' = IF sessionLock = p THEN None ELSE sessionLock
  /\ UNCHANGED <<stage, envVars, handed, started, graphVars, session, sessionTask, up,
                 error, closing, taskPc, taskTries>>

\* Mutant of TaskOpens: the task returns instead of parking on _session_closing.
TaskOpens_Returns(t) ==
  /\ taskPc[t] = "opening"
  /\ mcpUp
  /\ taskPc' = [taskPc EXCEPT ![t] = "closed"]
  /\ session' = t
  /\ up' = TRUE
  /\ UNCHANGED <<stage, envVars, place, handed, started, graphVars, sessionLock, sessionTask,
                 error, closing, taskTries>>

\* The server took the connection and does not answer initialize(), which has no
\* timeout of its own: the attempt is over only when the server is.
TaskHangs(t) ==
  /\ taskPc[t] = "opening"
  /\ mcpUp
  /\ taskPc' = [taskPc EXCEPT ![t] = "hung"]
  /\ UNCHANGED <<stage, envVars, place, handed, started, graphVars, session, sessionLock,
                 sessionTask, up, error, closing, taskTries>>

\* The transport is open and initialized: the session is published and the task
\* parks, or unwinds at once when the process is closing.
Opens(t) ==
  /\ taskPc' = [taskPc EXCEPT ![t] = IF closing THEN "closed" ELSE "open"]
  /\ session' = IF closing THEN None ELSE t
  /\ up' = TRUE
  /\ UNCHANGED <<stage, envVars, place, handed, started, graphVars, sessionLock, sessionTask,
                 error, closing, taskTries>>

TaskOpens(t) ==
  /\ taskPc[t] = "opening"
  /\ mcpUp
  /\ Opens(t)

\* The answer comes after all.
AnswersLate(t) ==
  /\ taskPc[t] = "hung"
  /\ Opens(t)

\* Mutant of TaskFails: attempts without a bound.
TaskFails_Forever(t) ==
  /\ taskPc[t] = "opening"
  /\ ~mcpUp
  /\ UNCHANGED runtimeVars

\* An attempt fails; after the last one the error is published, whatever session
\* another task has published is withdrawn, and waiting callers are released.
TaskFails(t) ==
  /\ taskPc[t] = "opening"
  /\ ~mcpUp
  /\ taskTries' = [taskTries EXCEPT ![t] = @ + 1]
  /\ IF taskTries[t] + 1 < OpenAttempts
     THEN UNCHANGED <<taskPc, session, up, error>>
     ELSE /\ taskPc' = [taskPc EXCEPT ![t] = "failed"]
          /\ session' = None
          /\ error' = TRUE
          /\ up' = TRUE
  /\ UNCHANGED <<stage, envVars, place, handed, started, graphVars, sessionLock, sessionTask,
                 closing>>

\* aclose has set _session_closing: the task unwinds its transport.
TaskCloses(t) ==
  /\ taskPc[t] \in {"open", "lost"}
  /\ closing
  /\ taskPc' = [taskPc EXCEPT ![t] = "closed"]
  /\ session' = None
  /\ UNCHANGED <<stage, envVars, place, handed, started, graphVars, sessionLock, sessionTask,
                 up, error, closing, taskTries>>

-----------------------------------------------------------------------------
(* The lifespan and the environment                                          *)

\* warmup has swallowed both failures; requests are accepted.
StartServing ==
  /\ stage = "warmup"
  /\ place[Lifespan] \in {"got", "unavailable"}
  /\ stage' = "serving"
  /\ Move(Lifespan, "sleeping")
  /\ UNCHANGED <<envVars, handed, started, graphVars, sessionVars>>

\* The server has drained its requests; the reconnect task is cancelled and
\* aclose asks the session's task to finish.
Stop ==
  /\ stage = "serving"
  /\ \A p \in Requests : place[p] \in {"new", "noGraph", "got", "unavailable", "broken", "cancelled"}
  /\ stage' = "stopping"
  /\ Move(Lifespan, "cancelled")
  /\ graphLock' = IF graphLock = Lifespan THEN None ELSE graphLock
  /\ closing' = (sessionTask # None)
  /\ UNCHANGED <<envVars, handed, started, graph, pools, tries, session, sessionLock,
                 sessionTask, up, error, taskPc, taskTries>>

\* The task aclose waits for has ended; the stack is unwound.
Stopped ==
  /\ stage = "stopping"
  /\ sessionTask # None => taskPc[sessionTask] \in {"failed", "closed"}
  /\ stage' = "stopped"
  /\ sessionTask' = None
  /\ pools' = 0
  /\ UNCHANGED <<envVars, place, handed, started, graph, graphLock, tries, session, sessionLock,
                 up, error, closing, taskPc, taskTries>>

PostgresChanges ==
  /\ outages < MaxOutages
  /\ outages' = outages + 1
  /\ pgUp' = ~pgUp
  /\ UNCHANGED <<stage, mcpUp, place, handed, started, graphVars, sessionVars>>

\* A server that goes away takes its connections with it: nobody is told of an open
\* one, an attempt that hung on it can fail.
McpServerChanges ==
  /\ outages < MaxOutages
  /\ outages' = outages + 1
  /\ mcpUp' = ~mcpUp
  /\ taskPc' = [t \in Tasks |-> CASE mcpUp /\ taskPc[t] = "open" -> "lost"
                                 [] taskPc[t] = "hung" -> "opening"
                                 [] OTHER -> taskPc[t]]
  /\ UNCHANGED <<stage, pgUp, place, handed, started, graphVars, session, sessionLock, sessionTask,
                 up, error, closing, taskTries>>

Graph(p) == CallGraph(p) \/ GraphLocked(p) \/ BuildSucceeds(p) \/ BuildFails(p)

Session(p) == CallSession(p) \/ SessionLocked(p) \/ SessionUp(p)

Serve(t) == TaskOpens(t) \/ TaskFails(t) \/ TaskCloses(t)

Rest == stage = "stopped" /\ UNCHANGED runtimeVars

RuntimeNext ==
  \/ \E p \in Callers : Graph(p) \/ Session(p) \/ Cancel(p)
  \/ \E t \in Tasks : Serve(t) \/ TaskHangs(t) \/ AnswersLate(t)
  \/ StartServing \/ Stop \/ Stopped
  \/ PostgresChanges \/ McpServerChanges
  \/ Rest

RuntimeSpec == RuntimeInit /\ [][RuntimeNext]_runtimeVars

\* The event loop runs what is runnable: coroutines past their locks and events,
\* the reconnect loop, and connection attempts until the server leaves one without
\* an answer. Postgres answers while it can be reached. Requests, deadlines, late
\* answers, outages and the shutdown are owed no progress.
RuntimeFairness ==
  /\ WF_runtimeVars(Graph(Lifespan)) /\ WF_runtimeVars(Session(Lifespan)) /\ WF_runtimeVars(StartServing)
  /\ \A p \in Requests : WF_runtimeVars(GraphLocked(p) \/ BuildSucceeds(p) \/ BuildFails(p))
  /\ \A p \in Requests : WF_runtimeVars(SessionLocked(p) \/ SessionUp(p))
  /\ \A t \in Tasks : WF_runtimeVars(Serve(t))

RuntimeFairSpec == RuntimeSpec /\ RuntimeFairness

-----------------------------------------------------------------------------
\* A burst of requests before the first connection completes builds one graph
\* and opens one Postgres pool (the second look inside _graph_lock).
OnePool == pools <= 1

\* session() never gets to its "None is unreachable here": whatever fails,
\* overlaps or is cancelled, it is woken with a session or with an error.
AssertHolds == \A p \in Callers : place[p] # "broken"

\* While the process serves, the transport of a session a caller holds is not
\* unwound by the task that opened it (_serve_session parks).
HeldIsNotUnwound ==
  \A p \in Callers : place[p] = "got" /\ ~closing => taskPc[handed[p]] \in {"open", "lost"}

\* No attempt to open the session stays without an answer for ever.
AttemptsEnd == \A t \in Tasks : []<>(taskPc[t] # "hung")

\* A caller that waits for the session is released, with the dependency dead or
\* alive, unless an attempt hangs for ever (_serve_session's finally).
CallersAreReleased ==
  AttemptsEnd =>
    \A p \in Callers : place[p] \in {"awaiting", "sessionQueued"} ~>
                          place[p] \notin {"awaiting", "sessionQueued"}

\* Once Postgres can be reached for good the service becomes ready, although no
\* request need ever come, unless the warm-up hangs for ever on the MCP server
\* (reconnect_forever, which only runs after it).
ReadyInTheEnd ==
  stage = "warmup" /\ <>[]pgUp /\ AttemptsEnd => <>(graph \/ stage = "stopping")

\* Refuted: a waiting caller is released whatever the server does ("or session()
\* blocks forever on a dead dependency"): initialize() has no timeout.
WaitersAlwaysReleased ==
  \A p \in Callers : place[p] \in {"awaiting", "sessionQueued"} ~>
                        place[p] \notin {"awaiting", "sessionQueued"}

\* Refuted: the MCP session "does not gate readiness". The warm-up waits for it
\* before the first request and before the reconnect loop.
ReadyWhateverMcpDoes ==
  stage = "warmup" /\ <>[]pgUp => <>(graph \/ stage = "stopping")

\* Refuted: one MCP connection at a time (the module's "opened at most once").
OneConnection ==
  Cardinality({t \in Tasks : taskPc[t] \in {"opening", "open"}}) <= 1

\* Refuted: session() fails only after the attempts it started have failed ("waited for
\* rather than failed on").
FailsAfterTrying ==
  \A p \in Callers :
    place[p] = "unavailable" /\ started[p] # None => taskPc[started[p]] = "failed"

\* Refuted: session_ready tells whether the MCP session is open.
SessionReadyIsTrue ==
  (session # None) <=> (\E t \in Tasks : taskPc[t] = "open")
=============================================================================
