----------------------------- MODULE QualityGates -----------------------------
(***************************************************************************)
(* The jobs that measure the services and decide builds: the trajectory    *)
(* eval of the agent with its cost baseline, the RAGAS report of           *)
(* taxcalc-ai, the two checks that traces arrive in LangSmith, and the     *)
(* replay of recorded MCP calls with its p95 baseline. One job runs at a   *)
(* time; what it finds is what earlier jobs left behind: last_run.json,    *)
(* the answer cache, the report, runs in LangSmith, the promoted report.   *)
(* The graph, the judge, LangSmith and the GitHub cache are modelled as    *)
(* the scripts use them. A store may stop answering without a word, since  *)
(* the scripts set no timeout on Redis, Postgres or the MCP handshake.     *)
(* Scores are in percent, reported times in microseconds.                  *)
(***************************************************************************)
EXTENDS Integers, FiniteSets, SequencesExt

CONSTANTS
  Golden,          \* SCENARIOS: the expected_nodes of each, a sequence
  CommandLines,    \* of the eval: records of gate, offline, allow
  Prices,          \* what a scenario costs under a revision
  Committed,       \* mean_cost_usd_e5 of the committed last_run.json, 0 without one
  Outcomes,        \* what a scenario that ran shows: records of visited, grade
  Configurations,  \* columns of the RAGAS report, a sequence
  Questions,       \* of the golden set
  Timings,         \* what a replay may measure: samples for each tool
  Grain,           \* the units a sample is measured in that make a microsecond
  PollAttempts,    \* _POLL_ATTEMPTS, and the polls that fit POLL_DEADLINE_S
  MaxJobs,         \* bound on the jobs of a behaviour
  NaN, None

ASSUME GatesAssumption ==
  /\ Golden \in Seq(Seq(STRING)) /\ Golden # <<>>
  /\ \A o \in Outcomes : o.visited \in Seq(STRING)
  /\ Prices \subseteq Nat /\ Committed \subseteq Nat
  /\ Configurations \in Seq(STRING) /\ Len(Configurations) >= 2
  /\ \A s \in Timings : \A tool \in DOMAIN s : s[tool] \in Seq(Nat) /\ s[tool] # <<>>
  /\ Grain \in Nat \ {0} /\ PollAttempts \in Nat /\ MaxJobs \in Nat /\ None # 0

\* TRAJECTORY_FLOOR, FAITHFULNESS_FLOOR, and COST_REGRESSION_LIMIT like P95_REGRESSION_LIMIT,
\* in percent; NOISE_FLOOR_MS.
TrajectoryFloor == 70
FaithfulnessFloor == 85
RegressionLimit == 15
NoiseFloor == 1000

\* What a stubbed node adds to the cost of a scenario.
StubCost(node) ==
  CASE node = "retrieval_agent" -> 120
    [] node = "api_agent" -> 200
    [] node = "synthesis_agent" -> 300
    [] OTHER -> 0

Scripts == {"retriever", "spans"}

\* An answer is by a job in a column, or by a caller of the service.
Service == <<0, 0>>

VARIABLES
  pc,       \* the step of the job that runs, "idle" between jobs
  jobs,     \* jobs started so far
  args,     \* what the current or last job was called with
  exit,     \* its exit status, None while it runs
  base,     \* the baseline its verdict compared with
  hung,     \* the store that has stopped answering it, if any
  rows,     \* eval: a row for each scenario so far
  column,   \* report: the column that is measured
  graded,   \* report: [column, question, by], by whom each answer was generated
  scored,   \* report: columns with a measured score
  polls,    \* trace: polls so far
  samples,  \* replay: the timings
  lastRun,  \* mean_cost_usd_e5 of evals/last_run.json, 0 without
  epoch,    \* of the tenant's answer cache
  cache,    \* its entries: [epoch, question, by]
  report,   \* the columns of docs/ragas/w7d3.md that hold a measurement
  sent,     \* <<script, job>> of the runs that were flushed to LangSmith
  visible,  \* those it lists
  promoted  \* p95 of each tool in .replay-baseline/latest.json

job == <<pc, jobs, args, exit, base, hung>>
work == <<rows, column, graded, scored, polls, samples>>
left == <<lastRun, epoch, cache, report, sent, visible, promoted>>
vars == <<job, work, left>>

TypeOK ==
  /\ pc \in {"idle", "eval", "column", "ask", "flush", "poll", "replay"}
  /\ jobs \in 0 .. MaxJobs
  /\ exit \in {None, 0, 1}
  /\ hung \in SUBSET {"redis", "postgres", "mcp"}
  /\ Len(rows) \in 0 .. Len(Golden)
  /\ column \in 0 .. Len(Configurations)
  /\ polls \in 0 .. PollAttempts
  /\ lastRun \in Nat /\ epoch \in Nat
  /\ scored \subseteq ToSet(Configurations) /\ report \subseteq ToSet(Configurations)
  /\ sent \subseteq Scripts \X (1 .. MaxJobs) /\ visible \subseteq sent

Init ==
  /\ pc = "idle" /\ jobs = 0 /\ args = [kind |-> None] /\ exit = None /\ base = None /\ hung = {}
  /\ rows = <<>> /\ column = 0 /\ graded = {} /\ scored = {} /\ polls = 0 /\ samples = <<>>
  /\ lastRun \in Committed
  /\ epoch = 0 /\ cache = {} /\ report = {} /\ sent = {} /\ visible = {} /\ promoted = <<>>

\* A process starts with nothing but its arguments and what is left of earlier ones.
Start(options, label) ==
  /\ pc = "idle" /\ jobs < MaxJobs
  /\ jobs' = jobs + 1
  /\ args' = options /\ pc' = label /\ exit' = None /\ base' = None /\ UNCHANGED hung
  /\ rows' = <<>> /\ column' = 1 /\ graded' = {} /\ scored' = {} /\ polls' = 0 /\ samples' = <<>>
  /\ UNCHANGED left

Goto(label) == pc' = label /\ UNCHANGED <<jobs, args, exit, base, hung>>

\* The connections of the job end with it.
Exits(code, baseline) ==
  /\ pc' = "idle" /\ exit' = code /\ base' = baseline /\ hung' = {}
  /\ UNCHANGED <<jobs, args>>

\* The stores that the job waits for without a limit.
Needs ==
  CASE pc = "eval" -> {"postgres", "mcp"}
    [] pc \in {"column", "ask"} -> {"redis", "postgres"}
    [] pc = "flush" /\ args.script = "retriever" -> {"postgres"}
    [] OTHER -> {}

\* A connection stays open and the answer does not come.
StoreHangs(store) ==
  /\ store \in Needs /\ hung = {}
  /\ hung' = {store}
  /\ UNCHANGED <<pc, jobs, args, exit, base, work, left>>

Answering(stores) == hung \cap stores = {}

-----------------------------------------------------------------------------
(* The trajectory eval.                                                    *)

\* Mutant of trajectory_match: a subset match, which it was before.
trajectory_match_Subset(actual, expected) == ToSet(expected) \subseteq ToSet(actual)

\* "node in remaining" consumes the iterator up to the node it finds.
NextAt(actual, after, node) ==
  LET found == {i \in after + 1 .. Len(actual) : actual[i] = node}
  IN IF found = {} THEN Len(actual) + 1 ELSE Min(found)

trajectory_match(actual, expected) ==
  LET at[n \in 0 .. Len(expected)] ==
        IF n = 0 THEN 0 ELSE NextAt(actual, at[n - 1], expected[n])
  IN at[Len(expected)] <= Len(actual)

\* The growth is compared without dividing. Against nothing there is none.
cost_regression(current, baseline) ==
  baseline > 0 /\ 100 * (current - baseline) > RegressionLimit * baseline

SumOf(f, S) == MapThenSumSet(LAMBDA x : f[x], S)

costs == [i \in DOMAIN rows |-> rows[i].cost]
grades == [i \in DOMAIN rows |-> rows[i].grade]

mean_cost == SumOf(costs, DOMAIN rows) \div Len(Golden)

\* The rows with an answer and contexts; where the judge failed the grade is NaN.
scorable == {i \in DOMAIN rows : rows[i].grade # None}

Mean(S) == IF S = {} THEN NaN ELSE [sum |-> SumOf(grades, S), n |-> Cardinality(S)]

\* The mean of a data frame passes over NaN, that of a list is NaN with one in it.
_mean_faithfulness(shape) ==
  LET numbers == {i \in scorable : rows[i].grade # NaN}
  IN CASE shape = "frame" -> Mean(numbers)
       [] shape = "list" -> IF numbers = scorable THEN Mean(numbers) ELSE NaN
       [] shape = "unreadable" -> NaN

_measured(value) == IF value = NaN THEN None ELSE value

\* None when nothing can be scored or the evaluation raises.
score_with_ragas(shape) ==
  IF scorable = {} \/ shape = "raises" THEN None ELSE _measured(_mean_faithfulness(shape))

matched == {i \in DOMAIN rows : trajectory_match(rows[i].visited, Golden[i])}

verdict(faith, allow) ==
  /\ 100 * Cardinality(matched) >= TrajectoryFloor * Len(Golden)
  /\ IF faith = None THEN allow ELSE faith.sum >= FaithfulnessFloor * faith.n
  /\ ~cost_regression(mean_cost, lastRun)

StartEval(line, price) == Start([kind |-> "eval", line |-> line, price |-> price], "eval")

StubCosts(visited) ==
  SumOf([i \in DOMAIN visited |-> StubCost(visited[i])], DOMAIN visited)

Ran(outcome) ==
  [visited |-> outcome.visited, grade |-> outcome.grade,
   cost |-> IF args.line.offline THEN StubCosts(outcome.visited) ELSE args.price]

\* A scenario that raises has no nodes, no answer and no cost.
Raised == [visited |-> <<>>, grade |-> None, cost |-> 0]

\* A fresh thread, guard and row for each scenario, whose contexts are fetched from Postgres.
Scenario(row) ==
  /\ Len(rows) < Len(Golden) /\ Answering({"postgres"})
  /\ rows' = Append(rows, row)
  /\ Goto("eval")
  /\ UNCHANGED <<left, column, graded, scored, polls, samples>>

\* The MCP session is closed and the summary written over last_run.json, before the verdict
\* is asked for.
run_eval(shape) ==
  LET line == args.line
      faith == IF line.offline THEN None ELSE score_with_ragas(shape)
  IN /\ Len(rows) = Len(Golden) /\ Answering({"postgres", "mcp"})
     /\ Exits(IF line.gate /\ ~verdict(faith, line.allow \/ line.offline) THEN 1 ELSE 0, lastRun)
     /\ lastRun' = mean_cost
     /\ UNCHANGED <<work, epoch, cache, report, sent, visible, promoted>>

Eval ==
  /\ pc = "eval"
  /\ \/ \E row \in {Ran(o) : o \in Outcomes} \cup {Raised} : Scenario(row)
     \/ \E shape \in {"frame", "list", "unreadable", "raises"} : run_eval(shape)

\* The graph cannot be built, or what closes the session or the graph raises: before the
\* summary is written or after.
EvalFails ==
  /\ pc = "eval"
  /\ \/ rows = <<>> /\ UNCHANGED lastRun
     \/ Len(rows) = Len(Golden) /\ lastRun' \in {lastRun, mean_cost}
  /\ Exits(1, None)
  /\ UNCHANGED <<work, epoch, cache, report, sent, visible, promoted>>

-----------------------------------------------------------------------------
(* The RAGAS report.                                                       *)

\* --matrix measures every column, --all-on the first and the last.
StartReport(matrix) ==
  Start([kind |-> "report",
         selected |-> IF matrix THEN Configurations
                      ELSE <<Configurations[1], Configurations[Len(Configurations)]>>], "column")

\* Mutant of run_configuration: the epoch is bumped once, for the first column.
run_configuration_BumpOnce ==
  /\ pc = "column" /\ Answering({"redis", "postgres"})
  /\ epoch' = IF column = 1 THEN epoch + 1 ELSE epoch
  /\ Goto("ask")
  /\ UNCHANGED <<work, lastRun, cache, report, sent, visible, promoted>>

\* bump_epoch before each column, since the flags are no part of the cache key.
run_configuration ==
  /\ pc = "column" /\ Answering({"redis", "postgres"})
  /\ epoch' = epoch + 1
  /\ Goto("ask")
  /\ UNCHANGED <<work, lastRun, cache, report, sent, visible, promoted>>

Hits(q) == {e \in cache : e.epoch = epoch /\ e.question = q}

Answered(q) == \E g \in graded : g.column = column /\ g.question = q

\* retrieve_and_generate: the cached answer, or one under the column's flags that is stored.
AskQuestion(q) ==
  /\ pc = "ask" /\ ~Answered(q) /\ Answering({"redis", "postgres"})
  /\ \E by \in IF Hits(q) = {} THEN {<<jobs, column>>} ELSE {e.by : e \in Hits(q)} :
       /\ graded' = graded \cup {[column |-> column, question |-> q, by |-> by]}
       /\ cache' = cache \cup {[epoch |-> epoch, question |-> q, by |-> by]}
  /\ Goto("ask")
  /\ UNCHANGED <<rows, column, scored, polls, samples,
                 lastRun, epoch, report, sent, visible, promoted>>

\* main after the last column: refuses to write when nothing was measured.
WriteReport(measured) ==
  /\ column = Len(args.selected)
  /\ UNCHANGED column
  /\ \/ measured = {} /\ Exits(1, None) /\ UNCHANGED report
     \/ measured # {} /\ Exits(0, None) /\ report' = measured

\* The connection is closed and the column's answers are judged; a capped evaluator gives NaN for every cell.
_score(judged) ==
  LET measured == scored \cup (IF judged THEN {args.selected[column]} ELSE {}) IN
  /\ pc = "ask" /\ (\A q \in Questions : Answered(q)) /\ Answering({"postgres"})
  /\ scored' = measured
  /\ \/ column < Len(args.selected) /\ Goto("column") /\ column' = column + 1 /\ UNCHANGED report
     \/ WriteReport(measured)
  /\ UNCHANGED <<rows, graded, polls, samples, lastRun, epoch, cache, sent, visible, promoted>>

\* The provider, Redis or Postgres raises.
ReportFails ==
  /\ pc \in {"column", "ask"}
  /\ Exits(1, None)
  /\ UNCHANGED <<work, left>>

Report ==
  \/ run_configuration
  \/ \E q \in Questions : AskQuestion(q)
  \/ \E judged \in BOOLEAN : _score(judged)

\* Another caller of the tenant asks one of the questions. Only an entry of the current
\* epoch of a report that runs can be hit.
ServiceAsks(q) ==
  /\ pc \in {"column", "ask"} /\ Hits(q) = {}
  /\ cache' = cache \cup {[epoch |-> epoch, question |-> q, by |-> Service]}
  /\ UNCHANGED <<job, work, lastRun, epoch, report, sent, visible, promoted>>

-----------------------------------------------------------------------------
(* Do traces arrive?                                                       *)

\* recent: the earlier jobs whose runs started_after lets in. works: tracing is on, and the
\* key and the project are those that are asked.
StartTrace(script, key, works, recent) ==
  Start([kind |-> "trace", script |-> script, key |-> key, works |-> works, recent |-> recent],
        "flush")

\* main up to the flush. Without a key the span check is skipped.
Flush ==
  /\ pc = "flush"
  /\ args.script = "retriever" => Answering({"postgres"})
  /\ IF args.script = "spans" /\ ~args.key
     THEN Exits(0, None) /\ UNCHANGED sent
     ELSE /\ Goto("poll")
          /\ sent' = IF args.works THEN sent \cup {<<args.script, jobs>>} ELSE sent
  /\ UNCHANGED <<work, lastRun, epoch, cache, report, visible, promoted>>

\* Tracing is off, or the corpus, the call or the flush fails.
FlushFails ==
  /\ pc = "flush" /\ ~(args.script = "spans" /\ ~args.key)
  /\ Exits(1, None)
  /\ UNCHANGED <<work, left>>

\* A run that was flushed is listed, some time later.
Ingested(r) ==
  /\ visible' = visible \cup {r}
  /\ UNCHANGED <<job, work, lastRun, epoch, cache, report, sent, promoted>>

\* The runs list_runs returns.
Found == {j \in args.recent \cup {jobs} : <<args.script, j>> \in visible}

\* Mutant of Poll: the loop has no end.
Poll_Forever ==
  /\ pc = "poll"
  /\ IF args.key /\ Found # {}
     THEN Exits(0, None) /\ UNCHANGED polls
     ELSE \/ Exits(1, None) /\ UNCHANGED polls
          \/ polls' = 1 - polls /\ Goto("poll")
  /\ UNCHANGED <<left, rows, column, graded, scored, samples>>

\* One query: a run is there, LangSmith cannot be asked, or another look after a pause.
Poll ==
  /\ pc = "poll"
  /\ IF args.key /\ Found # {}
     THEN Exits(0, None) /\ UNCHANGED polls
     ELSE \/ Exits(1, None) /\ UNCHANGED polls
          \/ args.key /\ polls < PollAttempts /\ polls' = polls + 1 /\ Goto("poll")
  /\ UNCHANGED <<left, rows, column, graded, scored, samples>>

-----------------------------------------------------------------------------
(* The replay of recorded calls.                                           *)

\* Python's round of a / b, for a >= 0: half goes to the even neighbour.
Round(a, b) ==
  LET k == a \div b
      r == 2 * (a % b)
  IN IF r > b \/ (r = b /\ k % 2 = 1) THEN k + 1 ELSE k

\* sorted(s)[k - 1]: fewer than k are below it, k or more are not above it.
Ordered(s, k) ==
  CHOOSE t \in ToSet(s) : /\ Cardinality({i \in DOMAIN s : s[i] < t}) < k
                         /\ Cardinality({i \in DOMAIN s : s[i] <= t}) >= k

\* The q-th percentile of s, at index round(q * n + 0.5) - 1 from zero, within bounds, in
\* whole microseconds: round(..., 3) of milliseconds.
Rank(s, q) == Max({1, Min({Len(s), Round(q * Len(s) + 50, 100)})})

pick(s, q) == Round(Ordered(s, Rank(s, q)), Grain)

_percentiles(s) == [tool \in DOMAIN s |-> pick(s[tool], 95)]

\* A new tool, a zero baseline and two times under the noise floor are not compared.
Regressed(now, before, tool) ==
  /\ tool \in DOMAIN before
  /\ Max({before[tool], now[tool]}) >= NoiseFloor
  /\ cost_regression(now[tool], before[tool])

StartReplay == Start([kind |-> "replay"], "replay")

\* The report of a run that is green becomes the baseline of the next. A fixture that errors
\* stops the run before there is a report.
Replay(s) ==
  LET now == _percentiles(s)
      red == \E tool \in DOMAIN now : Regressed(now, promoted, tool)
  IN /\ pc = "replay"
     /\ \/ red /\ Exits(1, promoted) /\ UNCHANGED promoted
        \/ ~red /\ Exits(0, promoted) /\ promoted' = now
     /\ samples' = s
     /\ UNCHANGED <<rows, column, graded, scored, polls,
                    lastRun, epoch, cache, report, sent, visible>>

ReplayFails ==
  /\ pc = "replay"
  /\ Exits(1, None)
  /\ UNCHANGED <<work, left>>

\* The cache that holds the baseline is evicted.
Evicted ==
  /\ pc = "idle" /\ promoted # <<>>
  /\ promoted' = <<>>
  /\ UNCHANGED <<job, work, lastRun, epoch, cache, report, sent, visible>>

-----------------------------------------------------------------------------
Recent(script) == {j \in 1 .. jobs : <<script, j>> \in sent}

Next ==
  \/ \E line \in CommandLines, price \in Prices : StartEval(line, price)
  \/ Eval \/ EvalFails
  \/ \E matrix \in BOOLEAN : StartReport(matrix)
  \/ Report \/ ReportFails
  \/ \E q \in Questions : ServiceAsks(q)
  \/ \E script \in Scripts, key, works \in BOOLEAN :
       \E recent \in SUBSET Recent(script) : StartTrace(script, key, key /\ works, recent)
  \/ Flush \/ FlushFails
  \/ \E r \in sent \ visible : Ingested(r)
  \/ Poll
  \/ StartReplay
  \/ \E s \in Timings : Replay(s)
  \/ ReplayFails
  \/ Evicted
  \/ \E store \in {"redis", "postgres", "mcp"} : StoreHangs(store)

Spec == Init /\ [][Next]_vars

\* A job goes on while the stores it needs answer; the judge, the model and LangSmith are
\* called with timeouts and bounded retries.
FairSpec ==
  /\ Spec
  /\ WF_vars(Eval \/ Report \/ Flush \/ Poll \/ \E s \in Timings : Replay(s))

-----------------------------------------------------------------------------
(* Properties.                                                             *)

\* The golden nodes occur in the order of the scenario, with gaps.
InOrder(actual, expected) ==
  \E at \in [DOMAIN expected -> DOMAIN actual] :
    /\ \A i \in DOMAIN expected : actual[at[i]] = expected[i]
    /\ \A i, j \in DOMAIN expected : i < j => at[i] < at[j]

\* A gated eval that is green: enough scenarios took their path, the answers that were judged
\* are faithful on average and there is one, and the mean cost is within the limit, to a unit.
GoodEval ==
  LET all == DOMAIN rows
      numbers == {i \in all : rows[i].grade \notin {NaN, None}}
  IN /\ 10 * Cardinality({i \in all : InOrder(rows[i].visited, Golden[i])}) >= 7 * Len(Golden)
     /\ ~(args.line.allow \/ args.line.offline) =>
          /\ numbers # {}
          /\ SumOf(grades, numbers) >= 85 * Cardinality(numbers)
     /\ base > 0 => 100 * SumOf(costs, all) < Len(Golden) * (115 * base + 100)

\* A replay that is green: of each tool with a baseline, 95 calls in 100 took no longer than
\* 115 percent of it and half a microsecond, or were reported below the noise floor.
GoodReplay ==
  \A tool \in DOMAIN samples \cap DOMAIN base :
    LET s == samples[tool]
        slow == {i \in DOMAIN s : /\ 200 * s[i] > Grain * (230 * base[tool] + 100)
                                  /\ 2 * s[i] > Grain * (2 * NoiseFloor - 1)}
    IN base[tool] > 0 => 100 * Cardinality(slow) <= 5 * Len(s)

\* A gate that exits 0 has measured what it stands for: eval.py's _report and verdict, and
\* replay.py's _verdicts, against the scenarios and the samples themselves. Neither a judge
\* that answered NaN, nor nodes out of order, nor a percentile of too low a rank gets through.
GreenMeansGood ==
  (pc = "idle" /\ exit = 0) =>
    /\ (args.kind = "eval" /\ args.line.gate) => GoodEval
    /\ args.kind = "replay" => GoodReplay

\* No answer graded in a column of run_ragas.py was generated under the flags of another
\* column, of this run or of one before: it is the column's own, or that of the service.
ColumnsApart == \A g \in graded : g.by \in {<<jobs, g.column>>, Service}

\* Every job that starts comes to an exit status, or waits for a store that has stopped
\* answering: no poll of the trace checks goes on for ever, no column of the report waits for
\* an answer that it has, and no scenario that raises ends the eval half way.
EveryJobEnds == (pc # "idle") ~> (pc = "idle" \/ hung \cap Needs # {})

-----------------------------------------------------------------------------
(* What the code does not guarantee. Each is refuted by a short behaviour.  *)

\* Refuted: "a run that regressed must not overwrite the baseline" is the rule of the replay
\* (taxcalc_mcp_server-ci.yml), but run_eval writes last_run.json before the verdict, so a
\* regression that is red once is green when the eval is run again on the same tree.
RefusedLeavesBaseline == [][exit' = 1 => UNCHANGED lastRun]_vars

\* Refuted: a scenario that raises is said to "fail the gate loudly" (trajectory.py:386), but
\* up to 30 percent of them may raise, and their cost counts as zero.
FailedRowFailsTheGate ==
  (pc = "idle" /\ exit = 0 /\ args.kind = "eval" /\ args.line.gate) =>
    \A i \in DOMAIN rows : rows[i] # Raised

\* Refuted: the mean of a frame passes over the rows the judge could not grade.
EveryRowJudged ==
  (pc = "idle" /\ exit = 0 /\ args.kind = "eval" /\ args.line.gate
     /\ ~(args.line.offline \/ args.line.allow)) =>
    \A i \in DOMAIN rows : rows[i].grade # NaN

\* Refuted: a column also grades answers that the service stored after the bump.
ColumnIsOwn == \A g \in graded : g.by = <<jobs, g.column>>

\* Refuted: "a run left over from a previous CI job cannot make this pass"
\* (assert_langsmith_run_visible.py:73), but one of the last ten minutes does.
GreenMeansOwnTrace ==
  (pc = "idle" /\ exit = 0 /\ args.kind = "trace" /\ args.key) => args.works

\* Refuted: redis.from_url and psycopg.connect have no timeout for an answer that does not
\* come (run_ragas.py:192, :200, trajectory.py:537), nor has the MCP handshake that aclose
\* waits for.
JobsEndWhateverHangs == (pc # "idle") ~> (pc = "idle")

\* Refuted: what is reported is rounded, so all samples may lie above their p95.
NoMoreThanFiveAbove ==
  \A tool \in DOMAIN samples :
    LET s == samples[tool] IN
    100 * Cardinality({i \in DOMAIN s : s[i] > Grain * pick(s, 95)}) <= 5 * Len(s)

\* Refuted: "Nearest-rank" (replay.py:206) of 20 samples is the 19th, pick takes the 20th,
\* since half is rounded to the even neighbour.
PercentileIsNearest ==
  \A tool \in DOMAIN samples :
    LET s == samples[tool] IN
    pick(s, 95) = Round(Ordered(s, (95 * Len(s) + 99) \div 100), Grain)
=============================================================================
