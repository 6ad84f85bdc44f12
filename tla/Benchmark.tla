------------------------------- MODULE Benchmark -------------------------------
(***************************************************************************)
(* benchmark/routing_eval.py, which gives the same problems to a batcher   *)
(* under each of the three strategies, and the arithmetic of               *)
(* benchmark/report.py on what it records.                                 *)
(*                                                                         *)
(* The comparisons of the report take decoding to be deterministic, and so *)
(* does this module: a problem has one text and one verdict, whatever the  *)
(* batch around it.  What is left to chance is the order of completions.   *)
(* Time is counted in ticks of the batcher.                                *)
(***************************************************************************)
EXTENDS RequestQueue, RoutingGate

CONSTANTS NRequests,     \* how many problems
          MaxTokens,     \* --max-tokens: each request's max_tokens, and the cap
          MaxBatchSize,
          Problems       \* what a problem may be

\* The text of a problem has its EOS at place length and the token that ends
\* the thinking at place think_end, if any; the probe answers p.
ASSUME BenchmarkAssumption ==
    /\ NRequests \in Nat /\ MaxTokens \in Nat /\ MaxBatchSize \in Nat
    /\ Problems \subseteq [length : Nat \ {0}, think_end : Nat, p : Probability]

Requests == 1..NRequests
Probabilities == {s.p : s \in Problems}

VARIABLES queue, active, cache, req, submitted, phase, attempts,
          finished_ids, terminated_ids, total,  \* the batcher of this run
          problem,          \* the sample behind each request
          running,          \* whether run_strategy is at its gather
          tick,             \* the tick of this run
          completion_time,  \* when _finish ended each request
          results           \* what run_strategy returned, a run after the other

batcher == <<queue, active, cache, req, submitted, phase, attempts,
             finished_ids, terminated_ids, total>>
run == <<batcher, running, tick, completion_time>>
vars == <<run, problem, results>>

\* run_strategy builds a batcher with a gate unless the strategy is baseline.
Baseline == INSTANCE ContinuousBatcher
    WITH Strategy <- "baseline", GateLoaded <- FALSE, MaxTokensCap <- MaxTokens,
         MaxTokensChoices <- {MaxTokens}, StreamChoices <- {FALSE}, Impatient <- {}
Terminate == INSTANCE ContinuousBatcher
    WITH Strategy <- "probe_terminate", GateLoaded <- TRUE, MaxTokensCap <- MaxTokens,
         MaxTokensChoices <- {MaxTokens}, StreamChoices <- {FALSE}, Impatient <- {}
Deprioritize == INSTANCE ContinuousBatcher
    WITH Strategy <- "probe_deprioritize", GateLoaded <- TRUE, MaxTokensCap <- MaxTokens,
         MaxTokensChoices <- {MaxTokens}, StreamChoices <- {FALSE}, Impatient <- {}

ALL_STRATEGIES == <<"baseline", "probe_terminate", "probe_deprioritize">>

Init ==
    /\ Baseline!Init
    /\ problem \in [Requests -> Problems]
    /\ running = FALSE /\ tick = 0 /\ completion_time = [r \in Requests |-> 0]
    /\ results = <<>>

-----------------------------------------------------------------------------
(* run_strategy *)

\* A new queue and a new batcher, and all problems submitted up front: nothing
\* is awaited before the gather.
StartRun ==
    /\ ~running /\ Len(results) < Len(ALL_STRATEGIES)
    /\ queue' = [i \in Requests |-> i]
    /\ req' = [r \in Requests |-> Baseline!NewRequest(MaxTokens, FALSE)]
    /\ submitted' = NRequests
    /\ active' = <<>> /\ cache' = {}
    /\ phase' = "await" /\ attempts' = 0
    /\ finished_ids' = {} /\ terminated_ids' = {}
    /\ total' = [admitted |-> 0, finished |-> 0, probe_terminated |-> 0, preemptions |-> 0]
    /\ running' = TRUE
    /\ tick' = 0 /\ completion_time' = [r \in Requests |-> 0]
    /\ UNCHANGED <<problem, results>>

\* What the model and the probe answer in this step: the next token is the EOS
\* where the text has it, and a new verdict is the problem's.
AsTheProblemsSay ==
    \A r \in Requests :
        /\ req'[r].n_generated = req[r].n_generated + 1 =>
              (req'[r].finish_reason = "eos" <=> req'[r].n_generated = problem[r].length)
        /\ req'[r].routing_decision \in
              {req[r].routing_decision, NoDecision, Classify(problem[r].p)}

Strategy == ALL_STRATEGIES[Len(results) + 1]

\* A step of the batcher while the benchmark waits for its futures; once all
\* are set its ticks are empty.
RunTick ==
    /\ running /\ \E r \in Requests : req[r].result = "pending"
    /\ \/ Strategy = "baseline" /\ Baseline!Tick
       \/ Strategy = "probe_terminate" /\ Terminate!Tick
       \/ Strategy = "probe_deprioritize" /\ Deprioritize!Tick
    /\ AsTheProblemsSay
    /\ tick' = IF phase = "await" THEN tick + 1 ELSE tick
    /\ completion_time' = [r \in Requests |->
          IF req'[r].completed /\ ~req[r].completed THEN tick' ELSE completion_time[r]]
    /\ UNCHANGED <<problem, running, results>>

Converged(r) == problem[r].think_end \in 1..req[r].n_generated

\* A record says what became of a problem.  Whether the answer was correct goes
\* with the text, like converged.
Record(r) ==
    [n_generated |-> req[r].n_generated, converged |-> Converged(r),
     terminated_by_probe |-> req[r].terminated_by_probe,
     routing_label |-> req[r].routing_decision.label, latency |-> completion_time[r]]

\* The gather returns when every future is set; the batcher is discarded.
CollectRecords ==
    /\ running /\ \A r \in Requests : req[r].result # "pending"
    /\ results' = Append(results, [records |-> [r \in Requests |-> Record(r)],
                                   batcher_stats |-> total])
    /\ running' = FALSE
    /\ UNCHANGED <<batcher, tick, completion_time, problem>>

Reported == ~running /\ Len(results) = Len(ALL_STRATEGIES) /\ UNCHANGED vars

Next == StartRun \/ RunTick \/ CollectRecords \/ Reported

Spec == Init /\ [][Next]_vars

-----------------------------------------------------------------------------
(* benchmark/report.py *)

\* sorted(values).
Sorted(values) ==
    LET order == CHOOSE p \in Bijection(DOMAIN values, DOMAIN values) :
                     \A i, j \in DOMAIN values : i < j => values[p[i]] <= values[p[j]]
    IN  [i \in DOMAIN values |-> values[order[i]]]

Percentile_NoMinusOne(values, pct) ==
    LET s == Sorted(values)
        k == Len(values) * pct
        f == Min({k \div 100, Len(values) - 1})
        c == Min({f + 1, Len(values) - 1})
    IN  100 * s[f + 1] + (s[c + 1] - s[f + 1]) * (k - 100 * f)

\* _percentile of a nonempty list, by linear interpolation, with the
\* percentage and the result in hundredths.
Percentile(values, pct) ==
    LET s == Sorted(values)
        k == (Len(values) - 1) * pct
        f == k \div 100
        c == Min({f + 1, Len(values) - 1})
    IN  100 * s[f + 1] + (s[c + 1] - s[f + 1]) * (k - 100 * f)

Records(strategy) == results[CHOOSE i \in DOMAIN ALL_STRATEGIES : ALL_STRATEGIES[i] = strategy].records

Summary_CompletedOnly(strategy) ==
    LET records == Records(strategy)
        completed == {r \in Requests : ~records[r].terminated_by_probe}
    IN  [n_completed |-> Cardinality(completed),
         n_terminated |-> NRequests - Cardinality(completed),
         n_conv |-> Cardinality({r \in completed : records[r].converged})]

\* summarize_strategy's counts.
Summary(strategy) ==
    LET records == Records(strategy)
        completed == {r \in Requests : ~records[r].terminated_by_probe}
    IN  [n_completed |-> Cardinality(completed),
         n_terminated |-> NRequests - Cardinality(completed),
         n_conv |-> Cardinality({r \in Requests : records[r].converged})]

FalseTerminations_OwnOutcome ==
    {r \in Requests : LET t == Records("probe_terminate")[r]
                      IN  t.terminated_by_probe /\ t.converged}

\* false_termination_rate's numerator: the terminated that converged under baseline.
FalseTerminations ==
    {r \in Requests : /\ Records("probe_terminate")[r].terminated_by_probe
                      /\ Records("baseline")[r].converged}

\* deprioritize_latency_breakdown: the requests with a label, and the latencies
\* they had under a strategy.
Labelled(label) == {r \in Requests : Records("probe_deprioritize")[r].routing_label = label}
Latencies(strategy, rs) == [i \in 1..Cardinality(rs) |-> Records(strategy)[SetToSeq(rs)[i]].latency]

-----------------------------------------------------------------------------
AllDone == Len(results) = Len(ALL_STRATEGIES)

\* The baseline is the counterfactual the report takes it for.  A request that
\* was not cut has the text the baseline gave it, whatever preemptions it went
\* through, and one that was cut has no more of it: "produced the identical
\* token sequence up to the termination point".
BaselineIsCounterfactual ==
    AllDone =>
        \A r \in Requests, strategy \in {"probe_terminate", "probe_deprioritize"} :
            LET base == Records("baseline")[r]
                mine == Records(strategy)[r]
            IN  IF mine.terminated_by_probe
                THEN /\ strategy = "probe_terminate" /\ mine.n_generated <= base.n_generated
                     /\ mine.converged => base.converged
                ELSE /\ mine.n_generated = base.n_generated
                     /\ mine.converged = base.converged

\* The false terminations reported are those of the requests terminated whose
\* text would have ended its thinking within the limit, and the number they are
\* a fraction of is the one the batcher counted.
FalseTerminationsAreReal ==
    AllDone =>
        LET terminated == {r \in Requests : Records("probe_terminate")[r].terminated_by_probe}
            WouldConverge(r) ==
                problem[r].think_end \in 1..Min({problem[r].length, MaxTokens})
        IN  /\ FalseTerminations = {r \in terminated : WouldConverge(r)}
            /\ results[2].batcher_stats.probe_terminated = Cardinality(terminated)

\* The rows of the report's table explain one another: deprioritizing changes no
\* convergence rate, terminating lowers it by exactly the false terminations
\* that had not converged when they were cut, and the requests terminated are
\* those each batcher counted.
ConvergenceAddsUp ==
    AllDone =>
        LET cut_off == {r \in FalseTerminations : ~Records("probe_terminate")[r].converged}
        IN  /\ Summary("probe_deprioritize").n_conv = Summary("baseline").n_conv
            /\ Summary("baseline").n_conv
                  = Summary("probe_terminate").n_conv + Cardinality(cut_off)
            /\ \A i \in DOMAIN results :
                  Summary(ALL_STRATEGIES[i]).n_terminated
                      = results[i].batcher_stats.probe_terminated

\* The hypothesis of probe_deprioritize, in ticks: no request judged convergent
\* waits longer for its answer than it does under baseline.
NoConvergentIsSlower ==
    AllDone =>
        \A r \in Labelled("convergent") :
            Records("probe_deprioritize")[r].latency <= Records("baseline")[r].latency

\* The value of rank j: fewer than j values are below it, and j or more up to it.
OfRank(values, j) ==
    CHOOSE x \in ToSet(values) :
        /\ Cardinality({i \in DOMAIN values : values[i] < x}) < j
        /\ j <= Cardinality({i \in DOMAIN values : values[i] <= x})

\* What the breakdown calls a p50 is the median, the middle value or the mean of
\* the two in the middle, and for the convergent it is not above the baseline's.
MedianImproves ==
    LET convergent == Labelled("convergent")
        Median(values) == 50 * (OfRank(values, (Len(values) + 1) \div 2)
                                + OfRank(values, (Len(values) + 2) \div 2))
        p50(strategy) == Percentile(Latencies(strategy, convergent), 50)
    IN  AllDone /\ convergent # {} =>
            /\ \A strategy \in {"baseline", "probe_deprioritize"} :
                  p50(strategy) = Median(Latencies(strategy, convergent))
            /\ p50("probe_deprioritize") <= p50("baseline")
===============================================================================
