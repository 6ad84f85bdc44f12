--------------------------- MODULE BenchmarkProofs ---------------------------
(***************************************************************************)
(* The report's comparisons, for any number of problems, any texts, any    *)
(* probe and any sizes.  First what the records must be and what follows   *)
(* from it for the report; then, run by run, that they are.  Each run is a *)
(* batcher of its own, so ContinuousBatcherProofs is instantiated like the *)
(* batcher in Benchmark, once for each strategy, where its run is shown.   *)
(***************************************************************************)
EXTENDS Benchmark, SequenceLemmas

-----------------------------------------------------------------------------
(* What the records must be.                                                *)

\* Where the text of a sample ends: at its EOS or at the limit.  Prefill gives
\* one token whatever the limit.
End(sample) ==
    IF sample.length < MaxTokens THEN sample.length
    ELSE IF MaxTokens = 0 THEN 1 ELSE MaxTokens

Ends == [r \in Requests |-> End(problem[r])]

\* What run_strategy may return.
Outcome ==
    [records : [Requests -> [n_generated : Nat, converged : BOOLEAN,
                             terminated_by_probe : BOOLEAN,
                             routing_label : {"none", "convergent", "divergent"},
                             latency : Nat]],
     batcher_stats : [admitted : Nat, finished : Nat, probe_terminated : Nat,
                      preemptions : Nat]]

\* A record tells of the text up to its end, or up to where routing cut it,
\* which happens in the second run alone, and never before the second token.
Faithful(i) ==
    LET records == results[i].records
    IN  /\ \A r \in Requests :
              /\ records[r].n_generated <= Ends[r]
              /\ records[r].converged = (problem[r].think_end \in 1..records[r].n_generated)
              /\ ~records[r].terminated_by_probe => records[r].n_generated = Ends[r]
              /\ records[r].terminated_by_probe => i = 2 /\ records[r].n_generated >= 2
        /\ results[i].batcher_stats.probe_terminated
              = Cardinality({r \in Requests : records[r].terminated_by_probe})

BenchTypes ==
    /\ problem \in [Requests -> Problems]
    /\ running \in BOOLEAN /\ tick \in Nat
    /\ completion_time \in [Requests -> Nat]
    /\ results \in Seq(Outcome)
    /\ Len(results) <= 3 /\ (running => Len(results) < 3)

Recorded == BenchTypes /\ \A i \in DOMAIN results : Faithful(i)

\* The run of a strategy, all of its futures set.
EndedWell(strategy) ==
    /\ total \in [admitted : Nat, finished : Nat, probe_terminated : Nat, preemptions : Nat]
    /\ \A r \in Requests :
          /\ req[r].n_generated \in Nat /\ req[r].terminated_by_probe \in BOOLEAN
          /\ req[r].routing_decision.label \in {"none", "convergent", "divergent"}
          /\ req[r].n_generated <= Ends[r]
          /\ ~req[r].terminated_by_probe => req[r].n_generated = Ends[r]
          /\ req[r].terminated_by_probe =>
                strategy = "probe_terminate" /\ req[r].n_generated >= 2
    /\ total.probe_terminated = Cardinality({r \in Requests : req[r].terminated_by_probe})

LEMMA EndsType ==
    ASSUME problem \in [Requests -> Problems]
    PROVE  Ends \in [Requests -> Nat \ {0}]
<1> SUFFICES ASSUME NEW r \in Requests PROVE End(problem[r]) \in Nat \ {0}
  BY DEF Ends
<1>1. problem[r].length \in Nat \ {0}  BY BenchmarkAssumption
<1>2. QED  BY <1>1, BenchmarkAssumption DEF End

\* What a tick makes of a text that is not past its end: by EOS or by the limit
\* it ends with the token the sample says.
LEMMA EndTest ==
    ASSUME problem \in [Requests -> Problems], AsTheProblemsSay,
           NEW r \in Requests, req[r].n_generated \in Nat
    PROVE  LET n == req'[r].n_generated
           IN  n = req[r].n_generated + 1 /\ n <= End(problem[r]) =>
                  (req'[r].finish_reason = "eos" \/ n >= MaxTokens <=> n = End(problem[r]))
<1>1. req'[r].n_generated = req[r].n_generated + 1 =>
         (req'[r].finish_reason = "eos" <=> req'[r].n_generated = problem[r].length)
  BY DEF AsTheProblemsSay
<1>2. MaxTokens \in Nat /\ problem[r].length \in Nat \ {0}  BY BenchmarkAssumption
<1>3. QED  BY <1>1, <1>2 DEF End

\* The verdict of each problem, whenever it is asked for.
Verdicts == [r \in Requests |-> Classify(problem[r].p)]

\* So many ticks a text of n tokens takes after its prefill's.  Where S says
\* when each request of the baseline began, the rivals of w are the earlier ones
\* that had not ended before w began: w found room if they left a slot.
Span(n) == IF n < 2 THEN 0 ELSE n - 2
Rivals(w, S, T) == {q \in Requests : q < w /\ T[q] >= 2 /\ S[q] + Span(T[q]) >= S[w]}
FoundRoom(w, S, T) == S[w] >= 1 /\ Cardinality(Rivals(w, S, T)) < MaxBatchSize

LEMMA VerdictsSay ==
    ASSUME AsTheProblemsSay
    PROVE  \A r \in Requests : req'[r].routing_decision
                                  \in {req[r].routing_decision, NoDecision, Verdicts[r]}
BY DEF AsTheProblemsSay, Verdicts

\* When the requests of the baseline began, by its records.
Began == [q \in Requests |-> results[1].records[q].latency - Span(Ends[q])]

LEMMA FirstLatencies ==
    ASSUME Recorded, Len(results) >= 1
    PROVE  [q \in Requests |-> results[1].records[q].latency] \in [Requests -> Nat]
<1>1. results[1] \in Outcome
  BY LenProperties, ElementOfSeq DEF Recorded, BenchTypes
<1>2. QED  BY <1>1 DEF Outcome

LEMMA BeganType ==
    ASSUME Recorded, Len(results) >= 1
    PROVE  Began \in [Requests -> Int]
<1> SUFFICES ASSUME NEW q \in Requests
             PROVE  results[1].records[q].latency - Span(Ends[q]) \in Int
  BY DEF Began
<1>1. Ends[q] \in Nat  BY EndsType DEF Recorded, BenchTypes
<1>2. results[1].records[q].latency \in Nat  BY FirstLatencies
<1>3. QED  BY <1>1, <1>2 DEF Span

LEMMA StrategyIs ==
    ASSUME Len(results) \in Nat, Len(results) < 3
    PROVE  /\ Len(results) = 0 => Strategy = "baseline"
           /\ Len(results) = 1 => Strategy = "probe_terminate"
           /\ Len(results) = 2 => Strategy = "probe_deprioritize"
<1>1. /\ ALL_STRATEGIES[1] = "baseline" /\ ALL_STRATEGIES[2] = "probe_terminate"
      /\ ALL_STRATEGIES[3] = "probe_deprioritize"
  BY DEF ALL_STRATEGIES
<1>2. Strategy = ALL_STRATEGIES[Len(results) + 1]  BY DEF Strategy
<1>3. CASE Len(results) = 0
  <2>1. Strategy = ALL_STRATEGIES[1]  BY <1>2, <1>3
  <2>2. QED  BY <1>1, <1>3, <2>1
<1>4. CASE Len(results) = 1
  <2>1. Strategy = ALL_STRATEGIES[2]  BY <1>2, <1>4
  <2>2. QED  BY <1>1, <1>4, <2>1
<1>5. CASE Len(results) = 2
  <2>1. Strategy = ALL_STRATEGIES[3]  BY <1>2, <1>5
  <2>2. QED  BY <1>1, <1>5, <2>1
<1>6. QED  BY <1>3, <1>4, <1>5

LEMMA InitRecorded == Init => Recorded
<1> SUFFICES ASSUME Init PROVE Recorded  OBVIOUS
<1>1. <<>> \in Seq(Outcome) /\ Len(<<>>) = 0 /\ DOMAIN <<>> = {}  BY EmptySeq
<1>2. [r \in Requests |-> 0] \in [Requests -> Nat]  OBVIOUS
<1>3. BenchTypes
  <2>1. results \in Seq(Outcome) /\ Len(results) = 0  BY <1>1 DEF Init
  <2>2. Len(results) <= 3 /\ Len(results) < 3  BY <2>1
  <2>3. QED  BY <1>2, <2>1, <2>2 DEF Init, BenchTypes
<1>4. ~running /\ DOMAIN results = {}  BY <1>1 DEF Init
<1>5. QED  BY <1>3, <1>4 DEF Recorded

\* Where the results stay, so does what is known of them.
LEMMA NothingRecorded ==
    ASSUME Recorded, UNCHANGED <<problem, results>>,
           running' \in BOOLEAN, running' => Len(results) < 3,
           tick' \in Nat, completion_time' \in [Requests -> Nat]
    PROVE  Recorded'
<1>1. BenchTypes'  BY DEF Recorded, BenchTypes
<1>2. Ends' = Ends  BY DEF Ends
<1>3. \A i \in DOMAIN results' : Faithful(i)'  BY <1>2 DEF Recorded, Faithful
<1>4. QED  BY <1>1, <1>3 DEF Recorded

LEMMA StartRecorded ==
    ASSUME Recorded, StartRun
    PROVE  Recorded'
<1>1. /\ UNCHANGED <<problem, results>> /\ Len(results) < Len(ALL_STRATEGIES)
      /\ running' = TRUE /\ tick' = 0
      /\ completion_time' = [r \in Requests |-> 0]
  BY DEF StartRun
<1>2. Len(ALL_STRATEGIES) = 3  BY DEF ALL_STRATEGIES
<1>3. completion_time' \in [Requests -> Nat]  BY <1>1
<1>4. QED  BY <1>1, <1>2, <1>3, NothingRecorded

LEMMA TickRecorded ==
    ASSUME Recorded, RunTick
    PROVE  Recorded'
<1>1. /\ UNCHANGED <<problem, running, results>> /\ tick' \in {tick, tick + 1}
      /\ completion_time' = [r \in Requests |->
            IF req'[r].completed /\ ~req[r].completed THEN tick' ELSE completion_time[r]]
  BY DEF RunTick
<1>2. /\ running \in BOOLEAN /\ (running => Len(results) < 3)
      /\ tick \in Nat /\ completion_time \in [Requests -> Nat]
  BY DEF Recorded, BenchTypes
<1>3. tick' \in Nat /\ completion_time' \in [Requests -> Nat]  BY <1>1, <1>2
<1>4. QED  BY <1>1, <1>2, <1>3, NothingRecorded

LEMMA CollectRecorded ==
    ASSUME Recorded, CollectRecords, EndedWell(Strategy)
    PROVE  Recorded'
<1> DEFINE k == Len(results)
           records == [r \in Requests |-> Record(r)]
           outcome == [records |-> records, batcher_stats |-> total]
<1>1. /\ running /\ running' = FALSE
      /\ results' = Append(results, outcome)
      /\ UNCHANGED <<tick, completion_time, problem>>
  BY DEF CollectRecords
<1>2. /\ results \in Seq(Outcome) /\ k \in Nat /\ k < 3 /\ DOMAIN results = 1..k
      /\ completion_time \in [Requests -> Nat]
      /\ \A i \in DOMAIN results : Faithful(i)
  BY <1>1, LenProperties DEF Recorded, BenchTypes
<1>3. Strategy = "probe_terminate" => k = 1  BY <1>2, StrategyIs
<1>4. \A r \in Requests :
         /\ records[r] = Record(r)
         /\ records[r].n_generated = req[r].n_generated
         /\ records[r].converged = (problem[r].think_end \in 1..req[r].n_generated)
         /\ records[r].terminated_by_probe = req[r].terminated_by_probe
  BY DEF Record, Converged
<1>5. outcome \in Outcome
  <2>1. \A r \in Requests :
           Record(r) \in [n_generated : Nat, converged : BOOLEAN,
                          terminated_by_probe : BOOLEAN,
                          routing_label : {"none", "convergent", "divergent"},
                          latency : Nat]
    BY <1>2 DEF EndedWell, Record, Converged
  <2>2. total \in [admitted : Nat, finished : Nat, probe_terminated : Nat, preemptions : Nat]
    BY DEF EndedWell
  <2>3. QED  BY <2>1, <2>2 DEF Outcome
<1>6. /\ results' \in Seq(Outcome) /\ Len(results') = k + 1 /\ DOMAIN results' = 1..k + 1
      /\ \A i \in 1..k : results'[i] = results[i]
      /\ results'[k + 1] = outcome
  <2> HIDE DEF outcome
  <2>1. QED  BY <1>1, <1>2, <1>5, AppendProperties, LenProperties
<1>7. Ends' = Ends  BY <1>1 DEF Ends
<1>8. {r \in Requests : records[r].terminated_by_probe}
         = {r \in Requests : req[r].terminated_by_probe}
  BY <1>4
<1> HIDE DEF k, records
<1>9. ASSUME NEW i \in DOMAIN results'
      PROVE  Faithful(i)'
  <2>1. CASE i \in 1..k
    <3>1. Faithful(i) /\ results'[i] = results[i]  BY <1>2, <1>6, <2>1
    <3>2. QED  BY <1>1, <1>7, <3>1 DEF Faithful
  <2>2. CASE i = k + 1
    <3>1. results'[i].records = records /\ results'[i].batcher_stats = total
      BY <1>6, <2>2
    <3>2. \A r \in Requests :
             /\ records[r].n_generated <= Ends[r]
             /\ records[r].converged = (problem[r].think_end \in 1..records[r].n_generated)
             /\ ~records[r].terminated_by_probe => records[r].n_generated = Ends[r]
             /\ records[r].terminated_by_probe => i = 2 /\ records[r].n_generated >= 2
      BY <1>3, <1>4, <2>2 DEF EndedWell
    <3>3. total.probe_terminated
             = Cardinality({r \in Requests : records[r].terminated_by_probe})
      BY <1>3, <1>8 DEF EndedWell
    <3>4. QED  BY <1>1, <1>7, <3>1, <3>2, <3>3 DEF Faithful
  <2>3. i \in 1..k \/ i = k + 1  BY <1>2, <1>6
  <2>4. QED  BY <2>1, <2>2, <2>3
<1>10. BenchTypes'
  <2>1. Len(results') <= 3  BY <1>2, <1>6
  <2>2. QED  BY <1>1, <1>2, <1>6, <2>1 DEF Recorded, BenchTypes
<1>11. QED  BY <1>9, <1>10 DEF Recorded

-----------------------------------------------------------------------------
(* What the report says of three finished runs.                             *)

\* Records finds each strategy's run.
LEMMA RecordsAre ==
    /\ Records("baseline") = results[1].records
    /\ Records("probe_terminate") = results[2].records
    /\ Records("probe_deprioritize") = results[3].records
<1> DEFINE Place(s) == CHOOSE i \in DOMAIN ALL_STRATEGIES : ALL_STRATEGIES[i] = s
<1>1. /\ ALL_STRATEGIES[1] = "baseline" /\ ALL_STRATEGIES[2] = "probe_terminate"
      /\ ALL_STRATEGIES[3] = "probe_deprioritize" /\ DOMAIN ALL_STRATEGIES = 1..3
  BY DEF ALL_STRATEGIES
<1>2. \A i \in 1..3 : i = 1 \/ i = 2 \/ i = 3  OBVIOUS
<1>3. Place("baseline") = 1  BY <1>1, <1>2
<1>4. Place("probe_terminate") = 2  BY <1>1, <1>2
<1>5. Place("probe_deprioritize") = 3  BY <1>1, <1>2
<1>6. QED  BY <1>3, <1>4, <1>5 DEF Records

\* What is known of the three runs, request by request: only the second cuts a
\* text, and the others tell of it whole.
LEMMA ThreeRuns ==
    ASSUME Recorded, AllDone, NEW r \in Requests
    PROVE  LET base == results[1].records[r]
               cut == results[2].records[r]
               late == results[3].records[r]
               whole == problem[r].think_end \in 1..Ends[r]
           IN  /\ ~base.terminated_by_probe /\ ~late.terminated_by_probe
               /\ base.n_generated = Ends[r] /\ late.n_generated = Ends[r]
               /\ base.converged = whole /\ late.converged = whole
               /\ cut.terminated_by_probe \in BOOLEAN
               /\ cut.n_generated \in Nat /\ cut.n_generated <= Ends[r]
               /\ cut.converged = (problem[r].think_end \in 1..cut.n_generated)
               /\ cut.terminated_by_probe => cut.n_generated >= 2
               /\ ~cut.terminated_by_probe => cut.n_generated = Ends[r]
<1>1. /\ results \in Seq(Outcome) /\ Len(results) = 3
      /\ \A i \in DOMAIN results : Faithful(i)
  <2>1. Len(ALL_STRATEGIES) = 3  BY DEF ALL_STRATEGIES
  <2>2. QED  BY <2>1 DEF Recorded, BenchTypes, AllDone
<1>2. 1 \in DOMAIN results /\ 2 \in DOMAIN results /\ 3 \in DOMAIN results
  BY <1>1, LenProperties
<1>3. Faithful(1) /\ Faithful(2) /\ Faithful(3)  BY <1>1, <1>2
<1>4. results[2] \in Outcome  BY <1>1, <1>2, ElementOfSeq
<1>5. LET cut == results[2].records[r]
      IN  cut.terminated_by_probe \in BOOLEAN /\ cut.n_generated \in Nat
  BY <1>4 DEF Outcome
<1>6. LET base == results[1].records[r]
          late == results[3].records[r]
          whole == problem[r].think_end \in 1..Ends[r]
      IN  /\ ~base.terminated_by_probe /\ ~late.terminated_by_probe
          /\ base.n_generated = Ends[r] /\ late.n_generated = Ends[r]
          /\ base.converged = whole /\ late.converged = whole
  BY <1>3 DEF Faithful
<1>7. LET cut == results[2].records[r]
      IN  /\ cut.n_generated <= Ends[r]
          /\ cut.converged = (problem[r].think_end \in 1..cut.n_generated)
          /\ cut.terminated_by_probe => cut.n_generated >= 2
          /\ ~cut.terminated_by_probe => cut.n_generated = Ends[r]
  BY <1>3 DEF Faithful
<1>8. QED  BY <1>5, <1>6, <1>7

\* Records of the two other runs, against the baseline's.
LEMMA CounterfactualNow ==
    ASSUME Recorded
    PROVE  BaselineIsCounterfactual
<1> SUFFICES ASSUME AllDone, NEW r \in Requests,
                    NEW strategy \in {"probe_terminate", "probe_deprioritize"}
             PROVE  LET base == Records("baseline")[r]
                        mine == Records(strategy)[r]
                    IN  IF mine.terminated_by_probe
                        THEN /\ strategy = "probe_terminate"
                             /\ mine.n_generated <= base.n_generated
                             /\ mine.converged => base.converged
                        ELSE /\ mine.n_generated = base.n_generated
                             /\ mine.converged = base.converged
  BY DEF BaselineIsCounterfactual
<1> DEFINE base == results[1].records[r]
           cut == results[2].records[r]
           late == results[3].records[r]
<1>1. /\ ~base.terminated_by_probe /\ ~late.terminated_by_probe
      /\ base.n_generated = Ends[r] /\ late.n_generated = Ends[r]
      /\ base.converged = (problem[r].think_end \in 1..Ends[r])
      /\ late.converged = (problem[r].think_end \in 1..Ends[r])
      /\ cut.n_generated \in Nat /\ cut.n_generated <= Ends[r]
      /\ cut.converged = (problem[r].think_end \in 1..cut.n_generated)
      /\ ~cut.terminated_by_probe => cut.n_generated = Ends[r]
  BY ThreeRuns
<1>2. Ends[r] \in Nat  BY EndsType DEF Recorded, BenchTypes
<1>3. cut.converged => base.converged
  <2>1. 1..cut.n_generated \subseteq 1..Ends[r]  BY <1>1, <1>2
  <2>2. QED  BY <1>1, <2>1
<1>4. ~cut.terminated_by_probe => cut.converged = base.converged  BY <1>1
<1>5. Records("baseline")[r] = base  BY RecordsAre
<1> HIDE DEF base, cut, late
<1>6. CASE strategy = "probe_terminate"
  <2>1. Records(strategy)[r] = cut  BY <1>6, RecordsAre DEF cut
  <2>2. QED  BY <1>1, <1>3, <1>4, <1>5, <1>6, <2>1
<1>7. CASE strategy = "probe_deprioritize"
  <2>1. Records(strategy)[r] = late  BY <1>7, RecordsAre DEF late
  <2>2. QED  BY <1>1, <1>5, <2>1
<1>8. QED  BY <1>6, <1>7

\* The text of a request the probe terminated goes on to the end of the sample
\* or to the limit: both lie after the second token.
LEMMA CutTexts ==
    ASSUME Recorded, AllDone, NEW r \in Requests, results[2].records[r].terminated_by_probe
    PROVE  Ends[r] = Min({problem[r].length, MaxTokens})
<1> DEFINE a == problem[r].length
           b == MaxTokens
<1>1. results[2].records[r].n_generated \in Nat
      /\ 2 <= results[2].records[r].n_generated
      /\ results[2].records[r].n_generated <= Ends[r]
  BY ThreeRuns
<1>2. problem \in [Requests -> Problems]  BY DEF Recorded, BenchTypes
<1>3. Ends[r] \in Nat /\ a \in Nat \ {0} /\ b \in Nat
  BY <1>2, EndsType, BenchmarkAssumption
<1>4. Ends[r] = IF a < b THEN a ELSE IF b = 0 THEN 1 ELSE b  BY DEF Ends, End
<1> HIDE DEF a, b
<1>5. Ends[r] = IF a < b THEN a ELSE b  BY <1>1, <1>3, <1>4
<1>6. PICK m : m = Min({a, b})  OBVIOUS
<1>7. m = IF a < b THEN a ELSE b
  <2>1. m = CHOOSE x \in {a, b} : \A y \in {a, b} : x <= y  BY <1>6 DEF Min
  <2>2. \E x \in {a, b} : \A y \in {a, b} : x <= y  BY <1>3
  <2>3. m \in {a, b} /\ \A y \in {a, b} : m <= y  BY <2>1, <2>2
  <2>4. QED  BY <1>3, <2>3
<1>8. QED  BY <1>5, <1>6, <1>7 DEF a, b

LEMMA RealNow ==
    ASSUME Recorded
    PROVE  FalseTerminationsAreReal
<1> SUFFICES ASSUME AllDone
             PROVE  LET terminated == {r \in Requests :
                                          Records("probe_terminate")[r].terminated_by_probe}
                        WouldConverge(r) ==
                            problem[r].think_end \in 1..Min({problem[r].length, MaxTokens})
                    IN  /\ FalseTerminations = {r \in terminated : WouldConverge(r)}
                        /\ results[2].batcher_stats.probe_terminated = Cardinality(terminated)
  BY DEF FalseTerminationsAreReal
<1> DEFINE terminated == {r \in Requests : results[2].records[r].terminated_by_probe}
<1>1. \A r \in terminated :
         results[1].records[r].converged
            = (problem[r].think_end \in 1..Min({problem[r].length, MaxTokens}))
  BY ThreeRuns, CutTexts
<1>2. FalseTerminations = {r \in terminated : results[1].records[r].converged}
  BY RecordsAre DEF FalseTerminations
<1>3. results[2].batcher_stats.probe_terminated = Cardinality(terminated)
  <2>1. Len(ALL_STRATEGIES) = 3  BY DEF ALL_STRATEGIES
  <2>2. results \in Seq(Outcome) /\ Len(results) = 3  BY <2>1 DEF Recorded, BenchTypes, AllDone
  <2>3. Faithful(2)  BY <2>2, LenProperties DEF Recorded
  <2>4. QED  BY <2>3 DEF Faithful
<1>4. {r \in Requests : Records("probe_terminate")[r].terminated_by_probe} = terminated
  BY RecordsAre
<1> HIDE DEF terminated
<1>5. FalseTerminations = {r \in terminated : problem[r].think_end
                                                 \in 1..Min({problem[r].length, MaxTokens})}
  BY <1>1, <1>2
<1>6. QED  BY <1>3, <1>4, <1>5

\* Two parts of a finite set.
LEMMA PartsAddUp ==
    ASSUME NEW A, NEW B, NEW S, IsFiniteSet(S), A \cup B = S, A \cap B = {}
    PROVE  /\ Cardinality(S) = Cardinality(A) + Cardinality(B)
           /\ Cardinality(A) \in Nat /\ Cardinality(B) \in Nat
<1>1. A \in SUBSET S /\ B \in SUBSET S  OBVIOUS
<1>2. IsFiniteSet(A) /\ IsFiniteSet(B)  BY <1>1, FS_Subset
<1>3. /\ Cardinality(A) \in Nat /\ Cardinality(B) \in Nat
      /\ Cardinality(S) \in Nat
  BY <1>2, FS_CardinalityType
<1>4. Cardinality(A \cap B) = 0  BY FS_EmptySet
<1>5. Cardinality(A \cup B) = Cardinality(A) + Cardinality(B) - Cardinality(A \cap B)
  BY <1>2, FS_Union
<1>6. Cardinality(S) = Cardinality(A) + Cardinality(B) - 0  BY <1>4, <1>5
<1>7. QED  BY <1>3, <1>6

\* The counts of a run's records.
LEMMA SummaryIs ==
    ASSUME NEW strategy, NEW f, f = Records(strategy)
    PROVE  /\ Summary(strategy).n_conv = Cardinality({r \in Requests : f[r].converged})
           /\ Summary(strategy).n_terminated
                 = Cardinality({r \in Requests : f[r].terminated_by_probe})
<1> DEFINE cut == {r \in Requests : f[r].terminated_by_probe}
           completed == {r \in Requests : ~f[r].terminated_by_probe}
<1>1. /\ Summary(strategy).n_conv = Cardinality({r \in Requests : f[r].converged})
      /\ Summary(strategy).n_terminated = NRequests - Cardinality(completed)
  BY DEF Summary
<1>2. IsFiniteSet(Requests) /\ Cardinality(Requests) = NRequests
  BY FS_Interval, BenchmarkAssumption DEF Requests
<1>3. cut \cup completed = Requests /\ cut \cap completed = {}  OBVIOUS
<1> HIDE DEF cut, completed
<1>4. /\ NRequests = Cardinality(cut) + Cardinality(completed)
      /\ Cardinality(cut) \in Nat /\ Cardinality(completed) \in Nat
  BY <1>2, <1>3, PartsAddUp
<1>5. NRequests - Cardinality(completed) = Cardinality(cut)  BY <1>4
<1>6. QED  BY <1>1, <1>5 DEF cut

LEMMA AddsUpNow ==
    ASSUME Recorded
    PROVE  ConvergenceAddsUp
<1> SUFFICES ASSUME AllDone PROVE ConvergenceAddsUp  BY DEF ConvergenceAddsUp
<1> DEFINE Conv(i) == {r \in Requests : results[i].records[r].converged}
           cut_off == {r \in Requests : /\ results[2].records[r].terminated_by_probe
                                        /\ results[1].records[r].converged
                                        /\ ~results[2].records[r].converged}
<1>1. Conv(3) = Conv(1)  BY ThreeRuns
<1>2. Conv(2) \cup cut_off = Conv(1) /\ Conv(2) \cap cut_off = {}
  <2>1. ASSUME NEW r \in Requests
        PROVE  /\ results[2].records[r].converged => results[1].records[r].converged
               /\ ~results[2].records[r].terminated_by_probe =>
                     results[2].records[r].converged = results[1].records[r].converged
    <3>1. BaselineIsCounterfactual  BY CounterfactualNow
    <3>2. LET base == results[1].records[r]
              mine == results[2].records[r]
          IN  IF mine.terminated_by_probe
              THEN mine.converged => base.converged
              ELSE mine.converged = base.converged
      BY <3>1, RecordsAre DEF BaselineIsCounterfactual
    <3>3. QED  BY <3>2
  <2>2. QED  BY <2>1
<1>3. IsFiniteSet(Conv(1))
  <2>1. IsFiniteSet(Requests)  BY FS_Interval, BenchmarkAssumption DEF Requests
  <2>2. Conv(1) \in SUBSET Requests  OBVIOUS
  <2> HIDE DEF Conv
  <2>3. QED  BY <2>1, <2>2, FS_Subset
<1>4. {r \in FalseTerminations : ~Records("probe_terminate")[r].converged} = cut_off
  BY RecordsAre DEF FalseTerminations
<1>5. /\ Summary("baseline").n_conv = Cardinality(Conv(1))
      /\ Summary("probe_terminate").n_conv = Cardinality(Conv(2))
      /\ Summary("probe_deprioritize").n_conv = Cardinality(Conv(3))
  BY RecordsAre, SummaryIs
<1>6. \A i \in DOMAIN results :
         Summary(ALL_STRATEGIES[i]).n_terminated = results[i].batcher_stats.probe_terminated
  <2>1. Len(ALL_STRATEGIES) = 3  BY DEF ALL_STRATEGIES
  <2>2. results \in Seq(Outcome) /\ Len(results) = 3  BY <2>1 DEF Recorded, BenchTypes, AllDone
  <2>3. DOMAIN results = 1..3  BY <2>2, LenProperties
  <2>4. ASSUME NEW i \in 1..3
        PROVE  Records(ALL_STRATEGIES[i]) = results[i].records
    <3>1. /\ ALL_STRATEGIES[1] = "baseline" /\ ALL_STRATEGIES[2] = "probe_terminate"
          /\ ALL_STRATEGIES[3] = "probe_deprioritize"
      BY DEF ALL_STRATEGIES
    <3>2. i = 1 \/ i = 2 \/ i = 3  OBVIOUS
    <3>3. QED  BY <3>1, <3>2, RecordsAre
  <2>5. ASSUME NEW i \in 1..3
        PROVE  Summary(ALL_STRATEGIES[i]).n_terminated
                  = results[i].batcher_stats.probe_terminated
    <3>1. Faithful(i)  BY <2>3 DEF Recorded
    <3>2. Summary(ALL_STRATEGIES[i]).n_terminated
             = Cardinality({r \in Requests : results[i].records[r].terminated_by_probe})
      BY <2>4, SummaryIs
    <3>3. QED  BY <3>1, <3>2 DEF Faithful
  <2>6. QED  BY <2>3, <2>5
<1> HIDE DEF Conv, cut_off
<1>7. Cardinality(Conv(1)) = Cardinality(Conv(2)) + Cardinality(cut_off)
  BY <1>2, <1>3, PartsAddUp
<1>8. Summary("probe_deprioritize").n_conv = Summary("baseline").n_conv
  BY <1>1, <1>5
<1>9. Summary("baseline").n_conv
         = Summary("probe_terminate").n_conv
           + Cardinality({r \in FalseTerminations : ~Records("probe_terminate")[r].converged})
  BY <1>4, <1>5, <1>7
<1>10. QED  BY <1>6, <1>8, <1>9 DEF ConvergenceAddsUp

-----------------------------------------------------------------------------
(* The median.  A list of numbers can be sorted: each goes to the place that *)
(* is the number of those that come before it, itself included.             *)

Before(v, i) == {j \in DOMAIN v : v[j] < v[i] \/ (v[j] = v[i] /\ j <= i)}

LEMMA RankType ==
    ASSUME NEW n \in Nat, NEW v \in [1..n -> Int]
    PROVE  [i \in 1..n |-> Cardinality(Before(v, i))] \in Bijection(1..n, 1..n)
<1> DEFINE rank == [i \in 1..n |-> Cardinality(Before(v, i))]
<1>1. IsFiniteSet(1..n) /\ Cardinality(1..n) = n  BY FS_Interval
<1>2. ASSUME NEW i \in 1..n
      PROVE  /\ IsFiniteSet(Before(v, i)) /\ Before(v, i) \subseteq 1..n
             /\ Cardinality(Before(v, i)) \in 1..n
  <2>1. Before(v, i) \subseteq 1..n /\ i \in Before(v, i)  BY DEF Before
  <2>2. IsFiniteSet(Before(v, i)) /\ Cardinality(Before(v, i)) <= n
    BY <1>1, <2>1, FS_Subset
  <2>3. Cardinality(Before(v, i)) \in Nat /\ Cardinality(Before(v, i)) # 0
    BY <2>1, <2>2, FS_CardinalityType, FS_EmptySet
  <2>4. QED  BY <2>1, <2>2, <2>3
<1>3. ASSUME NEW i \in 1..n, NEW j \in 1..n, v[i] < v[j] \/ (v[i] = v[j] /\ i < j)
      PROVE  Cardinality(Before(v, i)) < Cardinality(Before(v, j))
  <2>1. Before(v, i) \subseteq Before(v, j)
    <3> SUFFICES ASSUME NEW k \in 1..n, v[k] < v[i] \/ (v[k] = v[i] /\ k <= i)
                 PROVE  v[k] < v[j] \/ (v[k] = v[j] /\ k <= j)
      BY DEF Before
    <3>1. v[i] \in Int /\ v[j] \in Int /\ v[k] \in Int /\ i \in Int /\ j \in Int /\ k \in Int
      OBVIOUS
    <3>2. QED  BY <1>3, <3>1
  <2>2. j \in Before(v, j) /\ j \notin Before(v, i)
    <3>1. v[i] \in Int /\ v[j] \in Int  OBVIOUS
    <3>2. QED  BY <1>3, <3>1 DEF Before
  <2>3. Before(v, i) # Before(v, j)  BY <2>2
  <2>4. /\ Cardinality(Before(v, i)) <= Cardinality(Before(v, j))
        /\ Cardinality(Before(v, i)) # Cardinality(Before(v, j))
    BY <1>2, <2>1, <2>3, FS_Subset
  <2>5. QED  BY <1>2, <2>4
<1>4. rank \in Injection(1..n, 1..n)
  <2>1. ASSUME NEW i \in 1..n, NEW j \in 1..n, i # j
        PROVE  rank[i] # rank[j]
    <3>1. \/ v[i] < v[j] \/ (v[i] = v[j] /\ i < j)
          \/ v[j] < v[i] \/ (v[j] = v[i] /\ j < i)
      <4>1. v[i] \in Int /\ v[j] \in Int  OBVIOUS
      <4>2. QED  BY <2>1, <4>1
    <3>2. \A a, b \in 1..n : a < b => a # b  OBVIOUS
    <3>3. QED  BY <1>2, <1>3, <3>1, <3>2
  <2>2. rank \in [1..n -> 1..n]  BY <1>2
  <2>3. QED  BY <2>1, <2>2 DEF Injection, IsInjective
<1> HIDE DEF rank
<1>5. rank \in Surjection(1..n, 1..n)  BY <1>1, <1>4, FS_Injection
<1>6. QED  BY <1>4, <1>5 DEF Bijection, rank

LEMMA CanBeSorted ==
    ASSUME NEW n \in Nat, NEW v \in [1..n -> Int]
    PROVE  \E p \in Bijection(1..n, 1..n) : \A i, j \in 1..n : i < j => v[p[i]] <= v[p[j]]
<1> DEFINE rank == [i \in 1..n |-> Cardinality(Before(v, i))]
           p == [k \in 1..n |-> CHOOSE i \in 1..n : rank[i] = k]
<1>1. /\ rank \in Bijection(1..n, 1..n) /\ rank \in [1..n -> 1..n]
      /\ \A k \in 1..n : \E i \in 1..n : rank[i] = k
      /\ \A i, j \in 1..n : rank[i] = rank[j] => i = j
  <2>1. rank \in Bijection(1..n, 1..n)  BY RankType
  <2> HIDE DEF rank
  <2>2. QED  BY <2>1 DEF Bijection, Injection, Surjection, IsInjective
<1>2. \A i \in 1..n : rank[i] = Cardinality(Before(v, i))  OBVIOUS
<1> HIDE DEF rank
<1>3. \A k \in 1..n : p[k] \in 1..n /\ rank[p[k]] = k  BY <1>1
<1>4. p \in [1..n -> 1..n]  BY <1>3
<1> HIDE DEF p
<1>5. p \in Bijection(1..n, 1..n)
  <2>1. \A i, j \in 1..n : p[i] = p[j] => i = j  BY <1>3
  <2>2. ASSUME NEW i \in 1..n
        PROVE  p[rank[i]] = i
    <3>1. rank[i] \in 1..n  BY <1>1
    <3>2. p[rank[i]] \in 1..n /\ rank[p[rank[i]]] = rank[i]  BY <1>3, <3>1
    <3>3. QED  BY <1>1, <3>2
  <2>3. \A i \in 1..n : \E k \in 1..n : p[k] = i  BY <1>1, <2>2
  <2>4. QED  BY <1>4, <2>1, <2>3 DEF Bijection, Injection, Surjection, IsInjective
<1>6. ASSUME NEW i \in 1..n, NEW j \in 1..n, i < j, ~(v[p[i]] <= v[p[j]])
      PROVE  FALSE
  <2>1. /\ p[i] \in 1..n /\ p[j] \in 1..n /\ rank[p[i]] = i /\ rank[p[j]] = j
        /\ v[p[i]] \in Int /\ v[p[j]] \in Int
    BY <1>3, <1>4
  <2>2. v[p[j]] < v[p[i]]  BY <1>6, <2>1
  <2>3. Before(v, p[j]) \subseteq Before(v, p[i])
    <3> SUFFICES ASSUME NEW k \in 1..n, v[k] <= v[p[j]] PROVE v[k] < v[p[i]]
      BY <2>1 DEF Before
    <3>1. v[k] \in Int  OBVIOUS
    <3>2. QED  BY <2>1, <2>2, <3>1
  <2>4. IsFiniteSet(Before(v, p[i]))
    <3>1. IsFiniteSet(1..n) /\ Before(v, p[i]) \subseteq 1..n  BY FS_Interval DEF Before
    <3>2. QED  BY <3>1, FS_Subset
  <2>5. Cardinality(Before(v, p[j])) <= Cardinality(Before(v, p[i]))  BY <2>3, <2>4, FS_Subset
  <2>6. j <= i  BY <1>2, <2>1, <2>5
  <2>7. QED  BY <1>6, <2>6
<1>7. QED  BY <1>5, <1>6

\* Sorting rearranges a list, in order.
LEMMA SortedIs ==
    ASSUME NEW n \in Nat, NEW v \in [1..n -> Int]
    PROVE  \E p \in Bijection(1..n, 1..n) :
              /\ Sorted(v) = [i \in 1..n |-> v[p[i]]]
              /\ \A i, j \in 1..n : i < j => v[p[i]] <= v[p[j]]
<1> DEFINE Orders(p) == \A i, j \in DOMAIN v : i < j => v[p[i]] <= v[p[j]]
           order == CHOOSE p \in Bijection(DOMAIN v, DOMAIN v) : Orders(p)
<1>1. DOMAIN v = 1..n  OBVIOUS
<1>2. \E p \in Bijection(DOMAIN v, DOMAIN v) : Orders(p)  BY <1>1, CanBeSorted
<1>3. Sorted(v) = [i \in DOMAIN v |-> v[order[i]]]  BY DEF Sorted
<1> HIDE DEF Orders
<1>4. order \in Bijection(DOMAIN v, DOMAIN v) /\ Orders(order)  BY <1>2
<1> HIDE DEF order
<1>5. QED  BY <1>1, <1>3, <1>4 DEF Orders

\* How many places a rearrangement sends into a set.
LEMMA ImageSize ==
    ASSUME NEW n \in Nat, NEW p \in Bijection(1..n, 1..n), NEW m \in 0..n
    PROVE  /\ IsFiniteSet({p[k] : k \in 1..m})
           /\ Cardinality({p[k] : k \in 1..m}) = m
           /\ {p[k] : k \in 1..m} \subseteq 1..n
<1> DEFINE q == [k \in 1..m |-> p[k]]
           S == {p[k] : k \in 1..m}
<1>1. /\ p \in [1..n -> 1..n] /\ \A i, j \in 1..n : p[i] = p[j] => i = j
  BY DEF Bijection, Injection, IsInjective
<1>2. \A k \in 1..m : k \in 1..n  OBVIOUS
<1>3. q \in [1..m -> S] /\ \A k \in 1..m : q[k] = p[k]  OBVIOUS
<1>4. \A x \in S : \E k \in 1..m : q[k] = x  OBVIOUS
<1>5. S \subseteq 1..n  BY <1>1, <1>2
<1> HIDE DEF q, S
<1>6. q \in Injection(1..m, S)  BY <1>1, <1>2, <1>3 DEF Injection, IsInjective
<1>7. q \in Surjection(1..m, S)  BY <1>3, <1>4 DEF Surjection
<1>8. IsFiniteSet(1..m) /\ Cardinality(1..m) = m
  <2>1. m \in Nat  OBVIOUS
  <2>2. QED  BY <2>1, FS_Interval
<1>9. IsFiniteSet(S) /\ Cardinality(S) = m  BY <1>6, <1>7, <1>8, FS_Surjection
<1>10. QED  BY <1>5, <1>9 DEF S

\* How many of a list are below x, and how many are not above it.
Below(v, x) == Cardinality({i \in DOMAIN v : v[i] < x})
UpTo(v, x) == Cardinality({i \in DOMAIN v : v[i] <= x})

\* At place j of the sorted list is a value of rank j.
LEMMA SortedHasRank ==
    ASSUME NEW n \in Nat, NEW v \in [1..n -> Int], NEW j \in 1..n
    PROVE  /\ Sorted(v)[j] \in ToSet(v) /\ Sorted(v)[j] \in Int
           /\ Below(v, Sorted(v)[j]) < j /\ j <= UpTo(v, Sorted(v)[j])
<1>1. PICK p \in Bijection(1..n, 1..n) :
         /\ Sorted(v) = [i \in 1..n |-> v[p[i]]]
         /\ \A i, k \in 1..n : i < k => v[p[i]] <= v[p[k]]
  BY SortedIs
<1>2. /\ p \in [1..n -> 1..n] /\ \A i \in 1..n : \E k \in 1..n : p[k] = i
  BY DEF Bijection, Injection, Surjection
<1>3. PICK x : x = v[p[j]]  OBVIOUS
<1>4. Sorted(v)[j] = x /\ x \in Int /\ x \in ToSet(v) /\ DOMAIN v = 1..n
  BY <1>1, <1>2, <1>3 DEF ToSet
<1>5. ASSUME NEW m \in 0..n
      PROVE  /\ IsFiniteSet({p[k] : k \in 1..m})
             /\ Cardinality({p[k] : k \in 1..m}) = m
  BY ImageSize
<1>6. ASSUME NEW S \in SUBSET (1..n)
      PROVE  IsFiniteSet(S) /\ Cardinality(S) \in Nat
  <2>1. IsFiniteSet(1..n)  BY FS_Interval
  <2>2. IsFiniteSet(S)  BY <2>1, FS_Subset
  <2>3. QED  BY <2>2, FS_CardinalityType
<1>7. Cardinality({i \in 1..n : v[i] < x}) <= j - 1
  <2>1. {i \in 1..n : v[i] < x} \subseteq {p[k] : k \in 1..j - 1}
    <3> SUFFICES ASSUME NEW i \in 1..n, v[i] < x PROVE \E k \in 1..j - 1 : i = p[k]
      OBVIOUS
    <3>1. PICK k \in 1..n : p[k] = i  BY <1>2
    <3>2. ~(j < k)
      <4>1. j < k => v[p[j]] <= v[p[k]]  BY <1>1
      <4>2. v[i] \in Int  OBVIOUS
      <4>3. QED  BY <1>3, <1>4, <3>1, <4>1, <4>2
    <3>3. k # j  BY <1>3, <1>4, <3>1
    <3>4. k \in 1..j - 1  BY <3>2, <3>3
    <3>5. QED  BY <3>1, <3>4
  <2>2. /\ IsFiniteSet({p[k] : k \in 1..j - 1})
        /\ Cardinality({p[k] : k \in 1..j - 1}) = j - 1
    <3>1. j - 1 \in 0..n  OBVIOUS
    <3>2. PICK m \in 0..n : m = j - 1  BY <3>1
    <3>3. QED  BY <1>5, <3>2
  <2>3. Cardinality({i \in 1..n : v[i] < x}) <= Cardinality({p[k] : k \in 1..j - 1})
    BY <2>1, <2>2, FS_Subset
  <2>4. QED  BY <2>2, <2>3
<1>8. j <= Cardinality({i \in 1..n : v[i] <= x})
  <2>1. {p[k] : k \in 1..j} \subseteq {i \in 1..n : v[i] <= x}
    <3> SUFFICES ASSUME NEW k \in 1..j PROVE p[k] \in 1..n /\ v[p[k]] <= x
      OBVIOUS
    <3>1. k \in 1..n  OBVIOUS
    <3>2. k < j => v[p[k]] <= v[p[j]]  BY <1>1, <3>1
    <3>3. k = j \/ k < j  OBVIOUS
    <3>4. p[k] \in 1..n /\ v[p[k]] \in Int  BY <1>2, <3>1
    <3>5. v[p[k]] <= x
      <4>1. CASE k = j  BY <1>3, <1>4, <4>1
      <4>2. CASE k < j  BY <1>3, <3>2, <4>2
      <4>3. QED  BY <3>3, <4>1, <4>2
    <3>6. QED  BY <3>4, <3>5
  <2>2. Cardinality({p[k] : k \in 1..j}) = j
    <3>1. j \in 0..n  OBVIOUS
    <3>2. QED  BY <1>5, <3>1
  <2>3. IsFiniteSet({i \in 1..n : v[i] <= x})  BY <1>6
  <2>4. Cardinality({p[k] : k \in 1..j}) <= Cardinality({i \in 1..n : v[i] <= x})
    BY <2>1, <2>3, FS_Subset
  <2>5. QED  BY <2>2, <2>4
<1>9. Cardinality({i \in 1..n : v[i] < x}) \in Nat  BY <1>6
<1>10. QED  BY <1>4, <1>7, <1>8, <1>9 DEF Below, UpTo

\* Where one list is nowhere above another, its value of a rank is not above
\* the other's: so there is one value of a rank, and sorting keeps the order.
LEMMA RanksCompare ==
    ASSUME NEW n \in Nat, NEW v \in [1..n -> Int], NEW w \in [1..n -> Int], NEW j \in Int,
           \A i \in 1..n : v[i] <= w[i], NEW x \in Int, NEW y \in Int,
           Below(v, x) < j, j <= UpTo(w, y)
    PROVE  x <= y
<1> SUFFICES ASSUME y < x PROVE FALSE  OBVIOUS
<1>1. DOMAIN v = 1..n /\ DOMAIN w = 1..n  OBVIOUS
<1>2. {i \in 1..n : w[i] <= y} \subseteq {i \in 1..n : v[i] < x}
  <2> SUFFICES ASSUME NEW i \in 1..n, w[i] <= y PROVE v[i] < x
    OBVIOUS
  <2>1. v[i] \in Int /\ w[i] \in Int /\ v[i] <= w[i]  OBVIOUS
  <2>2. QED  BY <2>1
<1>3. IsFiniteSet({i \in 1..n : v[i] < x})
  <2>1. IsFiniteSet(1..n) /\ {i \in 1..n : v[i] < x} \subseteq 1..n  BY FS_Interval
  <2>2. QED  BY <2>1, FS_Subset
<1>4. /\ Cardinality({i \in 1..n : w[i] <= y}) <= Cardinality({i \in 1..n : v[i] < x})
      /\ Cardinality({i \in 1..n : w[i] <= y}) \in Nat
      /\ Cardinality({i \in 1..n : v[i] < x}) \in Nat
  BY <1>2, <1>3, FS_Subset, FS_CardinalityType
<1>5. QED  BY <1>1, <1>4 DEF Below, UpTo

LEMMA OfRankIsSorted ==
    ASSUME NEW n \in Nat, NEW v \in [1..n -> Int], NEW j \in 1..n
    PROVE  OfRank(v, j) = Sorted(v)[j]
<1> DEFINE HasRank(x) == Below(v, x) < j /\ j <= UpTo(v, x)
<1>1. Sorted(v)[j] \in ToSet(v) /\ Sorted(v)[j] \in Int /\ HasRank(Sorted(v)[j])
  BY SortedHasRank
<1>2. OfRank(v, j) = CHOOSE x \in ToSet(v) : HasRank(x)
  BY DEF OfRank, Below, UpTo
<1>3. ToSet(v) \subseteq Int  BY DEF ToSet
<1>4. ASSUME NEW x \in Int, NEW y \in Int, HasRank(x), HasRank(y)
      PROVE  x = y
  <2>1. \A i \in 1..n : v[i] <= v[i]
    <3>1. \A i \in 1..n : v[i] \in Int  OBVIOUS
    <3>2. QED  BY <3>1
  <2>2. j \in Int  OBVIOUS
  <2>3. x <= y  BY <1>4, <2>1, <2>2, RanksCompare
  <2>4. y <= x  BY <1>4, <2>1, <2>2, RanksCompare
  <2>5. QED  BY <2>3, <2>4
<1> HIDE DEF HasRank
<1>5. OfRank(v, j) \in ToSet(v) /\ HasRank(OfRank(v, j))  BY <1>1, <1>2
<1>6. QED  BY <1>1, <1>3, <1>4, <1>5

LEMMA SortedCompare ==
    ASSUME NEW n \in Nat, NEW v \in [1..n -> Int], NEW w \in [1..n -> Int],
           \A i \in 1..n : v[i] <= w[i], NEW j \in 1..n
    PROVE  Sorted(v)[j] <= Sorted(w)[j]
<1>1. j \in Int  OBVIOUS
<1>2. Sorted(v)[j] \in Int /\ Below(v, Sorted(v)[j]) < j
  BY SortedHasRank
<1>3. Sorted(w)[j] \in Int /\ j <= UpTo(w, Sorted(w)[j])
  BY SortedHasRank
<1>4. QED  BY <1>1, <1>2, <1>3, RanksCompare

LEMMA LengthOfList ==
    ASSUME NEW n \in Nat, NEW v \in [1..n -> Int]
    PROVE  Len(v) = n
<1>1. v \in Seq(Int)  BY SeqDef
<1>2. Len(v) \in Nat /\ DOMAIN v = 1..Len(v) /\ DOMAIN v = 1..n  BY <1>1, LenProperties
<1>3. QED  BY <1>2

LEMMA Halves ==
    ASSUME NEW n \in Nat \ {0}
    PROVE  \E f \in Nat : \/ n = 2 * f + 1 /\ (n + 1) \div 2 = f + 1 /\ (n + 2) \div 2 = f + 1
                                /\ ((n - 1) * 50) \div 100 = f
                          \/ n = 2 * f + 2 /\ (n + 1) \div 2 = f + 1 /\ (n + 2) \div 2 = f + 2
                                /\ ((n - 1) * 50) \div 100 = f
OBVIOUS

\* The 50th percentile, as it is interpolated, is the median.
LEMMA PercentileIsMedian ==
    ASSUME NEW n \in Nat \ {0}, NEW v \in [1..n -> Int]
    PROVE  /\ (n + 1) \div 2 \in 1..n /\ (n + 2) \div 2 \in 1..n
           /\ Percentile(v, 50) = 50 * (Sorted(v)[(n + 1) \div 2] + Sorted(v)[(n + 2) \div 2])
<1>1. n \in Nat /\ Len(v) = n  BY LengthOfList
<1>2. PICK s : s = Sorted(v)  OBVIOUS
<1>3. \A i \in 1..n : s[i] \in Int  BY <1>1, <1>2, SortedHasRank
<1>4. PICK f \in Nat : \/ n = 2 * f + 1 /\ (n + 1) \div 2 = f + 1 /\ (n + 2) \div 2 = f + 1
                            /\ ((n - 1) * 50) \div 100 = f
                       \/ n = 2 * f + 2 /\ (n + 1) \div 2 = f + 1 /\ (n + 2) \div 2 = f + 2
                            /\ ((n - 1) * 50) \div 100 = f
  BY Halves
<1>5. PICK c : c = Min({f + 1, n - 1})  OBVIOUS
<1>6. c = IF f + 1 < n - 1 THEN f + 1 ELSE n - 1
  <2>1. c = CHOOSE x \in {f + 1, n - 1} : \A y \in {f + 1, n - 1} : x <= y  BY <1>5 DEF Min
  <2>2. \E x \in {f + 1, n - 1} : \A y \in {f + 1, n - 1} : x <= y  BY <1>1
  <2>3. c \in {f + 1, n - 1} /\ \A y \in {f + 1, n - 1} : c <= y  BY <2>1, <2>2
  <2>4. QED  BY <1>1, <2>3
<1>7. Percentile(v, 50) = 100 * s[f + 1] + (s[c + 1] - s[f + 1]) * ((n - 1) * 50 - 100 * f)
  BY <1>1, <1>2, <1>4, <1>5 DEF Percentile
<1>8. CASE n = 2 * f + 1
  <2>1. /\ (n - 1) * 50 - 100 * f = 0 /\ (n + 1) \div 2 = f + 1 /\ (n + 2) \div 2 = f + 1
        /\ f + 1 \in 1..n /\ c + 1 \in 1..n
    BY <1>4, <1>6, <1>8
  <2>2. s[f + 1] \in Int /\ s[c + 1] \in Int  BY <1>3, <2>1
  <2>3. \A a, b \in Int : 100 * a + (b - a) * 0 = 50 * (a + a)  OBVIOUS
  <2>4. Percentile(v, 50) = 100 * s[f + 1] + (s[c + 1] - s[f + 1]) * 0
    BY <1>7, <2>1, Zenon
  <2>5. Percentile(v, 50) = 50 * (s[f + 1] + s[f + 1])  BY <2>2, <2>3, <2>4
  <2>6. QED  BY <1>2, <2>1, <2>5
<1>9. CASE n = 2 * f + 2
  <2>1. /\ (n - 1) * 50 - 100 * f = 50 /\ (n + 1) \div 2 = f + 1 /\ (n + 2) \div 2 = f + 2
        /\ f + 1 \in 1..n /\ f + 2 \in 1..n /\ c + 1 = f + 2
    BY <1>4, <1>6, <1>9
  <2>2. s[f + 1] \in Int /\ s[f + 2] \in Int  BY <1>3, <2>1
  <2>3. \A a, b \in Int : 100 * a + (b - a) * 50 = 50 * (a + b)  OBVIOUS
  <2>4. Percentile(v, 50) = 100 * s[f + 1] + (s[f + 2] - s[f + 1]) * 50
    BY <1>7, <2>1, Zenon
  <2>5. Percentile(v, 50) = 50 * (s[f + 1] + s[f + 2])  BY <2>2, <2>3, <2>4
  <2>6. QED  BY <1>2, <2>1, <2>5
<1>10. QED  BY <1>4, <1>8, <1>9

\* The latencies of a set of requests are a list, in one order whatever the run.
LEMMA LatenciesAre ==
    ASSUME Recorded, AllDone, NEW rs \in SUBSET Requests,
           NEW strategy \in {"baseline", "probe_deprioritize"}
    PROVE  /\ Cardinality(rs) \in Nat /\ (rs # {} => Cardinality(rs) # 0)
           /\ Latencies(strategy, rs) \in [1..Cardinality(rs) -> Int]
           /\ \A i \in 1..Cardinality(rs) :
                 /\ SetToSeq(rs)[i] \in rs
                 /\ Latencies(strategy, rs)[i] = Records(strategy)[SetToSeq(rs)[i]].latency
<1>1. IsFiniteSet(rs)
  <2>1. IsFiniteSet(Requests)  BY FS_Interval, BenchmarkAssumption DEF Requests
  <2>2. QED  BY <2>1, FS_Subset
<1>2. Cardinality(rs) \in Nat /\ (rs # {} => Cardinality(rs) # 0)
  BY <1>1, FS_CardinalityType, FS_EmptySet
<1>3. SetToSeq(rs) \in [1..Cardinality(rs) -> rs]
  <2>1. PICK f : f \in Bijection(1..Cardinality(rs), rs)
    BY <1>1, FS_CardinalityType DEF ExistsBijection
  <2>2. f \in [1..Cardinality(rs) -> rs] /\ IsInjective(f)
    BY <2>1 DEF Bijection, Injection
  <2>3. QED  BY <2>2 DEF SetToSeq
<1>4. \A r \in Requests : Records(strategy)[r].latency \in Int
  <2>1. Len(ALL_STRATEGIES) = 3  BY DEF ALL_STRATEGIES
  <2>2. results \in Seq(Outcome) /\ Len(results) = 3  BY <2>1 DEF Recorded, BenchTypes, AllDone
  <2>3. results[1] \in Outcome /\ results[3] \in Outcome
    BY <2>2, LenProperties, ElementOfSeq
  <2>4. \A r \in Requests : /\ results[1].records[r].latency \in Int
                            /\ results[3].records[r].latency \in Int
    BY <2>3 DEF Outcome
  <2>5. QED  BY <2>4, RecordsAre
<1>5. \A i \in 1..Cardinality(rs) : SetToSeq(rs)[i] \in rs  BY <1>3
<1>6. \A i \in 1..Cardinality(rs) : Records(strategy)[SetToSeq(rs)[i]].latency \in Int
  BY <1>4, <1>5
<1>7. QED  BY <1>2, <1>5, <1>6 DEF Latencies

LEMMA MedianNow ==
    ASSUME Recorded, NoConvergentIsSlower
    PROVE  MedianImproves
<1> DEFINE convergent == Labelled("convergent")
           Median(values) == 50 * (OfRank(values, (Len(values) + 1) \div 2)
                                   + OfRank(values, (Len(values) + 2) \div 2))
           list(strategy) == Latencies(strategy, convergent)
<1> SUFFICES ASSUME AllDone, convergent # {}
             PROVE  /\ \A strategy \in {"baseline", "probe_deprioritize"} :
                          Percentile(list(strategy), 50) = Median(list(strategy))
                    /\ Percentile(list("probe_deprioritize"), 50) <= Percentile(list("baseline"), 50)
  BY DEF MedianImproves
<1>1. convergent \in SUBSET Requests  BY DEF Labelled
<1>2. PICK n \in Nat \ {0} : n = Cardinality(convergent)  BY <1>1, LatenciesAre
<1>3. PICK v \in [1..n -> Int] : v = list("probe_deprioritize")  BY <1>1, <1>2, LatenciesAre
<1>4. PICK w \in [1..n -> Int] : w = list("baseline")  BY <1>1, <1>2, LatenciesAre
<1>5. \A i \in 1..n : v[i] <= w[i]
  <2> SUFFICES ASSUME NEW i \in 1..n PROVE v[i] <= w[i]  OBVIOUS
  <2>1. SetToSeq(convergent)[i] \in convergent  BY <1>1, <1>2, LatenciesAre
  <2>2. /\ v[i] = Records("probe_deprioritize")[SetToSeq(convergent)[i]].latency
        /\ w[i] = Records("baseline")[SetToSeq(convergent)[i]].latency
    BY <1>1, <1>2, <1>3, <1>4, LatenciesAre
  <2>3. QED  BY <2>1, <2>2 DEF NoConvergentIsSlower
<1> HIDE DEF convergent
<1>6. ASSUME NEW u \in [1..n -> Int]
      PROVE  Percentile(u, 50) = Median(u)
  <2>1. Len(u) = n  BY LengthOfList
  <2>2. PICK i \in 1..n, k \in 1..n : i = (n + 1) \div 2 /\ k = (n + 2) \div 2
    BY PercentileIsMedian
  <2>3. Percentile(u, 50) = 50 * (Sorted(u)[i] + Sorted(u)[k])  BY <2>2, PercentileIsMedian
  <2>4. OfRank(u, i) = Sorted(u)[i] /\ OfRank(u, k) = Sorted(u)[k]  BY OfRankIsSorted
  <2>5. QED  BY <2>1, <2>2, <2>3, <2>4
<1>7. Percentile(v, 50) <= Percentile(w, 50)
  <2>1. PICK i \in 1..n, k \in 1..n : i = (n + 1) \div 2 /\ k = (n + 2) \div 2
    BY <1>3, PercentileIsMedian
  <2>2. /\ Percentile(v, 50) = 50 * (Sorted(v)[i] + Sorted(v)[k])
        /\ Percentile(w, 50) = 50 * (Sorted(w)[i] + Sorted(w)[k])
    BY <2>1, PercentileIsMedian
  <2>3. Sorted(v)[i] <= Sorted(w)[i] /\ Sorted(v)[k] <= Sorted(w)[k]
    BY <1>5, SortedCompare
  <2>4. /\ Sorted(v)[i] \in Int /\ Sorted(v)[k] \in Int
        /\ Sorted(w)[i] \in Int /\ Sorted(w)[k] \in Int
    BY SortedHasRank
  <2>5. \A a, b, c, d \in Int : a <= c /\ b <= d => 50 * (a + b) <= 50 * (c + d)  OBVIOUS
  <2>6. 50 * (Sorted(v)[i] + Sorted(v)[k]) <= 50 * (Sorted(w)[i] + Sorted(w)[k])
    BY <2>3, <2>4, <2>5
  <2>7. QED  BY <2>2, <2>6
<1>8. QED  BY <1>3, <1>4, <1>6, <1>7

-----------------------------------------------------------------------------
(* The run under baseline.                                                  *)

BaselineP == INSTANCE ContinuousBatcherProofs
    WITH Strategy <- "baseline", GateLoaded <- FALSE, MaxTokensCap <- MaxTokens,
         MaxTokensChoices <- {MaxTokens}, StreamChoices <- {FALSE}, Impatient <- {}

\* This instance and the one of Benchmark are the same batcher, and what it
\* assumes of its constants holds.
LEMMA BaselineSame ==
    /\ BaselineP!Requests = Requests /\ BaselineP!Probability = Probability
    /\ \A S : BaselineP!Cardinality(S) = Cardinality(S)
    /\ \A m : BaselineP!NewRequest(m, FALSE) = Baseline!NewRequest(m, FALSE)
BY DEF Requests, Probability, Cardinality, Baseline!NewRequest, Baseline!NoDecision,
       BaselineP!Requests, BaselineP!Probability, BaselineP!Cardinality,
       BaselineP!NewRequest, BaselineP!NoDecision

LEMMA BaselineIsLegal ==
    /\ /\ NRequests \in Nat /\ MaxBatchSize \in Nat /\ MaxTokens \in Int
       /\ {MaxTokens} \subseteq Int
       /\ {FALSE} \subseteq BOOLEAN
       /\ {} \subseteq BaselineP!Requests
       /\ Probabilities \subseteq BaselineP!Probability
       /\ "baseline" \in {"baseline", "probe_terminate", "probe_deprioritize"}
       /\ FALSE \in BOOLEAN
       /\ "baseline" # "baseline" => FALSE
    /\ Checkpoint \in Nat /\ Threshold \in 0..100
BY BaselineSame, BenchmarkAssumption, GateAssumption DEF Probabilities

LEMMA BaselineSameTick == Baseline!Tick => BaselineP!Tick
BY ZenonT(150)
    DEF
        Baseline!Tick, BaselineP!Tick, Baseline!TryAdmit, BaselineP!TryAdmit,
        Baseline!BeginTick, BaselineP!BeginTick, Baseline!FillSlot, BaselineP!FillSlot,
        Baseline!EndFill, BaselineP!EndFill, Baseline!Preempt, BaselineP!Preempt,
        Baseline!RefillSlot, BaselineP!RefillSlot, Baseline!EndAdmission,
        BaselineP!EndAdmission, Baseline!Decode, BaselineP!Decode, Baseline!SkipDecode,
        BaselineP!SkipDecode, Baseline!Route, BaselineP!Route, Baseline!Finish,
        BaselineP!Finish, Baseline!EndTick, BaselineP!EndTick, Baseline!AdmitOne,
        BaselineP!AdmitOne, Baseline!HasFreeSlot, BaselineP!HasFreeSlot,
        Baseline!MayAdmit, BaselineP!MayAdmit, Baseline!VictimSlots,
        BaselineP!VictimSlots, Baseline!MayPreempt, BaselineP!MayPreempt,
        Baseline!NewlyRouted, BaselineP!NewlyRouted, Baseline!Evict, BaselineP!Evict,
        Baseline!CountFinish, BaselineP!CountFinish, Baseline!Reset, BaselineP!Reset,
        Baseline!Close, BaselineP!Close, Baseline!React, BaselineP!React,
        Baseline!Deprioritizes, BaselineP!Deprioritizes, Baseline!Terminates,
        BaselineP!Terminates, Baseline!Stamp, BaselineP!Stamp, Baseline!MeetsGate,
        BaselineP!MeetsGate, Baseline!Generate, BaselineP!Generate, Baseline!AtEnd,
        BaselineP!AtEnd, Baseline!TokenLimit, BaselineP!TokenLimit, Baseline!Requests,
        BaselineP!Requests, Baseline!PushFrontPriorityAware,
        BaselineP!PushFrontPriorityAware, Baseline!PushFront, BaselineP!PushFront,
        Baseline!InsertionPoint, BaselineP!InsertionPoint, Baseline!LastNormal,
        BaselineP!LastNormal, Baseline!InsertAt, BaselineP!InsertAt, Baseline!RemoveAt,
        BaselineP!RemoveAt, Baseline!Min, BaselineP!Min, Baseline!Max, BaselineP!Max,
        Baseline!ToSet, BaselineP!ToSet, Baseline!Classify, BaselineP!Classify,
        Baseline!Label, BaselineP!Label, Baseline!Confidence, BaselineP!Confidence,
        Baseline!NoDecision, BaselineP!NoDecision, Baseline!IsDivergent,
        BaselineP!IsDivergent, Baseline!ReadyAt, BaselineP!ReadyAt,
        Baseline!EndOfStream, BaselineP!EndOfStream

LEMMA BaselineStarts ==
    ASSUME StartRun
    PROVE  BaselineP!RunInv(Ends, MaxTokens)'
<1>1. /\ queue' = [i \in Requests |-> i]
      /\ req' = [r \in Requests |-> Baseline!NewRequest(MaxTokens, FALSE)]
      /\ submitted' = NRequests /\ active' = <<>> /\ cache' = {}
      /\ phase' = "await" /\ attempts' = 0
      /\ finished_ids' = {} /\ terminated_ids' = {}
      /\ total' = [admitted |-> 0, finished |-> 0, probe_terminated |-> 0, preemptions |-> 0]
      /\ problem' = problem
  BY DEF StartRun
<1>2. MaxTokens \in Int  BY BenchmarkAssumption
<1>3. PICK T : T = Ends  OBVIOUS
<1>4. /\ queue' = [i \in BaselineP!Requests |-> i]
      /\ req' = [r \in BaselineP!Requests |-> BaselineP!NewRequest(MaxTokens, FALSE)]
  BY <1>1, BaselineSame, Zenon
<1>5. BaselineP!RunInv(T, MaxTokens)'
  BY <1>1, <1>2, <1>4, BaselineIsLegal, BaselineP!RunStarts, Zenon
<1>6. Ends' = T  BY <1>1, <1>3 DEF Ends
<1>7. QED  BY <1>5, <1>6 DEF BaselineP!RunInv, BaselineP!UpToTheEnd

LEMMA BaselineGoes ==
    ASSUME problem \in [Requests -> Problems], BaselineP!RunInv(Ends, MaxTokens),
           Baseline!Tick, AsTheProblemsSay, problem' = problem
    PROVE  BaselineP!RunInv(Ends, MaxTokens)'
<1>1. PICK T \in [Requests -> Nat \ {0}] : T = Ends  BY EndsType
<1>2. BaselineP!RunInv(T, MaxTokens)  BY <1>1
<1>3. BaselineP!Tick  BY BaselineSameTick
<1>4. \A r \in Requests : req[r].n_generated \in Nat /\ BaselineP!TokenLimit(req[r]) = MaxTokens
  <2>1. req \in [Requests -> BaselineP!Request] /\ MaxTokens \in Nat
    BY <1>2, BaselineSame, BenchmarkAssumption
       DEF BaselineP!RunInv, BaselineP!Sound, BaselineP!Safety, BaselineP!TypeOK
  <2>2. QED
    BY <1>2, <2>1, BaselineSame DEF BaselineP!RunInv, BaselineP!Request, BaselineP!TokenLimit
<1>5. BaselineP!TextsEndAt(T)
  BY <1>1, <1>4, EndTest, BaselineSame DEF BaselineP!TextsEndAt, Ends
<1>6. BaselineP!RunInv(T, MaxTokens)'
  BY <1>1, <1>2, <1>3, <1>5, BaselineSame, BaselineIsLegal, BaselineP!RunGoesOn, Zenon
<1>7. Ends' = T  BY <1>1 DEF Ends
<1>8. QED  BY <1>6, <1>7 DEF BaselineP!RunInv, BaselineP!UpToTheEnd

LEMMA BaselineRests ==
    ASSUME BaselineP!RunInv(Ends, MaxTokens), UNCHANGED <<batcher, problem>>
    PROVE  BaselineP!RunInv(Ends, MaxTokens)'
<1>1. PICK T : T = Ends  OBVIOUS
<1>2. UNCHANGED BaselineP!vars  BY DEF BaselineP!vars, batcher
<1>3. BaselineP!RunInv(T, MaxTokens)'
  BY <1>1, <1>2, BaselineIsLegal, BaselineP!RunStandsStill, Zenon
<1>4. Ends' = T  BY <1>1 DEF Ends
<1>5. QED  BY <1>3, <1>4 DEF BaselineP!RunInv, BaselineP!UpToTheEnd

LEMMA BaselineReturns ==
    ASSUME BaselineP!RunInv(Ends, MaxTokens), \A r \in Requests : req[r].result # "pending"
    PROVE  EndedWell("baseline")
<1>1. PICK T : T = Ends  OBVIOUS
<1>2. BaselineP!RunInv(T, MaxTokens)  BY <1>1
<1>3. \A r \in BaselineP!Requests : req[r].result # "pending"  BY BaselineSame
<1>4. /\ req \in [BaselineP!Requests -> BaselineP!Request]
      /\ total \in BaselineP!Totals
      /\ \A r \in BaselineP!Requests :
            /\ req[r].n_generated <= T[r]
            /\ ~req[r].terminated_by_probe => req[r].n_generated = T[r]
            /\ req[r].terminated_by_probe =>
                  "baseline" = "probe_terminate" /\ req[r].n_generated >= 2
      /\ total.probe_terminated
            = BaselineP!Cardinality(
                  {r \in BaselineP!Requests : req[r].terminated_by_probe})
  BY <1>2, <1>3, BaselineIsLegal, BaselineP!RunEnds, Zenon
<1>5. \A r \in Requests :
         /\ req[r].n_generated \in Nat /\ req[r].terminated_by_probe \in BOOLEAN
         /\ req[r].routing_decision.label \in {"none", "convergent", "divergent"}
  BY <1>4, BaselineSame DEF BaselineP!Request, BaselineP!Decision
<1>6. total.probe_terminated = Cardinality({r \in Requests : req[r].terminated_by_probe})
  BY <1>4, BaselineSame
<1>7. total \in [admitted : Nat, finished : Nat, probe_terminated : Nat, preemptions : Nat]
  BY <1>4 DEF BaselineP!Totals
<1>8. QED  BY <1>1, <1>4, <1>5, <1>6, <1>7, BaselineSame DEF EndedWell

\* The run as its clock sees it: everyone who has begun found room.
BaselineInPace ==
    \E T, V, t, c : /\ T = Ends /\ V = Verdicts /\ t = tick /\ c = completion_time
                    /\ BaselineP!BasePace(T, V, t, c)

LEMMA BaselineStartsInPace ==
    ASSUME StartRun
    PROVE  BaselineInPace'
<1>1. /\ queue' = [i \in Requests |-> i] /\ active' = <<>>
      /\ req' = [r \in Requests |-> Baseline!NewRequest(MaxTokens, FALSE)]
      /\ submitted' = NRequests /\ phase' = "await" /\ tick' = 0
      /\ problem' = problem
  BY DEF StartRun
<1>2. PICK T, V, c : T = Ends /\ V = Verdicts /\ c = completion_time'  OBVIOUS
<1>3. PICK S \in [BaselineP!Requests -> Int] : TRUE
  <2>1. [r \in BaselineP!Requests |-> 1] \in [BaselineP!Requests -> Int]  OBVIOUS
  <2>2. QED  BY <2>1
<1>4. /\ queue' = [i \in BaselineP!Requests |-> i]
      /\ req' = [r \in BaselineP!Requests |-> BaselineP!NewRequest(MaxTokens, FALSE)]
  BY <1>1, BaselineSame, Zenon
<1>5. BaselineP!BasePace(T, V, 0, c)'
  BY <1>1, <1>4, BaselineIsLegal, BaselineP!PaceStarts, Zenon
<1>6. Ends' = T /\ Verdicts' = V  BY <1>1, <1>2 DEF Ends, Verdicts
<1>7. QED  BY <1>1, <1>2, <1>5, <1>6 DEF BaselineInPace

LEMMA BaselineKeepsPace ==
    ASSUME Recorded, BaselineP!RunInv(Ends, MaxTokens), RunTick, Baseline!Tick, BaselineInPace
    PROVE  BaselineInPace'
<1>1. /\ AsTheProblemsSay /\ problem' = problem
      /\ tick' = IF phase = "await" THEN tick + 1 ELSE tick
      /\ completion_time' = [r \in Requests |->
            IF req'[r].completed /\ ~req[r].completed THEN tick' ELSE completion_time[r]]
  BY DEF RunTick
<1>2. /\ problem \in [Requests -> Problems] /\ tick \in Nat
      /\ completion_time \in [Requests -> Nat]
  BY DEF Recorded, BenchTypes
<1>3. PICK T \in [BaselineP!Requests -> Nat \ {0}] : T = Ends
  BY <1>2, EndsType, BaselineSame
<1>4. PICK c \in [BaselineP!Requests -> Nat] : c = completion_time
  BY <1>2, BaselineSame
<1>5. PICK t \in Nat : t = tick  BY <1>2
<1>6. PICK V, u, d : V = Verdicts /\ u = tick' /\ d = completion_time'  OBVIOUS
<1>7. BaselineP!RunInv(T, MaxTokens)  BY <1>3
<1>8. BaselineP!RunInv(T, MaxTokens)'
  <2>1. BaselineP!RunInv(Ends, MaxTokens)'  BY <1>1, <1>2, BaselineGoes
  <2>2. Ends' = T  BY <1>1, <1>3 DEF Ends
  <2>3. QED  BY <2>1, <2>2 DEF BaselineP!RunInv, BaselineP!UpToTheEnd
<1>9. BaselineP!BasePace(T, V, t, c)
  BY <1>3, <1>4, <1>5, <1>6 DEF BaselineInPace
<1>10. BaselineP!Clock(t, u, c, d)
  BY <1>1, <1>4, <1>5, <1>6, BaselineSame DEF BaselineP!Clock
<1>11. BaselineP!VerdictsAre(V)
  BY <1>1, <1>6, VerdictsSay, BaselineSame DEF BaselineP!VerdictsAre, BaselineP!NoDecision,
                                               NoDecision
<1>12. BaselineP!Tick  BY BaselineSameTick
<1>13. BaselineP!BasePace(T, V, u, d)'
  BY <1>7, <1>8, <1>9, <1>10, <1>11, <1>12, BaselineIsLegal, BaselineP!BaseGoesOn, Zenon
<1>14. Ends' = T /\ Verdicts' = V  BY <1>1, <1>3, <1>6 DEF Ends, Verdicts
<1>15. QED  BY <1>6, <1>13, <1>14 DEF BaselineInPace

LEMMA BaselineStandsInPace ==
    ASSUME BaselineInPace, UNCHANGED <<batcher, problem, tick, completion_time>>
    PROVE  BaselineInPace'
<1>1. PICK T, V, t, c : /\ T = Ends /\ V = Verdicts /\ t = tick /\ c = completion_time
                        /\ BaselineP!BasePace(T, V, t, c)
  BY DEF BaselineInPace
<1>2. UNCHANGED BaselineP!vars  BY DEF BaselineP!vars, batcher
<1>3. BaselineP!BasePace(T, V, t, c)'
  BY <1>1, <1>2, BaselineIsLegal, BaselineP!PaceStandsStill, Zenon
<1>4. /\ Ends' = T /\ Verdicts' = V /\ tick' = t /\ completion_time' = c
  BY <1>1 DEF Ends, Verdicts
<1>5. QED  BY <1>3, <1>4 DEF BaselineInPace

\* Who finishes last began with room to spare, too: the run is over, and there
\* was room for everyone when it began.
LEMMA BaselineHadRoom ==
    ASSUME Recorded, BaselineP!RunInv(Ends, MaxTokens), BaselineInPace,
           \A r \in Requests : req[r].result # "pending"
    PROVE  \E T, S : /\ T = Ends
                     /\ S = [q \in Requests |-> completion_time[q] - Span(Ends[q])]
                     /\ \A w \in Requests : FoundRoom(w, S, T)
<1>1. /\ problem \in [Requests -> Problems] /\ completion_time \in [Requests -> Nat]
  BY DEF Recorded, BenchTypes
<1>2. PICK T \in [BaselineP!Requests -> Nat \ {0}] : T = Ends
  BY <1>1, EndsType, BaselineSame
<1>3. PICK c \in [BaselineP!Requests -> Nat] : c = completion_time
  BY <1>1, BaselineSame
<1>4. PICK V, t : V = Verdicts /\ t = tick  OBVIOUS
<1>5. BaselineP!RunInv(T, MaxTokens)  BY <1>2
<1>6. BaselineP!BasePace(T, V, t, c)
  BY <1>2, <1>3, <1>4 DEF BaselineInPace
<1>7. \A r \in BaselineP!Requests : req[r].result # "pending"  BY BaselineSame
<1>8. \A w \in BaselineP!Requests :
         BaselineP!FoundRoom(w, [q \in BaselineP!Requests |-> c[q] - BaselineP!Span(T[q])], T)
  BY <1>5, <1>6, <1>7, BaselineIsLegal, BaselineP!BaseEnds, Zenon
<1>9. PICK S : S = [q \in BaselineP!Requests |-> c[q] - BaselineP!Span(T[q])]  OBVIOUS
<1>10. S = [q \in Requests |-> completion_time[q] - Span(Ends[q])]
  BY <1>2, <1>3, <1>9, BaselineSame DEF Span, BaselineP!Span
<1>11. \A w \in Requests : FoundRoom(w, S, T)
  BY <1>8, <1>9, BaselineSame DEF FoundRoom, Rivals, Span,
        BaselineP!FoundRoom, BaselineP!Rivals, BaselineP!Span
<1>12. QED  BY <1>2, <1>10, <1>11

-----------------------------------------------------------------------------
(* The run under probe_terminate.                                           *)

TerminateP == INSTANCE ContinuousBatcherProofs
    WITH Strategy <- "probe_terminate", GateLoaded <- TRUE, MaxTokensCap <- MaxTokens,
         MaxTokensChoices <- {MaxTokens}, StreamChoices <- {FALSE}, Impatient <- {}

\* This instance and the one of Benchmark are the same batcher, and what it
\* assumes of its constants holds.
LEMMA TerminateSame ==
    /\ TerminateP!Requests = Requests /\ TerminateP!Probability = Probability
    /\ \A S : TerminateP!Cardinality(S) = Cardinality(S)
    /\ \A m : TerminateP!NewRequest(m, FALSE) = Baseline!NewRequest(m, FALSE)
BY DEF Requests, Probability, Cardinality, Baseline!NewRequest, Baseline!NoDecision,
       TerminateP!Requests, TerminateP!Probability, TerminateP!Cardinality,
       TerminateP!NewRequest, TerminateP!NoDecision

LEMMA TerminateIsLegal ==
    /\ /\ NRequests \in Nat /\ MaxBatchSize \in Nat /\ MaxTokens \in Int
       /\ {MaxTokens} \subseteq Int
       /\ {FALSE} \subseteq BOOLEAN
       /\ {} \subseteq TerminateP!Requests
       /\ Probabilities \subseteq TerminateP!Probability
       /\ "probe_terminate" \in {"baseline", "probe_terminate", "probe_deprioritize"}
       /\ TRUE \in BOOLEAN
       /\ "probe_terminate" # "baseline" => TRUE
    /\ Checkpoint \in Nat /\ Threshold \in 0..100
BY TerminateSame, BenchmarkAssumption, GateAssumption DEF Probabilities

LEMMA TerminateSameTick == Terminate!Tick => TerminateP!Tick
BY ZenonT(150)
    DEF
        Terminate!Tick, TerminateP!Tick, Terminate!TryAdmit, TerminateP!TryAdmit,
        Terminate!BeginTick, TerminateP!BeginTick, Terminate!FillSlot,
        TerminateP!FillSlot, Terminate!EndFill, TerminateP!EndFill, Terminate!Preempt,
        TerminateP!Preempt, Terminate!RefillSlot, TerminateP!RefillSlot,
        Terminate!EndAdmission, TerminateP!EndAdmission, Terminate!Decode,
        TerminateP!Decode, Terminate!SkipDecode, TerminateP!SkipDecode, Terminate!Route,
        TerminateP!Route, Terminate!Finish, TerminateP!Finish, Terminate!EndTick,
        TerminateP!EndTick, Terminate!AdmitOne, TerminateP!AdmitOne,
        Terminate!HasFreeSlot, TerminateP!HasFreeSlot, Terminate!MayAdmit,
        TerminateP!MayAdmit, Terminate!VictimSlots, TerminateP!VictimSlots,
        Terminate!MayPreempt, TerminateP!MayPreempt, Terminate!NewlyRouted,
        TerminateP!NewlyRouted, Terminate!Evict, TerminateP!Evict,
        Terminate!CountFinish, TerminateP!CountFinish, Terminate!Reset,
        TerminateP!Reset, Terminate!Close, TerminateP!Close, Terminate!React,
        TerminateP!React, Terminate!Deprioritizes, TerminateP!Deprioritizes,
        Terminate!Terminates, TerminateP!Terminates, Terminate!Stamp, TerminateP!Stamp,
        Terminate!MeetsGate, TerminateP!MeetsGate, Terminate!Generate,
        TerminateP!Generate, Terminate!AtEnd, TerminateP!AtEnd, Terminate!TokenLimit,
        TerminateP!TokenLimit, Terminate!Requests, TerminateP!Requests,
        Terminate!PushFrontPriorityAware, TerminateP!PushFrontPriorityAware,
        Terminate!PushFront, TerminateP!PushFront, Terminate!InsertionPoint,
        TerminateP!InsertionPoint, Terminate!LastNormal, TerminateP!LastNormal,
        Terminate!InsertAt, TerminateP!InsertAt, Terminate!RemoveAt,
        TerminateP!RemoveAt, Terminate!Min, TerminateP!Min, Terminate!Max,
        TerminateP!Max, Terminate!ToSet, TerminateP!ToSet, Terminate!Classify,
        TerminateP!Classify, Terminate!Label, TerminateP!Label, Terminate!Confidence,
        TerminateP!Confidence, Terminate!NoDecision, TerminateP!NoDecision,
        Terminate!IsDivergent, TerminateP!IsDivergent, Terminate!ReadyAt,
        TerminateP!ReadyAt, Terminate!EndOfStream, TerminateP!EndOfStream

LEMMA TerminateStarts ==
    ASSUME StartRun
    PROVE  TerminateP!RunInv(Ends, MaxTokens)'
<1>1. /\ queue' = [i \in Requests |-> i]
      /\ req' = [r \in Requests |-> Baseline!NewRequest(MaxTokens, FALSE)]
      /\ submitted' = NRequests /\ active' = <<>> /\ cache' = {}
      /\ phase' = "await" /\ attempts' = 0
      /\ finished_ids' = {} /\ terminated_ids' = {}
      /\ total' = [admitted |-> 0, finished |-> 0, probe_terminated |-> 0, preemptions |-> 0]
      /\ problem' = problem
  BY DEF StartRun
<1>2. MaxTokens \in Int  BY BenchmarkAssumption
<1>3. PICK T : T = Ends  OBVIOUS
<1>4. /\ queue' = [i \in TerminateP!Requests |-> i]
      /\ req' = [r \in TerminateP!Requests |-> TerminateP!NewRequest(MaxTokens, FALSE)]
  BY <1>1, TerminateSame, Zenon
<1>5. TerminateP!RunInv(T, MaxTokens)'
  BY <1>1, <1>2, <1>4, TerminateIsLegal, TerminateP!RunStarts, Zenon
<1>6. Ends' = T  BY <1>1, <1>3 DEF Ends
<1>7. QED  BY <1>5, <1>6 DEF TerminateP!RunInv, TerminateP!UpToTheEnd

LEMMA TerminateGoes ==
    ASSUME problem \in [Requests -> Problems], TerminateP!RunInv(Ends, MaxTokens),
           Terminate!Tick, AsTheProblemsSay, problem' = problem
    PROVE  TerminateP!RunInv(Ends, MaxTokens)'
<1>1. PICK T \in [Requests -> Nat \ {0}] : T = Ends  BY EndsType
<1>2. TerminateP!RunInv(T, MaxTokens)  BY <1>1
<1>3. TerminateP!Tick  BY TerminateSameTick
<1>4. \A r \in Requests : req[r].n_generated \in Nat /\ TerminateP!TokenLimit(req[r]) = MaxTokens
  <2>1. req \in [Requests -> TerminateP!Request] /\ MaxTokens \in Nat
    BY <1>2, TerminateSame, BenchmarkAssumption
       DEF TerminateP!RunInv, TerminateP!Sound, TerminateP!Safety, TerminateP!TypeOK
  <2>2. QED
    BY <1>2, <2>1, TerminateSame DEF TerminateP!RunInv, TerminateP!Request, TerminateP!TokenLimit
<1>5. TerminateP!TextsEndAt(T)
  BY <1>1, <1>4, EndTest, TerminateSame DEF TerminateP!TextsEndAt, Ends
<1>6. TerminateP!RunInv(T, MaxTokens)'
  BY <1>1, <1>2, <1>3, <1>5, TerminateSame, TerminateIsLegal, TerminateP!RunGoesOn, Zenon
<1>7. Ends' = T  BY <1>1 DEF Ends
<1>8. QED  BY <1>6, <1>7 DEF TerminateP!RunInv, TerminateP!UpToTheEnd

LEMMA TerminateRests ==
    ASSUME TerminateP!RunInv(Ends, MaxTokens), UNCHANGED <<batcher, problem>>
    PROVE  TerminateP!RunInv(Ends, MaxTokens)'
<1>1. PICK T : T = Ends  OBVIOUS
<1>2. UNCHANGED TerminateP!vars  BY DEF TerminateP!vars, batcher
<1>3. TerminateP!RunInv(T, MaxTokens)'
  BY <1>1, <1>2, TerminateIsLegal, TerminateP!RunStandsStill, Zenon
<1>4. Ends' = T  BY <1>1 DEF Ends
<1>5. QED  BY <1>3, <1>4 DEF TerminateP!RunInv, TerminateP!UpToTheEnd

LEMMA TerminateReturns ==
    ASSUME TerminateP!RunInv(Ends, MaxTokens), \A r \in Requests : req[r].result # "pending"
    PROVE  EndedWell("probe_terminate")
<1>1. PICK T : T = Ends  OBVIOUS
<1>2. TerminateP!RunInv(T, MaxTokens)  BY <1>1
<1>3. \A r \in TerminateP!Requests : req[r].result # "pending"  BY TerminateSame
<1>4. /\ req \in [TerminateP!Requests -> TerminateP!Request]
      /\ total \in TerminateP!Totals
      /\ \A r \in TerminateP!Requests :
            /\ req[r].n_generated <= T[r]
            /\ ~req[r].terminated_by_probe => req[r].n_generated = T[r]
            /\ req[r].terminated_by_probe =>
                  "probe_terminate" = "probe_terminate" /\ req[r].n_generated >= 2
      /\ total.probe_terminated
            = TerminateP!Cardinality(
                  {r \in TerminateP!Requests : req[r].terminated_by_probe})
  BY <1>2, <1>3, TerminateIsLegal, TerminateP!RunEnds, Zenon
<1>5. \A r \in Requests :
         /\ req[r].n_generated \in Nat /\ req[r].terminated_by_probe \in BOOLEAN
         /\ req[r].routing_decision.label \in {"none", "convergent", "divergent"}
  BY <1>4, TerminateSame DEF TerminateP!Request, TerminateP!Decision
<1>6. total.probe_terminated = Cardinality({r \in Requests : req[r].terminated_by_probe})
  BY <1>4, TerminateSame
<1>7. total \in [admitted : Nat, finished : Nat, probe_terminated : Nat, preemptions : Nat]
  BY <1>4 DEF TerminateP!Totals
<1>8. QED  BY <1>1, <1>4, <1>5, <1>6, <1>7, TerminateSame DEF EndedWell

-----------------------------------------------------------------------------
(* The run under probe_deprioritize.                                        *)

DeprioritizeP == INSTANCE ContinuousBatcherProofs
    WITH Strategy <- "probe_deprioritize", GateLoaded <- TRUE, MaxTokensCap <- MaxTokens,
         MaxTokensChoices <- {MaxTokens}, StreamChoices <- {FALSE}, Impatient <- {}

\* This instance and the one of Benchmark are the same batcher, and what it
\* assumes of its constants holds.
LEMMA DeprioritizeSame ==
    /\ DeprioritizeP!Requests = Requests /\ DeprioritizeP!Probability = Probability
    /\ \A S : DeprioritizeP!Cardinality(S) = Cardinality(S)
    /\ \A m : DeprioritizeP!NewRequest(m, FALSE) = Baseline!NewRequest(m, FALSE)
BY DEF Requests, Probability, Cardinality, Baseline!NewRequest, Baseline!NoDecision,
       DeprioritizeP!Requests, DeprioritizeP!Probability, DeprioritizeP!Cardinality,
       DeprioritizeP!NewRequest, DeprioritizeP!NoDecision

LEMMA DeprioritizeIsLegal ==
    /\ /\ NRequests \in Nat /\ MaxBatchSize \in Nat /\ MaxTokens \in Int
       /\ {MaxTokens} \subseteq Int
       /\ {FALSE} \subseteq BOOLEAN
       /\ {} \subseteq DeprioritizeP!Requests
       /\ Probabilities \subseteq DeprioritizeP!Probability
       /\ "probe_deprioritize" \in {"baseline", "probe_terminate", "probe_deprioritize"}
       /\ TRUE \in BOOLEAN
       /\ "probe_deprioritize" # "baseline" => TRUE
    /\ Checkpoint \in Nat /\ Threshold \in 0..100
BY DeprioritizeSame, BenchmarkAssumption, GateAssumption DEF Probabilities

LEMMA DeprioritizeSameTick == Deprioritize!Tick => DeprioritizeP!Tick
BY ZenonT(150)
    DEF
        Deprioritize!Tick, DeprioritizeP!Tick, Deprioritize!TryAdmit,
        DeprioritizeP!TryAdmit, Deprioritize!BeginTick, DeprioritizeP!BeginTick,
        Deprioritize!FillSlot, DeprioritizeP!FillSlot, Deprioritize!EndFill,
        DeprioritizeP!EndFill, Deprioritize!Preempt, DeprioritizeP!Preempt,
        Deprioritize!RefillSlot, DeprioritizeP!RefillSlot, Deprioritize!EndAdmission,
        DeprioritizeP!EndAdmission, Deprioritize!Decode, DeprioritizeP!Decode,
        Deprioritize!SkipDecode, DeprioritizeP!SkipDecode, Deprioritize!Route,
        DeprioritizeP!Route, Deprioritize!Finish, DeprioritizeP!Finish,
        Deprioritize!EndTick, DeprioritizeP!EndTick, Deprioritize!AdmitOne,
        DeprioritizeP!AdmitOne, Deprioritize!HasFreeSlot, DeprioritizeP!HasFreeSlot,
        Deprioritize!MayAdmit, DeprioritizeP!MayAdmit, Deprioritize!VictimSlots,
        DeprioritizeP!VictimSlots, Deprioritize!MayPreempt, DeprioritizeP!MayPreempt,
        Deprioritize!NewlyRouted, DeprioritizeP!NewlyRouted, Deprioritize!Evict,
        DeprioritizeP!Evict, Deprioritize!CountFinish, DeprioritizeP!CountFinish,
        Deprioritize!Reset, DeprioritizeP!Reset, Deprioritize!Close,
        DeprioritizeP!Close, Deprioritize!React, DeprioritizeP!React,
        Deprioritize!Deprioritizes, DeprioritizeP!Deprioritizes,
        Deprioritize!Terminates, DeprioritizeP!Terminates, Deprioritize!Stamp,
        DeprioritizeP!Stamp, Deprioritize!MeetsGate, DeprioritizeP!MeetsGate,
        Deprioritize!Generate, DeprioritizeP!Generate, Deprioritize!AtEnd,
        DeprioritizeP!AtEnd, Deprioritize!TokenLimit, DeprioritizeP!TokenLimit,
        Deprioritize!Requests, DeprioritizeP!Requests,
        Deprioritize!PushFrontPriorityAware, DeprioritizeP!PushFrontPriorityAware,
        Deprioritize!PushFront, DeprioritizeP!PushFront, Deprioritize!InsertionPoint,
        DeprioritizeP!InsertionPoint, Deprioritize!LastNormal, DeprioritizeP!LastNormal,
        Deprioritize!InsertAt, DeprioritizeP!InsertAt, Deprioritize!RemoveAt,
        DeprioritizeP!RemoveAt, Deprioritize!Min, DeprioritizeP!Min, Deprioritize!Max,
        DeprioritizeP!Max, Deprioritize!ToSet, DeprioritizeP!ToSet,
        Deprioritize!Classify, DeprioritizeP!Classify, Deprioritize!Label,
        DeprioritizeP!Label, Deprioritize!Confidence, DeprioritizeP!Confidence,
        Deprioritize!NoDecision, DeprioritizeP!NoDecision, Deprioritize!IsDivergent,
        DeprioritizeP!IsDivergent, Deprioritize!ReadyAt, DeprioritizeP!ReadyAt,
        Deprioritize!EndOfStream, DeprioritizeP!EndOfStream

LEMMA DeprioritizeStarts ==
    ASSUME StartRun
    PROVE  DeprioritizeP!RunInv(Ends, MaxTokens)'
<1>1. /\ queue' = [i \in Requests |-> i]
      /\ req' = [r \in Requests |-> Baseline!NewRequest(MaxTokens, FALSE)]
      /\ submitted' = NRequests /\ active' = <<>> /\ cache' = {}
      /\ phase' = "await" /\ attempts' = 0
      /\ finished_ids' = {} /\ terminated_ids' = {}
      /\ total' = [admitted |-> 0, finished |-> 0, probe_terminated |-> 0, preemptions |-> 0]
      /\ problem' = problem
  BY DEF StartRun
<1>2. MaxTokens \in Int  BY BenchmarkAssumption
<1>3. PICK T : T = Ends  OBVIOUS
<1>4. /\ queue' = [i \in DeprioritizeP!Requests |-> i]
      /\ req' = [r \in DeprioritizeP!Requests |-> DeprioritizeP!NewRequest(MaxTokens, FALSE)]
  BY <1>1, DeprioritizeSame, Zenon
<1>5. DeprioritizeP!RunInv(T, MaxTokens)'
  BY <1>1, <1>2, <1>4, DeprioritizeIsLegal, DeprioritizeP!RunStarts, Zenon
<1>6. Ends' = T  BY <1>1, <1>3 DEF Ends
<1>7. QED  BY <1>5, <1>6 DEF DeprioritizeP!RunInv, DeprioritizeP!UpToTheEnd

LEMMA DeprioritizeGoes ==
    ASSUME problem \in [Requests -> Problems], DeprioritizeP!RunInv(Ends, MaxTokens),
           Deprioritize!Tick, AsTheProblemsSay, problem' = problem
    PROVE  DeprioritizeP!RunInv(Ends, MaxTokens)'
<1>1. PICK T \in [Requests -> Nat \ {0}] : T = Ends  BY EndsType
<1>2. DeprioritizeP!RunInv(T, MaxTokens)  BY <1>1
<1>3. DeprioritizeP!Tick  BY DeprioritizeSameTick
<1>4. \A r \in Requests : req[r].n_generated \in Nat /\ DeprioritizeP!TokenLimit(req[r]) = MaxTokens
  <2>1. req \in [Requests -> DeprioritizeP!Request] /\ MaxTokens \in Nat
    BY <1>2, DeprioritizeSame, BenchmarkAssumption
       DEF DeprioritizeP!RunInv, DeprioritizeP!Sound, DeprioritizeP!Safety, DeprioritizeP!TypeOK
  <2>2. QED
    BY <1>2, <2>1, DeprioritizeSame DEF DeprioritizeP!RunInv, DeprioritizeP!Request, DeprioritizeP!TokenLimit
<1>5. DeprioritizeP!TextsEndAt(T)
  BY <1>1, <1>4, EndTest, DeprioritizeSame DEF DeprioritizeP!TextsEndAt, Ends
<1>6. DeprioritizeP!RunInv(T, MaxTokens)'
  BY <1>1, <1>2, <1>3, <1>5, DeprioritizeSame, DeprioritizeIsLegal, DeprioritizeP!RunGoesOn, Zenon
<1>7. Ends' = T  BY <1>1 DEF Ends
<1>8. QED  BY <1>6, <1>7 DEF DeprioritizeP!RunInv, DeprioritizeP!UpToTheEnd

LEMMA DeprioritizeRests ==
    ASSUME DeprioritizeP!RunInv(Ends, MaxTokens), UNCHANGED <<batcher, problem>>
    PROVE  DeprioritizeP!RunInv(Ends, MaxTokens)'
<1>1. PICK T : T = Ends  OBVIOUS
<1>2. UNCHANGED DeprioritizeP!vars  BY DEF DeprioritizeP!vars, batcher
<1>3. DeprioritizeP!RunInv(T, MaxTokens)'
  BY <1>1, <1>2, DeprioritizeIsLegal, DeprioritizeP!RunStandsStill, Zenon
<1>4. Ends' = T  BY <1>1 DEF Ends
<1>5. QED  BY <1>3, <1>4 DEF DeprioritizeP!RunInv, DeprioritizeP!UpToTheEnd

LEMMA DeprioritizeReturns ==
    ASSUME DeprioritizeP!RunInv(Ends, MaxTokens), \A r \in Requests : req[r].result # "pending"
    PROVE  EndedWell("probe_deprioritize")
<1>1. PICK T : T = Ends  OBVIOUS
<1>2. DeprioritizeP!RunInv(T, MaxTokens)  BY <1>1
<1>3. \A r \in DeprioritizeP!Requests : req[r].result # "pending"  BY DeprioritizeSame
<1>4. /\ req \in [DeprioritizeP!Requests -> DeprioritizeP!Request]
      /\ total \in DeprioritizeP!Totals
      /\ \A r \in DeprioritizeP!Requests :
            /\ req[r].n_generated <= T[r]
            /\ ~req[r].terminated_by_probe => req[r].n_generated = T[r]
            /\ req[r].terminated_by_probe =>
                  "probe_deprioritize" = "probe_terminate" /\ req[r].n_generated >= 2
      /\ total.probe_terminated
            = DeprioritizeP!Cardinality(
                  {r \in DeprioritizeP!Requests : req[r].terminated_by_probe})
  BY <1>2, <1>3, DeprioritizeIsLegal, DeprioritizeP!RunEnds, Zenon
<1>5. \A r \in Requests :
         /\ req[r].n_generated \in Nat /\ req[r].terminated_by_probe \in BOOLEAN
         /\ req[r].routing_decision.label \in {"none", "convergent", "divergent"}
  BY <1>4, DeprioritizeSame DEF DeprioritizeP!Request, DeprioritizeP!Decision
<1>6. total.probe_terminated = Cardinality({r \in Requests : req[r].terminated_by_probe})
  BY <1>4, DeprioritizeSame
<1>7. total \in [admitted : Nat, finished : Nat, probe_terminated : Nat, preemptions : Nat]
  BY <1>4 DEF DeprioritizeP!Totals
<1>8. QED  BY <1>1, <1>4, <1>5, <1>6, <1>7, DeprioritizeSame DEF EndedWell

\* The run as its clock sees it: it is not behind the baseline's.
DeprioritizeInPace ==
    \E T, V, t, c, S : /\ T = Ends /\ V = Verdicts /\ t = tick /\ c = completion_time
                       /\ S = Began /\ DeprioritizeP!LatePace(T, V, t, c, S)

LEMMA DeprioritizeStartsInPace ==
    ASSUME StartRun, Recorded, Len(results) >= 1, \A w \in Requests : FoundRoom(w, Began, Ends)
    PROVE  DeprioritizeInPace'
<1>1. /\ queue' = [i \in Requests |-> i] /\ active' = <<>>
      /\ req' = [r \in Requests |-> Baseline!NewRequest(MaxTokens, FALSE)]
      /\ submitted' = NRequests /\ phase' = "await" /\ tick' = 0
      /\ problem' = problem /\ results' = results
  BY DEF StartRun
<1>2. PICK T, V, c : T = Ends /\ V = Verdicts /\ c = completion_time'  OBVIOUS
<1>3. PICK S \in [DeprioritizeP!Requests -> Int] : S = Began
  BY BeganType, DeprioritizeSame
<1>4. /\ queue' = [i \in DeprioritizeP!Requests |-> i]
      /\ req' = [r \in DeprioritizeP!Requests |-> DeprioritizeP!NewRequest(MaxTokens, FALSE)]
  BY <1>1, DeprioritizeSame, Zenon
<1>5. \A r \in DeprioritizeP!Requests : S[r] >= 1
  BY <1>3, DeprioritizeSame DEF FoundRoom
<1>6. DeprioritizeP!LatePace(T, V, 0, c, S)'
  BY <1>1, <1>4, <1>5, DeprioritizeIsLegal, DeprioritizeP!PaceStarts, Zenon
<1>7. Ends' = T /\ Verdicts' = V /\ Began' = S
  BY <1>1, <1>2, <1>3 DEF Ends, Verdicts, Began
<1>8. QED  BY <1>1, <1>2, <1>6, <1>7 DEF DeprioritizeInPace

LEMMA DeprioritizeKeepsPace ==
    ASSUME Recorded, Len(results) >= 1, \A w \in Requests : FoundRoom(w, Began, Ends),
           DeprioritizeP!RunInv(Ends, MaxTokens), RunTick, Deprioritize!Tick, DeprioritizeInPace
    PROVE  DeprioritizeInPace'
<1>1. /\ AsTheProblemsSay /\ UNCHANGED <<problem, results>>
      /\ tick' = IF phase = "await" THEN tick + 1 ELSE tick
      /\ completion_time' = [r \in Requests |->
            IF req'[r].completed /\ ~req[r].completed THEN tick' ELSE completion_time[r]]
  BY DEF RunTick
<1>2. /\ problem \in [Requests -> Problems] /\ tick \in Nat
      /\ completion_time \in [Requests -> Nat]
  BY DEF Recorded, BenchTypes
<1>3. PICK T \in [DeprioritizeP!Requests -> Nat \ {0}] : T = Ends
  BY <1>2, EndsType, DeprioritizeSame
<1>4. PICK c \in [DeprioritizeP!Requests -> Nat] : c = completion_time
  BY <1>2, DeprioritizeSame
<1>5. PICK S \in [DeprioritizeP!Requests -> Int] : S = Began
  BY BeganType, DeprioritizeSame
<1>6. PICK t \in Nat : t = tick  BY <1>2
<1>7. PICK V, u, d : V = Verdicts /\ u = tick' /\ d = completion_time'  OBVIOUS
<1>8. DeprioritizeP!RunInv(T, MaxTokens)  BY <1>3
<1>9. DeprioritizeP!RunInv(T, MaxTokens)'
  <2>1. DeprioritizeP!RunInv(Ends, MaxTokens)'  BY <1>1, <1>2, DeprioritizeGoes
  <2>2. Ends' = T  BY <1>1, <1>3 DEF Ends
  <2>3. QED  BY <2>1, <2>2 DEF DeprioritizeP!RunInv, DeprioritizeP!UpToTheEnd
<1>10. DeprioritizeP!LatePace(T, V, t, c, S)
  BY <1>3, <1>4, <1>5, <1>6, <1>7 DEF DeprioritizeInPace
<1>11. DeprioritizeP!Clock(t, u, c, d)
  BY <1>1, <1>4, <1>6, <1>7, DeprioritizeSame DEF DeprioritizeP!Clock
<1>12. DeprioritizeP!VerdictsAre(V)
  BY <1>1, <1>7, VerdictsSay, DeprioritizeSame
     DEF DeprioritizeP!VerdictsAre, DeprioritizeP!NoDecision, NoDecision
<1>13. DeprioritizeP!Tick  BY DeprioritizeSameTick
<1>14. \A w \in DeprioritizeP!Requests : DeprioritizeP!FoundRoom(w, S, T)
  <2>1. \A w \in Requests : FoundRoom(w, S, T)  BY <1>3, <1>5
  <2>2. QED
    BY <2>1, DeprioritizeSame DEF FoundRoom, Rivals, Span,
          DeprioritizeP!FoundRoom, DeprioritizeP!Rivals, DeprioritizeP!Span
<1>15. DeprioritizeP!LatePace(T, V, u, d, S)'
  BY <1>8, <1>9, <1>10, <1>11, <1>12, <1>13, <1>14, DeprioritizeIsLegal,
     DeprioritizeP!LateGoesOn, Zenon
<1>16. Ends' = T /\ Verdicts' = V /\ Began' = S
  BY <1>1, <1>3, <1>5, <1>7 DEF Ends, Verdicts, Began
<1>17. QED  BY <1>7, <1>15, <1>16 DEF DeprioritizeInPace

LEMMA DeprioritizeStandsInPace ==
    ASSUME DeprioritizeInPace, UNCHANGED <<batcher, problem, results, tick, completion_time>>
    PROVE  DeprioritizeInPace'
<1>1. PICK T, V, t, c, S : /\ T = Ends /\ V = Verdicts /\ t = tick /\ c = completion_time
                           /\ S = Began /\ DeprioritizeP!LatePace(T, V, t, c, S)
  BY DEF DeprioritizeInPace
<1>2. UNCHANGED DeprioritizeP!vars  BY DEF DeprioritizeP!vars, batcher
<1>3. DeprioritizeP!LatePace(T, V, t, c, S)'
  BY <1>1, <1>2, DeprioritizeIsLegal, DeprioritizeP!PaceStandsStill, Zenon
<1>4. Ends' = T /\ Verdicts' = V /\ tick' = t /\ completion_time' = c /\ Began' = S
  BY <1>1 DEF Ends, Verdicts, Began
<1>5. QED  BY <1>3, <1>4 DEF DeprioritizeInPace

\* When the run is over the requests judged convergent were completed no later
\* than the baseline's record says.
LEMMA DeprioritizeWasInTime ==
    ASSUME Recorded, Len(results) >= 1, DeprioritizeP!RunInv(Ends, MaxTokens), DeprioritizeInPace,
           \A r \in Requests : req[r].result # "pending"
    PROVE  \A r \in Requests : req[r].routing_decision.label = "convergent" =>
              completion_time[r] <= results[1].records[r].latency
<1>1. /\ problem \in [Requests -> Problems] /\ completion_time \in [Requests -> Nat]
  BY DEF Recorded, BenchTypes
<1>2. PICK T \in [DeprioritizeP!Requests -> Nat \ {0}] : T = Ends
  BY <1>1, EndsType, DeprioritizeSame
<1>3. PICK c \in [DeprioritizeP!Requests -> Nat] : c = completion_time
  BY <1>1, DeprioritizeSame
<1>4. PICK b \in [DeprioritizeP!Requests -> Nat] :
         b = [q \in Requests |-> results[1].records[q].latency]
  BY FirstLatencies, DeprioritizeSame
<1>5. PICK V, t : V = Verdicts /\ t = tick  OBVIOUS
<1>6. DeprioritizeP!RunInv(T, MaxTokens)  BY <1>2
<1>7. DeprioritizeP!LatePace(T, V, t, c, Began)
  BY <1>2, <1>3, <1>5 DEF DeprioritizeInPace
<1>8. Began = [q \in DeprioritizeP!Requests |-> b[q] - DeprioritizeP!Span(T[q])]
  BY <1>2, <1>4, DeprioritizeSame DEF Began, Span, DeprioritizeP!Span
<1>9. DeprioritizeP!LatePace(T, V, t, c,
         [q \in DeprioritizeP!Requests |-> b[q] - DeprioritizeP!Span(T[q])])
  BY <1>7, <1>8
<1>10. \A r \in DeprioritizeP!Requests : req[r].result # "pending"  BY DeprioritizeSame
<1>11. \A r \in DeprioritizeP!Requests :
          req[r].routing_decision.label = "convergent" => c[r] <= b[r]
  BY <1>6, <1>9, <1>10, DeprioritizeIsLegal, DeprioritizeP!LateEnds, Zenon
<1>12. QED  BY <1>3, <1>4, <1>11, DeprioritizeSame

-----------------------------------------------------------------------------
(* The three runs, one after the other.                                     *)

\* The run in progress is one of a sound batcher, which writes these texts.
SoundRun ==
    /\ Strategy = "baseline" => BaselineP!RunInv(Ends, MaxTokens)
    /\ Strategy = "probe_terminate" => TerminateP!RunInv(Ends, MaxTokens)
    /\ Strategy = "probe_deprioritize" => DeprioritizeP!RunInv(Ends, MaxTokens)

BenchInv == Recorded /\ (running => SoundRun)

LEMMA TickSound ==
    ASSUME Recorded, SoundRun, RunTick
    PROVE  SoundRun'
<1>1. /\ AsTheProblemsSay /\ UNCHANGED <<problem, results>>
      /\ \/ Strategy = "baseline" /\ Baseline!Tick
         \/ Strategy = "probe_terminate" /\ Terminate!Tick
         \/ Strategy = "probe_deprioritize" /\ Deprioritize!Tick
  BY DEF RunTick
<1>2. problem \in [Requests -> Problems]  BY DEF Recorded, BenchTypes
<1>3. Strategy' = Strategy  BY <1>1 DEF Strategy
<1>4. CASE Strategy = "baseline" /\ Baseline!Tick
  BY <1>1, <1>2, <1>3, <1>4, BaselineGoes DEF SoundRun
<1>5. CASE Strategy = "probe_terminate" /\ Terminate!Tick
  BY <1>1, <1>2, <1>3, <1>5, TerminateGoes DEF SoundRun
<1>6. CASE Strategy = "probe_deprioritize" /\ Deprioritize!Tick
  BY <1>1, <1>2, <1>3, <1>6, DeprioritizeGoes DEF SoundRun
<1>7. QED  BY <1>1, <1>4, <1>5, <1>6

\* The gather returns when the run of this strategy is over.
LEMMA CollectEnded ==
    ASSUME Recorded, SoundRun, CollectRecords
    PROVE  EndedWell(Strategy)
<1>1. \A r \in Requests : req[r].result # "pending"  BY DEF CollectRecords
<1>2. /\ Len(results) \in Nat /\ Len(results) < 3
  BY LenProperties DEF CollectRecords, Recorded, BenchTypes
<1>3. Strategy \in {"baseline", "probe_terminate", "probe_deprioritize"}
  <2>1. \A k \in Nat : k < 3 => k = 0 \/ k = 1 \/ k = 2  OBVIOUS
  <2>2. Len(results) = 0 \/ Len(results) = 1 \/ Len(results) = 2  BY <1>2, <2>1
  <2>3. QED  BY <1>2, <2>2, StrategyIs
<1>4. QED
  BY <1>1, <1>3, BaselineReturns, TerminateReturns, DeprioritizeReturns DEF SoundRun

LEMMA NextBench == BenchInv /\ [Next]_vars => BenchInv'
<1> SUFFICES ASSUME BenchInv, [Next]_vars PROVE BenchInv'  OBVIOUS
<1>1. CASE StartRun
  BY <1>1, StartRecorded, BaselineStarts, TerminateStarts, DeprioritizeStarts
     DEF BenchInv, SoundRun
<1>2. CASE RunTick
  <2>1. running  BY <1>2 DEF RunTick
  <2>2. QED  BY <1>2, <2>1, TickRecorded, TickSound DEF BenchInv
<1>3. CASE CollectRecords
  <2>1. running /\ ~running'  BY <1>3 DEF CollectRecords
  <2>2. QED  BY <1>3, <2>1, CollectEnded, CollectRecorded DEF BenchInv
<1>4. CASE UNCHANGED vars
  <2>1. UNCHANGED <<batcher, problem>> /\ UNCHANGED <<running, tick, completion_time, results>>
    BY <1>4 DEF vars, run
  <2>2. Recorded'  BY <2>1, NothingRecorded DEF BenchInv, Recorded, BenchTypes
  <2>3. Strategy' = Strategy  BY <2>1 DEF Strategy
  <2>4. SoundRun => SoundRun'
    BY <2>1, <2>3, BaselineRests, TerminateRests, DeprioritizeRests DEF SoundRun
  <2>5. QED  BY <2>1, <2>2, <2>4 DEF BenchInv
<1>5. QED  BY <1>1, <1>2, <1>3, <1>4 DEF Next, Reported

\* The baseline's run as it goes, and what it leaves to compare with; the run
\* under probe_deprioritize as it goes, and what it comes to.
RoomWasFound == \A w \in Requests : FoundRoom(w, Began, Ends)

InTime ==
    \A r \in Requests : results[3].records[r].routing_label = "convergent" =>
        results[3].records[r].latency <= results[1].records[r].latency

Timed ==
    /\ running /\ Strategy = "baseline" => BaselineInPace
    /\ running /\ Strategy = "probe_deprioritize" => DeprioritizeInPace
    /\ Len(results) >= 1 => RoomWasFound
    /\ Len(results) = 3 => InTime

LEMMA SameRoom ==
    ASSUME UNCHANGED <<problem, results>>
    PROVE  (RoomWasFound' <=> RoomWasFound) /\ (InTime' <=> InTime)
<1>1. Began' = Began /\ Ends' = Ends  BY DEF Began, Ends
<1>2. RoomWasFound' <=> RoomWasFound  BY <1>1 DEF RoomWasFound, FoundRoom, Rivals
<1>3. InTime' <=> InTime  BY DEF InTime
<1>4. QED  BY <1>2, <1>3

LEMMA StrategyTells ==
    ASSUME Recorded, running
    PROVE  /\ Strategy = "baseline" <=> Len(results) = 0
           /\ Strategy = "probe_deprioritize" <=> Len(results) = 2
           /\ Len(results) \in 0..2
<1>1. Len(results) \in Nat /\ Len(results) < 3
  BY LenProperties DEF Recorded, BenchTypes
<1>2. \A k \in Nat : k < 3 => k = 0 \/ k = 1 \/ k = 2  OBVIOUS
<1>3. Len(results) = 0 \/ Len(results) = 1 \/ Len(results) = 2  BY <1>1, <1>2
<1>4. QED  BY <1>1, <1>3, StrategyIs

LEMMA CollectTimed ==
    ASSUME Recorded, SoundRun, Timed, CollectRecords
    PROVE  Timed'
<1> DEFINE k == Len(results)
           records == [r \in Requests |-> Record(r)]
           outcome == [records |-> records, batcher_stats |-> total]
<1>1. /\ running /\ running' = FALSE /\ problem' = problem
      /\ results' = Append(results, outcome)
      /\ \A r \in Requests : req[r].result # "pending"
  BY DEF CollectRecords
<1>2. /\ results \in Seq(Outcome) /\ k \in 0..2
      /\ Strategy = "baseline" <=> k = 0
      /\ Strategy = "probe_deprioritize" <=> k = 2
  BY <1>1, StrategyTells DEF Recorded, BenchTypes
<1>3. outcome \in Outcome
  <2>1. EndedWell(Strategy)  BY CollectEnded
  <2>2. completion_time \in [Requests -> Nat]  BY DEF Recorded, BenchTypes
  <2>3. QED  BY <2>1, <2>2 DEF EndedWell, Record, Converged, Outcome
<1>4. /\ Len(results') = k + 1 /\ results'[k + 1] = outcome
      /\ \A i \in 1..k : results'[i] = results[i]
  <2> HIDE DEF outcome
  <2>1. QED  BY <1>1, <1>2, <1>3, AppendProperties, LenProperties
<1>5. Ends' = Ends  BY <1>1 DEF Ends
<1>6. \A r \in Requests : /\ outcome.records[r].latency = completion_time[r]
                          /\ outcome.records[r].routing_label = req[r].routing_decision.label
  BY DEF Record
<1> HIDE DEF k, outcome
<1>7. RoomWasFound'
  <2>1. CASE k = 0
    <3>1. BaselineP!RunInv(Ends, MaxTokens) /\ BaselineInPace
      BY <1>1, <1>2, <2>1 DEF SoundRun, Timed
    <3>2. PICK T, S : /\ T = Ends
                      /\ S = [q \in Requests |-> completion_time[q] - Span(Ends[q])]
                      /\ \A w \in Requests : FoundRoom(w, S, T)
      BY <1>1, <3>1, BaselineHadRoom
    <3>3. results'[1] = outcome  BY <1>4, <2>1
    <3>4. Began' = S  BY <1>5, <1>6, <3>2, <3>3 DEF Began
    <3>5. \A w \in Requests : FoundRoom(w, Began', Ends')  BY <1>5, <3>2, <3>4
    <3>6. QED  BY <3>5 DEF RoomWasFound, FoundRoom, Rivals
  <2>2. CASE k >= 1
    <3>1. results'[1] = results[1]  BY <1>2, <1>4, <2>2
    <3>2. Began' = Began  BY <1>5, <3>1 DEF Began
    <3>3. RoomWasFound  BY <2>2 DEF Timed, k
    <3>4. QED  BY <1>5, <3>2, <3>3 DEF RoomWasFound, FoundRoom, Rivals
  <2>3. QED  BY <1>2, <2>1, <2>2
<1>8. ASSUME Len(results') = 3
      PROVE  InTime'
  <2>1. k = 2
    <3>1. k \in 0..2 /\ k + 1 = 3  BY <1>2, <1>4, <1>8
    <3>2. QED  BY ONLY <3>1
  <2>2. results'[3] = outcome /\ results'[1] = results[1]  BY <1>4, <2>1
  <2>3. DeprioritizeP!RunInv(Ends, MaxTokens) /\ DeprioritizeInPace /\ Len(results) >= 1
    BY <1>1, <1>2, <2>1 DEF SoundRun, Timed, k
  <2>4. \A r \in Requests : req[r].routing_decision.label = "convergent" =>
           completion_time[r] <= results[1].records[r].latency
    BY <1>1, <2>3, DeprioritizeWasInTime
  <2>5. QED  BY <1>6, <2>2, <2>4 DEF InTime
<1>9. QED  BY <1>1, <1>7, <1>8 DEF Timed

LEMMA NextTimed == BenchInv /\ Timed /\ [Next]_vars => Timed'
<1> SUFFICES ASSUME BenchInv, Timed, [Next]_vars PROVE Timed'  OBVIOUS
<1>1. Recorded /\ (running => SoundRun) /\ Len(results) \in Nat
  BY LenProperties DEF BenchInv, Recorded, BenchTypes
<1>2. CASE StartRun
  <2>1. UNCHANGED <<problem, results>> /\ Len(results) < 3
    BY <1>2 DEF StartRun, ALL_STRATEGIES
  <2>2. Strategy' = Strategy  BY <2>1 DEF Strategy
  <2>3. BaselineInPace'  BY <1>2, BaselineStartsInPace
  <2>4. Strategy = "probe_deprioritize" => DeprioritizeInPace'
    <3>1. Strategy = "probe_deprioritize" => Len(results) = 2
      <4>1. \A k \in Nat : k < 3 => k = 0 \/ k = 1 \/ k = 2  OBVIOUS
      <4>2. Len(results) = 0 \/ Len(results) = 1 \/ Len(results) = 2  BY <1>1, <2>1, <4>1
      <4>3. QED  BY <1>1, <2>1, <4>2, StrategyIs
    <3>2. Len(results) = 2 => RoomWasFound /\ Len(results) >= 1  BY DEF Timed
    <3>3. QED  BY <1>1, <1>2, <3>1, <3>2, DeprioritizeStartsInPace DEF RoomWasFound
  <2>5. QED  BY <2>1, <2>2, <2>3, <2>4, SameRoom DEF Timed
<1>3. CASE RunTick
  <2>1. /\ running /\ UNCHANGED <<problem, results, running>>
        /\ \/ Strategy = "baseline" /\ Baseline!Tick
           \/ Strategy = "probe_terminate" /\ Terminate!Tick
           \/ Strategy = "probe_deprioritize" /\ Deprioritize!Tick
    BY <1>3 DEF RunTick
  <2>2. Strategy' = Strategy  BY <2>1 DEF Strategy
  <2>3. ASSUME Strategy = "baseline" PROVE BaselineInPace'
    <3>1. Baseline!Tick  BY <2>1, <2>3
    <3>2. BaselineP!RunInv(Ends, MaxTokens) /\ BaselineInPace
      BY <1>1, <2>1, <2>3 DEF SoundRun, Timed
    <3>3. QED  BY <1>1, <1>3, <3>1, <3>2, BaselineKeepsPace
  <2>4. ASSUME Strategy = "probe_deprioritize" PROVE DeprioritizeInPace'
    <3>1. Deprioritize!Tick  BY <2>1, <2>4
    <3>2. Len(results) = 2  BY <1>1, <2>1, <2>4, StrategyTells
    <3>3. /\ DeprioritizeP!RunInv(Ends, MaxTokens) /\ DeprioritizeInPace
          /\ Len(results) >= 1 /\ \A w \in Requests : FoundRoom(w, Began, Ends)
      BY <1>1, <2>1, <2>4, <3>2 DEF SoundRun, Timed, RoomWasFound
    <3>4. QED  BY <1>1, <1>3, <3>1, <3>3, DeprioritizeKeepsPace
  <2>5. QED  BY <2>1, <2>2, <2>3, <2>4, SameRoom DEF Timed
<1>4. CASE CollectRecords
  <2>1. running  BY <1>4 DEF CollectRecords
  <2>2. QED  BY <1>1, <1>4, <2>1, CollectTimed
<1>5. CASE UNCHANGED vars
  <2>1. /\ UNCHANGED <<batcher, problem, results, tick, completion_time>>
        /\ UNCHANGED <<problem, results>> /\ running' = running
    BY <1>5 DEF vars, run
  <2>2. Strategy' = Strategy  BY <2>1 DEF Strategy
  <2>3. (BaselineInPace => BaselineInPace') /\ (DeprioritizeInPace => DeprioritizeInPace')
    BY <2>1, BaselineStandsInPace, DeprioritizeStandsInPace
  <2>4. QED  BY <2>1, <2>2, <2>3, SameRoom DEF Timed
<1>6. QED  BY <1>2, <1>3, <1>4, <1>5 DEF Next, Reported

LEMMA BenchHolds == Spec => [](Recorded /\ Timed)
<1>1. Init => BenchInv /\ Timed
  <2> SUFFICES ASSUME Init PROVE BenchInv /\ Timed  OBVIOUS
  <2>1. ~running /\ Len(results) = 0  BY EmptySeq DEF Init
  <2>2. BenchInv  BY <2>1, InitRecorded DEF BenchInv
  <2>3. ~(Len(results) >= 1) /\ Len(results) # 3  BY <2>1
  <2>4. QED  BY <2>1, <2>2, <2>3 DEF Timed
<1>2. BenchInv => Recorded  BY DEF BenchInv
<1>3. QED  BY <1>1, <1>2, NextBench, NextTimed, PTL DEF Spec

LEMMA NoneSlowerNow ==
    ASSUME Timed
    PROVE  NoConvergentIsSlower
<1> SUFFICES ASSUME AllDone, NEW r \in Labelled("convergent")
             PROVE  Records("probe_deprioritize")[r].latency <= Records("baseline")[r].latency
  BY DEF NoConvergentIsSlower
<1>1. InTime  BY DEF Timed, AllDone, ALL_STRATEGIES
<1>2. r \in Requests /\ results[3].records[r].routing_label = "convergent"
  BY RecordsAre DEF Labelled
<1>3. results[3].records[r].latency <= results[1].records[r].latency  BY <1>1, <1>2 DEF InTime
<1>4. QED  BY <1>3, RecordsAre

-----------------------------------------------------------------------------
(* The theorems.                                                            *)

\* The baseline is the counterfactual the report takes it for: whatever the
\* order of completions and the preemptions, a text no strategy cut is the
\* baseline's, and one probe_terminate cut is no longer than it.
THEOREM CounterfactualHolds == Spec => []BaselineIsCounterfactual
BY BenchHolds, CounterfactualNow, PTL

\* The false terminations of the report are the requests probe_terminate cut
\* whose samples would have ended their thinking within the limit, and the
\* terminated are those the batcher counted.
THEOREM FalseTerminationsHold == Spec => []FalseTerminationsAreReal
BY BenchHolds, RealNow, PTL

\* The rows of the report's table explain one another: deprioritizing changes
\* no convergence rate, terminating lowers it by the false terminations not yet
\* converged, and the terminated of each row are those its batcher counted.
THEOREM RowsAddUp == Spec => []ConvergenceAddsUp
BY BenchHolds, AddsUpNow, PTL

\* The hypothesis of probe_deprioritize: a request judged convergent does not
\* wait longer for its answer than under the baseline, whatever is preempted.
THEOREM NoneIsSlower == Spec => []NoConvergentIsSlower
BY BenchHolds, NoneSlowerNow, PTL

\* What the breakdown calls a p50 is the median, and that of the requests judged
\* convergent is not above their median under the baseline.
THEOREM MedianIsBetter == Spec => []MedianImproves
BY BenchHolds, NoneSlowerNow, MedianNow, PTL
================================================================================
