---------------------------- MODULE WorkflowProofs ----------------------------
(***************************************************************************)
(* What a pre-flight check that passed is worth, what written results are, *)
(* that the cache serves the check and the server alike, and whom the      *)
(* parity check blames: for any settings, recordings, strategies and model.*)
(***************************************************************************)
EXTENDS Workflow, SequenceCacheProofs

\* A probe an evaluation under the settings e neither crashes nor hangs on.
Suits(probe, e) ==
    /\ Loads(probe, e.layer, e.checkpoint)
    /\ probe.dim = HiddenDim
    /\ e.layer < NLayers

\* A check under way has no error only if its probe fits; a process that ended
\* badly had one that does not.
VettedInv ==
    /\ report.passed /\ report.gate # NoFile => Suits(report.gate, report.env)
    /\ job \in {"single", "pair", "report"} /\ errors = {} /\ gate # NoFile => Suits(gate, env)
    /\ job \in {"single", "pair", "report"} => env.layer < NLayers
    /\ job \in {"crashed", "hung"} => ~Suits(gate, env)

LEMMA InitVetted == WorkflowInit => VettedInv
BY DEF WorkflowInit, VettedInv, NoReport

\* The check of the probe itself: an error, or a probe that fits, or none.
LEMMA CheckProbeVetted ==
    ASSUME VettedInv, CheckProbe
    PROVE  VettedInv'
<1>1. report' = report /\ env' = env  BY DEF CheckProbe
<1>2. CASE env.layer < NLayers
  <2>1. job' = "single"  BY <1>2 DEF CheckProbe
  <2>2. ASSUME errors' = {}, gate' # NoFile
        PROVE  Suits(gate', env')
    <3>1. gate' = file /\ Loads(file, env.layer, env.checkpoint)  BY <2>2 DEF CheckProbe
    <3>2. ProbeErrors(file, env.layer, env.checkpoint) = {}  BY <2>2 DEF CheckProbe
    <3>3. file.dim = HiddenDim  BY <2>2, <3>1, <3>2 DEF ProbeErrors
    <3>4. QED  BY <1>1, <1>2, <3>1, <3>3 DEF Suits
  <2>3. QED  BY <1>1, <1>2, <2>1, <2>2 DEF VettedInv
<1>3. CASE ~(env.layer < NLayers)
  <2>1. job' = "crashed"  BY <1>3 DEF CheckProbe
  <2>2. ~Suits(gate', env')  BY <1>1, <1>3 DEF Suits
  <2>3. QED  BY <1>1, <2>1, <2>2 DEF VettedInv
<1>4. QED  BY <1>2, <1>3

LEMMA BeginStrategyVetted ==
    ASSUME VettedInv, BeginStrategy
    PROVE  VettedInv'
<1>1. report' = report /\ env' = env /\ job' \in {"running", "crashed"}
  BY DEF BeginStrategy
<1>2. ASSUME job' = "crashed"
      PROVE  ~Suits(gate', env')
  <2>1. gate' = file /\ ~(Loads(file, env.layer, env.checkpoint) /\ file.layer < NLayers)
    BY <1>2 DEF BeginStrategy
  <2>2. Loads(file, env.layer, env.checkpoint) => file.layer = env.layer
    BY DEF Loads, Accepts
  <2>3. QED  BY <1>1, <2>1, <2>2 DEF Suits
<1>3. QED  BY <1>1, <1>2 DEF VettedInv

LEMMA NextVetted == VettedInv /\ [WorkflowNext]_all => VettedInv'
<1> SUFFICES ASSUME VettedInv, [WorkflowNext]_all PROVE VettedInv'  OBVIOUS
<1>1. CASE UNCHANGED <<job, env, gate, errors, report>>  BY <1>1 DEF VettedInv, Suits
<1>2. CASE Serve  BY <1>1, <1>2 DEF Serve, check
<1>3. CASE BeginTraining \/ EndTraining
  BY <1>1, <1>3 DEF BeginTraining, EndTraining, check
<1>4. CASE CheckSetup
  <2>1. ASSUME NEW e \in Settings, BeginCheck(e)
        PROVE  VettedInv'
    BY <2>1 DEF BeginCheck, VettedInv, check
  <2>2. CASE CheckProbe  BY <2>2, CheckProbeVetted
  <2>3. CASE BridgeStep  BY <1>1, <2>3 DEF BridgeStep
  <2>4. CASE Compare
    <3>1. /\ UNCHANGED <<env, gate, report>> /\ (errors' = {} => errors = {})
          /\ job \in {"single", "pair"} /\ job' \in {"pair", "report"}
      BY <2>4 DEF Compare
    <3>2. QED  BY <3>1 DEF VettedInv, Suits
  <2>5. CASE Report  BY <2>5 DEF Report, VettedInv, NoReport, Suits, check
  <2>6. QED  BY <1>4, <2>1, <2>2, <2>3, <2>4, <2>5 DEF CheckSetup, PreFlightStep
<1>5. CASE Evaluate
  <2>1. CASE BeginEvaluation  BY <2>1 DEF BeginEvaluation, VettedInv, check
  <2>2. CASE BeginStrategy  BY <2>2, BeginStrategyVetted
  <2>3. CASE EndStrategy  BY <2>3 DEF EndStrategy, VettedInv, check
  <2>4. CASE Hang  BY <2>4 DEF Hang, VettedInv, Suits, check
  <2>5. CASE WriteResults  BY <2>5 DEF WriteResults, VettedInv, check
  <2>6. QED  BY <1>5, <2>1, <2>2, <2>3, <2>4, <2>5 DEF Evaluate
<1>6. CASE EndJob  BY <1>6 DEF EndJob, VettedInv
<1>7. CASE UNCHANGED all  BY <1>1, <1>7 DEF all, preflight, check
<1>8. QED  BY <1>2, <1>3, <1>4, <1>5, <1>6, <1>7 DEF WorkflowNext

\* Under the settings and with the probe file that a check passed, no
\* evaluation crashes on the probe or hangs for it.
THEOREM CheckedProbeServes == WorkflowSpec => []VettedProbeServes
<1>1. VettedInv => VettedProbeServes
  BY DEF VettedInv, VettedProbeServes
<1>2. QED  BY <1>1, InitVetted, NextVetted, PTL DEF WorkflowSpec

-----------------------------------------------------------------------------
Strategies == {"baseline", "probe_terminate", "probe_deprioritize"}
Run == [strategy : Strategies, gate : ProbeFile]

\* A strategy that has begun under the settings e has the probe it should.
RanWell(strategy, probe, e) ==
    IF strategy = "baseline" THEN probe = NoFile
    ELSE probe.written = "whole" /\ probe.checkpoint = e.checkpoint

\* What an evaluation has done is the beginning of what it was asked.
ResultsInv ==
    /\ file \in ProbeFile /\ gate \in ProbeFile /\ bundle \in ProbeFile
    /\ asked \in Seq(Strategies) /\ done \in Seq(Run)
    /\ Len(done) <= Len(asked)
    /\ \A i \in 1..Len(done) :
          done[i].strategy = asked[i] /\ RanWell(asked[i], done[i].gate, env)
    /\ job = "running" =>
          Len(done) < Len(asked) /\ RanWell(asked[Len(done) + 1], gate, env)
    /\ job = "written" => Len(done) = Len(asked)
    /\ done # <<>> => job \in {"evaluating", "running", "crashed", "hung", "written"}

LEMMA NoFileType == NoFile \in ProbeFile /\ Torn \in ProbeFile
BY DEF NoFile, Torn, ProbeFile

LEMMA InitResults == WorkflowInit => ResultsInv
<1> SUFFICES ASSUME WorkflowInit PROVE ResultsInv  OBVIOUS
<1>1. <<>> \in Seq(Strategies) /\ <<>> \in Seq(Run) /\ Len(<<>>) = 0  OBVIOUS
<1>2. 1..0 = {}  OBVIOUS
<1>3. QED  BY <1>1, <1>2, NoFileType DEF WorkflowInit, ResultsInv

\* A run that ended has the probe it began with.
LEMMA EndStrategyResults ==
    ASSUME ResultsInv, EndStrategy
    PROVE  ResultsInv'
<1> DEFINE n == Len(done)
           d == [strategy |-> asked[n + 1], gate |-> gate]
<1>1. /\ job = "running" /\ job' = "evaluating" /\ done' = Append(done, d)
      /\ UNCHANGED <<file, gate, bundle, asked, env>>
  BY DEF EndStrategy
<1>2. /\ file \in ProbeFile /\ gate \in ProbeFile /\ bundle \in ProbeFile
      /\ asked \in Seq(Strategies) /\ done \in Seq(Run)
      /\ n < Len(asked) /\ RanWell(asked[n + 1], gate, env)
      /\ \A i \in 1..n : done[i].strategy = asked[i] /\ RanWell(asked[i], done[i].gate, env)
  BY <1>1 DEF ResultsInv
<1>3. n \in Nat /\ Len(asked) \in Nat  BY <1>2
<1>4. asked[n + 1] \in Strategies  BY <1>2, <1>3
<1>5. d \in Run /\ d.strategy = asked[n + 1] /\ d.gate = gate  BY <1>2, <1>4 DEF Run
<1> HIDE DEF d
<1>6. /\ done' \in Seq(Run) /\ Len(done') = n + 1 /\ done'[n + 1] = d
      /\ \A i \in 1..n : done'[i] = done[i]
  BY <1>1, <1>2, <1>5, AppendProperties
<1> HIDE DEF n
<1>7. ASSUME NEW i \in 1..n + 1
      PROVE  done'[i].strategy = asked[i] /\ RanWell(asked[i], done'[i].gate, env)
  <2>1. CASE i = n + 1  BY <1>2, <1>5, <1>6, <2>1
  <2>2. CASE i # n + 1
    <3>1. i \in 1..n  BY <1>3, <2>2
    <3>2. QED  BY <1>2, <1>6, <3>1
  <2>3. QED  BY <2>1, <2>2
<1>8. Len(done') <= Len(asked)  BY <1>2, <1>3, <1>6
<1>9. QED  BY <1>1, <1>2, <1>6, <1>7, <1>8 DEF ResultsInv, RanWell

LEMMA BeginStrategyResults ==
    ASSUME ResultsInv, BeginStrategy
    PROVE  ResultsInv'
<1>1. /\ UNCHANGED <<file, bundle, asked, done, env>>
      /\ job = "evaluating" /\ Len(done) < Len(asked)
      /\ job' \in {"running", "crashed"} /\ gate' \in {NoFile, file}
  BY DEF BeginStrategy, evaluation
<1>2. job' = "running" => RanWell(asked[Len(done) + 1], gate', env)
  BY DEF BeginStrategy, RanWell, Loads, Accepts
<1>3. gate' \in ProbeFile  BY <1>1, NoFileType DEF ResultsInv
<1>4. QED  BY <1>1, <1>2, <1>3 DEF ResultsInv, RanWell

LEMMA TrainingResults ==
    ASSUME ResultsInv, BeginTraining \/ EndTraining
    PROVE  ResultsInv'
<1>1. UNCHANGED <<job, gate, asked, done, env>>
  BY DEF BeginTraining, EndTraining, evaluation
<1>2. file' \in ProbeFile /\ bundle' \in ProbeFile
  <2>1. CASE BeginTraining
    <3>1. PICK r \in Recorded, e \in Settings : bundle' = Trained(r, e.layer, e.checkpoint)
      BY <2>1 DEF BeginTraining
    <3>2. r.layer \in Nat /\ r.dim \in Nat /\ e.layer \in Nat /\ e.checkpoint \in Nat
      BY WorkflowAssumption
    <3>3. QED  BY <2>1, <3>1, <3>2, NoFileType DEF BeginTraining, Trained, ProbeFile
  <2>2. CASE EndTraining  BY <2>2, NoFileType DEF EndTraining, ResultsInv
  <2>3. QED  BY <2>1, <2>2
<1>3. QED  BY <1>1, <1>2 DEF ResultsInv, RanWell

LEMMA NextResults == ResultsInv /\ [WorkflowNext]_all => ResultsInv'
<1> SUFFICES ASSUME ResultsInv, [WorkflowNext]_all PROVE ResultsInv'  OBVIOUS
<1>1. CASE UNCHANGED <<job, file, gate, env, bundle, asked, done>>
  BY <1>1 DEF ResultsInv, RanWell
<1>2. CASE Serve  BY <1>1, <1>2 DEF Serve, evaluation
<1>3. CASE BeginTraining \/ EndTraining  BY <1>3, TrainingResults
<1>4. CASE CheckSetup
  <2>1. UNCHANGED <<bundle, asked, done>>  BY <1>4 DEF CheckSetup, evaluation
  <2>2. ASSUME NEW e \in Settings, BeginCheck(e)
        PROVE  ResultsInv'
    <3>1. done = <<>>  BY <2>2 DEF BeginCheck, ResultsInv
    <3>2. Len(done) = 0 /\ 1..0 = {}  BY <3>1
    <3>3. QED  BY <2>1, <2>2, <3>1, <3>2 DEF BeginCheck, ResultsInv
  <2>3. CASE PreFlightStep
    <3>1. /\ UNCHANGED <<file, env>> /\ gate' \in {gate, file, NoFile}
          /\ job \in {"probe", "single", "pair", "report"}
          /\ job' \notin {"running", "written"}
      BY <2>3 DEF PreFlightStep, CheckProbe, BridgeStep, Compare, Report
    <3>2. gate' \in ProbeFile  BY <3>1, NoFileType DEF ResultsInv
    <3>3. done = <<>>  BY <3>1 DEF ResultsInv
    <3>4. QED  BY <2>1, <3>1, <3>2, <3>3 DEF ResultsInv, RanWell
  <2>4. QED  BY <1>4, <2>2, <2>3 DEF CheckSetup
<1>5. CASE Evaluate
  <2>1. CASE BeginEvaluation
    <3>1. asked' \in Seq(Strategies) /\ done' = <<>> /\ job' = "evaluating"
          /\ UNCHANGED <<file, gate, bundle>>
      BY <2>1, WorkflowAssumption DEF BeginEvaluation, Strategies
    <3>2. done' \in Seq(Run) /\ Len(done') = 0 /\ 1..0 = {} /\ Len(asked') \in Nat
      BY <3>1
    <3>3. QED  BY <3>1, <3>2 DEF ResultsInv
  <2>2. CASE BeginStrategy  BY <2>2, BeginStrategyResults
  <2>3. CASE EndStrategy  BY <2>3, EndStrategyResults
  <2>4. CASE Hang  BY <2>4 DEF Hang, ResultsInv, RanWell, evaluation
  <2>5. CASE WriteResults  BY <2>5 DEF WriteResults, ResultsInv, RanWell, evaluation
  <2>6. QED  BY <1>5, <2>1, <2>2, <2>3, <2>4, <2>5 DEF Evaluate
<1>6. CASE EndJob
  <2>1. /\ UNCHANGED <<file, bundle>> /\ job' = "idle" /\ gate' = NoFile
        /\ asked' = <<>> /\ done' = <<>>
    BY <1>6 DEF EndJob
  <2>2. done' \in Seq(Run) /\ asked' \in Seq(Strategies) /\ Len(done') = 0 /\ Len(asked') = 0
        /\ 1..0 = {}
    BY <2>1
  <2>3. QED  BY <2>1, <2>2, NoFileType DEF ResultsInv
<1>7. CASE UNCHANGED all  BY <1>1, <1>7 DEF all, preflight, evaluation
<1>8. QED  BY <1>2, <1>3, <1>4, <1>5, <1>6, <1>7 DEF WorkflowNext

\* Results that get written have a run for every strategy asked for, each with
\* a probe that was whole and trained for the checkpoint it was used at.
THEOREM WrittenResultsAreWhole == WorkflowSpec => []ResultsAreWhole
<1>1. ResultsInv => ResultsAreWhole
  <2> SUFFICES ASSUME ResultsInv, job = "written" PROVE ResultsAreWhole
    BY DEF ResultsAreWhole
  <2>1. /\ asked \in Seq(Strategies) /\ done \in Seq(Run) /\ Len(done) = Len(asked)
        /\ \A i \in 1..Len(done) :
              done[i].strategy = asked[i] /\ RanWell(asked[i], done[i].gate, env)
    BY DEF ResultsInv
  <2>2. DOMAIN done = 1..Len(done) /\ DOMAIN asked = 1..Len(done)  BY <2>1
  <2>3. asked = [i \in 1..Len(done) |-> asked[i]]  BY <2>1, <2>2
  <2>4. [i \in DOMAIN done |-> done[i].strategy] = asked  BY <2>1, <2>2, <2>3
  <2>5. QED  BY <2>1, <2>2, <2>4 DEF RanWell, ResultsAreWhole
<1>2. QED  BY <1>1, InitResults, NextResults, PTL DEF WorkflowSpec

-----------------------------------------------------------------------------
(* The cache under its two users.  The server's sequences meet a gate, those *)
(* of a check do not.                                                        *)

Ungated == \A s \in Ids : judged[s] = NoToken

CacheInUse ==
    /\ CacheInv
    /\ IF job = "serving" THEN Judged ELSE Ungated

LEMMA DroppedCache ==
    ASSUME CacheInv, Dropped
    PROVE  CacheInv' /\ Ungated'
<1>1. /\ <<>> \in Seq(Ids) /\ <<>> \in Seq(Columns) /\ <<>> \in Seq(Tokens)
      /\ NoToken \in Tokens /\ NoToken' = NoToken
  BY EmptySeq DEF NoToken, Token, Tokens
<1>2. IsInjective(<<>>) /\ ToSet(<<>>) = {}  BY DEF IsInjective, ToSet
<1>3. WellTyped'  BY <1>1, <1>2 DEF Dropped, CacheInv, WellTyped
<1>4. EachAlone'  BY <1>1, <1>2 DEF Dropped, EachAlone, Unkept
<1>5. BatchIsTheirs'  BY DEF Dropped, BatchIsTheirs
<1>6. Ungated'  BY <1>1 DEF Dropped, Ungated
<1>7. QED  BY <1>3, <1>4, <1>5, <1>6 DEF CacheInv

\* A sequence of the check that is not prefilled yet.
LEMMA LeastWaiting ==
    /\ Checked \subseteq Ids
    /\ Waiting # {} => Min(Waiting) \in Waiting /\ Min(Waiting) \in Ids
<1>1. Ids = 1..3 /\ Checked \subseteq 1..3
  BY PreFlightAssumption DEF Ids, Checked
<1>2. ASSUME Waiting # {}
      PROVE  \E x \in Waiting : \A y \in Waiting : x <= y
  <2>1. Waiting \subseteq {1} \/ Waiting \subseteq {2, 3}  BY DEF Waiting, Checked
  <2>2. QED  BY <1>2, <2>1
<1>3. Waiting \subseteq Checked  BY DEF Waiting
<1>4. QED  BY <1>1, <1>2, <1>3 DEF Min

\* A decode step of a check is one of the cache's, without a gate.
LEMMA BridgeStepCache ==
    ASSUME CacheInv, BridgeStep, Ungated
    PROVE  CacheInv' /\ Ungated'
<1>1. ASSUME NEW s \in Ids, Prefill(s)
      PROVE  CacheInv' /\ Ungated'
  BY <1>1, PrefillKeeps DEF Prefill, Ungated, NoToken, Token
<1>2. CASE BuildBatch  BY <1>2, BuildBatchKeeps DEF BuildBatch, Ungated, NoToken, Token
<1>3. CASE Forward  BY <1>3, ForwardKeeps DEF Forward, Ungated, NoToken, Token
<1>4. CASE ScatterFor(FALSE)
  <2>1. FALSE \in BOOLEAN  OBVIOUS
  <2>2. CacheInv'  BY <1>4, <2>1, ScatterKeeps
  <2>3. \A s \in Ids : judged'[s] = judged[s]  BY <1>4, <2>1, ScatterMeans
  <2>4. QED  BY <2>2, <2>3 DEF Ungated, NoToken, Token
<1>5. Waiting # {} => Min(Waiting) \in Ids  BY LeastWaiting
<1>6. QED  BY <1>1, <1>2, <1>3, <1>4, <1>5 DEF BridgeStep

LEMMA NextCacheInUse == CacheInUse /\ [WorkflowNext]_all => CacheInUse'
<1> SUFFICES ASSUME CacheInUse, [WorkflowNext]_all PROVE CacheInUse'  OBVIOUS
<1>1. CacheInv  BY DEF CacheInUse
<1>2. ASSUME UNCHANGED vars, (job = "serving") = (job' = "serving")
      PROVE  CacheInUse'
  <2>1. CacheInv' /\ (Judged => Judged')  BY <1>1, <1>2, RestKeeps
  <2>2. Ungated => Ungated'  BY <1>2 DEF vars, Ungated, NoToken, Token
  <2>3. QED  BY <1>2, <2>1, <2>2 DEF CacheInUse
<1>3. ASSUME Dropped, job # "serving", job' # "serving"
      PROVE  CacheInUse'
  BY <1>1, <1>3, DroppedCache DEF CacheInUse
<1>4. CASE Serve
  <2>1. job = "serving" /\ job' = "serving" /\ [Next]_vars  BY <1>4 DEF Serve
  <2>2. QED  BY <1>1, <2>1, NextCache DEF CacheInUse
<1>5. CASE BeginTraining \/ EndTraining
  BY <1>2, <1>5 DEF BeginTraining, EndTraining
<1>6. CASE CheckSetup
  <2>1. ASSUME NEW e \in Settings, BeginCheck(e)
        PROVE  CacheInUse'
    BY <1>2, <2>1 DEF BeginCheck
  <2>2. CASE CheckProbe  BY <1>2, <2>2 DEF CheckProbe
  <2>3. CASE BridgeStep
    <3>1. job # "serving" /\ job' # "serving"  BY <2>3 DEF BridgeStep
    <3>2. QED  BY <1>1, <2>3, <3>1, BridgeStepCache DEF CacheInUse
  <2>4. CASE Compare  BY <1>3, <2>4 DEF Compare
  <2>5. CASE Report  BY <1>2, <2>5 DEF Report
  <2>6. QED  BY <1>6, <2>1, <2>2, <2>3, <2>4, <2>5 DEF CheckSetup, PreFlightStep
<1>7. CASE Evaluate
  BY <1>2, <1>7 DEF Evaluate, BeginEvaluation, BeginStrategy, EndStrategy, Hang, WriteResults
<1>8. CASE EndJob  BY <1>3, <1>8 DEF EndJob
<1>9. CASE UNCHANGED all  BY <1>2, <1>9 DEF all, preflight
<1>10. QED  BY <1>4, <1>5, <1>6, <1>7, <1>8, <1>9 DEF WorkflowNext

\* The server in the behaviours that have one, and the check in the others, get
\* from the cache what its specification promises.
THEOREM CacheSoundInUse ==
    WorkflowSpec => [](CacheIsOwnHistory /\ GeneratesAsIfAlone /\ VerdictOnOwnToken)
<1>1. WorkflowInit => CacheInUse
  <2>1. WorkflowInit => Init  BY DEF WorkflowInit
  <2>2. Init => Ungated  BY DEF Init, Ungated
  <2>3. QED  BY <2>1, <2>2, InitCache DEF CacheInUse
<1>2. CacheInUse => CacheIsOwnHistory /\ GeneratesAsIfAlone /\ VerdictOnOwnToken
  BY CacheMeans DEF CacheInUse, Ungated, VerdictOnOwnToken
<1>3. QED  BY <1>1, <1>2, NextCacheInUse, PTL DEF WorkflowSpec

-----------------------------------------------------------------------------
(* Whom the parity check blames.                                             *)

Blamed == {s \in Ids : <<"parity", s>> \in errors}
Early(S) == {s \in S : text_end[s] < MaxNew}

\* A parity check under way: who is decoded has got a token by the prefill and
\* one in every round, and no round begins before all are prefilled.
Decoding ==
    /\ ToSet(order) \subseteq Checked
    /\ Waiting # {} => rounds = 0 /\ step = "idle"
    /\ \A s \in ToSet(order) : Len(generated[s]) = rounds + 1

ParityInv ==
    /\ text_end \in [Ids -> Nat] /\ rounds \in Nat
    /\ job \in {"idle", "probe"} =>
          /\ Blamed = {} /\ order = <<>> /\ step = "idle" /\ rounds = 0
          /\ \A s \in Ids : text_end[s] = MaxNew
    /\ job = "single" => Blamed = {} /\ text_end[2] = MaxNew /\ text_end[3] = MaxNew
    /\ job = "pair" => Blamed = Early({1})
    /\ job = "report" => Blamed = Early(Ids)
    /\ job \in {"single", "pair"} => Decoding

LEMMA MinOfTwo ==
    ASSUME NEW a \in Nat, NEW b \in Nat
    PROVE  Min({a, b}) = IF a <= b THEN a ELSE b
<1>1. \E x \in {a, b} : \A y \in {a, b} : x <= y  OBVIOUS
<1>2. Min({a, b}) \in {a, b} /\ \A y \in {a, b} : Min({a, b}) <= y
  BY <1>1 DEF Min
<1>3. QED  BY <1>2

\* A text of n_tokens differs from the model's own just if that is shorter.
LEMMA DiffersIfEarly ==
    ASSUME CacheInv, NEW s \in ToSet(order), Len(generated[s]) = MaxNew,
           text_end \in [Ids -> Nat]
    PROVE  Differs(s) <=> text_end[s] < MaxNew
<1> DEFINE p == prompt_len[s]
           L == Min({text_end[s], MaxNew})
<1>1. WellTyped /\ EachAlone  BY DEF CacheInv
<1>2. s \in Ids /\ s \in Nat /\ p \in Nat /\ MaxNew \in Nat /\ text_end[s] \in Nat
  BY <1>1, Rows, CacheAssumption DEF WellTyped
<1>3. generated[s] = Text(s, p, MaxNew)  BY <1>1, <1>2 DEF EachAlone, Alone
<1>4. L = (IF text_end[s] <= MaxNew THEN text_end[s] ELSE MaxNew) /\ L \in Nat /\ L <= MaxNew
  BY <1>2, MinOfTwo
<1>5. Reference(s) = Text(s, p, L)  BY DEF Reference, Text
<1> HIDE DEF L, p
<1>6. /\ Text(s, p, L) \in Seq(Tokens) /\ Len(Text(s, p, L)) = L
      /\ Len(Text(s, p, MaxNew)) = MaxNew
  <2>1. s \in Nat /\ p \in Nat /\ L \in Nat /\ MaxNew \in Nat  BY <1>2, <1>4
  <2>2. Text(s, p, L) \in Seq(Tokens) /\ Len(Text(s, p, L)) = L  BY <2>1, TextGoesOn
  <2>3. Len(Text(s, p, MaxNew)) = MaxNew  BY <2>1, TextGoesOn
  <2>4. QED  BY <2>2, <2>3
<1>7. Min({MaxNew, L}) = L  BY <1>2, <1>4, MinOfTwo
<1>8. SubSeq(Text(s, p, L), 1, L) = Text(s, p, L)
  <2>1. \A i \in 1..L : Text(s, p, L)[i] \in Tokens  BY <1>6, ElementOfSeq
  <2> DEFINE t == Text(s, p, L)
  <2>2. t \in Seq(Tokens) /\ Len(t) = L  BY <1>6
  <2> HIDE DEF t
  <2>3. SubSeq(t, 1, L) = t
    <3>1. /\ SubSeq(t, 1, L) \in Seq(Tokens) /\ Len(SubSeq(t, 1, L)) = L
          /\ \A i \in 1..L : SubSeq(t, 1, L)[i] = t[i]
      BY <1>4, <2>2
    <3>2. QED  BY <2>2, <3>1, SeqEqual
  <2>4. QED  BY <2>3 DEF t
<1>9. Differs(s) <=> Text(s, p, MaxNew) # Text(s, p, L)
  BY <1>3, <1>5, <1>6, <1>7, <1>8 DEF Differs
<1>10. Text(s, p, MaxNew) = Text(s, p, L) <=> MaxNew = L  BY <1>6
<1>11. QED  BY <1>2, <1>4, <1>9, <1>10

LEMMA InitParity == WorkflowInit => ParityInv
<1> SUFFICES ASSUME WorkflowInit PROVE ParityInv  OBVIOUS
<1>1. text_end = [s \in Ids |-> MaxNew] /\ MaxNew \in Nat /\ rounds = 0
      /\ errors = {} /\ job \in {"serving", "idle"} /\ order = <<>> /\ step = "idle"
  BY CacheAssumption DEF WorkflowInit, Init
<1>2. QED  BY <1>1 DEF ParityInv, Blamed

\* A step of the decoding keeps it going.
LEMMA BridgeStepDecodes ==
    ASSUME CacheInv, Decoding, rounds \in Nat, BridgeStep
    PROVE  Decoding' /\ rounds' \in Nat
<1>1. WellTyped /\ EachAlone  BY DEF CacheInv
<1>2. Checked' = Checked /\ Checked \subseteq Ids
  BY LeastWaiting DEF BridgeStep, Checked
<1>3. CASE Waiting # {} /\ Prefill(Min(Waiting)) /\ UNCHANGED rounds
  <2> DEFINE q == Min(Waiting)
  <2>1. q \in Checked /\ q \in Ids /\ q \notin ToSet(order)
    BY <1>3, LeastWaiting DEF Waiting
  <2> HIDE DEF q
  <2>2. Prefill(q)  BY <1>3 DEF q
  <2>3. order' = Append(order, q) /\ step' = step /\ rounds' = rounds
        /\ rounds = 0 /\ step = "idle"
    BY <1>3, <2>2 DEF Prefill, Decoding
  <2>4. ToSet(order') = ToSet(order) \cup {q}
    BY <1>1, <2>1, <2>3, AppendElements DEF WellTyped
  <2>5. \A s \in ToSet(order) : generated'[s] = generated[s]
    BY <1>1, <2>1, <2>2, Rows DEF Prefill, WellTyped
  <2>6. Len(generated'[q]) = 1
    <3>1. generated[q] = <<>>  BY <1>1, <2>1 DEF EachAlone, Unkept
    <3>2. \E x : generated'[q] = Append(<<>>, x)
      BY <1>1, <2>1, <2>2, <3>1 DEF Prefill, WellTyped
    <3>3. QED  BY <3>2
  <2>7. QED  BY <1>2, <2>1, <2>3, <2>4, <2>5, <2>6 DEF Decoding
<1>4. CASE Waiting = {} /\ BuildBatch /\ UNCHANGED rounds
  BY <1>2, <1>4 DEF BuildBatch, Decoding, Waiting
<1>5. CASE Forward /\ UNCHANGED rounds
  BY <1>2, <1>5 DEF Forward, Decoding, Waiting
<1>6. CASE ScatterFor(FALSE) /\ rounds' = rounds + 1
  <2>1. FALSE \in BOOLEAN  OBVIOUS
  <2>2. /\ step' = "idle" /\ order' = order
        /\ \A s \in ToSet(order) :
              generated'[s] = Text(s, prompt_len[s], Len(generated[s]) + 1)
    BY <1>6, <2>1, ScatterMeans
  <2>3. Waiting = {}  BY <1>6 DEF ScatterFor, Decoding
  <2>4. Waiting' = {}  BY <1>2, <2>2, <2>3 DEF Waiting
  <2>5. ASSUME NEW s \in ToSet(order)
        PROVE  Len(generated'[s]) = rounds' + 1
    <3>1. s \in Nat /\ prompt_len[s] \in Nat /\ Len(generated[s]) = rounds + 1
      BY <1>1, Rows DEF WellTyped, Decoding
    <3>2. rounds + 1 + 1 \in Nat  OBVIOUS
    <3>3. Len(Text(s, prompt_len[s], rounds + 1 + 1)) = rounds + 1 + 1
      BY <3>1, <3>2, TextGoesOn
    <3>4. generated'[s] = Text(s, prompt_len[s], rounds + 1 + 1)  BY <2>2, <3>1
    <3>5. QED  BY <1>6, <3>3, <3>4
  <2>6. QED  BY <1>2, <1>6, <2>2, <2>4, <2>5 DEF Decoding
<1>7. QED  BY <1>3, <1>4, <1>5, <1>6 DEF BridgeStep

\* The comparison blames those of its sequences whose text ends early.
LEMMA CompareBlames ==
    ASSUME CacheInv, ParityInv, Compare
    PROVE  ParityInv'
<1>1. /\ text_end \in [Ids -> Nat] /\ rounds = MaxNew - 1 /\ rounds \in Nat
      /\ job \in {"single", "pair"} /\ Waiting = {} /\ Decoding
      /\ Ids = 1..3 /\ MaxNew \in Nat /\ TextEnds \subseteq Nat
  BY PreFlightAssumption, CacheAssumption DEF ParityInv, Compare, Rounds, Ids
<1>2. Checked \subseteq Ids /\ Checked \subseteq ToSet(order)
  BY <1>1, LeastWaiting DEF Waiting
<1>3. \A s \in Checked : Differs(s) <=> text_end[s] < MaxNew
  BY <1>1, <1>2, DiffersIfEarly DEF Decoding
<1>4. Blamed' = Blamed \cup Early(Checked)
  <2>1. errors' = errors \cup {<<"parity", s>> : s \in {q \in Checked : Differs(q)}}
    BY DEF Compare
  <2>2. \A s \in Ids : <<"parity", s>> \in errors' <=>
             <<"parity", s>> \in errors \/ (s \in Checked /\ text_end[s] < MaxNew)
    BY <1>3, <2>1
  <2>3. QED  BY <1>2, <2>2 DEF Blamed, Early
<1>5. order' = <<>> /\ step' = "idle" /\ rounds' = 0 /\ ToSet(<<>>) = {}
  BY DEF Compare, Dropped, ToSet
<1>6. CASE job = "single"
  <2>1. job' = "pair" /\ Blamed = {} /\ Checked = {1}
    BY <1>6 DEF Compare, ParityInv, Checked
  <2>2. text_end' \in [Ids -> Nat] /\ text_end'[1] = text_end[1]
    BY <1>1, <1>6 DEF Compare
  <2>3. Blamed' = Early({1})'  BY <1>4, <2>1, <2>2 DEF Early
  <2>4. Decoding'  BY <1>5 DEF Decoding
  <2>5. QED  BY <1>5, <2>1, <2>2, <2>3, <2>4 DEF ParityInv
<1>7. CASE job = "pair"
  <2>1. job' = "report" /\ Blamed = Early({1}) /\ Checked = {2, 3} /\ text_end' = text_end
    BY <1>7 DEF Compare, ParityInv, Checked
  <2>2. Blamed' = Early(Ids)'  BY <1>1, <1>4, <2>1 DEF Early
  <2>3. QED  BY <1>1, <1>5, <2>1, <2>2 DEF ParityInv
<1>8. QED  BY <1>1, <1>6, <1>7

LEMMA NextParity == CacheInv /\ ParityInv /\ [WorkflowNext]_all => ParityInv'
<1> SUFFICES ASSUME CacheInv, ParityInv, [WorkflowNext]_all PROVE ParityInv'  OBVIOUS
<1>1. ASSUME UNCHANGED <<vars, job, check>>
      PROVE  ParityInv'
  <2>1. UNCHANGED <<order, step, generated, job, errors, text_end, rounds>>
    BY <1>1 DEF vars, check
  <2>2. QED  BY <2>1 DEF ParityInv, Blamed, Early, Decoding, Waiting, Checked
<1>2. ASSUME UNCHANGED <<text_end, rounds>>,
             job' \notin {"idle", "probe", "single", "pair", "report"}
      PROVE  ParityInv'
  BY <1>2 DEF ParityInv
<1>3. CASE Serve
  BY <1>2, <1>3 DEF Serve, check
<1>4. CASE BeginTraining \/ EndTraining
  BY <1>1, <1>4 DEF BeginTraining, EndTraining
<1>5. CASE CheckSetup
  <2>1. ASSUME NEW e \in Settings, BeginCheck(e)
        PROVE  ParityInv'
    <3>1. job = "idle" /\ job' = "probe" /\ UNCHANGED <<order, step, errors, text_end, rounds>>
      BY <2>1 DEF BeginCheck, vars, check
    <3>2. QED  BY <3>1 DEF ParityInv, Blamed
  <2>2. CASE CheckProbe
    <3>1. /\ UNCHANGED <<order, step, rounds>> /\ job = "probe" /\ job' \in {"single", "crashed"}
          /\ errors' \ errors \subseteq {<<"load", 0>>, <<"dim", 0>>}
          /\ errors \subseteq errors'
      BY <2>2 DEF CheckProbe, vars, ProbeErrors
    <3>2. Blamed' = Blamed  BY <3>1 DEF Blamed
    <3>3. /\ text_end' \in [Ids -> Nat]
          /\ job' = "single" => text_end'[2] = text_end[2] /\ text_end'[3] = text_end[3]
      <4>1. \A n \in TextEnds : n \in Nat  BY PreFlightAssumption
      <4>2. text_end \in [Ids -> Nat]  BY DEF ParityInv
      <4>3. \/ text_end' = text_end /\ job' = "crashed"
            \/ \E n \in TextEnds : text_end' = [text_end EXCEPT ![1] = n]
        BY <2>2 DEF CheckProbe
      <4>4. ASSUME NEW n \in TextEnds, text_end' = [text_end EXCEPT ![1] = n]
            PROVE  /\ text_end' \in [Ids -> Nat]
                   /\ text_end'[2] = text_end[2] /\ text_end'[3] = text_end[3]
        <5>1. Ids = 1..3 /\ n \in Nat
          BY <4>1, PreFlightAssumption DEF Ids
        <5>2. QED  BY <4>2, <4>4, <5>1
      <4>5. QED  BY <4>2, <4>3, <4>4
    <3>4. Decoding'
      <4>1. ToSet(<<>>) = {}  BY DEF ToSet
      <4>2. QED  BY <3>1, <4>1 DEF Decoding, ParityInv
    <3>5. 2 \in Ids /\ 3 \in Ids  BY PreFlightAssumption DEF Ids
    <3>6. QED  BY <3>1, <3>2, <3>3, <3>4, <3>5 DEF ParityInv
  <2>3. CASE BridgeStep
    <3>1. job \in {"single", "pair"} /\ UNCHANGED <<job, errors, text_end>>
      BY <2>3 DEF BridgeStep
    <3>2. Decoding' /\ rounds' \in Nat  BY <2>3, <3>1, BridgeStepDecodes DEF ParityInv
    <3>3. QED  BY <3>1, <3>2 DEF ParityInv, Blamed, Early
  <2>4. CASE Compare  BY <2>4, CompareBlames
  <2>5. CASE Report  BY <1>2, <2>5 DEF Report, check
  <2>6. QED  BY <1>5, <2>1, <2>2, <2>3, <2>4, <2>5 DEF CheckSetup, PreFlightStep
<1>6. CASE Evaluate
  BY <1>2, <1>6
  DEF Evaluate, BeginEvaluation, BeginStrategy, EndStrategy, Hang, WriteResults, check
<1>7. CASE EndJob
  <2>1. /\ job' = "idle" /\ errors' = {} /\ text_end' = [s \in Ids |-> MaxNew]
        /\ order' = <<>> /\ step' = "idle" /\ rounds' = 0
    BY <1>7 DEF EndJob, Dropped
  <2>2. QED  BY <2>1, CacheAssumption DEF ParityInv, Blamed
<1>8. CASE UNCHANGED all  BY <1>1, <1>8 DEF all, preflight
<1>9. QED  BY <1>3, <1>4, <1>5, <1>6, <1>7, <1>8 DEF WorkflowNext

\* A check that gets to its end blames the bridge for exactly the texts that
\* end before n_tokens, however long the prompts.
THEOREM ParityBlamesEarlyTexts == WorkflowSpec => []ParityVerdict
<1>1. WorkflowInit => CacheInUse
  BY InitCache DEF WorkflowInit, Init, CacheInUse, Ungated
<1>2. CacheInUse => CacheInv  BY DEF CacheInUse
<1>3. ParityInv => ParityVerdict
  BY DEF ParityInv, ParityVerdict, Blamed, Early
<1>4. QED  BY <1>1, <1>2, <1>3, InitParity, NextParity, NextCacheInUse, PTL DEF WorkflowSpec
===============================================================================
