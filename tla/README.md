# Verification of the probe-guided inference scheduler

TLA+ models of the scheduler in `src/`, TLC configurations that check them on
small instances, and TLAPS proofs of their safety for every instance. Paths
below are relative to the repository; its Python package is `src/`, so the
scheduler is `src/scheduler.py`.

## 1. The system

Requests arrive over HTTP (`src/server.py`) or from the benchmark
(`benchmark/routing_eval.py`), wait in a deque, and are decoded together, one
token each per tick, by a continuous batcher that runs as one asyncio task.
When a request has generated `checkpoint_position` tokens, a linear probe on a
hidden state says whether its text will converge; a strategy acts on that.

| Part | State | Operations | Interacts with |
|---|---|---|---|
| `GenerationRequest` (`src/queue.py`) | generated ids, position, verdict, `routed`, `priority`, `finish_reason`, a result future, an optional token queue | fields written by everyone below | shared by reference between all parts |
| `RequestQueue` (`src/queue.py`) | a deque | `submit`, `peek`, `popleft`, `push_front`, `push_front_priority_aware` | filled by clients, emptied and refilled by the batcher |
| `ContinuousBatcher` (`src/scheduler.py`) | `active` (a dict in insertion order), four counters | `_try_admit`, `_admit_one`, `_preempt`, `_apply_routing`, `_finish`, `run_forever`, `stop` | calls the queue, model_runner and the cache |
| `model_runner` (`src/model_runner.py`) | none | `run_prefill`, `run_decode_step` | model, cache, hook, gate; mutates requests |
| `ClassificationGate`, `ProbeArtifact` (`src/gate.py`, `src/probe.py`) | the fitted probe | `ready_at`, `classify`, `predict`, `load_probe` | called by `run_decode_step` |
| `LayerActivationCapture` (`src/probe.py`) | `last`, the last hidden states | a forward hook | written by every forward pass, read by `run_decode_step` |
| `BatchedSequenceCache` (`src/hf_cache_bridge.py`) | keys, values and a length per sequence | `store_prefill`, `evict`, `build_batch`, `scatter_updated_batch` | called by model_runner and the batcher |
| HTTP server (`src/server.py`) | the batcher's task | `/generate`, `/stream`, `/health`, `/metrics`, startup, shutdown | submits, awaits futures, consumes token queues |
| Benchmark and report (`benchmark/`) | records of finished requests | `run_strategy`, percentiles, false termination rate | a client of the batcher, then pure aggregation |
| Probe file (`probe_weights_path`) | a fitted pipeline with its metadata, or half of one, or none | `ProbeArtifact.save`, `load_probe` | written by the training; read by the server at startup, by the pre-flight check, and by the benchmark anew for each strategy |
| Probe training (`scripts/train_probe.py`) | the pipeline being fitted | `load_activations`, fit, dump | reads the settings and the recorded activations, writes the probe file in place |
| Pre-flight check (`scripts/verify_setup.py`) | the list of errors | probe check, two parity checks, final report | loads the probe, drives model_runner and the cache as the batcher does, without a gate |
| Settings (`src/config.py`) | none: environment variables | `get_settings` | read by each process when it starts |
| Figures (`scripts/plot_results.py`, `scripts/render_architecture_diagram.py`) | files | drawing | offline |

**Concurrency.** Everything runs in one event loop. `run_forever` awaits only at
the end of a tick (`asyncio.sleep`), so a tick is atomic towards clients, and
clients (submissions, cancelled waits, `/health`) act only between ticks. What
is hard is therefore not data races but the long sequences of admissions,
preemptions, re-classifications and completions over five containers that must
agree (queue, active, cache, futures, token queues), each changed by its own
statement, with a request that crosses them many times.

Around the server there are processes, and these do run at the same time: a
training may write the probe file, in place, while a check or an evaluation
reads it, may be killed half-way, and each process reads the settings of its own
environment. Nothing but the file and its metadata ties them together.

**What makes each part correct.**
The *queue* neither drops nor duplicates nor reorders waiters when a request is
inserted in the middle. The *batcher* answers requests once each, loses none,
leaks no cache row, throws tokens away only when that buys something, acts on
each verdict, and keeps counters that add up. The *runner and the cache* make
batching invisible: each text is what it would have been alone, and each verdict
is about the right hidden state. The *gate* fires at the checkpoint, once per
run. The *server* delivers: a stream is its text, and it ends. The *pre-flight
check* is worth something: what it passed works, and whom it blames is at fault.
The *evaluation* writes whole results or none, on the probe it was asked for.

`PROJECT.json` lists the hazards, each at its line, with the properties that
watch it.

## 2. The modules

| Module | Models | Used by |
|---|---|---|
| `RequestQueue` | the deque's operations, as operators on a sequence | the next one and `ContinuousBatcher` |
| `QueueDiscipline` | abstract: the deque under any legal use | `ContinuousBatcher` (refinement) |
| `RoutingGate` | the gate and the probe's label and confidence | `ContinuousBatcher` |
| `ContinuousBatcher` | the tick loop, the requests' records, the clients | `MCContinuousBatcher`, `EndlessArrivals`, `Server`, `Benchmark` |
| `EndlessArrivals` | the batcher when requests never stop coming | `MCEndlessArrivals` |
| `RequestLifecycle` | abstract: what the batcher promises of a request's life | `ContinuousBatcher` (refinement) |
| `SequenceCache` | padding, masks, positions, forward pass, trimming, the hook | `PreFlight`, run `verdict_token` |
| `ProbeArtifact` | the probe file, its metadata, `load_probe`, what training demands and stamps | `PreFlight`, `Server` |
| `PreFlight` | the pre-flight check, over `SequenceCache` | `Workflow` |
| `Workflow` | a server, a check or an evaluation on the GPU, a training beside it, the file between them | `MCWorkflow` |
| `Server` | startup, handlers, a batcher task that may die, shutdown | `MCServer` |
| `Benchmark` | the three strategies on the same problems, and the report | `MCBenchmark` |
| `MCContinuousBatcher`, `MCEndlessArrivals`, `MCServer`, `MCBenchmark`, `MCWorkflow` | the sets of probe answers, probe files, problems, settings, recordings and commands the runs use | the runs |
| `SequenceLemmas` | lemmas on maxima, minima, lengths, appends, tails, removals and suffixes, and on the queue's operators | the proofs |
| `QueueDisciplineProofs`, `ContinuousBatcherProofs`, `BatcherDisciplineProofs`, `SequenceCacheProofs`, `WorkflowProofs`, `ServerProofs`, `BenchmarkProofs` | theorems | |

`ContinuousBatcher` EXTENDS `RequestQueue` and `RoutingGate`: the batcher is the
only caller of both. `SequenceCache` is a separate machine: the batcher needs of
the cache only which requests have a row (its variable `cache`), and the cache
needs of the batcher only that sequences join and leave between steps.
`PreFlight` EXTENDS it with the script that drives it, and `Workflow` EXTENDS
that with everything else that uses the probe file.
`EndlessArrivals` EXTENDS `ContinuousBatcher` with clients that never stop.
`Server` EXTENDS `ContinuousBatcher` with the processes around it. `Benchmark`
has three instances of it on the same variables, one for each strategy, since a
run of the benchmark builds one batcher after the other.

### ContinuousBatcher

State: `queue` and `active` are sequences of request ids (a Python dict keeps
insertion order, which decides the victim among equals); `req` has the mutable
fields of each request; `cache` the ids with a KV row; `submitted` the id
counter; `total` the four counters; `phase`, `attempts`, `finished_ids` and
`terminated_ids` are the program counter and the locals of the tick.

Tokens are numbers within their run. Which token the model picks matters only
by whether it is the EOS, chosen freely at each step; what the probe answers is
chosen freely from `Probabilities`, also when a preempted request is judged
again (decoding is greedy, but the batch around it, and so the rounding, differs).

| Action | Code |
|---|---|
| `Submit`, `Cancel` | the handlers' `submit`; a client that stops waiting cancels the future |
| `BeginTick`, `FillSlot`, `EndFill` | the head of `run_forever`'s loop and `_try_admit`'s first loop |
| `Preempt`, `RefillSlot`, `EndAdmission` | `_try_admit`'s second loop: `_preempt`, then `_admit_one` without a check |
| `Decode`, `SkipDecode` | `run_decode_step`, or nothing for an empty batch |
| `Route` | `_apply_routing` |
| `Finish`, `EndTick` | the loop over `set(finished_ids) | set(terminated_ids)`, in any order (a set has none), then the sleep |
| `Stop` | `stop()` and the cancelled task at its only await |

`AdmitOne` is all of `_admit_one`: the pop, the prefill's bookkeeping, the
admission count, and either the batch or, when the first token is the last,
`_finish` on the spot. `Close`, `Reset`, `React`, `Generate` and `Stamp` are what
the code does to one request.

### EndlessArrivals

A behaviour of `ContinuousBatcher` has at most `NRequests` requests, so whatever
one of them waits for ends with the arrivals, and no run of it can show anybody
starving. `SubmitAgain` is `submit` under the id of a completed request, which is
in neither queue nor batch and which no step of the tick looks at: there is no
last request, and `NRequests` bounds only those remembered at a time. The
counters, which would grow for ever and which no guard reads, drop what is
forgotten (`TotalsOf`).

### SequenceCache

A token is named by its sequence and its place. A cache column holds the token
and the position its key was rotated for. `BuildBatch`, `Forward` and `Scatter`
are one call of `run_decode_step`; the language model is external and enters by one assumption:
it continues a text rightly when it attends to exactly that text, at the right
positions, and otherwise does not (`Continuation`). Padding columns are real
columns in the model, so a wrong mask or a wrong slice shows as a wrong text.

### Server

| Action | Code |
|---|---|
| `Startup`, `Refused` | `startup`, with what lies at the probe's path and `load_probe`'s checks of it (`ProbeArtifact`); a file missing, torn or refused ends the process |
| `Accept` | the head of both handlers, with `Submit` |
| `Respond` | `generate` after its await |
| `Read` | one turn of `token_generator`; the marker ends it with `[DONE]` |
| `Disconnect` | the client of a stream leaves; nothing tells the batcher |
| `Work` | a step of `ContinuousBatcher`'s tick while the task lives |
| `FailInPrefill`, `FailInForward` | a forward pass raises; nothing in `run_forever` catches it |
| `FailInClassify` | a probe of another dimension raises at the first request to meet the gate |
| `Shutdown` | `shutdown` |

An exception ends the task where it stands (`Die`): the locals of the tick are
gone, what it had changed stays, and the handlers wait for a task that is dead
while `/health` answers "ok".

### ProbeArtifact, PreFlight and Workflow

A probe file is a record: whether the dump that wrote it has ended (`written`),
the layer and checkpoint stamped on it, the dimension of its input, and, which
nothing in the file says, the layer whose activations it was `fitted_on`.
`Loads` is `load_probe`: a torn file fails to unpickle, and the two stamped
fields are compared with the settings.

`job` is what the process on the GPU does and where it is. Each action reads
the file at the moment at which its code does.

| Action | Code |
|---|---|
| `BeginCheck`, `CheckProbe` | `verify_setup.py` up to the probe's check, with the hook's registration, which raises for a layer the model lacks |
| `BridgeStep` | `_bridge_generate`: the prefills in order, then `n_tokens - 1` decode steps, each `BuildBatch`, `Forward` and `ScatterFor(FALSE)` of `SequenceCache`: no gate |
| `Compare` | the comparison with `model.generate()`, whose text stops at its EOS (`text_end`) |
| `Report` | "ALL CHECKS PASSED", or not for any of the reasons not looked into |
| `BeginTraining`, `EndTraining` | `train_probe.py`: what `load_activations` demands, the stamp, and the dump in place, which may be cut short |
| `BeginEvaluation`, `BeginStrategy`, `EndStrategy`, `WriteResults` | `main_async`: the strategies asked for, the probe loaded anew for each, the results written once at the end |
| `Hang` | the gate raises in the batcher's task, which nobody awaits; the gather does not return |
| `Serve` | the server's batcher uses the cache, with a gate |
| `EndJob` | the process ends |

The server and the pre-flight check are two clients of one cache module: the
first joins and evicts at any time and judges hidden states, the second prefills
one or two and decodes them in step. In `Workflow` a behaviour has either a
server, from its start to its end, or the other jobs one after another.

### Benchmark

`StartRun` is `run_strategy` up to its gather, one step because nothing is
awaited before; `RunTick` is a step of the current strategy's batcher, in which
the model and the probe answer as the problem says (`AsTheProblemsSay`);
`CollectRecords` is the rest. The report's comparisons assume decoding to be
deterministic (`benchmark/report.py:65-74`), and so does this module: a problem
has one text and one verdict. That is an assumption about the GPU and not a
fact of this code: batches differ in their padding. The recorded results show
that real runs do not satisfy it: between `baseline` and `probe_deprioritize`,
neither of which cuts anything, accuracy is 59.0% and 59.5% and convergence 61.0%
and 59.5% (`results/report.md:5`, `7`), where `ConvergenceAddsUp` has the two
rates equal. So `BaselineIsCounterfactual`, `NoConvergentIsSlower`,
`MedianImproves` and `ConvergenceAddsUp` say what the scheduler and the report
contribute, and nothing of how far numerics shift a text. Records are joined by
the index of the problem, as in the code; a wrong index in the dataset is not
in the model.

## 3. The runs

| Run | Expect | Shows |
|---|---|---|
| `batcher_deprioritize` | pass | no request lost, no row leaked, counters agree, first come first admitted, preemption bounded and paid for, tokens lost only under contention, verdicts in effect; refinement of `RequestLifecycle`, and of `QueueDiscipline`: requeueing keeps everyone's place, a deprioritized request joins the tail |
| `batcher_terminate` | pass | texts cut exactly at the checkpoint and only on a verdict that calls for it, streams equal to their texts, cancelled waits harmless, completed requests left alone |
| `workflow` | pass | each cache is its own history, each text as if alone, each verdict on its own hidden state, in the server and in the check; the parity check blames exactly the texts that end early; a probe that was vetted neither crashes nor hangs an evaluation; results written are whole |
| `server` | pass | an exception costs at most one request its place and nobody its tokens; streams closed once; no handler returns before its request is whole |
| `endless_arrivals` | pass | however many arrive, only endless preemption keeps a request from finishing, and one that is never deprioritized finishes; if the arrivals end, all are answered |
| `server_returns` | pass | with finitely many requests, every handler returns unless its client left or the batcher is gone |
| `benchmark` | pass | the baseline is the counterfactual the report takes it for; no convergent request is slower under `probe_deprioritize`, in ticks; the counts of the report's tables add up and its numbers equal their definitions |
| `starvation` | violation | under a steady stream of normal requests a deprioritized one is preempted for ever |
| `both_ends` | violation | a request that ends naturally at its checkpoint is also "probe_terminated" |
| `stream_replay` | violation | a preempted stream delivers its tokens twice |
| `verdict_token` | violation | the hidden state judged is that of the token before the checkpoint's |
| `probe_layer_label` | violation | an evaluation runs a probe fitted on another layer than the one it hooks |

**Bounds.** `NRequests`, `NSequences` and `MaxNew` cap what is submitted and
generated; `MaxTokensChoices`, `PromptLengths`, `Verdicts` and `Sides` are the
inputs. Four requests over two slots suffice for a preempted request to meet,
in the queue, a normal request ahead, a normal arrival behind, and another
preempted one, and for a request to be preempted twice. Token limits of 1 and 4
around a checkpoint of 2 give requests finished by their prefill (in the first
admission loop and in a victim's slot), by EOS and by their limit, before, at and after the
checkpoint. In `batcher_terminate` limits of 0, 3 and 5 against a cap of 4 put
the end before, at and after a checkpoint of 3, and the three verdicts lie on
both sides of the 0.7 threshold and of 0.5. In `workflow` three sequences with prompts of 1 and 3 tokens, joining and
leaving at any step, give rows with no padding, one column and several; `MaxNew`
(5) stands for the check's `n_tokens` (12 and 15 in the code), and a text may end
with its first token, one before the last, or with it. There is one process on
the GPU at a time, since a second model does not fit, a server stays up, and one
training runs at a time. Four settings (the recorded layer and position,
another layer, another position, a layer the model lacks), two recordings (one
of a model of another dimension, with too few samples at one position) and two
commands (with and without a baseline) make every check of the file fail and
succeed. `probe_layer_label` is the same with `MaxNew` 4.
`server` has three requests over two slots, so that a batch of two can fail in its middle and
a preemption can happen, with limits of 2 (the end at the checkpoint) and 3.
`endless_arrivals` is smaller because liveness is checked: two slots and three
requests at a time, so that each running one can be preempted, and a preempted
one finds others behind it. `starvation` has one slot: one request that runs, one
that waits and one that arrives are a stream of normal requests.
`server_returns` checks liveness and is smaller: two requests over one slot, of
which one may be preempted by the other. `benchmark` has five problems over two
slots, of five kinds: shorter than the checkpoint, ending with it, convergent
and judged so or not, and cut by the limit. Nothing else bounds it.

**Fairness.** `EndlessSpec` has `WF_vars(Tick)`: the event loop runs the batcher's
task whenever it is ready (`asyncio.create_task` at startup, `await
asyncio.sleep` each tick). Clients and `Stop` are owed nothing: clients may keep
coming and need not. Each property allows for a stopped batcher, since shutdown
leaves its waiters unanswered.
`ServerSpec` has `WF_all(Work \/ Fail)` for the same reason, and
`SF_all(Handling(r))` for each handler: a handler can run only in the pauses
between ticks, so it is enabled again and again and not continuously, and
asyncio's ready queue is first come first served, so a handler that a tick woke
runs in the pause that follows. Clients are owed nothing.

**Deadlock** is checked in every run: the batcher always has a tick to run, and
after `Stop` an explicit stuttering step.

**Mutants.** Operators with an underscore in their name (`Trimmed_FromLeft`) are
plausible mistakes, placed before the operator they imitate. For each property
of a passing run, `PROJECT.json` names the one that breaks it.

## 4. What the checks found

1. *Starvation.* A request queued again keeps priority 1, and whenever the batch is
   full and a normal request is at the head of the queue it may be preempted:
   after some tokens, or in the very call of `_try_admit` that admitted it, by
   its second loop. Under a steady stream of normal requests it starts over for
   ever and never finishes, though a test's comment says that every request
   eventually does (`EveryRequestFinishes`). What holds, with arrivals that need
   not end: a request that does not finish is one that is preempted for ever
   (`StarvesOnlyIfPreempted`), and all that are never deprioritized finish
   (`NormalsFinish`). Only if the arrivals end are all answered
   (`AnsweredIfArrivalsEnd`; `PreemptionBudget` says how many preemptions that may
   take, and bounds them by the arrivals only).
2. *Two ends at once.* A request whose checkpoint token is also its last is
   finished and terminated in the same tick; its reason becomes
   `probe_terminated` and it is counted as terminated though nothing was cut.
3. *Stream replay.* Preemption resets the text but not the stream.
4. *Which hidden state.* The step that produces token n exposes the hidden state
   of token n - 1.
5. *The layer's label.* Training stamps the layer of the settings on whatever
   layer was recorded, so that retraining under a changed setting, which
   `src/config.py:29-31` asks for, is what lets the wrong layer pass unnoticed.

Of the scripts, seen while modelling them (`VettedProbeServes` and
`ParityVerdict` are worded to be true of the code, and these are their limits):
the parity check decodes its `n_tokens` past an EOS at which the reference stops
(`scripts/verify_setup.py:154-168`, `201-219`), so that a healthy bridge is
blamed for a text that ends early; "ALL CHECKS PASSED" is also said where there
is no probe (`scripts/verify_setup.py:126-130`), though the default evaluation
then fails after its baseline, whose results are lost with it; the layer's
existence is not checked, so a layer beyond the model ends the check with an
uncaught `IndexError` and no report; the probe is loaded once per strategy, so a
training during an evaluation can give its two gated strategies different
probes; `train_auc` is a NaN where a fold lacks a class, which nothing rejects;
`Makefile` runs the check before the training; `src/probe.py:86-91` says no
weights are shipped, and `probe_weights/` holds some.

Smaller disagreements, seen while modelling and not given runs:
`push_front_priority_aware` inserts behind the normal requests waiting now, and
always at the tail (proved: `DeprioritizedIsAppended`), while `submit` appends
later ones behind it, so that they get past it not "by jumping ahead" in the
queue, as `src/queue.py:90-92` has it, but by preempting it once it is admitted;
`_preempt` clears the verdict and not the priority, so that a request judged
convergent when it is run again may be preempted all the same, and
`benchmark/report.py` then counts its latency as a convergent one's (this takes a
probe that answers differently in another batch; `VerdictInEffect` says that
verdicts are acted on, and not that priority 1 means a divergent one); under `baseline`
the server builds no gate, so the verdict `README.md:13` says is computed is
not; `README.md`'s "once per request" is once per run of it; with a checkpoint of 0 or 1 the gate fires at the
second token (prefill never classifies); `src/probe.py:53-55` says the probe's
`expected_hidden_dim` is checked when it is loaded, but `load_probe` compares
only layer and checkpoint, so that a misfit is met by `classify` in the middle
of a decode step (`FailInClassify`); the docstring of `run_prefill` says it
produces no generated token, and it produces one; the comment at `src/queue.py:40` counts
one token more than `position` does.

## 5. The proofs

For every number of requests, batch size, cap, strategy, checkpoint and
threshold, any number and length of prompts, any settings, recordings and
commands, assuming only what the named ASSUMEs say of the constants
(`BatcherAssumption`, `GateAssumption`, `CacheAssumption`,
`PreFlightAssumption`, `WorkflowAssumption`, `ServerAssumption`,
`BenchmarkAssumption`):

| Module | Theorem | Says |
|---|---|---|
| `ContinuousBatcherProofs` | `TypeCorrect` | `Spec => []TypeOK` |
| | `NothingIsLost` | `Spec => []NoRequestLost` |
| | `CacheIsBatch` | `Spec => []CacheMatchesBatch` |
| | `VerdictsInEffect` | `Spec => []VerdictInEffect` |
| | `CutsAreRight` | `Spec => []CutAtCheckpoint` |
| | `CountersAlwaysAgree` | `Spec => []CountersAgree` |
| | `StreamsCloseOnce` | `Spec => []StreamClosedOnce` |
| | `ServedStaysServed` | `Spec => ServedForGood` |
| | `StreamsAreTexts` | `Spec => []StreamIsText`, unless `Strategy` is probe_deprioritize |
| `SequenceLemmas` | `DeprioritizedIsAppended` | the operator `PushFrontPriorityAware` appends a request of priority 1, for any queue |
| `QueueDisciplineProofs` | `DeprioritizedWaitsBehindAll`, `JoiningKeepsPlaces` | the two promises of the deque under any legal use |
| `BatcherDisciplineProofs` | `QueueUsedLegally` | the batcher implements `QueueDiscipline` |
| | `WaitersKeepTheirPlaces`, `PreemptedWaitsBehindAll` | hence the two promises hold in the batcher |
| | `AdmittedInOrder` | `Spec => []FirstComeFirstAdmitted` |
| | `AdmissionComplete` | `Spec => []AdmissionDone` |
| | `PreemptionsArePaidFor` | `Spec => []PreemptionBudget` |
| | `LossesArePaidFor` | `Spec => LossOnlyUnderContention` |
| | `LifecycleImplemented` | the batcher implements `RequestLifecycle` |
| `SequenceCacheProofs` | `OwnHistory` | `Spec => []CacheIsOwnHistory` |
| | `AsIfAlone` | `Spec => []GeneratesAsIfAlone`: batching is transparent |
| | `VerdictIsOwn` | `Spec => []VerdictOnOwnToken` |
| `WorkflowProofs` | `CacheSoundInUse` | the same three of the server and the pre-flight check together |
| | `ParityBlamesEarlyTexts` | `WorkflowSpec => []ParityVerdict` |
| | `CheckedProbeServes` | `WorkflowSpec => []VettedProbeServes` |
| | `WrittenResultsAreWhole` | `WorkflowSpec => []ResultsAreWhole` |
| `ServerProofs` | `LossesAreBounded` | `ServerSpec => []LossIsBounded` |
| | `CountersSurvive` | `ServerSpec => []CountersAgree`: exceptions and shutdown included |
| | `DoneIsWhole` | `ServerSpec => []DoneMeansWhole` |
| | `FailuresSpareTheBatch` | `ServerSpec => FailureSparesTheBatch` |
| `BenchmarkProofs` | `CounterfactualHolds` | `Spec => []BaselineIsCounterfactual` |
| | `FalseTerminationsHold` | `Spec => []FalseTerminationsAreReal` |
| | `RowsAddUp` | `Spec => []ConvergenceAddsUp` |
| | `NoneIsSlower` | `Spec => []NoConvergentIsSlower` |
| | `MedianIsBetter` | `Spec => []MedianImproves` |

**The batcher.** The inductive invariant is `Safety`: the three facts and
`RefillPossible`. The last is needed because `_try_admit` calls `_admit_one`
after `_preempt` without looking: that the queue is not empty and a slot is free
follows only from what `_preempt` just did. The three facts need one another:
conservation makes the popped request new to the batch, which keeps `active`
free of repetitions, which makes its removal remove it, which keeps the cache
equal to the batch. `CacheMatchesBatch` bounds the batch for the same reason.
There is one lemma per action that moves a request (`AdmitOneSafe`,
`PreemptSafe`, `FinishSafe`, `SubmitSafe`), one for those that move none
(`SamePlaces`), and `NextSafety` splits on the disjuncts of Next.

**The queue.** `DeprioritizedIsAppended` rests on `InsertionPointIsEnd`: behind
the last normal waiter all are deprioritized, so the search for a place runs to
the end. The maximum it takes exists because the set is finite
(`GreatestOfNaturals`). `QueueUsedLegally` is a step simulation: `Submit` maps to
a submission, an admission to a pop, a preemption to a requeue, `Route` to a
change of priorities of requests that do not wait, the rest to stuttering. It
needs, beyond `Safety`, that ids not handed out have priority 0 (`NewIsNormal`),
for a reused record would join the queue with a priority nobody gave it. The
promises are then taken over from `QueueDisciplineProofs` by an instance of it
(`Promises`), with a lemma that this instance is the one the batcher refers to.

**Admission.** `InOrder` says of any sequence what `FirstComeFirstAdmitted` says
of the queue; one lemma each follows it through the submission of the newest
(`NewestInOrder`), a pop (`RestInOrder`) and a preemption, which appends a
request that has run and so disturbs no pair of those that never did
(`PreemptedInOrder`). What bounds `_try_admit`'s second loop is `Admitting`: the
deprioritized requests of the batch and the turns the loop has taken are together
at most `MaxBatchSize`, since each turn removes one and admits a normal request.
So when the bound on `attempts` ends the loop none of them is left
(`AdmissionComplete`); `VictimFound` adds that `_find_deprioritize_victim`
returns nothing only if there is none. The budget then follows from counting:
those that never ran and the batch are disjoint sets of submitted requests
(`Never`), and at a preemption the batch is full. `OthersLoseNothing` shows that
no step but `Preempt` lowers `n_generated`, `PreemptLoses` that it does so of the
victim with the least.

**The lifecycle.** `RequestLifecycle` is refined by a step simulation. The status
of a request is its place (`Statuses`), and an action that moves one request
changes one status (`Becomes`). That it may do so needs the rest: the order of
admission for a start, and for `RefillSlot`, which does not look, the free slot
`RefillPossible` promises; for a yield, beside the loop's condition, that the
batch never exceeds its capacity and that only probe_deprioritize preempts
(`Admitting`). `OthersKeepStatus` shows that all other actions stutter.

**Verdicts and counters.** `VerdictInv` says what a record holds by where its
request is: in the queue nothing is left of an earlier run but the priority
(`Fresh`), in the batch the verdict came with the gate's token and, by the phase
of the tick, has been reacted to (`Judged`), and a completed one was cut where
and why its record says (`CutRight`). The gate's token is `Max({2, Checkpoint})`.
Between `Route` and `EndTick` a request may be routed and still run, so `Judged`
speaks of `terminated_ids`: it is in there, and `Finish` takes it out before the
tick ends. `CountersAgree` needs of this that a record says "probe_terminated"
only if it was (`SaysSo`), for `_finish` counts by one field what the tables
count by the other.

**Streams and delivery.** `OneStepOn` lists what one step may make of one record
and that, but for a cancelled wait, it touches only those not completed; that
`Submit` does not reuse one needs `Completed \subseteq 1..submitted`, which
`Counted` carries. `AllDelivered` says that an open stream ends with the present
run and has no marker, a closed one has it at its end only (tokens are numbered
from 1, the marker is 0), and that a completed request has an answer, so that no
`Cancel` is left to it. Without preemption the phases of the second loop are never
reached and the stream is the run from its first token (`WholeInv`); with it the
run `stream_replay` shows that it is not.

**The cache.** The three properties speak of the state between two calls; the
inductive invariant `CacheInv` also says what the batch holds in the middle of a
decode step: after `build_batch`, each row is its own history behind its own
padding, masked by its own length (`Built`); after the forward pass, each row has
one more column, the sequence's own, and its own next token (`Forwarded`). The
central lemmas follow a history through the call: `PaddedColumns` (padding moves
it), `ContinuesPadded` (under its mask the model sees exactly it, so it goes on
as alone), `TrimmedColumns` (trimming to the new length leaves exactly it and the
new column). `ScatterMeans` puts them together. `Judged` adds that a request
without a verdict has not passed the gate's place, and one with a verdict got it
there; that place is `Max({Checkpoint, 2})`, because prefill judges nothing.

**The workflow.** `VettedInv`: while a check has found no error, the probe it
holds suits the model (`Suits`), and an evaluation that ended badly had one that
does not; both read the same file through the same `Loads`, which is what makes
the conclusion independent of what training does in between. `ResultsInv`: what
has been done is a prefix of what was asked, each on the probe its gate needs.
`ParityInv`: in a parity check every sequence has as many tokens as there were
rounds, plus the prefill's (`Decoding`), so that at the end there are exactly
`n_tokens` of each, and by `GeneratesAsIfAlone` they are those of its own text;
hence the comparison fails just where the reference is shorter
(`DiffersIfEarly`).

**The server.** `ServerInv` keeps the batcher's invariants while its task lives
(`Alive`) and says separately what survives its end: the types, that at most one
request is in no container (`OneStranded`), the counters, the delivery, and that
each handler is where its request's answer and its stream have got to
(`HandlerFits`). A handler's step changes nothing of the batcher, and a step of
the batcher nothing of a handler, but each invariant speaks of both, so each is
followed through both. That an exception strands the one request being prefilled
and nobody else comes from conservation: it is the head of the queue, which
`AdmitOne` had popped. `FailureSparesTheBatch` needs two more invariants of the
batcher. `InOrderOfProgress`: each request of the batch has at least as many tokens as
those behind it, for all advance together and who joins does so at the end with
its first token. `NoVerdictFromMisfit`: with a probe that raises nobody has a
verdict. Hence, when one raises in a decode step, the head of the batch is at
the gate if anybody is, and it is the first of the loop.

**The benchmark.** Each of the three runs is a batcher under constants of its own,
so `ContinuousBatcherProofs` is instantiated three times. What it offers for this
is `RunInv(T, m)`: a sound batcher (`Sound`), whose requests ask for m tokens
and whose texts end with T's (`UpToTheEnd`: nobody is past its end, who is there
is finished in the same tick, and who completed is there unless the probe cut
it). It holds when a run starts (`RunStarts`), a tick keeps it if the tokens end
as the samples say (`RunGoesOn`, `TextsEndAt`), and when every future is set it
says what the records need (`RunEnds`). Preemption does not disturb it: a text
that begins again is before its end. `EndTest` connects it to the samples, whose
text ends at its EOS or the limit (`End`). From there on only the records count:
`Faithful` says what each holds, and the three properties follow by counting
(`ThreeRuns`, `CutTexts`, `PartsAddUp`). Lengths are
from 1 because they are the place of the EOS, which is a token of the text too; a
text without one is a text whose length is beyond every limit.

**The convergent are not slower.** `NoConvergentIsSlower` compares the schedules of
two whole runs, of which the records keep the ticks of the completions. The
proof has three parts, the first two about any batcher (last sections of
`ContinuousBatcherProofs`), the third about the sequence of runs.

* *What a step may be* (`TickMoves`): an admission takes the head of the queue and
  begins its run in this tick (`Admits`), a preemption puts a deprioritized request
  at the tail (`Yields`), and anything else leaves the queue alone, where filling
  slots ends only with a full batch or an empty queue (`Stays`). When a request
  `Begun` stays what it is: the tick, less the tokens since, or, once it is
  completed, its completion less the `Span` of its text. Since all problems are
  submitted at the start, those that have not run wait in their order, ahead of the
  preempted and behind nobody (`Line`).
* *The crowd of the baseline.* Without preemption a request is admitted into a
  batch of earlier ones still running. These are its `Rivals`: the earlier
  requests that, by when they began and how long their texts are, had not ended.
  So everyone `FoundRoom`: fewer than `MaxBatchSize` rivals (`RoomFound`,
  `BaseGoesOn`). This is a fact about the recorded ticks alone, and all that the
  second run needs to know of the first.
* *Not behind.* In the run that is compared, whoever has not been deprioritized
  began no later than in the baseline, and whoever waits without having run is
  not late yet (`NotBehind`). The tick that could make a waiter late ends its
  filling with a full batch. Before the last waiter has run nobody is admitted
  twice (`HeadOfLine`), so all in the batch are earlier requests, began no later
  than in the baseline, and have not come to their ends. If in the baseline the
  waiter had begun by this tick, all of them would have been running there when
  it did: `MaxBatchSize` rivals, one too many (`FullBatch`). This speaks of
  the deprioritized in the batch as well, as long as someone waits who has not
  run. At the end the ticks `Begun` are compared for the same text, and so are
  the completions (`LateEnds`).

`BenchmarkProofs` instantiates this with the problems' texts and verdicts, and
carries `Timed` from run to run: the baseline's pace, the room it leaves
recorded, the later run's pace, and what is recorded of it. It needs that a
problem has one verdict (`Lawful`): if a request could be judged divergent first
and convergent when it is run again, its delay would count as a convergent one's.

**The median.** That a list can be sorted is a counting argument and no induction:
the number of entries that come before an entry is its place (`RankType`), and a
one-to-one map of 1..n into itself is onto. The entry at place j of the sorted
list has rank j (`SortedHasRank`), by counting too; no list has two values of one
rank, and where one list is nowhere above another neither are its ranks
(`RanksCompare`). The interpolation at 50 is the mean of the two places in the
middle (`PercentileIsMedian`), and the rest is `NoConvergentIsSlower`. `Sorted` is
defined here, as the rearrangement that is in order, because `SortSeq` of the
standard module TLC has no definition the prover can expand.

**Only model-checked:** `HandlersReturn`, `StarvesOnlyIfPreempted`, `NormalsFinish` and
`AnsweredIfArrivalsEnd`, liveness under fairness, which is beyond the prover. Every other property that a passing run checks is
proved.

## 6. Not modelled

* `classify_batch` and `predict_batch`, which no code but tests calls.
* The report's means, accuracy columns and markdown; `/health` and `/metrics`,
  which change nothing.
* A `/generate` client that disconnects: the handler is not told, and goes on.
* Wall-clock times (`Benchmark` counts ticks), text, JSON, tokenizer and chat
  templates; the dataset loader, which downloads and normalises text; the fit of
  the probe and its cross-validation; the figures.
* The pre-flight check's look at memory, token ids and the template: together
  one free choice in `Report`.
* Two processes on one GPU, and a server that ends in the middle of a workflow
  (`Server` has its shutdown and its failures).
* Numerics: half precision, the real attention kernel, layers and heads.

## 7. Plan

1. *Done:* the queue, the gate, the batcher, its lifecycle, the cache; the first
   theorems.
2. *Done:* the server around the batcher; the benchmark and its report.
3. *Done:* the probe file and the processes around it; the pre-flight check; the
   queue's discipline as an abstraction of the batcher; the proofs of the cache
   and of the workflow.
4. *Done:* the proofs about the batcher: admission, lifecycle, verdicts, counters,
   streams, losses; about the server with its exceptions; about the records of the
   benchmark, their ticks included, and its report.
5. *Deeper*: an abstract specification of the server as its clients see it; the
   batcher composed with `SequenceCache`, so that the verdict a request gets is
   the one about its own hidden state.
