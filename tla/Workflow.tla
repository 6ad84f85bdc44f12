------------------------------- MODULE Workflow -------------------------------
(***************************************************************************)
(* The processes around the probe file on one machine.  Training           *)
(* (scripts/train_probe.py) needs no GPU and may run beside anything.  The *)
(* GPU has room for one model: that of a server, of the pre-flight check   *)
(* (PreFlight) or of an evaluation (benchmark/routing_eval.py).  Each      *)
(* process reads the settings of its own environment when it starts.  Of   *)
(* the server only its use of the cache is here, and it stays up; of the   *)
(* evaluation only what it does between two strategies.                    *)
(***************************************************************************)
EXTENDS PreFlight

CONSTANTS Settings,     \* what an environment may ask for
          Recorded,     \* the recordings --early-detection-dir may point to
          Invocations   \* what --strategies may be

ASSUME WorkflowAssumption ==
    /\ Settings \subseteq [layer : Nat, checkpoint : Nat]
    /\ \A r \in Recorded : r.layer \in Nat /\ r.dim \in Nat
    /\ Invocations \subseteq Seq({"baseline", "probe_terminate", "probe_deprioritize"})

VARIABLES bundle,  \* what the training process is writing, NoFile without one
          asked,   \* the strategies of the evaluation
          done     \* all_results: each strategy with the probe it ran on

evaluation == <<asked, done>>
all == <<preflight, bundle, evaluation>>

\* The scripts' prompts have the lengths that the pair is for.
WorkflowInit ==
    /\ Init
    /\ job \in {"serving", "idle"}
    /\ job = "idle" => prompt_len[2] < prompt_len[3] /\ prompt_len[1] = prompt_len[3]
    /\ file = NoFile /\ gate = NoFile /\ env = NoEnv
    /\ errors = {} /\ text_end = [s \in Ids |-> MaxNew] /\ rounds = 0
    /\ report = NoReport /\ bundle = NoFile /\ asked = <<>> /\ done = <<>>

\* The server's batcher decodes, and changes nothing else.
Serve ==
    /\ job = "serving" /\ Next
    /\ UNCHANGED <<job, file, env, gate, check, report, bundle, evaluation>>

-----------------------------------------------------------------------------
(* train_probe.py *)

\* Settings and activations are read, the pipeline is fitted, unless they do
\* not suffice, and joblib.dump opens the file itself for writing.  Nobody sees
\* anything of the training before that, so it is one step.
BeginTraining ==
    /\ job # "serving" /\ bundle = NoFile
    /\ \E recording \in Recorded, e \in Settings :
          /\ Trainable(recording, e.checkpoint)
          /\ bundle' = Trained(recording, e.layer, e.checkpoint)
    /\ file' = Torn
    /\ UNCHANGED <<vars, job, env, gate, check, report, evaluation>>

\* The dump ends, or the process is killed before.
EndTraining ==
    /\ bundle # NoFile
    /\ file' \in {file, bundle}
    /\ bundle' = NoFile
    /\ UNCHANGED <<vars, job, env, gate, check, report, evaluation>>

-----------------------------------------------------------------------------
(* routing_eval.py *)

BeginEvaluation ==
    /\ job = "idle"
    /\ job' = "evaluating" /\ env' \in Settings
    /\ asked' \in Invocations /\ done' = <<>>
    /\ UNCHANGED <<vars, file, gate, check, report, bundle>>

\* run_strategy loads the probe anew for each strategy that needs one, and
\* hooks the layer the probe names.  An exception ends the process.
BeginStrategy ==
    /\ job = "evaluating" /\ Len(done) < Len(asked)
    /\ IF asked[Len(done) + 1] = "baseline"
       THEN job' = "running" /\ gate' = NoFile
       ELSE /\ gate' = file
            /\ job' = IF Loads(file, env.layer, env.checkpoint) /\ file.layer < NLayers
                      THEN "running" ELSE "crashed"
    /\ UNCHANGED <<vars, file, env, check, report, bundle, evaluation>>

EndStrategy ==
    /\ job = "running"
    /\ job' = "evaluating"
    /\ done' = Append(done, [strategy |-> asked[Len(done) + 1], gate |-> gate])
    /\ UNCHANGED <<vars, file, env, gate, check, report, bundle, asked>>

\* A request meets a gate of another dimension: the batcher's task dies and the
\* gather waits for ever.
Hang ==
    /\ job = "running" /\ gate # NoFile /\ gate.dim # HiddenDim
    /\ job' = "hung"
    /\ UNCHANGED <<vars, file, env, gate, check, report, bundle, evaluation>>

\* The results are written when there are no more strategies, and only then.
WriteResults ==
    /\ job = "evaluating" /\ Len(done) = Len(asked)
    /\ job' = "written"
    /\ UNCHANGED <<vars, file, env, gate, check, report, bundle, evaluation>>

\* The process ends, on its own or by force.
EndJob ==
    /\ job \notin {"idle", "serving"}
    /\ job' = "idle"
    /\ Dropped
    /\ env' = NoEnv /\ gate' = NoFile /\ errors' = {} /\ text_end' = [s \in Ids |-> MaxNew]
    /\ asked' = <<>> /\ done' = <<>>
    /\ UNCHANGED <<file, report, bundle>>

-----------------------------------------------------------------------------
CheckSetup ==
    /\ (\E e \in Settings : BeginCheck(e)) \/ PreFlightStep
    /\ UNCHANGED <<bundle, evaluation>>

Evaluate == BeginEvaluation \/ BeginStrategy \/ EndStrategy \/ Hang \/ WriteResults

WorkflowNext ==
    Serve \/ BeginTraining \/ EndTraining \/ CheckSetup \/ Evaluate \/ EndJob

WorkflowSpec == WorkflowInit /\ [][WorkflowNext]_all

-----------------------------------------------------------------------------
\* "ALL CHECKS PASSED ... Safe to proceed": under the settings and with the
\* probe file that a check passed, an evaluation neither crashes on the probe
\* nor hangs for it, as long as what it reads is still what was vetted: a probe
\* trained meanwhile, or a dump that was killed, nobody has passed.
\* (Of a check that passed without a probe this is not so.)
VettedProbeServes ==
    job \in {"crashed", "hung"} =>
        ~(report.passed /\ report.gate # NoFile /\ report.env = env /\ report.gate = gate)

\* Results that get written are whole: every strategy asked for is there, the
\* baseline without a probe, and each of the others with a probe whose dump had
\* ended and that was trained for the checkpoint at which its gate fired.
ResultsAreWhole ==
    job = "written" =>
        /\ [i \in DOMAIN done |-> done[i].strategy] = asked
        /\ \A i \in DOMAIN done :
              IF done[i].strategy = "baseline" THEN done[i].gate = NoFile
              ELSE done[i].gate.written = "whole" /\ done[i].gate.checkpoint = env.checkpoint

\* The probe an evaluation routes on was fitted on the layer it is given:
\* "silently running a probe against the wrong layer or checkpoint doesn't
\* error, it just returns confidently wrong routing decisions".
ServedLayerIsFitted ==
    job = "running" /\ gate # NoFile => gate.fitted_on = env.layer
===============================================================================
