----------------------------- MODULE RoutingGate -----------------------------
(***************************************************************************)
(* The classification gate (src/gate.py) over the probe (src/probe.py).    *)
(* What the probe's logistic regression returns for a hidden state, the    *)
(* probability of convergence, is an input: a whole number of percent.     *)
(***************************************************************************)
EXTENDS Integers

CONSTANTS Checkpoint,   \* the probe's trained_checkpoint, in generated tokens
          Threshold     \* terminate_confidence_threshold, in percent

ASSUME GateAssumption == Checkpoint \in Nat /\ Threshold \in 0..100

Probability == 0..100

\* ProbeArtifact.predict: the label, and the probability of that label.
Label(p) == IF p > 50 THEN "convergent" ELSE "divergent"
Confidence(p) == IF p >= 100 - p THEN p ELSE 100 - p

\* GenerationRequest.routing_decision is None until the gate fires.
NoDecision == [label |-> "none", confidence |-> 0]

\* ClassificationGate.classify: what is stamped on the request.
Classify(p) == [label |-> Label(p), confidence |-> Confidence(p)]

Decision == [label : {"none", "convergent", "divergent"}, confidence : Probability]

IsDivergent(d) == d.label = "divergent"

\* Wrong on purpose: shows that a property notices the change.
ReadyAt_Beyond(n_generated) == n_generated > Checkpoint

\* ClassificationGate.ready_at
ReadyAt(n_generated) == n_generated >= Checkpoint
==============================================================================
