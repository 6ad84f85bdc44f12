----------------------------- MODULE ProbeArtifact -----------------------------
(***************************************************************************)
(* The file at probe_weights_path: what scripts/train_probe.py writes, and *)
(* what load_probe of src/probe.py makes of what it finds there.  Of the   *)
(* fitted pipeline only its input matters: how many components a hidden    *)
(* state must have, and which layer the states it was fitted on came from, *)
(* which the file itself does not say (fitted_on).                         *)
(***************************************************************************)
EXTENDS Integers

ProbeFile == [written : {"not", "partly", "whole"}, layer : Nat, checkpoint : Nat,
              dim : Nat, fitted_on : Nat]

NoFile == [written |-> "not", layer |-> 0, checkpoint |-> 0, dim |-> 0, fitted_on |-> 0]

\* What a dump leaves until it is done.
Torn == [NoFile EXCEPT !.written = "partly"]

\* early_detection's recording holds the activations of one layer: at each
\* position a number of samples, some of which converged.  load_activations
\* demands 20 of them, and the fit both outcomes.
Trainable(recording, position) ==
    /\ position \in DOMAIN recording.samples
    /\ recording.samples[position].n >= 20
    /\ recording.samples[position].convergent \in 1..recording.samples[position].n - 1

\* main: the metadata stamped on the pipeline are the arguments.
Trained(recording, layer, position) ==
    [written |-> "whole", layer |-> layer, checkpoint |-> position,
     dim |-> recording.dim, fitted_on |-> recording.layer]

\* Wrong on purpose: shows that a property notices the change.
Accepts_LayerOnly(file, layer, checkpoint) == file.layer = layer

\* The two checks of load_probe.
Accepts(file, layer, checkpoint) == file.layer = layer /\ file.checkpoint = checkpoint

\* Without a file, and for half of one, load_probe raises as well.
Loads(file, layer, checkpoint) == file.written = "whole" /\ Accepts(file, layer, checkpoint)
================================================================================
