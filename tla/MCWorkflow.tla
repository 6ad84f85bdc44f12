------------------------------ MODULE MCWorkflow ------------------------------
(***************************************************************************)
(* A model of 28 layers.  The environment asks for the layer and position  *)
(* recorded, for another layer, another position, or no layer of the model.*)
(***************************************************************************)
EXTENDS Workflow

Ask(layer, checkpoint) == [layer |-> layer, checkpoint |-> checkpoint]
Asks == {Ask(16, 3), Ask(8, 3), Ask(16, 4), Ask(40, 3)}

\* Of the right model there are enough samples at both positions; of another
\* one, of a different dimension, too few at the second.
Samples(n3, n4) == (3 :> [n |-> n3, convergent |-> 12]) @@ (4 :> [n |-> n4, convergent |-> 12])
Recordings == {[layer |-> 16, dim |-> 8, samples |-> Samples(40, 20)],
               [layer |-> 16, dim |-> 4, samples |-> Samples(40, 19)]}

\* The default, and one without the baseline.
Commands == {<<"baseline", "probe_terminate", "probe_deprioritize">>,
             <<"probe_deprioritize">>}
===============================================================================
