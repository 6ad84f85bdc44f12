------------------------- MODULE MCContinuousBatcher -------------------------
(***************************************************************************)
(* Small instances of the batcher: a batch of two, texts of at most four   *)
(* tokens, a gate at the second or the third.                              *)
(***************************************************************************)
EXTENDS ContinuousBatcher

\* Divergent beyond the threshold of 70, divergent below it, convergent.
Verdicts == {20, 45, 90}

\* Divergent or convergent, where the confidence does not matter.
Sides == {20, 90}
=============================================================================
