----------------------------- MODULE MCBenchmark -----------------------------
(***************************************************************************)
(* Short texts and long ones, with an end of the thinking before or after  *)
(* the checkpoint or none, and a probe that is right or wrong about them.  *)
(***************************************************************************)
EXTENDS Benchmark

Samples ==
    {[length |-> 1, think_end |-> 0, p |-> 90],   \* ends before the checkpoint
     [length |-> 2, think_end |-> 1, p |-> 20],   \* ends with it
     [length |-> 4, think_end |-> 3, p |-> 90],   \* convergent, judged so
     [length |-> 4, think_end |-> 3, p |-> 20],   \* convergent, judged otherwise
     [length |-> 9, think_end |-> 7, p |-> 20]}   \* cut by the limit
==============================================================================
