------------------------------- MODULE PreFlight -------------------------------
(***************************************************************************)
(* The pre-flight check, scripts/verify_setup.py.  It loads the probe, if  *)
(* there is one, and then decodes a prompt alone and two together through  *)
(* the cache of SequenceCache, to compare the texts with those of          *)
(* model.generate().  Sequence 1 is the single prompt, 2 and 3 the pair.   *)
(* MaxNew stands for n_tokens.                                             *)
(***************************************************************************)
EXTENDS SequenceCache, ProbeArtifact

CONSTANTS NLayers, HiddenDim,  \* of the model
          TextEnds             \* the places at which a text may have its EOS

ASSUME PreFlightAssumption ==
    NSequences = 3 /\ NLayers \in Nat /\ HiddenDim \in Nat /\ TextEnds \subseteq Nat \ {0}

VARIABLES
    job,       \* what the process on the GPU does, "idle" without one
    file,      \* what lies at probe_weights_path
    env,       \* the settings the process read when it started
    gate,      \* the probe it loaded, NoFile if none
    errors,    \* what the check has found
    text_end,  \* the place of the EOS in each text
    rounds,    \* the decode steps of a parity check
    report     \* the end of the last check that got there

check == <<errors, text_end, rounds>>
preflight == <<vars, job, file, env, gate, check, report>>

Checked == IF job = "single" THEN {1} ELSE {2, 3}

NoEnv == [layer |-> 0, checkpoint |-> 0]
NoReport == [passed |-> FALSE, env |-> NoEnv, gate |-> NoFile]

BeginCheck(settings) ==
    /\ job = "idle"
    /\ job' = "probe" /\ env' = settings
    /\ UNCHANGED <<vars, file, gate, check, report>>

ProbeErrors_NoDim(found, layer, checkpoint) ==
    IF found # NoFile /\ ~Loads(found, layer, checkpoint) THEN {<<"load", 0>>} ELSE {}

\* No probe is no error.
ProbeErrors(found, layer, checkpoint) ==
    IF found = NoFile THEN {}
    ELSE IF ~Loads(found, layer, checkpoint) THEN {<<"load", 0>>}
    ELSE IF found.dim # HiddenDim THEN {<<"dim", 0>>} ELSE {}

\* Then the hook is registered, which raises if there is no such layer, and
\* nothing catches that.
CheckProbe ==
    /\ job = "probe"
    /\ gate' = IF Loads(file, env.layer, env.checkpoint) THEN file ELSE NoFile
    /\ errors' = errors \cup ProbeErrors(file, env.layer, env.checkpoint)
    /\ IF env.layer < NLayers
       THEN job' = "single" /\ \E n \in TextEnds : text_end' = [text_end EXCEPT ![1] = n]
       ELSE job' = "crashed" /\ UNCHANGED text_end
    /\ UNCHANGED <<vars, file, env, rounds, report>>

-----------------------------------------------------------------------------
(* A parity check: the requests are prefilled in order, then decoded       *)
(* together without a gate.  That a step calls a request finished is       *)
(* ignored: all of them go on to n_tokens.                                 *)

Waiting == Checked \ ToSet(order)

Rounds_OneFewer == MaxNew - 2

\* range(n_tokens - 1)
Rounds == MaxNew - 1

BridgeStep ==
    /\ job \in {"single", "pair"}
    /\ \/ Waiting # {} /\ Prefill(Min(Waiting)) /\ UNCHANGED rounds
       \/ Waiting = {} /\ rounds < Rounds /\ BuildBatch /\ UNCHANGED rounds
       \/ Forward /\ UNCHANGED rounds
       \/ ScatterFor(FALSE) /\ rounds' = rounds + 1
    /\ UNCHANGED <<job, file, env, gate, errors, text_end, report>>

\* model.generate(): the model's own text, up to its EOS.
Reference(s) == [k \in 1..Min({text_end[s], MaxNew}) |-> Token(s, prompt_len[s] + k)]

\* bridge_tokens against ref_tokens[:len(bridge_tokens)]
Differs(s) ==
    generated[s] # SubSeq(Reference(s), 1, Min({Len(generated[s]), Len(Reference(s))}))

\* The bridge of a check is dropped with its requests.
Dropped ==
    /\ kv' = [s \in Ids |-> <<>>] /\ seq_len' = [s \in Ids |-> 0]
    /\ generated' = [s \in Ids |-> <<>>] /\ position' = [s \in Ids |-> 0]
    /\ judged' = [s \in Ids |-> NoToken]
    /\ order' = <<>> /\ step' = "idle" /\ batch' = NoBatch /\ last' = <<>>
    /\ rounds' = 0
    /\ UNCHANGED prompt_len

Compare ==
    /\ job \in {"single", "pair"} /\ Waiting = {} /\ step = "idle" /\ rounds = Rounds
    /\ errors' = errors \cup {<<"parity", s>> : s \in {q \in Checked : Differs(q)}}
    /\ \/ /\ job = "single" /\ job' = "pair"
          /\ \E m, n \in TextEnds : text_end' = [text_end EXCEPT ![2] = m, ![3] = n]
       \/ job = "pair" /\ job' = "report" /\ UNCHANGED text_end
    /\ Dropped
    /\ UNCHANGED <<file, env, gate, report>>

\* "ALL CHECKS PASSED", or exit code 1, be it for what is not looked into here:
\* the model's size, the token ids and the template.
Report ==
    /\ job = "report"
    /\ report' \in {NoReport} \cup
          (IF errors = {} THEN {[passed |-> TRUE, env |-> env, gate |-> gate]} ELSE {})
    /\ job' = "reported"
    /\ UNCHANGED <<vars, file, env, gate, check>>

PreFlightStep == CheckProbe \/ BridgeStep \/ Compare \/ Report

-----------------------------------------------------------------------------
\* What the parity check says of the bridge.  It blames none for a text that
\* runs to n_tokens, whatever its neighbour; a text that ends earlier it blames
\* every time, for the bridge is driven past the EOS where generate() stops.
ParityVerdict ==
    job = "report" =>
        {s \in Ids : <<"parity", s>> \in errors} = {s \in Ids : text_end[s] < MaxNew}
================================================================================
