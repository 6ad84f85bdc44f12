-------------------------------- MODULE Server --------------------------------
(***************************************************************************)
(* The HTTP server of src/server.py around the batcher: the probe loaded   *)
(* at startup, a handler for each request, a batcher task that an          *)
(* exception may end, shutdown.                                            *)
(*                                                                         *)
(* Handlers and the batcher share one event loop, and the batcher gives it *)
(* up only between two ticks.  A task that died does so for good: phase    *)
(* is then "await", for the loop turns without it.  As in the batcher, an  *)
(* operator named with an underscore is wrong on purpose.                  *)
(***************************************************************************)
EXTENDS ContinuousBatcher, ProbeArtifact

CONSTANTS Found,                 \* what may lie at probe_weights_path
          ProbeLayer, HiddenDim, \* the layer configured; the model's dimension
          MayFail                \* whether a forward pass may raise (memory)

ASSUME ServerAssumption ==
    /\ Found \subseteq ProbeFile
    /\ ProbeLayer \in Nat /\ HiddenDim \in Nat
    /\ MayFail \in BOOLEAN
    /\ GateLoaded = (Strategy # "baseline")

VARIABLES task,      \* "starting", "refused", "running", "died", "cancelled"
          probe,     \* the artifact loaded, NoFile without one
          handler,   \* "none", "awaiting" or "reading", "returned", "gone"
          consumed   \* the entries of token_queue its handler has got

server == <<task, probe, handler, consumed>>
all == <<vars, server>>

ServerInit ==
    /\ Init
    /\ task = "starting" /\ probe = NoFile
    /\ handler = [r \in Requests |-> "none"]
    /\ consumed = [r \in Requests |-> 0]

-----------------------------------------------------------------------------
(* Startup and shutdown. *)

\* Under baseline nobody looks for the probe; otherwise startup raises when
\* there is no file, or one that load_probe refuses.
Startup ==
    /\ task = "starting"
    /\ \/ /\ Strategy = "baseline"
          /\ task' = "running" /\ UNCHANGED probe
       \/ /\ Strategy # "baseline"
          /\ \E file \in Found :
                IF Loads(file, ProbeLayer, Checkpoint)
                THEN task' = "running" /\ probe' = file
                ELSE task' = "refused" /\ UNCHANGED probe
    /\ UNCHANGED <<vars, handler, consumed>>

Refused == task = "refused" /\ UNCHANGED all

\* No more requests come; the handlers of those that wait are left to it.
Shutdown ==
    /\ task \in {"running", "died"}
    /\ Stop
    /\ task' = "cancelled"
    /\ UNCHANGED <<probe, handler, consumed>>

ShutDown == task = "cancelled" /\ UNCHANGED all

-----------------------------------------------------------------------------
(* The handlers. *)

Up == task \in {"running", "died"}

Accept(max_tokens, stream) ==
    /\ Up
    /\ Submit(max_tokens, stream)
    /\ handler' = [handler EXCEPT ![NextId] = IF stream THEN "reading" ELSE "awaiting"]
    /\ UNCHANGED <<task, probe, consumed>>

LoopIsFree == phase \in {"await", "stopped"}

\* generate, after its await, in a later turn of the loop than the one that set
\* the result.
Respond(r) ==
    /\ LoopIsFree
    /\ handler[r] = "awaiting" /\ req[r].result = "set"
    /\ handler' = [handler EXCEPT ![r] = "returned"]
    /\ UNCHANGED <<vars, task, probe, consumed>>

\* token_generator: one turn of its loop, up to the end marker and [DONE].
Read(r) ==
    LET next == consumed[r] + 1
    IN  /\ LoopIsFree
        /\ handler[r] = "reading" /\ next <= Len(req[r].token_queue)
        /\ consumed' = [consumed EXCEPT ![r] = next]
        /\ handler' = IF req[r].token_queue[next] = EndOfStream
                      THEN [handler EXCEPT ![r] = "returned"] ELSE handler
        /\ UNCHANGED <<vars, task, probe>>

\* The client of a stream goes away.  Nobody tells the batcher.
Disconnect(r) ==
    /\ LoopIsFree
    /\ r \in Impatient /\ handler[r] = "reading"
    /\ handler' = [handler EXCEPT ![r] = "gone"]
    /\ UNCHANGED <<vars, task, probe, consumed>>

-----------------------------------------------------------------------------
(* The batcher's task, and what an exception in it leaves behind. *)

\* The request at which classify raises in the middle of run_decode_step's
\* loop: the first to meet a gate whose probe has another dimension.
Misfits ==
    {i \in DOMAIN active : /\ probe.dim # HiddenDim /\ MeetsGate(req[active[i]])
                           /\ \A j \in 1..i - 1 : ~MeetsGate(req[active[j]])}

Work ==
    /\ task = "running"
    /\ phase = "decode" => Misfits = {}
    /\ Tick
    /\ UNCHANGED server

Aftermath_Resumed == "running"

\* Nothing catches the exception: run_forever ends, and nobody awaits it.
Aftermath == "died"

Die ==
    /\ task = "running"
    /\ task' = Aftermath /\ phase' = "await"
    /\ UNCHANGED <<active, cache, submitted, attempts, finished_ids, terminated_ids, total,
                   probe, handler, consumed>>

\* The forward pass of run_prefill: the popped request is in no container.
FailInPrefill ==
    /\ MayFail
    /\ (phase = "admit" /\ MayAdmit) \/ phase = "readmit"
    /\ queue' = Tail(queue)
    /\ UNCHANGED req
    /\ Die

\* The forward pass of run_decode_step: nothing has been changed yet.
FailInForward ==
    /\ MayFail
    /\ phase = "decode" /\ active # <<>>
    /\ UNCHANGED <<queue, req>>
    /\ Die

\* classify, for a request that has its token but not its end test; those
\* before it have been advanced, those after it have not.
FailInClassify ==
    /\ phase = "decode"
    /\ \E i \in Misfits, eos \in SUBSET ToSet(active) :
          LET advanced == {active[j] : j \in 1..i - 1}
          IN  req' = [r \in Requests |->
                         IF r \in advanced THEN Generate(req[r], r \in eos)
                         ELSE IF r = active[i]
                              THEN [Generate(req[r], FALSE) EXCEPT
                                       !.finish_reason = req[r].finish_reason]
                         ELSE req[r]]
    /\ UNCHANGED queue
    /\ Die

Fail == FailInPrefill \/ FailInForward \/ FailInClassify

-----------------------------------------------------------------------------
Handling(r) == Respond(r) \/ Read(r)

ServerNext ==
    \/ Startup \/ Refused \/ Shutdown \/ ShutDown
    \/ \E m \in MaxTokensChoices, s \in StreamChoices : Accept(m, s)
    \/ \E r \in Requests : Handling(r) \/ Disconnect(r)
    \/ Work \/ Fail

\* The event loop runs whatever is ready, first come first served: the batcher
\* again and again, and in each of its pauses the handlers that are ready, which
\* is strong fairness because between the pauses they cannot run.
ServerSpec ==
    /\ ServerInit /\ [][ServerNext]_all
    /\ WF_all(Work \/ Fail)
    /\ \A r \in Requests : SF_all(Handling(r))

-----------------------------------------------------------------------------
Stranded == (1..submitted) \ (ToSet(queue) \cup ToSet(active) \cup Completed)

\* An exception costs the requests' answers, but at most one request its place:
\* the one being prefilled.  The others stay where they were, and while the
\* task lives nobody is lost.
LossIsBounded ==
    /\ Cardinality(Stranded) <= 1
    /\ task = "running" => Stranded = {}

\* An exception takes nobody's tokens and finishes nobody: the most it leaves
\* half done is one more token, without a verdict, for the head of the batch.
\* It is the head that fails, since the batch is ordered by progress.
FailureSparesTheBatch ==
    [][task = "running" /\ task' = "died" =>
          \A r \in Requests :
             req'[r] # req[r] =>
                /\ r = active[1]
                /\ req'[r].n_generated = req[r].n_generated + 1
                /\ req'[r].finish_reason = "none" /\ req'[r].result = req[r].result]_all

\* A handler that returned had a completed request, and one that ended its
\* stream with [DONE] delivered all there is: neither a preemption nor a dead
\* batcher ends it early.
DoneMeansWhole ==
    \A r \in Requests :
        handler[r] = "returned" =>
            /\ req[r].completed
            /\ req[r].stream => consumed[r] = Len(req[r].token_queue)

\* Every handler returns, unless its client went away or the batcher is gone.
\* (Of NRequests clients at most: under arrivals that never end a handler may
\* wait as long as its request, see EndlessArrivals.)
HandlersReturn ==
    \A r \in Requests :
        handler[r] \in {"awaiting", "reading"} ~>
            handler[r] \in {"returned", "gone"} \/ task \in {"died", "cancelled"}
=============================================================================
