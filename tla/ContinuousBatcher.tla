-------------------------- MODULE ContinuousBatcher --------------------------
(***************************************************************************)
(* The continuous batching scheduler of src/scheduler.py, with the request *)
(* of src/queue.py and the token bookkeeping of src/model_runner.py.       *)
(*                                                                         *)
(* One tick of run_forever (ADMIT, DECODE, ROUTE, EVICT) runs without an   *)
(* await, so nothing else happens during it: phase is the batcher's place  *)
(* in the tick, and clients act only while it sleeps between two ticks     *)
(* ("await").  A token is its number within the run that generated it.     *)
(* Which token the model picks matters only by whether it is the EOS, and  *)
(* what the probe reads only by its probability: both are chosen freely.   *)
(***************************************************************************)
EXTENDS RequestQueue, RoutingGate

CONSTANTS NRequests,         \* bound: how many requests the clients submit
          MaxTokensChoices,  \* the max_tokens a client may ask for
          StreamChoices,     \* whether a client may ask for a stream
          Impatient,         \* the requests whose client may cancel the wait
          Probabilities,     \* what the probe may return
          MaxBatchSize, MaxTokensCap, Strategy,
          GateLoaded         \* whether ContinuousBatcher got a gate

Requests == 1..NRequests

\* ContinuousBatcher.__init__ refuses a routing strategy without a gate.
ASSUME BatcherAssumption ==
    /\ NRequests \in Nat /\ MaxBatchSize \in Nat /\ MaxTokensCap \in Int
    /\ MaxTokensChoices \subseteq Int
    /\ StreamChoices \subseteq BOOLEAN
    /\ Impatient \subseteq Requests
    /\ Probabilities \subseteq Probability
    /\ Strategy \in {"baseline", "probe_terminate", "probe_deprioritize"}
    /\ GateLoaded \in BOOLEAN
    /\ Strategy # "baseline" => GateLoaded

VARIABLES queue,           \* RequestQueue._pending, a sequence of request ids
          active,          \* the keys of self.active, in insertion order
          cache,           \* the requests the KV cache holds a row for
          req,             \* the fields of each GenerationRequest
          submitted,       \* how many ids _request_id_counter has handed out
          phase, attempts, \* where the tick is, and _try_admit's counter
          finished_ids, terminated_ids,  \* what decode and routing returned
          total            \* the counters behind /health

vars == <<queue, active, cache, req, submitted, phase, attempts,
          finished_ids, terminated_ids, total>>

EndOfStream == 0  \* the None that closes a token_queue

Request == [max_tokens : Int, stream : BOOLEAN, n_generated : Nat,
            token_queue : Seq(Nat), routing_decision : Decision,
            routed : BOOLEAN, priority : {0, 1}, terminated_by_probe : BOOLEAN,
            finish_reason : {"none", "eos", "max_tokens", "probe_terminated"},
            completed : BOOLEAN, result : {"pending", "set", "cancelled"}]

Totals == [admitted : Nat, finished : Nat, probe_terminated : Nat, preemptions : Nat]

TypeOK ==
    /\ queue \in Seq(Requests) /\ active \in Seq(Requests)
    /\ cache \subseteq Requests
    /\ req \in [Requests -> Request]
    /\ submitted \in 0..NRequests
    /\ phase \in {"await", "admit", "preempt", "readmit", "decode", "route",
                  "finish", "stopped"}
    /\ attempts \in Nat
    /\ finished_ids \subseteq Requests /\ terminated_ids \subseteq Requests
    /\ total \in Totals

-----------------------------------------------------------------------------
(* What the code does to one request. *)

NewRequest(max_tokens, stream) ==
    [max_tokens |-> max_tokens, stream |-> stream, n_generated |-> 0,
     token_queue |-> <<>>, routing_decision |-> NoDecision, routed |-> FALSE,
     priority |-> 0, terminated_by_probe |-> FALSE, finish_reason |-> "none",
     completed |-> FALSE, result |-> "pending"]

TokenLimit(r) == IF r.max_tokens < MaxTokensCap THEN r.max_tokens ELSE MaxTokensCap

\* The end test after a token, the same in run_prefill and run_decode_step.
AtEnd(r, eos) == eos \/ r.n_generated >= TokenLimit(r)

\* Append the next token, push it to the stream, note why the text ends here.
Generate(r, eos) ==
    LET n == r.n_generated + 1
    IN  [r EXCEPT !.n_generated = n,
                  !.token_queue = IF r.stream THEN Append(@, n) ELSE @,
                  !.finish_reason = IF eos THEN "eos"
                                    ELSE IF n >= TokenLimit(r) THEN "max_tokens" ELSE @]

\* Wrong on purpose, like every operator named with an underscore: each shows
\* that a property notices a change of the operator below it.
MeetsGate_NotAtEnd(r) ==
    /\ GateLoaded /\ r.routing_decision = NoDecision /\ ReadyAt(r.n_generated + 1)
    /\ r.n_generated + 1 < TokenLimit(r)

\* The gate fires with the token that takes an unclassified request to it.
MeetsGate(r) == GateLoaded /\ r.routing_decision = NoDecision /\ ReadyAt(r.n_generated + 1)

Stamp(r, p) == [r EXCEPT !.routing_decision = Classify(p)]

Terminates_AnyStrategy(r) ==
    IsDivergent(r.routing_decision) /\ r.routing_decision.confidence > Threshold

Terminates(r) == /\ Strategy = "probe_terminate"
                 /\ IsDivergent(r.routing_decision)
                 /\ r.routing_decision.confidence > Threshold

Deprioritizes(r) == Strategy = "probe_deprioritize" /\ IsDivergent(r.routing_decision)

React_Adds(r) ==
    [r EXCEPT !.routed = TRUE, !.priority = IF Deprioritizes(r) THEN @ + 1 ELSE @]

React_Unmarked(r) == [r EXCEPT !.terminated_by_probe = IF Terminates(r) THEN TRUE ELSE @]

React_Restores(r) ==
    [r EXCEPT !.routed = TRUE, !.priority = IF Deprioritizes(r) THEN 1 ELSE 0]

React_KeepsReason(r) ==
    [r EXCEPT !.routed = TRUE,
              !.terminated_by_probe = IF Terminates(r) THEN TRUE ELSE @,
              !.finish_reason = IF Terminates(r) /\ @ = "none" THEN "probe_terminated" ELSE @]

\* _apply_routing's body of the loop.
React(r) ==
    [r EXCEPT !.routed = TRUE,
              !.terminated_by_probe = IF Terminates(r) THEN TRUE ELSE @,
              !.finish_reason = IF Terminates(r) THEN "probe_terminated" ELSE @,
              !.priority = IF Deprioritizes(r) THEN 1 ELSE @]

Close_Open(r) == [r EXCEPT !.completed = TRUE, !.result = IF @ = "pending" THEN "set" ELSE @]

\* _finish, the request's part.  A future the client cancelled stays so.
Close(r) ==
    [r EXCEPT !.completed = TRUE,
              !.token_queue = IF r.stream THEN Append(@, EndOfStream) ELSE @,
              !.result = IF @ = "pending" THEN "set" ELSE @]

Reset_ClosesStream(r) ==
    [r EXCEPT !.n_generated = 0, !.routing_decision = NoDecision, !.routed = FALSE,
              !.token_queue = IF r.stream THEN Append(@, EndOfStream) ELSE @]

\* _preempt, the request's part: the progress goes, the rest stays.
Reset(r) == [r EXCEPT !.n_generated = 0, !.routing_decision = NoDecision, !.routed = FALSE]

CountFinish_NotAtPrefill(t, r) == IF r.n_generated = 1 THEN t ELSE [t EXCEPT !.finished = @ + 1]

CountFinish_OneOrOther(t, r) ==
    IF r.terminated_by_probe THEN [t EXCEPT !.probe_terminated = @ + 1]
                             ELSE [t EXCEPT !.finished = @ + 1]

\* _finish, the counters' part.
CountFinish(t, r) ==
    [t EXCEPT !.finished = @ + 1,
              !.probe_terminated = IF r.terminated_by_probe THEN @ + 1 ELSE @]

Evict_Nothing(rows, r) == rows

\* BatchedSequenceCache.evict
Evict(rows, r) == rows \ {r}

-----------------------------------------------------------------------------
(* The clients. *)

Init ==
    /\ queue = <<>> /\ active = <<>> /\ cache = {}
    /\ req = [r \in Requests |-> NewRequest(0, FALSE)]  \* overwritten by Submit
    /\ submitted = 0
    /\ phase = "await" /\ attempts = 0
    /\ finished_ids = {} /\ terminated_ids = {}
    /\ total = [admitted |-> 0, finished |-> 0, probe_terminated |-> 0, preemptions |-> 0]

NextId_Reused == Len(queue) + Len(active) + 1

\* _request_id_counter
NextId == submitted + 1

\* RequestQueue.submit, called by a handler or the benchmark.
Submit(max_tokens, stream) ==
    /\ phase = "await"
    /\ submitted < NRequests
    /\ submitted' = submitted + 1
    /\ req' = [req EXCEPT ![NextId] = NewRequest(max_tokens, stream)]
    /\ queue' = SubmitTo(queue, NextId)
    /\ UNCHANGED <<active, cache, phase, attempts, finished_ids, terminated_ids, total>>

\* A client gives up: its timeout cancels the future it awaits, and only that.
Cancel(r) ==
    /\ phase = "await"
    /\ r \in Impatient /\ r <= submitted
    /\ req[r].result = "pending"
    /\ req' = [req EXCEPT ![r].result = "cancelled"]
    /\ UNCHANGED <<queue, active, cache, submitted, phase, attempts, finished_ids,
                   terminated_ids, total>>

-----------------------------------------------------------------------------
(* ADMIT *)

BeginTick ==
    /\ phase = "await"
    /\ phase' = "admit"
    /\ UNCHANGED <<queue, active, cache, req, submitted, attempts, finished_ids,
                   terminated_ids, total>>

\* _admit_one: pop the head and prefill it.  A request whose first token is
\* its last is finished on the spot and never joins the batch.
AdmitOne(eos) ==
    LET r == Head(queue)
        after == Generate(req[r], eos)
        admitted == [total EXCEPT !.admitted = @ + 1]
    IN  /\ queue' = Tail(queue)
        /\ \/ /\ AtEnd(after, eos)
              /\ req' = [req EXCEPT ![r] = Close(after)]
              /\ total' = CountFinish(admitted, after)
              /\ cache' = Evict(cache, r)
              /\ UNCHANGED active
           \/ /\ ~AtEnd(after, eos)
              /\ req' = [req EXCEPT ![r] = after]
              /\ total' = admitted
              /\ cache' = cache \cup {r}
              /\ active' = Append(active, r)
        /\ UNCHANGED <<submitted, finished_ids, terminated_ids>>

HasFreeSlot_OffByOne == Len(active) < MaxBatchSize - 1

HasFreeSlot == Len(active) < MaxBatchSize
MayAdmit == HasFreeSlot /\ queue # <<>>

\* _try_admit's first loop.
FillSlot ==
    /\ phase = "admit" /\ MayAdmit
    /\ \E eos \in BOOLEAN : AdmitOne(eos)
    /\ UNCHANGED <<phase, attempts>>

EndFill ==
    /\ phase = "admit" /\ ~MayAdmit
    /\ phase' = IF Strategy = "probe_deprioritize" THEN "preempt" ELSE "decode"
    /\ attempts' = 0
    /\ UNCHANGED <<queue, active, cache, req, submitted, finished_ids, terminated_ids, total>>

VictimSlots_MostProgress ==
    LET Candidates == {i \in DOMAIN active : req[active[i]].priority = 1}
    IN  {i \in Candidates : \A j \in Candidates :
            req[active[i]].n_generated >= req[active[j]].n_generated}

\* The places of the victims _find_deprioritize_victim may return: the first
\* of the deprioritized with the least progress, so at most one.
VictimSlots ==
    LET Candidates == {i \in DOMAIN active : req[active[i]].priority = 1}
        n(i) == req[active[i]].n_generated
    IN  {i \in Candidates : \A j \in Candidates : n(i) < n(j) \/ (n(i) = n(j) /\ i <= j)}

MayPreempt_AnyWaiter ==
    Len(active) >= MaxBatchSize /\ queue # <<>> /\ attempts < MaxBatchSize

\* The condition of _try_admit's second loop.
MayPreempt ==
    /\ Len(active) >= MaxBatchSize /\ queue # <<>>
    /\ req[Head(queue)].priority = 0
    /\ attempts < MaxBatchSize

\* _preempt
Preempt ==
    /\ phase = "preempt" /\ MayPreempt
    /\ \E i \in VictimSlots :
          LET r == active[i]
          IN  /\ active' = RemoveAt(active, i)
              /\ cache' = Evict(cache, r)
              /\ req' = [req EXCEPT ![r] = Reset(req[r])]
              /\ queue' = PushFrontPriorityAware(queue, r, [q \in Requests |-> req[q].priority])
    /\ total' = [total EXCEPT !.preemptions = @ + 1]
    /\ phase' = "readmit"
    /\ UNCHANGED <<submitted, attempts, finished_ids, terminated_ids>>

\* The admission that follows a preemption, in the same turn of the loop.
RefillSlot ==
    /\ phase = "readmit"
    /\ \E eos \in BOOLEAN : AdmitOne(eos)
    /\ attempts' = attempts + 1
    /\ phase' = "preempt"

EndAdmission ==
    /\ phase = "preempt" /\ (~MayPreempt \/ VictimSlots = {})
    /\ phase' = "decode"
    /\ UNCHANGED <<queue, active, cache, req, submitted, attempts, finished_ids,
                   terminated_ids, total>>

-----------------------------------------------------------------------------
(* DECODE, ROUTE, EVICT *)

\* run_decode_step: a token for every active request, a verdict for those that
\* meet the gate with it.
Decode ==
    LET batch == ToSet(active)
        meeting == {r \in batch : MeetsGate(req[r])}
    IN  /\ phase = "decode" /\ active # <<>>
        /\ \E eos \in SUBSET batch, p \in [meeting -> Probabilities] :
              LET after(r) == Generate(req[r], r \in eos)
              IN  /\ req' = [r \in Requests |->
                                IF r \in meeting THEN Stamp(after(r), p[r])
                                ELSE IF r \in batch THEN after(r) ELSE req[r]]
                  /\ finished_ids' = {r \in batch : AtEnd(after(r), r \in eos)}
        /\ phase' = "route"
        /\ UNCHANGED <<queue, active, cache, submitted, attempts, terminated_ids, total>>

\* A tick with an empty batch does nothing.
SkipDecode ==
    /\ phase = "decode" /\ active = <<>>
    /\ phase' = "await"
    /\ UNCHANGED <<queue, active, cache, req, submitted, attempts, finished_ids,
                   terminated_ids, total>>

\* The requests _apply_routing reacts to: those with a verdict it has not seen.
NewlyRouted ==
    {r \in ToSet(active) : GateLoaded /\ req[r].routing_decision # NoDecision /\ ~req[r].routed}

\* _apply_routing
Route ==
    /\ phase = "route"
    /\ req' = [r \in Requests |-> IF r \in NewlyRouted THEN React(req[r]) ELSE req[r]]
    /\ terminated_ids' = {r \in NewlyRouted : Terminates(req[r])}
    /\ phase' = "finish"
    /\ UNCHANGED <<queue, active, cache, submitted, attempts, finished_ids, total>>

\* _finish of a request of the batch, one turn of run_forever's inner loop.
Finish ==
    /\ phase = "finish"
    /\ \E i \in DOMAIN active :
          LET r == active[i]
          IN  /\ r \in finished_ids \cup terminated_ids
              /\ active' = RemoveAt(active, i)
              /\ cache' = Evict(cache, r)
              /\ req' = [req EXCEPT ![r] = Close(req[r])]
              /\ total' = CountFinish(total, req[r])
    /\ UNCHANGED <<queue, submitted, phase, attempts, finished_ids, terminated_ids>>

EndTick ==
    /\ phase = "finish" /\ ToSet(active) \cap (finished_ids \cup terminated_ids) = {}
    /\ phase' = "await"
    /\ finished_ids' = {} /\ terminated_ids' = {}
    /\ UNCHANGED <<queue, active, cache, req, submitted, attempts, total>>

\* stop() and the cancelled task: the loop ends where it sleeps.
Stop ==
    /\ phase = "await"
    /\ phase' = "stopped"
    /\ UNCHANGED <<queue, active, cache, req, submitted, attempts, finished_ids,
                   terminated_ids, total>>

Stopped == phase = "stopped" /\ UNCHANGED vars

-----------------------------------------------------------------------------
Clients == \/ \E m \in MaxTokensChoices, s \in StreamChoices : Submit(m, s)
           \/ \E r \in Impatient : Cancel(r)

TryAdmit == BeginTick \/ FillSlot \/ EndFill \/ Preempt \/ RefillSlot \/ EndAdmission

Tick == TryAdmit \/ Decode \/ SkipDecode \/ Route \/ Finish \/ EndTick

Next == Clients \/ Tick \/ Stop \/ Stopped

Spec == Init /\ [][Next]_vars

-----------------------------------------------------------------------------
(* What a correct scheduler guarantees. *)

Completed == {r \in Requests : req[r].completed}

\* Every submitted request is in exactly one place, and there once: it waits,
\* or it is in the batch, or it has been completed.  _admit_one, _preempt and
\* _finish each move one by separate steps on two containers.
NoRequestLost ==
    /\ IsInjective(queue) /\ IsInjective(active)
    /\ ToSet(queue) \cap ToSet(active) = {}
    /\ ToSet(queue) \cup ToSet(active) = (1..submitted) \ Completed

\* The counters of /health add up at any time: an admission ends in a
\* completion, in a preemption or is still in the batch, and the completions
\* and the probe terminations counted are those on the requests' records.
CountersAgree ==
    /\ total.admitted = total.finished + total.preemptions + Len(active)
    /\ total.finished = Cardinality(Completed)
    /\ total.probe_terminated =
          Cardinality({r \in Completed : req[r].finish_reason = "probe_terminated"})

\* The KV cache has a row for each request of the batch and for no other one:
\* none is left behind by a completion or a preemption, and none is missing
\* when build_batch looks it up.  The batch never exceeds its capacity.
CacheMatchesBatch == cache = ToSet(active) /\ Len(active) <= MaxBatchSize

\* What _try_admit leaves to decode.  Either nobody waits, or the batch is
\* full, and under probe_deprioritize full of normal requests if one waits at
\* the head; or the replacement of the last victim was finished by its first
\* token, and the slot it left stays empty for this tick.
AdmissionDone ==
    phase = "decode" /\ queue # <<>> =>
        \/ /\ Len(active) = MaxBatchSize
           /\ Strategy = "probe_deprioritize" /\ req[Head(queue)].priority = 0
              => \A i \in DOMAIN active : req[active[i]].priority = 0
        \/ /\ Len(active) = MaxBatchSize - 1
           /\ attempts > 0

NeverAdmitted == {r \in ToSet(queue) : req[r].priority = 0}

\* Requests are first admitted in the order of their arrival, whatever is
\* preempted and queued again meanwhile: those never admitted are the newest,
\* and wait in order.
FirstComeFirstAdmitted ==
    /\ \A r \in NeverAdmitted : r..submitted \subseteq NeverAdmitted
    /\ \A i, j \in DOMAIN queue :
          i < j /\ {queue[i], queue[j]} \subseteq NeverAdmitted => queue[i] < queue[j]

\* Recomputation is paid for by new work: each preemption lets in a request
\* that has never run, on top of the batch that was full before the first one.
\* So the preempted run no more often than there are other requests.
PreemptionBudget ==
    total.preemptions > 0 =>
        total.preemptions + MaxBatchSize + Cardinality(NeverAdmitted)
            <= submitted + (IF phase = "readmit" THEN 1 ELSE 0)

\* Between two ticks each request of the batch has a verdict if and only if it
\* has generated as many tokens as the checkpoint, the scheduler has reacted to
\* it, and the reaction is in effect: no request that had to be terminated runs
\* on, and one that had to be deprioritized is.  The converse is not so: a preempted request
\* that is judged convergent in its next run keeps priority 1.
VerdictInEffect ==
    phase = "await" =>
        \A r \in ToSet(active) :
            /\ req[r].routing_decision # NoDecision
                  <=> GateLoaded /\ req[r].n_generated >= Checkpoint
            /\ req[r].routed <=> req[r].routing_decision # NoDecision
            /\ ~Terminates(req[r])
            /\ Deprioritizes(req[r]) => req[r].priority = 1

\* A text the probe cut short has the tokens up to the checkpoint (and at least
\* the two that prefill and the first decode step produce) and not one more,
\* says so as its finish_reason, and had a verdict that called for it.
CutAtCheckpoint ==
    \A r \in Completed :
        /\ req[r].terminated_by_probe <=> req[r].finish_reason = "probe_terminated"
        /\ req[r].terminated_by_probe =>
              /\ Terminates(req[r])
              /\ req[r].n_generated = Max({2, Checkpoint})

CountTo(n) == [i \in 1..n |-> i]

\* A stream is closed when and only when its request is completed, by one
\* end marker, and what precedes the marker is the run that produced the text.
StreamClosedOnce ==
    \A r \in Requests :
        LET s == req[r].token_queue
            text == Append(CountTo(req[r].n_generated), EndOfStream)
        IN  req[r].stream =>
               IF req[r].completed
               THEN IsSuffix(text, s) /\ EndOfStream \notin ToSet(Front(s))
               ELSE EndOfStream \notin ToSet(s)

\* A client that reads its stream to the end has read the text, each token
\* once: "completes exactly once with the tokens it was entitled to,
\* regardless of how much preemption churn happened in between".
StreamIsText ==
    \A r \in Completed :
        req[r].stream =>
            req[r].token_queue = Append(CountTo(req[r].n_generated), EndOfStream)

\* A request ends either by routing or naturally: what _apply_routing returns
\* is "separate from the natural EOS/max_tokens finished_ids".
EndsAreSeparate == finished_ids \cap terminated_ids = {}

\* A completed request stays as it was delivered.
ServedForGood ==
    [][\A r \in Requests : req[r].completed => req'[r] = req[r]]_vars

\* Generated tokens are thrown away only to give a full batch's slot to a
\* waiting normal request, and of a deprioritized request with the least to lose.
LossOnlyUnderContention ==
    [][\A r \in Requests :
          r <= submitted /\ req'[r].n_generated < req[r].n_generated =>
              /\ Len(active) = MaxBatchSize
              /\ NeverAdmitted # {}
              /\ \A q \in ToSet(active) :
                    req[r].priority = 1
                    /\ (req[q].priority = 1 => req[r].n_generated <= req[q].n_generated)]_vars

\* The place of each request, as RequestLifecycle sees it.
StatusOf(r) ==
    IF r > submitted THEN "new"
    ELSE IF req[r].completed THEN "served"
    ELSE IF r \in ToSet(active) THEN "running"
    ELSE IF req[r].priority = 1 THEN "yielded" ELSE "waiting"

Lifecycle == INSTANCE RequestLifecycle
    WITH Capacity <- MaxBatchSize,
         MayYield <- (Strategy = "probe_deprioritize"),
         status <- [r \in Requests |-> StatusOf(r)]

\* The batcher implements the abstract life of its requests.
ImplementsLifecycle == Lifecycle!Spec

\* The deque as the batcher and the clients use it: what has been popped and
\* not queued again, completed or not, is held.
Discipline == INSTANCE QueueDiscipline
    WITH pending <- queue,
         held <- (1..submitted) \ ToSet(queue),
         priority <- [r \in Requests |-> req[r].priority],
         submitted <- 1..submitted

\* The batcher and its clients use the deque legally: a request's priority is
\* changed only while it is out of the queue, and only from 0 to 1, so that the
\* search of push_front_priority_aware never meets a waiter that changed under it.
UsesQueueLegally == Discipline!Spec

\* In the batcher's hands too, a request that joins the queue joins it once and
\* the others keep their places.
OthersKeepTheirPlaces == Discipline!OthersKeepTheirPlaces

\* A preempted request waits behind everyone.
DeprioritizedJoinsTheTail == Discipline!DeprioritizedJoinsTheTail
=============================================================================
