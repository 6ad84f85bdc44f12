------------------------ MODULE ContinuousBatcherProofs ------------------------
(***************************************************************************)
(* The batcher for any number of requests, any batch size, any strategy    *)
(* and any probe.  First safety: types, conservation, the cache.  Then     *)
(* what a request's record says: a verdict comes with the gate's token, is *)
(* acted on at once and stays in effect; a text is cut exactly there; the  *)
(* counters record it all; the stream is closed once, and what has been    *)
(* delivered stays.  At the end, what the comparisons of the benchmark rely *)
(* on: where the texts of a run end, and in which ticks.                   *)
(***************************************************************************)
EXTENDS ContinuousBatcher, SequenceLemmas

-----------------------------------------------------------------------------
(* What each step on one request keeps: its type, and the fields that say  *)
(* where it belongs.                                                       *)

LEMMA ClassifyType ==
    ASSUME NEW p \in Probability
    PROVE  Classify(p) \in Decision
BY DEF Classify, Decision, Label, Confidence, Probability

LEMMA NewRequestType ==
    ASSUME NEW m \in Int, NEW s \in BOOLEAN
    PROVE  NewRequest(m, s) \in Request /\ ~NewRequest(m, s).completed
<1>1. <<>> \in Seq(Nat)  BY EmptySeq
<1>2. QED  BY <1>1 DEF NewRequest, Request, Decision, NoDecision, Probability

LEMMA GenerateType ==
    ASSUME NEW r \in Request, NEW eos \in BOOLEAN
    PROVE  /\ Generate(r, eos) \in Request
           /\ Generate(r, eos).completed = r.completed
<1> DEFINE n == r.n_generated + 1
           tq == IF r.stream THEN Append(r.token_queue, n) ELSE r.token_queue
           fr == IF eos THEN "eos"
                 ELSE IF n >= TokenLimit(r) THEN "max_tokens" ELSE r.finish_reason
<1>1. n \in Nat /\ tq \in Seq(Nat)  BY AppendProperties DEF Request
<1>2. fr \in {"none", "eos", "max_tokens", "probe_terminated"}  BY DEF Request
<1>3. Generate(r, eos) = [r EXCEPT !.n_generated = n, !.token_queue = tq, !.finish_reason = fr]
  BY DEF Generate
<1> HIDE DEF n, tq, fr
<1>4. QED  BY <1>1, <1>2, <1>3 DEF Request

LEMMA StampType ==
    ASSUME NEW r \in Request, NEW p \in Probability
    PROVE  Stamp(r, p) \in Request /\ Stamp(r, p).completed = r.completed
BY ClassifyType DEF Stamp, Request

LEMMA ReactType ==
    ASSUME NEW r \in Request
    PROVE  React(r) \in Request /\ React(r).completed = r.completed
BY DEF React, Request

LEMMA CloseType ==
    ASSUME NEW r \in Request
    PROVE  Close(r) \in Request /\ Close(r).completed
<1> DEFINE tq == IF r.stream THEN Append(r.token_queue, EndOfStream) ELSE r.token_queue
           res == IF r.result = "pending" THEN "set" ELSE r.result
<1>1. tq \in Seq(Nat)  BY AppendProperties DEF Request, EndOfStream
<1>2. res \in {"pending", "set", "cancelled"}  BY DEF Request
<1>3. Close(r) = [r EXCEPT !.completed = TRUE, !.token_queue = tq, !.result = res]
  BY DEF Close
<1> HIDE DEF tq, res
<1>4. QED  BY <1>1, <1>2, <1>3 DEF Request

LEMMA ResetType ==
    ASSUME NEW r \in Request
    PROVE  Reset(r) \in Request /\ Reset(r).completed = r.completed
<1>1. NoDecision \in Decision  BY DEF Decision, NoDecision, Probability
<1>2. QED  BY <1>1 DEF Reset, Request

LEMMA CountFinishType ==
    ASSUME NEW t \in Totals, NEW r \in Request
    PROVE  CountFinish(t, r) \in Totals
<1> DEFINE f == t.finished + 1
           p == IF r.terminated_by_probe THEN t.probe_terminated + 1 ELSE t.probe_terminated
<1>1. f \in Nat /\ p \in Nat  BY DEF Totals
<1>2. CountFinish(t, r) = [t EXCEPT !.finished = f, !.probe_terminated = p]
  BY DEF CountFinish
<1> HIDE DEF f, p
<1>3. QED  BY <1>1, <1>2 DEF Totals

-----------------------------------------------------------------------------
(* The inductive invariant.  Beside the three facts to prove it says what  *)
(* _admit_one relies on when it follows a preemption without a check: a    *)
(* request waits, and a slot is free.                                      *)

RefillPossible == phase = "readmit" => queue # <<>> /\ Len(active) < MaxBatchSize

Safety == TypeOK /\ NoRequestLost /\ CacheMatchesBatch /\ RefillPossible

LEMMA InitSafety == Init => Safety
<1> SUFFICES ASSUME Init PROVE Safety  OBVIOUS
<1>1. NewRequest(0, FALSE) \in Request /\ ~NewRequest(0, FALSE).completed
  <2>1. 0 \in Int /\ FALSE \in BOOLEAN  OBVIOUS
  <2>2. QED  BY <2>1, NewRequestType, Zenon
<1>2. <<>> \in Seq(Requests) /\ ToSet(<<>>) = {} /\ IsInjective(<<>>) /\ Len(<<>>) = 0
  BY EmptySeq DEF ToSet, IsInjective
<1>3. TypeOK
  <2>1. req \in [Requests -> Request]  BY <1>1 DEF Init
  <2>2. total \in Totals  BY DEF Init, Totals
  <2>3. 0 \in 0..NRequests  BY BatcherAssumption
  <2>4. QED  BY <1>2, <2>1, <2>2, <2>3 DEF Init, TypeOK
<1>4. NoRequestLost
  BY <1>1, <1>2 DEF Init, NoRequestLost, Completed, Requests
<1>5. CacheMatchesBatch /\ RefillPossible
  BY <1>2, BatcherAssumption DEF Init, CacheMatchesBatch, RefillPossible
<1>6. QED  BY <1>3, <1>4, <1>5 DEF Safety

\* Steps that move no request keep every one where it is.
LEMMA SamePlaces ==
    ASSUME Safety, UNCHANGED <<queue, active, cache, submitted>>,
           req' \in [Requests -> Request],
           \A r \in Requests : req'[r].completed = req[r].completed
    PROVE  NoRequestLost' /\ CacheMatchesBatch'
<1>1. Completed' = Completed  BY DEF Completed
<1>2. NoRequestLost'  BY <1>1 DEF Safety, NoRequestLost
<1>3. CacheMatchesBatch'  BY DEF Safety, CacheMatchesBatch
<1>4. QED  BY <1>2, <1>3

\* _admit_one takes the head of the queue to the batch or to its completion.
LEMMA AdmitOneSafe ==
    ASSUME Safety, queue # <<>>, Len(active) < MaxBatchSize,
           NEW eos \in BOOLEAN, AdmitOne(eos)
    PROVE  /\ queue' \in Seq(Requests) /\ active' \in Seq(Requests)
           /\ cache' \subseteq Requests /\ req' \in [Requests -> Request]
           /\ total' \in Totals
           /\ NoRequestLost' /\ CacheMatchesBatch'
<1> DEFINE r == Head(queue)
           after == Generate(req[r], eos)
           admitted == [total EXCEPT !.admitted = @ + 1]
<1>1. /\ queue \in Seq(Requests) /\ active \in Seq(Requests) /\ cache \subseteq Requests
      /\ req \in [Requests -> Request] /\ total \in Totals
      /\ IsInjective(queue) /\ IsInjective(active)
      /\ ToSet(queue) \cap ToSet(active) = {}
      /\ ToSet(queue) \cup ToSet(active) = (1..submitted) \ Completed
      /\ cache = ToSet(active) /\ Len(active) <= MaxBatchSize
  BY DEF Safety, TypeOK, NoRequestLost, CacheMatchesBatch
<1>2. /\ r \in Requests /\ r \in ToSet(queue)
      /\ Tail(queue) \in Seq(Requests) /\ IsInjective(Tail(queue))
      /\ ToSet(Tail(queue)) = ToSet(queue) \ {r}
  BY <1>1, TailElements
<1>3. req[r] \in Request  BY <1>1, <1>2
<1>4. after \in Request /\ after.completed = req[r].completed  BY <1>3, GenerateType
<1>5. admitted \in Totals  BY <1>1 DEF Totals
<1>6. r \notin ToSet(active) /\ r \notin Completed  BY <1>1, <1>2
<1>7. queue' = Tail(queue) /\ submitted' = submitted  BY DEF AdmitOne
<1>8. CASE /\ req' = [req EXCEPT ![r] = Close(after)]
           /\ total' = CountFinish(admitted, after)
           /\ cache' = Evict(cache, r)
           /\ UNCHANGED active
  <2>1. Close(after) \in Request /\ Close(after).completed  BY <1>4, CloseType
  <2>2. req' \in [Requests -> Request]  BY <1>1, <1>8, <2>1
  <2>3. total' \in Totals  BY <1>4, <1>5, <1>8, CountFinishType
  <2>4. Completed' = Completed \cup {r}
    BY <1>1, <1>2, <1>8, <2>1 DEF Completed
  <2>5. NoRequestLost'  BY <1>1, <1>2, <1>6, <1>7, <1>8, <2>4 DEF NoRequestLost
  <2>6. cache' = ToSet(active')  BY <1>1, <1>6, <1>8 DEF Evict
  <2>7. QED  BY <1>1, <1>2, <1>7, <1>8, <2>2, <2>3, <2>5, <2>6 DEF CacheMatchesBatch
<1>9. CASE /\ req' = [req EXCEPT ![r] = after]
           /\ total' = admitted
           /\ cache' = cache \cup {r}
           /\ active' = Append(active, r)
  <2>1. req' \in [Requests -> Request]  BY <1>1, <1>4, <1>9
  <2>2. Completed' = Completed  BY <1>1, <1>2, <1>4, <1>9 DEF Completed
  <2>3. /\ active' \in Seq(Requests) /\ Len(active') = Len(active) + 1
        /\ ToSet(active') = ToSet(active) \cup {r} /\ IsInjective(active')
    BY <1>1, <1>2, <1>6, <1>9, AppendProperties, AppendElements
  <2>4. NoRequestLost'
    BY <1>1, <1>2, <1>6, <1>7, <2>2, <2>3 DEF NoRequestLost
  <2>5. Len(active') <= MaxBatchSize
    BY <1>1, <2>3, LenProperties, BatcherAssumption
  <2>6. QED
    BY <1>1, <1>2, <1>5, <1>7, <1>9, <2>1, <2>3, <2>4, <2>5 DEF CacheMatchesBatch
<1>10. QED  BY <1>8, <1>9 DEF AdmitOne

\* _finish takes a request from the batch to its completion.
LEMMA FinishSafe ==
    ASSUME Safety, Finish
    PROVE  Safety'
<1>1. PICK i \in DOMAIN active :
         /\ active' = RemoveAt(active, i)
         /\ cache' = Evict(cache, active[i])
         /\ req' = [req EXCEPT ![active[i]] = Close(req[active[i]])]
         /\ total' = CountFinish(total, req[active[i]])
  BY DEF Finish
<1> DEFINE r == active[i]
<1>2. /\ active \in Seq(Requests) /\ req \in [Requests -> Request] /\ total \in Totals
      /\ IsInjective(active) /\ cache = ToSet(active)
  BY DEF Safety, TypeOK, NoRequestLost, CacheMatchesBatch
<1>3. r \in Requests /\ r \in ToSet(active)
  BY <1>2, LenProperties, ElementOfSeq DEF ToSet
<1>4. /\ active' \in Seq(Requests) /\ Len(active') = Len(active) - 1
      /\ ToSet(active') = ToSet(active) \ {r} /\ IsInjective(active')
  BY <1>1, <1>2, RemoveAtProperties, RemoveAtElements
<1>5. Close(req[r]) \in Request /\ Close(req[r]).completed
  BY <1>2, <1>3, CloseType
<1>6. Completed' = Completed \cup {r}
  BY <1>1, <1>2, <1>3, <1>5 DEF Completed
<1>7. TypeOK'
  <2>1. req' \in [Requests -> Request]  BY <1>1, <1>2, <1>5
  <2>2. total' \in Totals  BY <1>1, <1>2, <1>3, CountFinishType
  <2>3. cache' \subseteq Requests  BY <1>1 DEF Safety, TypeOK, Evict
  <2>4. QED  BY <1>4, <2>1, <2>2, <2>3 DEF Finish, Safety, TypeOK
<1>8. NoRequestLost'
  BY <1>3, <1>4, <1>6 DEF Safety, NoRequestLost, Finish
<1>9. CacheMatchesBatch'
  <2>1. Len(active) \in Nat  BY <1>2, LenProperties
  <2>2. QED  BY <1>1, <1>2, <1>4, <2>1, BatcherAssumption
             DEF Safety, CacheMatchesBatch, Evict
<1>10. RefillPossible'  BY DEF Finish, RefillPossible
<1>11. QED  BY <1>7, <1>8, <1>9, <1>10 DEF Safety

\* _preempt takes a deprioritized request from the batch to the queue's tail,
\* and so leaves a waiting request and a free slot for the admission after it.
LEMMA PreemptSafe ==
    ASSUME Safety, Preempt
    PROVE  Safety'
<1> DEFINE priority == [q \in Requests |-> req[q].priority]
<1>1. PICK i \in VictimSlots :
         /\ active' = RemoveAt(active, i)
         /\ cache' = Evict(cache, active[i])
         /\ req' = [req EXCEPT ![active[i]] = Reset(req[active[i]])]
         /\ queue' = PushFrontPriorityAware(queue, active[i], priority)
  BY DEF Preempt
<1> DEFINE r == active[i]
<1>2. /\ active \in Seq(Requests) /\ queue \in Seq(Requests)
      /\ req \in [Requests -> Request] /\ total \in Totals
      /\ IsInjective(active) /\ IsInjective(queue) /\ cache = ToSet(active)
      /\ ToSet(queue) \cap ToSet(active) = {}
      /\ ToSet(queue) \cup ToSet(active) = (1..submitted) \ Completed
  BY DEF Safety, TypeOK, NoRequestLost, CacheMatchesBatch
<1>3. i \in DOMAIN active /\ req[r].priority = 1  BY DEF VictimSlots
<1>4. r \in Requests /\ r \in ToSet(active)
  BY <1>2, <1>3, LenProperties, ElementOfSeq DEF ToSet
<1>5. /\ active' \in Seq(Requests) /\ Len(active') = Len(active) - 1
      /\ ToSet(active') = ToSet(active) \ {r} /\ IsInjective(active')
  BY <1>1, <1>2, <1>3, RemoveAtProperties, RemoveAtElements
<1>6. queue' = Append(queue, r)
  <2>1. priority \in [Requests -> {0, 1}]  BY <1>2 DEF Request
  <2>2. priority[r] = 1  BY <1>3, <1>4
  <2>3. queue' = PushFrontPriorityAware(queue, r, priority)  BY <1>1
  <2> HIDE DEF priority, r
  <2>4. QED  BY <1>2, <1>4, <2>1, <2>2, <2>3, DeprioritizedIsAppended
<1>7. r \notin ToSet(queue)  BY <1>2, <1>4
<1>8. /\ queue' \in Seq(Requests) /\ queue' # <<>>
      /\ ToSet(queue') = ToSet(queue) \cup {r} /\ IsInjective(queue')
  BY <1>2, <1>4, <1>6, <1>7, AppendProperties, AppendElements
<1>9. Reset(req[r]) \in Request /\ Reset(req[r]).completed = req[r].completed
  BY <1>2, <1>4, ResetType
<1>10. Completed' = Completed  BY <1>1, <1>2, <1>4, <1>9 DEF Completed
<1>11. TypeOK'
  <2>1. req' \in [Requests -> Request]  BY <1>1, <1>2, <1>9
  <2>2. total' \in Totals
    <3> DEFINE n == total.preemptions + 1
    <3>1. n \in Nat  BY <1>2 DEF Totals
    <3>2. total' = [total EXCEPT !.preemptions = n]  BY DEF Preempt
    <3> HIDE DEF n
    <3>3. QED  BY <1>2, <3>1, <3>2 DEF Totals
  <2>3. cache' \subseteq Requests  BY <1>1 DEF Safety, TypeOK, Evict
  <2>4. QED  BY <1>5, <1>8, <2>1, <2>2, <2>3 DEF Preempt, Safety, TypeOK
<1>12. NoRequestLost'
  BY <1>2, <1>4, <1>5, <1>8, <1>10 DEF NoRequestLost, Preempt
<1>13. CacheMatchesBatch' /\ RefillPossible'
  <2>1. Len(active) \in Nat  BY <1>2, LenProperties
  <2>2. Len(active') < MaxBatchSize
    BY <1>5, <2>1, BatcherAssumption DEF Safety, CacheMatchesBatch
  <2>3. QED  BY <1>1, <1>2, <1>5, <1>8, <2>1, <2>2, BatcherAssumption
             DEF CacheMatchesBatch, RefillPossible, Evict
<1>14. QED  BY <1>11, <1>12, <1>13 DEF Safety

LEMMA SubmitSafe ==
    ASSUME Safety, NEW m \in MaxTokensChoices, NEW s \in StreamChoices, Submit(m, s)
    PROVE  Safety'
<1> DEFINE r == submitted + 1
<1>1. /\ queue \in Seq(Requests) /\ req \in [Requests -> Request]
      /\ submitted \in 0..NRequests /\ submitted < NRequests
      /\ IsInjective(queue)
      /\ ToSet(queue) \cup ToSet(active) = (1..submitted) \ Completed
  BY DEF Safety, TypeOK, NoRequestLost, Submit
<1>2. r \in Requests /\ r \notin 1..submitted /\ 1..r = (1..submitted) \cup {r}
  BY <1>1, BatcherAssumption DEF Requests
<1>3. /\ queue' = Append(queue, r) /\ submitted' = r
      /\ req' = [req EXCEPT ![r] = NewRequest(m, s)]
  BY DEF Submit, SubmitTo, NextId
<1>4. NewRequest(m, s) \in Request /\ ~NewRequest(m, s).completed
  BY NewRequestType, BatcherAssumption
<1>5. r \notin ToSet(queue) /\ r \notin ToSet(active)  BY <1>1, <1>2
<1>6. /\ queue' \in Seq(Requests)
      /\ ToSet(queue') = ToSet(queue) \cup {r} /\ IsInjective(queue')
  BY <1>1, <1>2, <1>3, <1>5, AppendProperties, AppendElements
<1>7. Completed' = Completed \ {r}
  BY <1>1, <1>2, <1>3, <1>4 DEF Completed
<1>8. TypeOK'
  <2>1. req' \in [Requests -> Request]  BY <1>1, <1>3, <1>4
  <2>2. submitted' \in 0..NRequests  BY <1>1, <1>3, BatcherAssumption
  <2>3. QED  BY <1>6, <2>1, <2>2 DEF Submit, Safety, TypeOK
<1>9. NoRequestLost'
  <2>1. ToSet(queue') \cup ToSet(active) = (1..r) \ (Completed \ {r})
    BY <1>1, <1>2, <1>6
  <2>2. ToSet(queue') \cap ToSet(active) = {}
    BY <1>5, <1>6 DEF Safety, NoRequestLost
  <2>3. active' = active  BY DEF Submit
  <2>4. QED  BY <1>3, <1>6, <1>7, <2>1, <2>2, <2>3 DEF Safety, NoRequestLost
<1>10. CacheMatchesBatch' /\ RefillPossible'
  BY DEF Submit, Safety, CacheMatchesBatch, RefillPossible
<1>11. QED  BY <1>8, <1>9, <1>10 DEF Safety

\* run_decode_step changes the requests of the batch, and moves none.
LEMMA DecodeSafe ==
    ASSUME Safety, Decode
    PROVE  Safety'
<1> DEFINE batch == ToSet(active)
           meeting == {r \in batch : MeetsGate(req[r])}
<1>1. PICK eos \in SUBSET batch, p \in [meeting -> Probabilities] :
         LET after(r) == Generate(req[r], r \in eos)
         IN  /\ req' = [r \in Requests |->
                            IF r \in meeting THEN Stamp(after(r), p[r])
                            ELSE IF r \in batch THEN after(r) ELSE req[r]]
             /\ finished_ids' = {r \in batch : AtEnd(after(r), r \in eos)}
  BY DEF Decode
<1>2. /\ active \in Seq(Requests) /\ req \in [Requests -> Request]
      /\ cache = batch /\ cache \subseteq Requests
  BY DEF Safety, TypeOK, CacheMatchesBatch
<1> DEFINE after(r) == Generate(req[r], r \in eos)
           next(r) == IF r \in meeting THEN Stamp(after(r), p[r])
                      ELSE IF r \in batch THEN after(r) ELSE req[r]
<1>3. ASSUME NEW r \in Requests
      PROVE  next(r) \in Request /\ next(r).completed = req[r].completed
  <2>1. req[r] \in Request /\ (r \in eos) \in BOOLEAN  BY <1>2
  <2>2. after(r) \in Request /\ after(r).completed = req[r].completed
    BY <2>1, GenerateType
  <2> HIDE DEF after
  <2>3. CASE r \in meeting
    <3>1. p[r] \in Probability  BY <2>3, BatcherAssumption
    <3>2. Stamp(after(r), p[r]) \in Request
          /\ Stamp(after(r), p[r]).completed = after(r).completed
      BY <2>2, <3>1, StampType
    <3>3. QED  BY <2>2, <2>3, <3>2
  <2>4. CASE r \notin meeting  BY <2>1, <2>2, <2>4
  <2>5. QED  BY <2>3, <2>4
<1>4. req' = [r \in Requests |-> next(r)]  BY <1>1
<1> HIDE DEF next
<1>5. req' \in [Requests -> Request]
      /\ \A r \in Requests : req'[r].completed = req[r].completed
  BY <1>3, <1>4
<1>6. UNCHANGED <<queue, active, cache, submitted>>  BY DEF Decode
<1>7. NoRequestLost' /\ CacheMatchesBatch'  BY <1>5, <1>6, SamePlaces
<1>8. finished_ids' \subseteq Requests  BY <1>1, <1>2
<1>9. TypeOK'  BY <1>5, <1>8 DEF Safety, TypeOK, Decode
<1>10. RefillPossible'  BY DEF Decode, RefillPossible
<1>11. QED  BY <1>7, <1>9, <1>10 DEF Safety

\* _apply_routing changes the requests it reacts to, and moves none.
LEMMA RouteSafe ==
    ASSUME Safety, Route
    PROVE  Safety'
<1>1. req \in [Requests -> Request] /\ active \in Seq(Requests)
      /\ ToSet(active) \subseteq Requests
  BY DEF Safety, TypeOK, CacheMatchesBatch
<1>2. req' = [r \in Requests |-> IF r \in NewlyRouted THEN React(req[r]) ELSE req[r]]
  BY DEF Route
<1>3. req' \in [Requests -> Request]
      /\ \A r \in Requests : req'[r].completed = req[r].completed
  BY <1>1, <1>2, ReactType
<1>4. UNCHANGED <<queue, active, cache, submitted>>  BY DEF Route
<1>5. NoRequestLost' /\ CacheMatchesBatch'  BY <1>3, <1>4, SamePlaces
<1>6. terminated_ids' \subseteq Requests  BY <1>1 DEF Route, NewlyRouted
<1>7. TypeOK'  BY <1>3, <1>6 DEF Safety, TypeOK, Route
<1>8. RefillPossible'  BY DEF Route, RefillPossible
<1>9. QED  BY <1>5, <1>7, <1>8 DEF Safety

\* Every step keeps the invariant.
LEMMA NextSafety == Safety /\ [Next]_vars => Safety'
<1> SUFFICES ASSUME Safety, [Next]_vars PROVE Safety'  OBVIOUS
<1>1. ASSUME NEW m \in MaxTokensChoices, NEW s \in StreamChoices, Submit(m, s)
      PROVE  Safety'
  BY <1>1, SubmitSafe
<1>2. ASSUME NEW r \in Impatient, Cancel(r)
      PROVE  Safety'
  <2>1. req \in [Requests -> Request] /\ r \in Requests
    BY BatcherAssumption DEF Safety, TypeOK
  <2>2. req' = [req EXCEPT ![r] = [req[r] EXCEPT !.result = "cancelled"]]
    BY <1>2 DEF Cancel
  <2>3. [req[r] EXCEPT !.result = "cancelled"] \in Request
        /\ [req[r] EXCEPT !.result = "cancelled"].completed = req[r].completed
    <3>1. req[r] \in Request  BY <2>1
    <3>2. QED  BY <3>1 DEF Request
  <2>4. req' \in [Requests -> Request]
        /\ \A q \in Requests : req'[q].completed = req[q].completed
    BY <2>1, <2>2, <2>3
  <2>5. UNCHANGED <<queue, active, cache, submitted>>  BY <1>2 DEF Cancel
  <2>6. NoRequestLost' /\ CacheMatchesBatch'  BY <2>4, <2>5, SamePlaces
  <2>7. TypeOK' /\ RefillPossible'
    BY <1>2, <2>4 DEF Cancel, Safety, TypeOK, RefillPossible
  <2>8. QED  BY <2>6, <2>7 DEF Safety
<1>3. CASE FillSlot
  <2>1. PICK eos \in BOOLEAN : AdmitOne(eos)  BY <1>3 DEF FillSlot
  <2>2. queue # <<>> /\ Len(active) < MaxBatchSize
    BY <1>3 DEF FillSlot, MayAdmit, HasFreeSlot
  <2>3. /\ queue' \in Seq(Requests) /\ active' \in Seq(Requests)
        /\ cache' \subseteq Requests /\ req' \in [Requests -> Request]
        /\ total' \in Totals /\ NoRequestLost' /\ CacheMatchesBatch'
    BY <2>1, <2>2, AdmitOneSafe
  <2>4. TypeOK'  BY <1>3, <2>1, <2>3 DEF FillSlot, AdmitOne, Safety, TypeOK
  <2>5. RefillPossible'  BY <1>3 DEF FillSlot, RefillPossible
  <2>6. QED  BY <2>3, <2>4, <2>5 DEF Safety
<1>4. CASE RefillSlot
  <2>1. PICK eos \in BOOLEAN : AdmitOne(eos)  BY <1>4 DEF RefillSlot
  <2>2. queue # <<>> /\ Len(active) < MaxBatchSize
    BY <1>4 DEF RefillSlot, Safety, RefillPossible
  <2>3. /\ queue' \in Seq(Requests) /\ active' \in Seq(Requests)
        /\ cache' \subseteq Requests /\ req' \in [Requests -> Request]
        /\ total' \in Totals /\ NoRequestLost' /\ CacheMatchesBatch'
    BY <2>1, <2>2, AdmitOneSafe
  <2>4. TypeOK'  BY <1>4, <2>1, <2>3 DEF RefillSlot, AdmitOne, Safety, TypeOK
  <2>5. RefillPossible'  BY <1>4 DEF RefillSlot, RefillPossible
  <2>6. QED  BY <2>3, <2>4, <2>5 DEF Safety
<1>5. CASE Preempt  BY <1>5, PreemptSafe
<1>6. CASE Decode  BY <1>6, DecodeSafe
<1>7. CASE Route  BY <1>7, RouteSafe
<1>8. CASE Finish  BY <1>8, FinishSafe
<1>9. CASE BeginTick \/ EndFill \/ EndAdmission \/ SkipDecode \/ EndTick \/ Stop
  <2>1. UNCHANGED <<queue, active, cache, req, submitted, total>>
    BY <1>9 DEF BeginTick, EndFill, EndAdmission, SkipDecode, EndTick, Stop
  <2>2. NoRequestLost' /\ CacheMatchesBatch'  BY <2>1, SamePlaces DEF Safety, TypeOK
  <2>3. TypeOK'
    BY <1>9, <2>1 DEF BeginTick, EndFill, EndAdmission, SkipDecode, EndTick, Stop,
                      Safety, TypeOK
  <2>4. RefillPossible'
    BY <1>9 DEF BeginTick, EndFill, EndAdmission, SkipDecode, EndTick, Stop, RefillPossible
  <2>5. QED  BY <2>2, <2>3, <2>4 DEF Safety
<1>10. CASE UNCHANGED vars
  <2>1. UNCHANGED <<queue, active, cache, req, submitted>>  BY <1>10 DEF vars
  <2>2. NoRequestLost' /\ CacheMatchesBatch'  BY <2>1, SamePlaces DEF Safety, TypeOK
  <2>3. TypeOK' /\ RefillPossible'  BY <1>10 DEF vars, Safety, TypeOK, RefillPossible
  <2>4. QED  BY <2>2, <2>3 DEF Safety
<1>11. QED
  BY <1>1, <1>2, <1>3, <1>4, <1>5, <1>6, <1>7, <1>8, <1>9, <1>10
  DEF Next, Clients, Tick, TryAdmit, Stopped

THEOREM SafetyHolds == Spec => []Safety
<1>1. QED  BY InitSafety, NextSafety, PTL DEF Spec

-----------------------------------------------------------------------------
(* The results. *)

\* Type correctness, for every value of the constants.
THEOREM TypeCorrect == Spec => []TypeOK
<1>1. Safety => TypeOK  BY DEF Safety
<1>2. QED  BY <1>1, SafetyHolds, PTL

\* Conservation: every submitted request waits, runs or is completed, and is
\* in one of these places once, however many preemptions there are.
THEOREM NothingIsLost == Spec => []NoRequestLost
<1>1. Safety => NoRequestLost  BY DEF Safety
<1>2. QED  BY <1>1, SafetyHolds, PTL

\* The KV cache holds exactly the batch, and the batch never overflows.
THEOREM CacheIsBatch == Spec => []CacheMatchesBatch
<1>1. Safety => CacheMatchesBatch  BY DEF Safety
<1>2. QED  BY <1>1, SafetyHolds, PTL

-----------------------------------------------------------------------------
(* Verdicts.                                                               *)

\* The token that takes a request to the gate: prefill judges nothing, so never
\* the first.
GateToken == Max({2, Checkpoint})

LEMMA GateTokenIs ==
    /\ GateToken \in Nat /\ GateToken >= 2 /\ GateToken >= Checkpoint
    /\ GateToken = 2 \/ GateToken = Checkpoint
<1>1. {2, Checkpoint} \in SUBSET (0..Checkpoint + 2) /\ Checkpoint + 2 \in Nat
  BY GateAssumption
<1>2. QED  BY <1>1, MaxOfNaturals, GateAssumption DEF GateToken

-----------------------------------------------------------------------------
(* The fields a verdict concerns, after each step on one request.           *)

LEMMA GenerateFields ==
    ASSUME NEW x \in Request, NEW eos \in BOOLEAN
    PROVE  LET y == Generate(x, eos)
           IN  /\ y \in Request /\ y.completed = x.completed
               /\ y.n_generated = x.n_generated + 1
               /\ y.routing_decision = x.routing_decision /\ y.routed = x.routed
               /\ y.priority = x.priority
               /\ y.terminated_by_probe = x.terminated_by_probe
               /\ y.finish_reason = "probe_terminated" => x.finish_reason = "probe_terminated"
<1> DEFINE y == Generate(x, eos)
<1>1. y \in Request /\ y.completed = x.completed  BY GenerateType
<1>2. /\ y.n_generated = x.n_generated + 1
      /\ y.routing_decision = x.routing_decision /\ y.routed = x.routed
      /\ y.priority = x.priority
      /\ y.terminated_by_probe = x.terminated_by_probe
  BY DEF Generate, Request
<1>3. y.finish_reason = "probe_terminated" => x.finish_reason = "probe_terminated"
  BY DEF Generate, Request
<1>4. QED  BY <1>1, <1>2, <1>3

LEMMA StampFields ==
    ASSUME NEW x \in Request, NEW p \in Probability
    PROVE  LET y == Stamp(x, p)
           IN  /\ y \in Request /\ y.completed = x.completed
               /\ y.n_generated = x.n_generated
               /\ y.routing_decision # NoDecision /\ y.routed = x.routed
               /\ y.priority = x.priority
               /\ y.terminated_by_probe = x.terminated_by_probe
               /\ y.finish_reason = x.finish_reason
<1>1. Classify(p) # NoDecision  BY DEF Classify, NoDecision, Label
<1>2. QED  BY <1>1, StampType DEF Stamp, Request

LEMMA ReactFields ==
    ASSUME NEW x \in Request
    PROVE  LET y == React(x)
           IN  /\ y \in Request /\ y.completed = x.completed
               /\ y.n_generated = x.n_generated
               /\ y.routing_decision = x.routing_decision /\ y.routed
               /\ y.priority = IF Deprioritizes(x) THEN 1 ELSE x.priority
               /\ y.terminated_by_probe = IF Terminates(x) THEN TRUE ELSE x.terminated_by_probe
               /\ y.finish_reason =
                     IF Terminates(x) THEN "probe_terminated" ELSE x.finish_reason
<1> DEFINE y == React(x)
<1>1. y \in Request /\ y.completed = x.completed  BY ReactType
<1>2. /\ y.n_generated = x.n_generated /\ y.routing_decision = x.routing_decision
      /\ y.routed
  BY DEF React, Request
<1>3. /\ y.priority = IF Deprioritizes(x) THEN 1 ELSE x.priority
      /\ y.terminated_by_probe = IF Terminates(x) THEN TRUE ELSE x.terminated_by_probe
      /\ y.finish_reason = IF Terminates(x) THEN "probe_terminated" ELSE x.finish_reason
  BY DEF React, Request
<1>4. QED  BY <1>1, <1>2, <1>3

LEMMA CloseFields ==
    ASSUME NEW x \in Request
    PROVE  LET y == Close(x)
           IN  /\ y \in Request /\ y.completed
               /\ y.n_generated = x.n_generated
               /\ y.routing_decision = x.routing_decision /\ y.routed = x.routed
               /\ y.priority = x.priority
               /\ y.terminated_by_probe = x.terminated_by_probe
               /\ y.finish_reason = x.finish_reason
<1>1. Close(x) \in Request /\ Close(x).completed  BY CloseType
<1>2. QED  BY <1>1 DEF Close, Request

LEMMA ResetFields ==
    ASSUME NEW x \in Request
    PROVE  LET y == Reset(x)
           IN  /\ y \in Request /\ y.completed = x.completed
               /\ y.n_generated = 0 /\ y.routing_decision = NoDecision /\ ~y.routed
               /\ y.priority = x.priority
               /\ y.terminated_by_probe = x.terminated_by_probe
               /\ y.finish_reason = x.finish_reason
BY ResetType DEF Reset, Request

-----------------------------------------------------------------------------
(* The invariant, by the place of a request.                                 *)

Decided(x) == x.routing_decision # NoDecision

\* The record and the reason on it agree.
SaysSo(x) == x.terminated_by_probe <=> x.finish_reason = "probe_terminated"

\* Waiting: no progress and no verdict.
Fresh(x) ==
    /\ x.n_generated = 0 /\ ~Decided(x) /\ ~x.routed
    /\ ~x.terminated_by_probe /\ SaysSo(x)

\* In the batch: a verdict comes with the gate's token, and is seen by
\* _apply_routing before anything else happens; one that asks for the end has
\* it before the tick is over.  The tick is at ph; ended says whether
\* _apply_routing has returned the request.
Judged(x, ph, ended) ==
    /\ x.n_generated >= 1
    /\ ph \in {"route", "finish", "await"} => x.n_generated >= 2
    /\ Decided(x) <=> GateLoaded /\ x.n_generated >= GateToken
    /\ x.routed => Decided(x)
    /\ Decided(x) /\ ~x.routed => ph = "route" /\ x.n_generated = GateToken
    /\ x.routed /\ Deprioritizes(x) => x.priority = 1
    /\ x.routed /\ Terminates(x) => ph = "finish" /\ ended
    /\ SaysSo(x)
    /\ x.terminated_by_probe => x.routed /\ Terminates(x) /\ x.n_generated = GateToken

\* Completed: cut where and why the record says.
CutRight(x) ==
    /\ SaysSo(x)
    /\ x.terminated_by_probe => Terminates(x) /\ x.n_generated = GateToken

VerdictInv ==
    /\ \A r \in ToSet(queue) : Fresh(req[r])
    /\ \A r \in ToSet(active) : Judged(req[r], phase, r \in terminated_ids)
    /\ \A r \in Completed : CutRight(req[r])

\* Where the requests are, in the words of Safety.
LEMMA Places ==
    ASSUME Safety
    PROVE  /\ queue \in Seq(Requests) /\ active \in Seq(Requests)
           /\ IsInjective(queue) /\ IsInjective(active)
           /\ req \in [Requests -> Request] /\ submitted \in Nat
           /\ total \in Totals
           /\ ToSet(queue) \subseteq Requests /\ ToSet(active) \subseteq Requests
           /\ ToSet(queue) \cap ToSet(active) = {}
           /\ ToSet(queue) \cup ToSet(active) = (1..submitted) \ Completed
           /\ 1..submitted \subseteq Requests /\ Completed \subseteq Requests
           /\ \A i \in DOMAIN active : active[i] \in ToSet(active)
<1>1. /\ queue \in Seq(Requests) /\ active \in Seq(Requests)
      /\ IsInjective(queue) /\ IsInjective(active)
      /\ req \in [Requests -> Request] /\ submitted \in 0..NRequests
      /\ total \in Totals
      /\ ToSet(queue) \cap ToSet(active) = {}
      /\ ToSet(queue) \cup ToSet(active) = (1..submitted) \ Completed
  BY DEF Safety, TypeOK, NoRequestLost
<1>2. submitted \in Nat /\ 1..submitted \subseteq Requests
  BY <1>1, BatcherAssumption DEF Requests
<1>3. Completed \subseteq Requests  BY DEF Completed
<1>4. \A i \in DOMAIN active : active[i] \in ToSet(active)  BY DEF ToSet
<1>5. QED  BY <1>1, <1>2, <1>3, <1>4

LEMMA InitVerdicts == Init => VerdictInv
<1> SUFFICES ASSUME Init PROVE VerdictInv  OBVIOUS
<1>1. ToSet(<<>>) = {}  BY DEF ToSet
<1>2. Completed = {}  BY DEF Init, Completed, NewRequest
<1>3. QED  BY <1>1, <1>2 DEF Init, VerdictInv

\* A waiting request that is admitted, and one that its first token completes.
LEMMA AdmittedFresh ==
    ASSUME NEW x \in Request, Fresh(x), NEW eos \in BOOLEAN
    PROVE  LET y == Generate(x, eos)
           IN  /\ y \in Request /\ y.completed = x.completed
               /\ y.n_generated = 1 /\ ~Decided(y) /\ ~y.routed
               /\ ~y.terminated_by_probe /\ SaysSo(y)
               /\ CutRight(Close(y)) /\ y.priority = x.priority
<1> DEFINE y == Generate(x, eos)
<1>1. /\ y \in Request /\ y.completed = x.completed
      /\ y.n_generated = x.n_generated + 1
      /\ y.routing_decision = x.routing_decision /\ y.routed = x.routed
      /\ y.priority = x.priority
      /\ y.terminated_by_probe = x.terminated_by_probe
      /\ y.finish_reason = "probe_terminated" => x.finish_reason = "probe_terminated"
  BY GenerateFields
<1> HIDE DEF y
<1>2. y.n_generated = 1 /\ ~Decided(y) /\ ~y.routed /\ ~y.terminated_by_probe /\ SaysSo(y)
  BY <1>1 DEF Fresh, Decided, SaysSo
<1>3. ~Close(y).terminated_by_probe /\ Close(y).finish_reason = y.finish_reason
  BY <1>1, <1>2, CloseFields
<1>4. CutRight(Close(y))  BY <1>2, <1>3 DEF CutRight, SaysSo
<1>5. QED  BY <1>1, <1>2, <1>4 DEF y

LEMMA AdmitOneVerdicts ==
    ASSUME Safety, VerdictInv, queue # <<>>, NEW eos \in BOOLEAN, AdmitOne(eos),
           phase \notin {"route", "finish", "await"},
           phase' \notin {"route", "finish", "await"}
    PROVE  VerdictInv'
<1> DEFINE r == Head(queue)
           y == Generate(req[r], eos)
<1>1. /\ queue \in Seq(Requests) /\ active \in Seq(Requests)
      /\ req \in [Requests -> Request] /\ IsInjective(queue)
      /\ ToSet(queue) \subseteq Requests /\ ToSet(active) \subseteq Requests
      /\ ToSet(queue) \cap ToSet(active) = {}
      /\ ToSet(queue) \cup ToSet(active) = (1..submitted) \ Completed
      /\ Completed \subseteq Requests
  BY Places
<1>2. r \in ToSet(queue) /\ r \in Requests /\ ToSet(Tail(queue)) = ToSet(queue) \ {r}
  BY <1>1, TailElements
<1>3. /\ y \in Request /\ y.completed = req[r].completed
      /\ y.n_generated = 1 /\ ~Decided(y) /\ ~y.routed
      /\ ~y.terminated_by_probe /\ SaysSo(y) /\ CutRight(Close(y))
  BY <1>1, <1>2, AdmittedFresh DEF VerdictInv
<1>4. r \notin ToSet(active) /\ r \notin Completed  BY <1>1, <1>2
<1>5. queue' = Tail(queue) /\ terminated_ids' = terminated_ids  BY DEF AdmitOne
<1>6. \/ req' = [req EXCEPT ![r] = Close(y)] /\ active' = active
      \/ req' = [req EXCEPT ![r] = y] /\ active' = Append(active, r)
  BY DEF AdmitOne
<1> HIDE DEF y, r
<1>7. \A q \in Requests \ {r} : req'[q] = req[q]  BY <1>1, <1>6
<1>8. \A q \in ToSet(queue') : Fresh(req'[q])
  BY <1>1, <1>2, <1>5, <1>7 DEF VerdictInv
<1>9. ASSUME NEW q \in ToSet(active)
      PROVE  Judged(req'[q], phase', q \in terminated_ids')
  <2>1. Judged(req[q], phase, q \in terminated_ids) /\ req'[q] = req[q]
    BY <1>1, <1>4, <1>7 DEF VerdictInv
  <2>2. QED  BY <1>5, <2>1 DEF Judged
<1>10. CASE req' = [req EXCEPT ![r] = Close(y)] /\ active' = active
  <2>1. req'[r] = Close(y)  BY <1>1, <1>2, <1>10
  <2>2. Completed' \subseteq Completed \cup {r}  BY <1>1, <1>7 DEF Completed
  <2>3. \A q \in Completed' : CutRight(req'[q])
    BY <1>1, <1>3, <1>4, <1>7, <2>1, <2>2 DEF VerdictInv
  <2>4. QED  BY <1>8, <1>9, <1>10, <2>3 DEF VerdictInv
<1>11. CASE req' = [req EXCEPT ![r] = y] /\ active' = Append(active, r)
  <2>1. req'[r] = y  BY <1>1, <1>2, <1>11
  <2>2. Completed' = Completed  BY <1>1, <1>2, <1>3, <1>7, <2>1 DEF Completed
  <2>3. ToSet(active') = ToSet(active) \cup {r}  BY <1>1, <1>2, <1>11, AppendElements
  <2>4. \A q \in Completed' : CutRight(req'[q])
    BY <1>1, <1>4, <1>7, <2>2 DEF VerdictInv
  <2>5. Judged(req'[r], phase', r \in terminated_ids')
    BY <1>3, <2>1, GateTokenIs DEF Judged
  <2>6. QED  BY <1>8, <1>9, <2>3, <2>4, <2>5 DEF VerdictInv
<1>12. QED  BY <1>6, <1>10, <1>11

LEMMA SubmitVerdicts ==
    ASSUME Safety, VerdictInv, NEW m \in MaxTokensChoices, NEW s \in StreamChoices, Submit(m, s)
    PROVE  VerdictInv'
<1> DEFINE r == submitted + 1
<1>1. /\ queue \in Seq(Requests) /\ req \in [Requests -> Request] /\ submitted \in Nat
      /\ ToSet(queue) \subseteq Requests /\ ToSet(active) \subseteq Requests
      /\ ToSet(queue) \cup ToSet(active) = (1..submitted) \ Completed
      /\ Completed \subseteq Requests
  BY Places
<1>2. r \in Requests /\ r \notin 1..submitted
  BY <1>1, BatcherAssumption DEF Submit, Requests
<1>3. /\ req' = [req EXCEPT ![r] = NewRequest(m, s)] /\ queue' = Append(queue, r)
      /\ UNCHANGED <<active, phase, terminated_ids>>
  BY DEF Submit, NextId, SubmitTo
<1>4. Fresh(NewRequest(m, s)) /\ ~NewRequest(m, s).completed
  BY DEF Fresh, NewRequest, Decided, SaysSo
<1> HIDE DEF r
<1>5. req'[r] = NewRequest(m, s) /\ \A q \in Requests \ {r} : req'[q] = req[q]
  BY <1>1, <1>2, <1>3
<1>6. Completed' \subseteq Completed /\ r \notin Completed'
  BY <1>1, <1>2, <1>4, <1>5 DEF Completed
<1>7. ToSet(queue') = ToSet(queue) \cup {r}  BY <1>1, <1>2, <1>3, AppendElements
<1>8. r \notin ToSet(queue) /\ r \notin ToSet(active)  BY <1>1, <1>2
<1>9. \A q \in ToSet(queue') : Fresh(req'[q])
  BY <1>1, <1>4, <1>5, <1>7 DEF VerdictInv
<1>10. \A q \in ToSet(active) : Judged(req'[q], phase', q \in terminated_ids')
  BY <1>1, <1>3, <1>5, <1>8 DEF VerdictInv
<1>11. \A q \in Completed' : CutRight(req'[q])
  BY <1>1, <1>5, <1>6 DEF VerdictInv
<1>12. QED  BY <1>3, <1>9, <1>10, <1>11 DEF VerdictInv

LEMMA CancelVerdicts ==
    ASSUME Safety, VerdictInv, NEW r \in Impatient, Cancel(r)
    PROVE  VerdictInv'
<1> DEFINE y == [req[r] EXCEPT !.result = "cancelled"]
<1>1. /\ req \in [Requests -> Request] /\ r \in Requests
      /\ ToSet(queue) \subseteq Requests /\ ToSet(active) \subseteq Requests
      /\ Completed \subseteq Requests
  BY Places, BatcherAssumption
<1>2. /\ req' = [req EXCEPT ![r] = y] /\ UNCHANGED <<queue, active, phase, terminated_ids>>
  BY DEF Cancel
<1>3. /\ y.n_generated = req[r].n_generated /\ y.routing_decision = req[r].routing_decision
      /\ y.routed = req[r].routed /\ y.priority = req[r].priority
      /\ y.terminated_by_probe = req[r].terminated_by_probe
      /\ y.finish_reason = req[r].finish_reason /\ y.completed = req[r].completed
  BY <1>1 DEF Request
<1> HIDE DEF y
<1>4. /\ Fresh(req[r]) => Fresh(y)
      /\ CutRight(req[r]) => CutRight(y)
      /\ \A ph, e : Judged(req[r], ph, e) => Judged(y, ph, e)
  <2>1. Fresh(req[r]) => Fresh(y)  BY <1>3 DEF Fresh, Decided, SaysSo
  <2>2. Terminates(y) = Terminates(req[r]) /\ Deprioritizes(y) = Deprioritizes(req[r])
    BY <1>3 DEF Terminates, Deprioritizes
  <2>3. CutRight(req[r]) => CutRight(y)  BY <1>3, <2>2 DEF CutRight, SaysSo
  <2>4. Decided(y) = Decided(req[r]) /\ SaysSo(y) = SaysSo(req[r])
    BY <1>3 DEF Decided, SaysSo
  <2>5. \A ph, e : Judged(req[r], ph, e) => Judged(y, ph, e)
    BY <1>3, <2>2, <2>4 DEF Judged
  <2>6. QED  BY <2>1, <2>3, <2>5
<1>5. req'[r] = y /\ \A q \in Requests \ {r} : req'[q] = req[q]  BY <1>1, <1>2
<1>6. Completed' = Completed  BY <1>1, <1>3, <1>5 DEF Completed
<1>7. \A q \in ToSet(queue') : Fresh(req'[q])
  <2>1. SUFFICES ASSUME NEW q \in ToSet(queue) PROVE Fresh(req'[q])  BY <1>2
  <2>2. Fresh(req[q])  BY DEF VerdictInv
  <2>3. CASE q = r  BY <1>4, <1>5, <2>2, <2>3
  <2>4. CASE q # r  BY <1>1, <1>5, <2>2, <2>4
  <2>5. QED  BY <2>3, <2>4
<1>8. \A q \in ToSet(active') : Judged(req'[q], phase', q \in terminated_ids')
  <2>1. SUFFICES ASSUME NEW q \in ToSet(active)
                 PROVE  Judged(req'[q], phase, q \in terminated_ids)
    BY <1>2
  <2>2. Judged(req[q], phase, q \in terminated_ids)  BY DEF VerdictInv
  <2>3. CASE q = r  BY <1>4, <1>5, <2>2, <2>3
  <2>4. CASE q # r  BY <1>1, <1>5, <2>2, <2>4
  <2>5. QED  BY <2>3, <2>4
<1>9. \A q \in Completed' : CutRight(req'[q])
  <2>1. SUFFICES ASSUME NEW q \in Completed PROVE CutRight(req'[q])  BY <1>6
  <2>2. CutRight(req[q])  BY DEF VerdictInv
  <2>3. CASE q = r  BY <1>4, <1>5, <2>2, <2>3
  <2>4. CASE q # r  BY <1>1, <1>5, <2>2, <2>4
  <2>5. QED  BY <2>3, <2>4
<1>10. QED  BY <1>7, <1>8, <1>9 DEF VerdictInv

LEMMA PreemptVerdicts ==
    ASSUME Safety, Safety', VerdictInv, Preempt
    PROVE  VerdictInv'
<1>1. PICK i \in VictimSlots :
         /\ active' = RemoveAt(active, i)
         /\ req' = [req EXCEPT ![active[i]] = Reset(req[active[i]])]
         /\ queue' = PushFrontPriorityAware(queue, active[i], [q \in Requests |-> req[q].priority])
  BY DEF Preempt
<1> DEFINE r == active[i]
           y == Reset(req[r])
<1>2. /\ queue \in Seq(Requests) /\ active \in Seq(Requests) /\ IsInjective(active)
      /\ req \in [Requests -> Request]
      /\ ToSet(queue) \subseteq Requests /\ ToSet(active) \subseteq Requests
      /\ ToSet(queue) \cap ToSet(active) = {}
      /\ ToSet(queue) \cup ToSet(active) = (1..submitted) \ Completed
      /\ Completed \subseteq Requests
      /\ \A j \in DOMAIN active : active[j] \in ToSet(active)
  BY Places
<1>3. i \in DOMAIN active /\ r \in ToSet(active) /\ r \in Requests
  BY <1>2 DEF VictimSlots
<1>4. ToSet(active') = ToSet(active) \ {r}  BY <1>1, <1>2, <1>3, RemoveAtElements
<1>5. phase = "preempt" /\ phase' = "readmit" /\ UNCHANGED <<terminated_ids, submitted>>
  BY DEF Preempt
<1>6. /\ y.completed = req[r].completed
      /\ y.n_generated = 0 /\ y.routing_decision = NoDecision /\ ~y.routed
      /\ y.terminated_by_probe = req[r].terminated_by_probe
      /\ y.finish_reason = req[r].finish_reason
  BY <1>2, <1>3, ResetFields
<1>7. Judged(req[r], phase, r \in terminated_ids)  BY <1>3 DEF VerdictInv
<1>8. req' = [req EXCEPT ![r] = y]  BY <1>1
<1> HIDE DEF r, y
<1>9. Fresh(y)  BY <1>5, <1>6, <1>7 DEF Fresh, Decided, SaysSo, Judged
<1>10. req'[r] = y /\ \A q \in Requests \ {r} : req'[q] = req[q]  BY <1>2, <1>3, <1>8
<1>11. Completed' = Completed /\ r \notin Completed
  BY <1>2, <1>3, <1>6, <1>10 DEF Completed
<1>12. ToSet(queue') = ToSet(queue) \cup {r}
  BY <1>2, <1>3, <1>4, <1>5, <1>11 DEF Safety, NoRequestLost
<1>13. \A q \in ToSet(queue') : Fresh(req'[q])
  BY <1>2, <1>9, <1>10, <1>12 DEF VerdictInv
<1>14. ASSUME NEW q \in ToSet(active')
       PROVE  Judged(req'[q], phase', q \in terminated_ids')
  <2>1. Judged(req[q], phase, q \in terminated_ids) /\ req'[q] = req[q]
    BY <1>2, <1>4, <1>10 DEF VerdictInv
  <2>2. QED  BY <1>5, <2>1 DEF Judged
<1>15. \A q \in Completed' : CutRight(req'[q])
  BY <1>2, <1>10, <1>11 DEF VerdictInv
<1>16. QED  BY <1>13, <1>14, <1>15 DEF VerdictInv

\* One request of the batch in run_decode_step, with and without a verdict.
LEMMA DecodedJudged ==
    ASSUME NEW x \in Request, NEW e, Judged(x, "decode", e), NEW eos \in BOOLEAN,
           NEW p \in Probability, NEW e2,
           NEW z, z = IF MeetsGate(x) THEN Stamp(Generate(x, eos), p) ELSE Generate(x, eos)
    PROVE  Judged(z, "route", e2) /\ z.completed = x.completed
<1> DEFINE y == Generate(x, eos)
<1>1. /\ y \in Request /\ y.completed = x.completed
      /\ y.n_generated = x.n_generated + 1
      /\ y.routing_decision = x.routing_decision /\ y.routed = x.routed
      /\ y.priority = x.priority
      /\ y.terminated_by_probe = x.terminated_by_probe
      /\ y.finish_reason = "probe_terminated" => x.finish_reason = "probe_terminated"
  BY GenerateFields
<1> HIDE DEF y
<1>2. x.n_generated \in Nat /\ x.n_generated >= 1 /\ (x.routed <=> Decided(x))
  <2>1. x.n_generated \in Nat  BY DEF Request
  <2>2. x.n_generated >= 1 /\ (x.routed <=> Decided(x))  BY DEF Judged
  <2>3. QED  BY <2>1, <2>2
<1>3. /\ ~(x.routed /\ Terminates(x)) /\ ~x.terminated_by_probe
      /\ x.finish_reason # "probe_terminated"
  BY DEF Judged, SaysSo
<1>4. MeetsGate(x) <=> GateLoaded /\ ~Decided(x) /\ y.n_generated >= Checkpoint
  BY <1>1 DEF MeetsGate, ReadyAt, Decided
<1>5. y.n_generated >= Checkpoint <=> y.n_generated >= GateToken
  BY <1>1, <1>2, GateTokenIs, GateAssumption
<1>6. Decided(x) <=> GateLoaded /\ x.n_generated >= GateToken  BY DEF Judged
<1>7. CASE MeetsGate(x)
  <2>1. /\ z \in Request /\ z.completed = y.completed
        /\ z.n_generated = y.n_generated
        /\ z.routing_decision # NoDecision /\ z.routed = y.routed
        /\ z.priority = y.priority
        /\ z.terminated_by_probe = y.terminated_by_probe
        /\ z.finish_reason = y.finish_reason
    BY <1>1, <1>7, StampFields DEF y
  <2>2. Decided(z) /\ ~z.routed  BY <1>1, <1>2, <1>4, <1>7, <2>1 DEF Decided
  <2>3. /\ z.n_generated = GateToken
        /\ z.n_generated >= 1 /\ z.n_generated >= 2 /\ z.n_generated >= GateToken
    BY <1>1, <1>2, <1>4, <1>5, <1>6, <1>7, <2>1, GateTokenIs
  <2>4. ~z.terminated_by_probe /\ SaysSo(z)  BY <1>1, <1>3, <2>1 DEF SaysSo
  <2>5. GateLoaded  BY <1>4, <1>7
  <2>6. Judged(z, "route", e2)  BY <2>2, <2>3, <2>4, <2>5 DEF Judged
  <2>7. QED  BY <1>1, <2>1, <2>6
<1>8. CASE ~MeetsGate(x)
  <2>1. z = y  BY <1>8 DEF y
  <2>2. Decided(y) = Decided(x) /\ Terminates(y) = Terminates(x)
        /\ Deprioritizes(y) = Deprioritizes(x)
    BY <1>1 DEF Decided, Terminates, Deprioritizes
  <2>3. Decided(y) <=> GateLoaded /\ y.n_generated >= GateToken
    BY <1>1, <1>2, <1>4, <1>5, <1>6, <1>8, <2>2, GateTokenIs
  <2>4. ~y.terminated_by_probe /\ SaysSo(y)  BY <1>1, <1>3 DEF SaysSo
  <2>5. (y.routed <=> Decided(y)) /\ ~(y.routed /\ Terminates(y))
    BY <1>1, <1>2, <1>3, <2>2
  <2>6. y.routed /\ Deprioritizes(y) => y.priority = 1
    BY <1>1, <2>2 DEF Judged
  <2>7. y.n_generated >= 1 /\ y.n_generated >= 2  BY <1>1, <1>2
  <2>8. Judged(y, "route", e2)  BY <2>3, <2>4, <2>5, <2>6, <2>7 DEF Judged
  <2>9. QED  BY <1>1, <2>1, <2>8
<1>9. QED  BY <1>7, <1>8

LEMMA DecodeVerdicts ==
    ASSUME Safety, VerdictInv, Decode
    PROVE  VerdictInv'
<1> DEFINE batch == ToSet(active)
           meeting == {r \in batch : MeetsGate(req[r])}
<1>1. PICK eos \in SUBSET batch, p \in [meeting -> Probabilities] :
         LET after(r) == Generate(req[r], r \in eos)
         IN  /\ req' = [r \in Requests |->
                            IF r \in meeting THEN Stamp(after(r), p[r])
                            ELSE IF r \in batch THEN after(r) ELSE req[r]]
             /\ finished_ids' = {r \in batch : AtEnd(after(r), r \in eos)}
  BY DEF Decode
<1>2. /\ req \in [Requests -> Request]
      /\ ToSet(queue) \subseteq Requests /\ batch \subseteq Requests
      /\ ToSet(queue) \cap batch = {}
      /\ ToSet(queue) \cup batch = (1..submitted) \ Completed
      /\ Completed \subseteq Requests
  BY Places
<1>3. /\ phase = "decode" /\ phase' = "route"
      /\ UNCHANGED <<queue, active, terminated_ids>>
  BY DEF Decode
<1>4. ASSUME NEW r \in batch
      PROVE  Judged(req'[r], "route", r \in terminated_ids)
             /\ req'[r].completed = req[r].completed
  <2>1. req[r] \in Request /\ (r \in eos) \in BOOLEAN /\ r \in Requests  BY <1>2
  <2>2. Judged(req[r], "decode", r \in terminated_ids)  BY <1>3 DEF VerdictInv
  <2>3. PICK q \in Probability : r \in meeting => q = p[r]
    <3>1. 0 \in Probability  BY DEF Probability
    <3>2. r \in meeting => p[r] \in Probability  BY BatcherAssumption
    <3>3. QED  BY <3>1, <3>2
  <2>4. req'[r] = IF MeetsGate(req[r]) THEN Stamp(Generate(req[r], r \in eos), q)
                                      ELSE Generate(req[r], r \in eos)
    BY <1>1, <2>1, <2>3
  <2>5. ASSUME NEW eos_r \in BOOLEAN,
               req'[r] = IF MeetsGate(req[r]) THEN Stamp(Generate(req[r], eos_r), q)
                                             ELSE Generate(req[r], eos_r)
        PROVE  Judged(req'[r], "route", r \in terminated_ids)
               /\ req'[r].completed = req[r].completed
    BY <2>1, <2>2, <2>5, DecodedJudged
  <2>6. QED  BY <2>1, <2>4, <2>5
<1>5. \A q \in Requests \ batch : req'[q] = req[q]  BY <1>1
<1>6. Completed' = Completed
  <2>1. \A q \in Requests : req'[q].completed = req[q].completed  BY <1>4, <1>5
  <2>2. QED  BY <2>1 DEF Completed
<1> HIDE DEF batch, meeting
<1>7. \A q \in ToSet(queue') : Fresh(req'[q])  BY <1>2, <1>3, <1>5 DEF VerdictInv
<1>8. \A q \in ToSet(active') : Judged(req'[q], phase', q \in terminated_ids')
  BY <1>3, <1>4 DEF batch
<1>9. \A q \in Completed' : CutRight(req'[q])  BY <1>2, <1>5, <1>6 DEF VerdictInv
<1>10. QED  BY <1>7, <1>8, <1>9 DEF VerdictInv

\* One request of the batch in _apply_routing.
LEMMA RoutedJudged ==
    ASSUME NEW x \in Request, NEW e, Judged(x, "route", e)
    PROVE  /\ GateLoaded /\ Decided(x) /\ ~x.routed
              => Judged(React(x), "finish", Terminates(x))
           /\ ~(GateLoaded /\ Decided(x) /\ ~x.routed)
              => \A e2 : Judged(x, "finish", e2)
<1> DEFINE y == React(x)
<1>1. /\ y \in Request /\ y.n_generated = x.n_generated
      /\ y.routing_decision = x.routing_decision /\ y.routed
      /\ y.priority = IF Deprioritizes(x) THEN 1 ELSE x.priority
      /\ y.terminated_by_probe = IF Terminates(x) THEN TRUE ELSE x.terminated_by_probe
      /\ y.finish_reason = IF Terminates(x) THEN "probe_terminated" ELSE x.finish_reason
  BY ReactFields
<1> HIDE DEF y
<1>2. /\ Decided(y) <=> Decided(x)
      /\ Terminates(y) <=> Terminates(x)
      /\ Deprioritizes(y) <=> Deprioritizes(x)
  BY <1>1 DEF Decided, Terminates, Deprioritizes
<1>3. /\ x.n_generated >= 1 /\ x.n_generated >= 2
      /\ Decided(x) <=> GateLoaded /\ x.n_generated >= GateToken
      /\ x.routed => Decided(x)
      /\ Decided(x) /\ ~x.routed => x.n_generated = GateToken
      /\ x.routed /\ Deprioritizes(x) => x.priority = 1
      /\ ~(x.routed /\ Terminates(x)) /\ ~x.terminated_by_probe /\ SaysSo(x)
  BY DEF Judged
<1>4. CASE GateLoaded /\ Decided(x) /\ ~x.routed
  <2>1. SaysSo(y)  BY <1>1, <1>3 DEF SaysSo
  <2>2. y.terminated_by_probe => Terminates(y)  BY <1>1, <1>2, <1>3
  <2>3. Deprioritizes(y) => y.priority = 1  BY <1>1, <1>2
  <2>4. Decided(y) /\ y.n_generated = GateToken /\ y.n_generated >= GateToken
        /\ y.n_generated >= 1 /\ y.n_generated >= 2
    BY <1>1, <1>2, <1>3, <1>4
  <2>5. Judged(y, "finish", Terminates(x))
    BY <1>1, <1>2, <1>4, <2>1, <2>2, <2>3, <2>4 DEF Judged
  <2>6. QED  BY <1>4, <2>5 DEF y
<1>5. CASE ~(GateLoaded /\ Decided(x) /\ ~x.routed)
  <2>1. \A e2 : Judged(x, "finish", e2)  BY <1>3, <1>5 DEF Judged
  <2>2. QED  BY <1>5, <2>1
<1>6. QED  BY <1>4, <1>5

LEMMA RouteVerdicts ==
    ASSUME Safety, VerdictInv, Route
    PROVE  VerdictInv'
<1>1. /\ req \in [Requests -> Request]
      /\ ToSet(queue) \subseteq Requests /\ ToSet(active) \subseteq Requests
      /\ ToSet(queue) \cap ToSet(active) = {}
      /\ ToSet(queue) \cup ToSet(active) = (1..submitted) \ Completed
      /\ Completed \subseteq Requests
  BY Places
<1>2. /\ phase = "route" /\ phase' = "finish" /\ UNCHANGED <<queue, active>>
      /\ req' = [r \in Requests |-> IF r \in NewlyRouted THEN React(req[r]) ELSE req[r]]
      /\ terminated_ids' = {r \in NewlyRouted : Terminates(req[r])}
  BY DEF Route
<1>3. \A r : r \in NewlyRouted <=>
         r \in ToSet(active) /\ GateLoaded /\ Decided(req[r]) /\ ~req[r].routed
  BY DEF NewlyRouted, Decided
<1>4. ASSUME NEW q \in ToSet(active)
      PROVE  Judged(req'[q], "finish", q \in terminated_ids')
  <2>1. q \in Requests /\ req[q] \in Request  BY <1>1
  <2>2. Judged(req[q], "route", q \in terminated_ids)  BY <1>2 DEF VerdictInv
  <2>3. CASE q \in NewlyRouted
    <3>1. Judged(React(req[q]), "finish", Terminates(req[q]))
      BY <1>3, <2>1, <2>2, <2>3, RoutedJudged
    <3>2. req'[q] = React(req[q]) /\ (q \in terminated_ids' <=> Terminates(req[q]))
      BY <1>2, <2>1, <2>3
    <3>3. QED  BY <3>1, <3>2 DEF Judged
  <2>4. CASE q \notin NewlyRouted
    <3>1. Judged(req[q], "finish", q \in terminated_ids')
      BY <1>3, <2>1, <2>2, <2>4, RoutedJudged
    <3>2. req'[q] = req[q]  BY <1>2, <2>1, <2>4
    <3>3. QED  BY <3>1, <3>2
  <2>5. QED  BY <2>3, <2>4
<1>5. \A q \in Requests : q \notin ToSet(active) => req'[q] = req[q]  BY <1>2, <1>3
<1>6. Completed' = Completed
  <2>1. \A q \in Requests : req'[q].completed = req[q].completed
    BY <1>1, <1>2, ReactFields
  <2>2. QED  BY <2>1 DEF Completed
<1>7. \A q \in ToSet(queue') : Fresh(req'[q])  BY <1>1, <1>2, <1>5 DEF VerdictInv
<1>8. \A q \in Completed' : CutRight(req'[q])  BY <1>1, <1>5, <1>6 DEF VerdictInv
<1>9. QED  BY <1>2, <1>4, <1>7, <1>8 DEF VerdictInv

LEMMA FinishVerdicts ==
    ASSUME Safety, VerdictInv, Finish
    PROVE  VerdictInv'
<1>1. PICK i \in DOMAIN active :
         /\ active' = RemoveAt(active, i)
         /\ req' = [req EXCEPT ![active[i]] = Close(req[active[i]])]
  BY DEF Finish
<1> DEFINE r == active[i]
           y == Close(req[r])
<1>2. /\ active \in Seq(Requests) /\ IsInjective(active)
      /\ req \in [Requests -> Request]
      /\ ToSet(queue) \subseteq Requests /\ ToSet(active) \subseteq Requests
      /\ ToSet(queue) \cap ToSet(active) = {}
      /\ ToSet(queue) \cup ToSet(active) = (1..submitted) \ Completed
      /\ Completed \subseteq Requests
      /\ \A j \in DOMAIN active : active[j] \in ToSet(active)
  BY Places
<1>3. r \in ToSet(active) /\ r \in Requests  BY <1>2
<1>4. ToSet(active') = ToSet(active) \ {r}  BY <1>1, <1>2, RemoveAtElements
<1>5. UNCHANGED <<queue, phase, terminated_ids>>  BY DEF Finish
<1>6. /\ y.completed /\ y.n_generated = req[r].n_generated
      /\ y.routing_decision = req[r].routing_decision
      /\ y.terminated_by_probe = req[r].terminated_by_probe
      /\ y.finish_reason = req[r].finish_reason
  BY <1>2, <1>3, CloseFields
<1>7. req' = [req EXCEPT ![r] = y]  BY <1>1
<1> HIDE DEF r, y
<1>8. CutRight(y)
  <2>1. Judged(req[r], phase, r \in terminated_ids)  BY <1>3 DEF VerdictInv
  <2>2. Terminates(y) <=> Terminates(req[r])  BY <1>6 DEF Terminates
  <2>3. CutRight(req[r])  BY <2>1 DEF Judged, CutRight
  <2>4. QED  BY <1>6, <2>2, <2>3 DEF CutRight, SaysSo
<1>9. req'[r] = y /\ \A q \in Requests \ {r} : req'[q] = req[q]  BY <1>2, <1>3, <1>7
<1>10. Completed' = Completed \cup {r}  BY <1>2, <1>3, <1>6, <1>9 DEF Completed
<1>11. \A q \in ToSet(queue') : Fresh(req'[q])
  BY <1>2, <1>3, <1>5, <1>9 DEF VerdictInv
<1>12. \A q \in ToSet(active') : Judged(req'[q], phase', q \in terminated_ids')
  BY <1>2, <1>4, <1>5, <1>9 DEF VerdictInv
<1>13. \A q \in Completed' : CutRight(req'[q])
  BY <1>2, <1>3, <1>8, <1>9, <1>10 DEF VerdictInv
<1>14. QED  BY <1>11, <1>12, <1>13 DEF VerdictInv

\* A step of the tick that changes no request: the tick may begin, and end
\* when nothing of the batch is left to finish.
LEMMA JudgedLater ==
    ASSUME NEW x, NEW ph, NEW e, NEW ph2, NEW e2, Judged(x, ph, e),
           ph # "route", ph2 \notin {"route", "finish"},
           ph2 = "await" => ph \in {"finish", "await"},
           ph = "finish" => ~e
    PROVE  Judged(x, ph2, e2)
BY DEF Judged

LEMMA CalmVerdicts ==
    ASSUME Safety, VerdictInv,
           BeginTick \/ EndFill \/ EndAdmission \/ SkipDecode \/ EndTick \/ Stop
    PROVE  VerdictInv'
<1>1. UNCHANGED <<queue, active, req>>
  BY DEF BeginTick, EndFill, EndAdmission, SkipDecode, EndTick, Stop
<1>2. Completed' = Completed  BY <1>1 DEF Completed
<1>3. ASSUME NEW q \in ToSet(active)
      PROVE  Judged(req[q], phase', q \in terminated_ids')
  <2>1. Judged(req[q], phase, q \in terminated_ids)  BY DEF VerdictInv
  <2>2. active # <<>>  BY DEF ToSet
  <2>3. ~SkipDecode  BY <2>2 DEF SkipDecode
  <2>4. /\ phase # "route" /\ phase' \notin {"route", "finish"}
        /\ phase' = "await" => phase \in {"finish", "await"}
        /\ phase = "finish" => q \notin terminated_ids
    BY <2>3 DEF BeginTick, EndFill, EndAdmission, EndTick, Stop
  <2>5. QED  BY <2>1, <2>4, JudgedLater
<1>4. QED  BY <1>1, <1>2, <1>3 DEF VerdictInv

LEMMA NextVerdicts == Safety /\ Safety' /\ VerdictInv /\ [Next]_vars => VerdictInv'
<1> SUFFICES ASSUME Safety, Safety', VerdictInv, [Next]_vars PROVE VerdictInv'  OBVIOUS
<1>1. CASE Clients  BY <1>1, SubmitVerdicts, CancelVerdicts DEF Clients
<1>2. CASE FillSlot
  <2>1. PICK eos \in BOOLEAN : AdmitOne(eos)  BY <1>2 DEF FillSlot
  <2>2. queue # <<>> /\ phase = "admit" /\ phase' = "admit"
    BY <1>2 DEF FillSlot, MayAdmit
  <2>3. QED  BY <2>1, <2>2, AdmitOneVerdicts
<1>3. CASE RefillSlot
  <2>1. PICK eos \in BOOLEAN : AdmitOne(eos)  BY <1>3 DEF RefillSlot
  <2>2. queue # <<>> /\ phase = "readmit" /\ phase' = "preempt"
    BY <1>3 DEF RefillSlot, Safety, RefillPossible
  <2>3. QED  BY <2>1, <2>2, AdmitOneVerdicts
<1>4. CASE Preempt  BY <1>4, PreemptVerdicts
<1>5. CASE Decode  BY <1>5, DecodeVerdicts
<1>6. CASE Route  BY <1>6, RouteVerdicts
<1>7. CASE Finish  BY <1>7, FinishVerdicts
<1>8. CASE BeginTick \/ EndFill \/ EndAdmission \/ SkipDecode \/ EndTick \/ Stop
  BY <1>8, CalmVerdicts
<1>9. CASE UNCHANGED vars
  BY <1>9 DEF vars, VerdictInv, Completed
<1>10. QED
  BY <1>1, <1>2, <1>3, <1>4, <1>5, <1>6, <1>7, <1>8, <1>9
  DEF Next, Tick, TryAdmit, Stopped

THEOREM VerdictsHold == Spec => [](Safety /\ VerdictInv)
<1>1. Safety /\ VerdictInv /\ [Next]_vars => Safety' /\ VerdictInv'
  BY NextSafety, NextVerdicts
<1>2. QED  BY InitSafety, InitVerdicts, <1>1, PTL DEF Spec

\* Between two ticks a request has a verdict exactly from the checkpoint on,
\* and the scheduler's reaction to it is in effect, for any checkpoint,
\* threshold and strategy and any probe.
THEOREM VerdictsInEffect == Spec => []VerdictInEffect
<1>1. Safety /\ VerdictInv => VerdictInEffect
  <2> SUFFICES ASSUME Safety, VerdictInv, phase = "await", NEW r \in ToSet(active)
               PROVE  /\ req[r].routing_decision # NoDecision
                            <=> GateLoaded /\ req[r].n_generated >= Checkpoint
                      /\ req[r].routed <=> req[r].routing_decision # NoDecision
                      /\ ~Terminates(req[r])
                      /\ Deprioritizes(req[r]) => req[r].priority = 1
    BY DEF VerdictInEffect
  <2>1. Judged(req[r], phase, r \in terminated_ids)  BY DEF VerdictInv
  <2>2. /\ req[r].n_generated >= 2
        /\ Decided(req[r]) <=> GateLoaded /\ req[r].n_generated >= GateToken
        /\ req[r].routed <=> Decided(req[r])
        /\ req[r].routed => ~Terminates(req[r])
        /\ req[r].routed /\ Deprioritizes(req[r]) => req[r].priority = 1
    BY <2>1 DEF Judged
  <2>3. req[r].n_generated \in Nat
    <3>1. req[r] \in Request  BY Places
    <3>2. QED  BY <3>1 DEF Request
  <2>4. req[r].n_generated >= Checkpoint <=> req[r].n_generated >= GateToken
    BY <2>2, <2>3, GateTokenIs, GateAssumption
  <2>5. ~Decided(req[r]) => ~Terminates(req[r]) /\ ~Deprioritizes(req[r])
    BY DEF Decided, NoDecision, Terminates, Deprioritizes, IsDivergent
  <2>6. QED  BY <2>2, <2>4, <2>5 DEF Decided
<1>2. QED  BY <1>1, VerdictsHold, PTL

\* A text the probe cut has the checkpoint's tokens, its record and its reason
\* agree, and its verdict called for it.
THEOREM CutsAreRight == Spec => []CutAtCheckpoint
<1>1. VerdictInv => CutAtCheckpoint
  BY DEF VerdictInv, CutAtCheckpoint, CutRight, SaysSo, GateToken
<1>2. QED  BY <1>1, VerdictsHold, PTL

-----------------------------------------------------------------------------
(* The counters.                                                             *)

CutShort == {r \in Completed : req[r].finish_reason = "probe_terminated"}

LEMMA CountedSets ==
    ASSUME Safety
    PROVE  /\ IsFiniteSet(Completed) /\ IsFiniteSet(CutShort)
           /\ Cardinality(Completed) \in Nat /\ Cardinality(CutShort) \in Nat
<1>1. IsFiniteSet(Requests)  BY FS_Interval, BatcherAssumption DEF Requests
<1>2. Completed \subseteq Requests /\ CutShort \subseteq Requests
  BY DEF Completed, CutShort
<1>3. QED  BY <1>1, <1>2, FS_Subset, FS_CardinalityType

\* _finish, on whichever path, counts what it writes on the record.
LEMMA CompletionCounted ==
    ASSUME Safety, CountersAgree,
           NEW r \in Requests, r \notin Completed,
           NEW y \in Request, SaysSo(y),
           NEW t \in Totals,
           t.finished = total.finished, t.probe_terminated = total.probe_terminated,
           req' = [req EXCEPT ![r] = Close(y)], total' = CountFinish(t, y)
    PROVE  /\ total'.admitted = t.admitted /\ total'.preemptions = t.preemptions
           /\ total'.finished = total.finished + 1
           /\ total'.finished = Cardinality(Completed')
           /\ total'.probe_terminated = Cardinality(CutShort')
<1>1. req \in [Requests -> Request]  BY Places
<1>2. /\ Close(y).completed
      /\ Close(y).finish_reason = y.finish_reason
  BY CloseFields
<1>3. req'[r] = Close(y) /\ \A q \in Requests \ {r} : req'[q] = req[q]  BY <1>1
<1>4. Completed' = Completed \cup {r}  BY <1>2, <1>3 DEF Completed
<1>5. /\ y.terminated_by_probe => CutShort' = CutShort \cup {r}
      /\ ~y.terminated_by_probe => CutShort' = CutShort
  <2>1. \A q \in Completed : req'[q] = req[q]  BY <1>3 DEF Completed
  <2>2. req'[r].finish_reason = "probe_terminated" <=> y.terminated_by_probe
    BY <1>2, <1>3 DEF SaysSo
  <2>3. CutShort' = {q \in Completed' : req'[q].finish_reason = "probe_terminated"}
    BY DEF CutShort
  <2>4. QED  BY <1>4, <2>1, <2>2, <2>3 DEF CutShort
<1>6. r \notin CutShort  BY DEF CutShort
<1>7. /\ Cardinality(Completed') = Cardinality(Completed) + 1
      /\ y.terminated_by_probe => Cardinality(CutShort') = Cardinality(CutShort) + 1
      /\ ~y.terminated_by_probe => Cardinality(CutShort') = Cardinality(CutShort)
  BY <1>4, <1>5, <1>6, CountedSets, FS_AddElement
<1>8. /\ total'.admitted = t.admitted /\ total'.preemptions = t.preemptions
      /\ total'.finished = t.finished + 1
      /\ y.terminated_by_probe => total'.probe_terminated = t.probe_terminated + 1
      /\ ~y.terminated_by_probe => total'.probe_terminated = t.probe_terminated
  BY DEF CountFinish, Totals
<1>9. /\ total.finished = Cardinality(Completed)
      /\ total.probe_terminated = Cardinality(CutShort)
  BY DEF CountersAgree, CutShort
<1>10. y.terminated_by_probe \in BOOLEAN  BY DEF Request
<1>11. QED  BY <1>7, <1>8, <1>9, <1>10

\* What a new id relies on: it has not been completed before it is handed out.
Counted == CountersAgree /\ Completed \subseteq 1..submitted

\* A step that completes, admits and preempts nothing.
LEMMA SameCounts ==
    ASSUME Safety, Counted, UNCHANGED <<active, total>>,
           submitted' \in Nat, submitted' >= submitted, Completed' = Completed,
           \A q \in Completed : req'[q] = req[q]
    PROVE  Counted'
<1>1. {q \in Completed' : req'[q].finish_reason = "probe_terminated"} =
      {q \in Completed : req[q].finish_reason = "probe_terminated"}
  OBVIOUS
<1>2. CountersAgree'  BY <1>1 DEF Counted, CountersAgree
<1>3. submitted \in Nat  BY Places
<1>4. QED  BY <1>2, <1>3 DEF Counted

LEMMA AdmitOneCounted ==
    ASSUME Safety, VerdictInv, Counted, queue # <<>>, NEW eos \in BOOLEAN, AdmitOne(eos)
    PROVE  Counted'
<1> DEFINE r == Head(queue)
           y == Generate(req[r], eos)
           t == [total EXCEPT !.admitted = @ + 1]
<1>1. /\ queue \in Seq(Requests) /\ active \in Seq(Requests) /\ IsInjective(queue)
      /\ req \in [Requests -> Request] /\ total \in Totals
      /\ ToSet(queue) \subseteq Requests
      /\ ToSet(queue) \cup ToSet(active) = (1..submitted) \ Completed
  BY Places
<1>2. r \in ToSet(queue) /\ r \in Requests /\ r \notin Completed /\ r \in 1..submitted
  BY <1>1, TailElements
<1>3. y \in Request /\ y.completed = req[r].completed /\ SaysSo(y)
  BY <1>1, <1>2, AdmittedFresh DEF VerdictInv
<1>4. /\ t \in Totals /\ t.admitted = total.admitted + 1
      /\ t.finished = total.finished /\ t.preemptions = total.preemptions
      /\ t.probe_terminated = total.probe_terminated
  BY <1>1 DEF Totals
<1>5. submitted' = submitted  BY DEF AdmitOne
<1>6. \/ /\ req' = [req EXCEPT ![r] = Close(y)] /\ total' = CountFinish(t, y)
         /\ active' = active
      \/ /\ req' = [req EXCEPT ![r] = y] /\ total' = t /\ active' = Append(active, r)
  BY DEF AdmitOne
<1>7. /\ total.admitted = total.finished + total.preemptions + Len(active)
      /\ total.finished = Cardinality(Completed)
      /\ total.probe_terminated = Cardinality(CutShort)
      /\ Completed \subseteq 1..submitted
  BY DEF Counted, CountersAgree, CutShort
<1>8. Len(active) \in Nat /\ total.finished \in Nat /\ total.preemptions \in Nat
  BY <1>1, LenProperties DEF Totals
<1> HIDE DEF r, y, t
<1>9. CASE /\ req' = [req EXCEPT ![r] = Close(y)] /\ total' = CountFinish(t, y)
           /\ active' = active
  <2>1. /\ total'.admitted = t.admitted /\ total'.preemptions = t.preemptions
        /\ total'.finished = total.finished + 1
        /\ total'.finished = Cardinality(Completed')
        /\ total'.probe_terminated = Cardinality(CutShort')
    BY <1>2, <1>3, <1>4, <1>9, CompletionCounted DEF Counted
  <2>2. total'.admitted = total'.finished + total'.preemptions + Len(active')
    BY <1>4, <1>7, <1>8, <1>9, <2>1
  <2>3. Completed' \subseteq Completed \cup {r}  BY <1>1, <1>9 DEF Completed
  <2>4. Completed' \subseteq 1..submitted'  BY <1>2, <1>5, <1>7, <2>3
  <2>5. QED  BY <2>1, <2>2, <2>4 DEF Counted, CountersAgree, CutShort
<1>10. CASE req' = [req EXCEPT ![r] = y] /\ total' = t /\ active' = Append(active, r)
  <2>1. req'[r] = y /\ \A q \in Requests \ {r} : req'[q] = req[q]  BY <1>1, <1>2, <1>10
  <2>2. Completed' = Completed  BY <1>1, <1>2, <1>3, <2>1 DEF Completed
  <2>3. CutShort' = CutShort
    <3>1. CutShort' = {q \in Completed' : req'[q].finish_reason = "probe_terminated"}
      BY DEF CutShort
    <3>2. \A q \in Completed : req'[q] = req[q]  BY <1>2, <2>1 DEF Completed
    <3>3. QED  BY <2>2, <3>1, <3>2 DEF CutShort
  <2>4. Len(active') = Len(active) + 1
    <3>1. active' = Append(active, r)  BY <1>10
    <3>2. QED  BY <1>1, <1>2, <3>1, AppendProperties
  <2>5. /\ total'.admitted = total.admitted + 1
        /\ total'.finished = total.finished /\ total'.preemptions = total.preemptions
        /\ total'.probe_terminated = total.probe_terminated
    <3>1. total' = t  BY <1>10
    <3>2. QED  BY <1>4, <3>1
  <2>6. total'.admitted = total'.finished + total'.preemptions + Len(active')
    BY <1>1, <1>7, <1>8, <2>4, <2>5 DEF Totals
  <2>7. total'.finished = Cardinality(Completed')
        /\ total'.probe_terminated = Cardinality(CutShort')
    BY <1>7, <2>2, <2>3, <2>5
  <2>8. QED  BY <1>5, <1>7, <2>2, <2>6, <2>7 DEF Counted, CountersAgree, CutShort
<1>11. QED  BY <1>6, <1>9, <1>10

LEMMA FinishCounted ==
    ASSUME Safety, VerdictInv, Counted, Finish
    PROVE  Counted'
<1>1. PICK i \in DOMAIN active :
         /\ active' = RemoveAt(active, i)
         /\ req' = [req EXCEPT ![active[i]] = Close(req[active[i]])]
         /\ total' = CountFinish(total, req[active[i]])
  BY DEF Finish
<1> DEFINE r == active[i]
<1>2. /\ active \in Seq(Requests) /\ req \in [Requests -> Request] /\ total \in Totals
      /\ ToSet(active) \subseteq Requests
      /\ ToSet(queue) \cup ToSet(active) = (1..submitted) \ Completed
      /\ r \in ToSet(active)
  BY Places
<1>3. r \in Requests /\ r \notin Completed /\ r \in 1..submitted  BY <1>2
<1>4. SaysSo(req[r]) /\ req[r] \in Request  BY <1>2, <1>3 DEF VerdictInv, Judged
<1>5. submitted' = submitted  BY DEF Finish
<1>6. Len(active) \in Nat /\ total.finished \in Nat /\ total.preemptions \in Nat
  BY <1>2, LenProperties DEF Totals
<1>7. Len(active') = Len(active) - 1  BY <1>1, <1>2, RemoveAtProperties
<1>8. req' = [req EXCEPT ![r] = Close(req[r])] /\ total' = CountFinish(total, req[r])
  BY <1>1
<1> HIDE DEF r
<1>9. /\ total'.admitted = total.admitted /\ total'.preemptions = total.preemptions
      /\ total'.finished = total.finished + 1
      /\ total'.finished = Cardinality(Completed')
      /\ total'.probe_terminated = Cardinality(CutShort')
  BY <1>2, <1>3, <1>4, <1>8, CompletionCounted DEF Counted
<1>10. total.admitted = total.finished + total.preemptions + Len(active)
       /\ Completed \subseteq 1..submitted
  BY DEF Counted, CountersAgree
<1>11. total'.admitted = total'.finished + total'.preemptions + Len(active')
  <2>1. /\ total'.admitted = total.admitted /\ total'.preemptions = total.preemptions
        /\ total'.finished = total.finished + 1
    BY <1>9
  <2>2. total.admitted = total.finished + total.preemptions + Len(active)  BY <1>10
  <2>3. QED  BY <1>6, <1>7, <2>1, <2>2
<1>12. Completed' \subseteq Completed \cup {r}  BY <1>2, <1>8 DEF Completed
<1>13. QED  BY <1>3, <1>5, <1>9, <1>10, <1>11, <1>12 DEF Counted, CountersAgree, CutShort

LEMMA PreemptCounted ==
    ASSUME Safety, Counted, Preempt
    PROVE  Counted'
<1>1. PICK i \in VictimSlots :
         /\ active' = RemoveAt(active, i)
         /\ req' = [req EXCEPT ![active[i]] = Reset(req[active[i]])]
  BY DEF Preempt
<1> DEFINE r == active[i]
<1>2. /\ active \in Seq(Requests) /\ req \in [Requests -> Request] /\ total \in Totals
      /\ ToSet(active) \subseteq Requests
      /\ ToSet(queue) \cup ToSet(active) = (1..submitted) \ Completed
      /\ i \in DOMAIN active /\ r \in ToSet(active)
  BY Places DEF VictimSlots
<1>3. r \in Requests /\ r \notin Completed  BY <1>2
<1>4. Reset(req[r]).completed = req[r].completed  BY <1>2, <1>3, ResetFields
<1>5. submitted' = submitted /\ total' = [total EXCEPT !.preemptions = @ + 1]
  BY DEF Preempt
<1>6. Len(active') = Len(active) - 1 /\ Len(active) \in Nat
  BY <1>1, <1>2, RemoveAtProperties, LenProperties
<1>7. req' = [req EXCEPT ![r] = Reset(req[r])]  BY <1>1
<1> HIDE DEF r
<1>8. Completed' = Completed /\ \A q \in Completed : req'[q] = req[q]
  BY <1>2, <1>3, <1>4, <1>7 DEF Completed
<1>9. CutShort' = CutShort
  <2>1. CutShort' = {q \in Completed' : req'[q].finish_reason = "probe_terminated"}
    BY DEF CutShort
  <2>2. QED  BY <1>8, <2>1 DEF CutShort
<1>10. /\ total'.admitted = total.admitted /\ total'.finished = total.finished
       /\ total'.probe_terminated = total.probe_terminated
       /\ total'.preemptions = total.preemptions + 1
       /\ total.finished \in Nat /\ total.preemptions \in Nat
  BY <1>2, <1>5 DEF Totals
<1>11. /\ total.admitted = total.finished + total.preemptions + Len(active)
       /\ total.finished = Cardinality(Completed)
       /\ total.probe_terminated = Cardinality(CutShort)
       /\ Completed \subseteq 1..submitted
  BY DEF Counted, CountersAgree, CutShort
<1>12. total'.admitted = total'.finished + total'.preemptions + Len(active')
  BY <1>6, <1>10, <1>11
<1>13. QED  BY <1>5, <1>8, <1>9, <1>10, <1>11, <1>12 DEF Counted, CountersAgree, CutShort

LEMMA NextCounted == Safety /\ VerdictInv /\ Counted /\ [Next]_vars => Counted'
<1> SUFFICES ASSUME Safety, VerdictInv, Counted, [Next]_vars PROVE Counted'  OBVIOUS
<1>1. /\ req \in [Requests -> Request] /\ submitted \in Nat
      /\ ToSet(active) \subseteq Requests
      /\ ToSet(queue) \cup ToSet(active) = (1..submitted) \ Completed
      /\ Completed \subseteq Requests /\ Completed \subseteq 1..submitted
  BY Places DEF Counted
<1>2. ASSUME NEW m \in MaxTokensChoices, NEW s \in StreamChoices, Submit(m, s)
      PROVE  Counted'
  <2>1. /\ submitted' = submitted + 1 /\ UNCHANGED <<active, total>>
        /\ req' = [req EXCEPT ![submitted + 1] = NewRequest(m, s)]
    BY <1>2 DEF Submit, NextId
  <2>2. submitted + 1 \in Requests
    BY <1>1, <1>2, BatcherAssumption DEF Submit, Requests
  <2>3. submitted + 1 \notin Completed /\ ~NewRequest(m, s).completed
    BY <1>1 DEF NewRequest
  <2>4. Completed' = Completed /\ \A q \in Completed : req'[q] = req[q]
    BY <1>1, <2>1, <2>2, <2>3 DEF Completed
  <2>5. QED  BY <1>1, <2>1, <2>4, SameCounts
<1>3. ASSUME NEW r \in Impatient, Cancel(r)
      PROVE  Counted'
  <2>1. /\ UNCHANGED <<submitted, active, total>> /\ r \in Requests
        /\ req' = [req EXCEPT ![r].result = "cancelled"]
    BY <1>3, BatcherAssumption DEF Cancel
  <2>2. \A q \in Requests : /\ req'[q].completed = req[q].completed
                            /\ req'[q].finish_reason = req[q].finish_reason
    BY <1>1, <2>1 DEF Request
  <2>3. Completed' = Completed  BY <2>2 DEF Completed
  <2>4. {q \in Completed' : req'[q].finish_reason = "probe_terminated"} =
        {q \in Completed : req[q].finish_reason = "probe_terminated"}
    BY <1>1, <2>2, <2>3
  <2>5. QED  BY <1>1, <2>1, <2>3, <2>4 DEF Counted, CountersAgree
<1>4. CASE FillSlot \/ RefillSlot
  BY <1>4, AdmitOneCounted
  DEF FillSlot, RefillSlot, MayAdmit, Safety, RefillPossible
<1>5. CASE Preempt  BY <1>5, PreemptCounted
<1>6. CASE Finish  BY <1>6, FinishCounted
<1>7. CASE Decode \/ Route
  <2>1. UNCHANGED <<submitted, active, total>>  BY <1>7 DEF Decode, Route
  <2>2. \A q \in Requests : q \notin ToSet(active) => req'[q] = req[q]
    BY <1>7 DEF Decode, Route, NewlyRouted
  <2>3. Safety'  BY <1>7, NextSafety DEF Next, Tick
  <2>4. Completed' = Completed
    <3>1. \A q \in ToSet(active) : q \notin Completed  BY <1>1
    <3>2. \A q \in ToSet(active) : q \notin Completed'
      BY <2>1, <2>3 DEF Safety, NoRequestLost
    <3>3. QED  BY <2>2, <3>1, <3>2 DEF Completed
  <2>5. \A q \in Completed : req'[q] = req[q]  BY <1>1, <2>2
  <2>6. QED  BY <1>1, <2>1, <2>4, <2>5, SameCounts
<1>8. CASE \/ BeginTick \/ EndFill \/ EndAdmission \/ SkipDecode \/ EndTick \/ Stop
           \/ UNCHANGED vars
  <2>1. UNCHANGED <<active, total, req, submitted>>
    BY <1>8 DEF BeginTick, EndFill, EndAdmission, SkipDecode, EndTick, Stop, vars
  <2>2. Completed' = Completed  BY <2>1 DEF Completed
  <2>3. QED  BY <1>1, <2>1, <2>2, SameCounts
<1>9. QED
  BY <1>2, <1>3, <1>4, <1>5, <1>6, <1>7, <1>8
  DEF Next, Clients, Tick, TryAdmit, Stopped

LEMMA InitCounted == Init => Counted
<1> SUFFICES ASSUME Init PROVE Counted  OBVIOUS
<1>1. Completed = {}  BY DEF Init, Completed, NewRequest
<1>2. Len(<<>>) = 0 /\ Cardinality({}) = 0  BY FS_EmptySet
<1>3. {r \in Completed : req[r].finish_reason = "probe_terminated"} = {}  BY <1>1
<1>4. QED  BY <1>1, <1>2, <1>3 DEF Init, Counted, CountersAgree

\* What /health reports adds up at any time, over any number of requests and
\* preemptions, and agrees with the records of the completed requests.
THEOREM CountersAlwaysAgree == Spec => []CountersAgree
<1>1. Counted => CountersAgree  BY DEF Counted
<1>2. QED  BY InitCounted, NextCounted, VerdictsHold, <1>1, PTL DEF Spec

-----------------------------------------------------------------------------
(* Streams and what is delivered.                                            *)

\* What one step may make of one request's record.
LEMMA OneStepOn ==
    ASSUME Safety, Counted, [Next]_vars, NEW r \in Requests
    PROVE  \/ req'[r] = req[r]
           \/ /\ Cancel(r) /\ req[r].result = "pending"
              /\ req'[r] = [req[r] EXCEPT !.result = "cancelled"]
           \/ /\ ~req[r].completed
              /\ \/ \E m \in MaxTokensChoices, s \in StreamChoices :
                       Submit(m, s) /\ req'[r] = NewRequest(m, s)
                 \/ \E eos \in BOOLEAN :
                       \/ req'[r] = Generate(req[r], eos)
                       \/ req'[r] = Close(Generate(req[r], eos))
                       \/ /\ Decode /\ r \in ToSet(active) /\ MeetsGate(req[r])
                          /\ \E c : req'[r] = [Generate(req[r], eos)
                                                  EXCEPT !.routing_decision = c]
                 \/ req'[r] \in {React(req[r]), Close(req[r])}
                 \/ Preempt /\ req'[r] = Reset(req[r])
<1>1. /\ req \in [Requests -> Request] /\ submitted \in Nat
      /\ \A i \in DOMAIN active : active[i] \in ToSet(active)
      /\ \A q \in ToSet(queue) \cup ToSet(active) : q \notin Completed
      /\ ToSet(queue) \subseteq Requests /\ ToSet(active) \subseteq Requests
      /\ queue \in Seq(Requests)
  BY Places
<1>2. Completed \subseteq 1..submitted  BY DEF Counted
<1>3. CASE \E m \in MaxTokensChoices, s \in StreamChoices : Submit(m, s)
  <2>1. PICK m \in MaxTokensChoices, s \in StreamChoices :
           /\ Submit(m, s)
           /\ req' = [req EXCEPT ![submitted + 1] = NewRequest(m, s)]
    BY <1>3 DEF Submit, NextId
  <2>2. submitted + 1 \notin Completed  BY <1>1, <1>2
  <2>3. r = submitted + 1 => ~req[r].completed  BY <2>2 DEF Completed
  <2>4. QED  BY <1>1, <2>1, <2>3
<1>4. CASE \E q \in Impatient : Cancel(q)
  <2>1. PICK q \in Impatient : /\ Cancel(q) /\ req[q].result = "pending"
                               /\ req' = [req EXCEPT ![q].result = "cancelled"]
    BY <1>4 DEF Cancel
  <2>2. q = r \/ req'[r] = req[r]  BY <1>1, <2>1
  <2>3. q \in Requests  BY BatcherAssumption
  <2>4. CASE q = r  BY <1>1, <2>1, <2>3, <2>4
  <2>5. QED  BY <2>2, <2>4
<1>5. CASE FillSlot \/ RefillSlot
  <2>1. PICK eos \in BOOLEAN : AdmitOne(eos)  BY <1>5 DEF FillSlot, RefillSlot
  <2>2. queue # <<>>
    BY <1>5 DEF FillSlot, MayAdmit, RefillSlot, Safety, RefillPossible
  <2>3. Head(queue) \in Requests /\ ~req[Head(queue)].completed
    BY <1>1, <2>2, TailElements DEF Completed
  <2>4. QED  BY <1>1, <2>1, <2>3 DEF AdmitOne
<1>6. CASE Preempt
  <2>1. PICK i \in VictimSlots : req' = [req EXCEPT ![active[i]] = Reset(req[active[i]])]
    BY <1>6 DEF Preempt
  <2>2. active[i] \in Requests /\ ~req[active[i]].completed
    BY <1>1, <2>1 DEF VictimSlots, Completed
  <2>3. QED  BY <1>1, <1>6, <2>1, <2>2
<1>7. CASE Finish
  <2>1. PICK i \in DOMAIN active : req' = [req EXCEPT ![active[i]] = Close(req[active[i]])]
    BY <1>7 DEF Finish
  <2>2. active[i] \in Requests /\ ~req[active[i]].completed
    BY <1>1, <2>1 DEF Completed
  <2>3. QED  BY <1>1, <2>1, <2>2
<1>8. CASE Decode
  <2>1. PICK eos \in SUBSET ToSet(active),
                p \in [{x \in ToSet(active) : MeetsGate(req[x])} -> Probabilities] :
           req' = [q \in Requests |->
                     IF q \in {x \in ToSet(active) : MeetsGate(req[x])}
                     THEN Stamp(Generate(req[q], q \in eos), p[q])
                     ELSE IF q \in ToSet(active) THEN Generate(req[q], q \in eos) ELSE req[q]]
    BY <1>8 DEF Decode
  <2>2. (r \in eos) \in BOOLEAN  OBVIOUS
  <2>3. r \in ToSet(active) => ~req[r].completed  BY <1>1 DEF Completed
  <2>4. QED  BY <1>8, <2>1, <2>2, <2>3 DEF Stamp
<1>9. CASE Route
  <2>1. r \in NewlyRouted => ~req[r].completed  BY <1>1 DEF NewlyRouted, Completed
  <2>2. QED  BY <1>9, <2>1 DEF Route
<1>10. CASE \/ BeginTick \/ EndFill \/ EndAdmission \/ SkipDecode \/ EndTick \/ Stop
            \/ UNCHANGED vars
  BY <1>10 DEF BeginTick, EndFill, EndAdmission, SkipDecode, EndTick, Stop, vars
<1>11. QED
  BY <1>3, <1>4, <1>5, <1>6, <1>7, <1>8, <1>9, <1>10
  DEF Next, Clients, Tick, TryAdmit, Stopped

\* A request's record between its steps: the stream ends with the present run
\* and has no end marker; after completion it has the one, and an answer.
Delivered(x) ==
    /\ x.completed => x.result # "pending"
    /\ x.stream =>
          LET text == CountTo(x.n_generated)
              s == x.token_queue
          IN  IF x.completed
              THEN \E u \in Seq(Nat) : /\ s = Append(u, EndOfStream)
                                       /\ IsSuffix(text, u) /\ EndOfStream \notin ToSet(u)
              ELSE IsSuffix(text, s) /\ EndOfStream \notin ToSet(s)

LEMMA CountOneMore ==
    ASSUME NEW n \in Nat
    PROVE  /\ CountTo(n) \in Seq(Nat) /\ Len(CountTo(n)) = n
           /\ CountTo(n + 1) = Append(CountTo(n), n + 1)
<1>1. \A k \in Nat : CountTo(k) \in Seq(Nat) /\ Len(CountTo(k)) = k
                     /\ \A i \in 1..k : CountTo(k)[i] = i
  BY DEF CountTo
<1>2. /\ Append(CountTo(n), n + 1) \in Seq(Nat) /\ Len(Append(CountTo(n), n + 1)) = n + 1
      /\ \A i \in 1..n : Append(CountTo(n), n + 1)[i] = i
      /\ Append(CountTo(n), n + 1)[n + 1] = n + 1
  BY <1>1, AppendProperties
<1>3. CountTo(n + 1) \in Seq(Nat) /\ Len(CountTo(n + 1)) = n + 1
      /\ \A i \in 1..n + 1 : CountTo(n + 1)[i] = i
  BY <1>1
<1>4. \A i \in 1..n + 1 : CountTo(n + 1)[i] = Append(CountTo(n), n + 1)[i]
  <2>1. \A i \in 1..n + 1 : i \in 1..n \/ i = n + 1  OBVIOUS
  <2>2. QED  BY <1>2, <1>3, <2>1
<1>5. QED  BY <1>1, <1>2, <1>3, <1>4, SeqEqual

LEMMA NoTextYet ==
    ASSUME NEW s \in Seq(Nat)
    PROVE  IsSuffix(CountTo(0), s)
<1>1. CountTo(0) \in Seq(Nat) /\ Len(CountTo(0)) = 0  BY CountOneMore
<1>2. QED  BY <1>1, LenProperties, SuffixIs

LEMMA GenerateDelivered ==
    ASSUME NEW x \in Request, Delivered(x), ~x.completed, NEW eos \in BOOLEAN
    PROVE  Generate(x, eos) \in Request /\ Delivered(Generate(x, eos))
<1> DEFINE y == Generate(x, eos)
           k == x.n_generated + 1
<1>1. y \in Request /\ y.completed = x.completed  BY GenerateType
<1>2. /\ x.token_queue \in Seq(Nat) /\ x.n_generated \in Nat
      /\ k \in Nat /\ k # EndOfStream
  BY DEF Request, EndOfStream
<1>3. /\ y.stream = x.stream /\ y.n_generated = k
      /\ x.stream => y.token_queue = Append(x.token_queue, k)
  BY DEF Generate, Request
<1>4. CountTo(x.n_generated) \in Seq(Nat) /\ CountTo(k) = Append(CountTo(x.n_generated), k)
  BY <1>2, CountOneMore
<1> HIDE DEF y, k
<1>5. ASSUME x.stream
      PROVE  /\ IsSuffix(CountTo(y.n_generated), y.token_queue)
             /\ EndOfStream \notin ToSet(y.token_queue)
  <2>1. IsSuffix(CountTo(x.n_generated), x.token_queue) /\ EndOfStream \notin ToSet(x.token_queue)
    BY <1>5 DEF Delivered
  <2>2. y.token_queue = Append(x.token_queue, k)  BY <1>3, <1>5
  <2>3. IsSuffix(CountTo(k), y.token_queue)
    BY <1>2, <1>4, <2>1, <2>2, SuffixAppended
  <2>4. ToSet(y.token_queue) = ToSet(x.token_queue) \cup {k}
    BY <1>2, <2>2, AppendElements
  <2>5. QED  BY <1>2, <1>3, <2>1, <2>3, <2>4
<1>6. Delivered(y)  BY <1>1, <1>3, <1>5 DEF Delivered
<1>7. QED  BY <1>1, <1>6 DEF y

LEMMA CloseDelivered ==
    ASSUME NEW x \in Request, Delivered(x), ~x.completed
    PROVE  Delivered(Close(x))
<1> DEFINE y == Close(x)
<1>1. /\ y.completed /\ y.stream = x.stream /\ y.n_generated = x.n_generated
      /\ x.stream => y.token_queue = Append(x.token_queue, EndOfStream)
      /\ y.result # "pending" /\ x.token_queue \in Seq(Nat)
  BY DEF Close, Request
<1> HIDE DEF y
<1>2. Delivered(y)  BY <1>1 DEF Delivered
<1>3. QED  BY <1>2 DEF y

\* What routing, a preemption and a cancelled wait write on the record.
LEMMA SameDelivered ==
    ASSUME NEW x \in Request, NEW y, Delivered(x),
           y.completed = x.completed, y.stream = x.stream, y.token_queue = x.token_queue,
           y.n_generated = x.n_generated \/ (y.n_generated = 0 /\ ~x.completed),
           y.completed => y.result # "pending"
    PROVE  Delivered(y)
<1>1. x.token_queue \in Seq(Nat)  BY DEF Request
<1>2. CASE y.n_generated = x.n_generated  BY <1>2 DEF Delivered
<1>3. CASE y.n_generated = 0 /\ ~x.completed
  <2>1. IsSuffix(CountTo(y.n_generated), y.token_queue)  BY <1>1, <1>3, NoTextYet
  <2>2. QED  BY <1>3, <2>1 DEF Delivered
<1>4. QED  BY <1>2, <1>3

AllDelivered == \A r \in Requests : Delivered(req[r])

LEMMA NewDelivered ==
    ASSUME NEW m, NEW s
    PROVE  Delivered(NewRequest(m, s))
<1>1. /\ ~NewRequest(m, s).completed /\ NewRequest(m, s).token_queue = <<>>
      /\ NewRequest(m, s).n_generated = 0
  BY DEF NewRequest
<1>2. <<>> \in Seq(Nat) /\ ToSet(<<>>) = {}  BY EmptySeq DEF ToSet
<1>3. IsSuffix(CountTo(0), <<>>)  BY <1>2, NoTextYet
<1>4. QED  BY <1>1, <1>2, <1>3 DEF Delivered

LEMMA NextDelivered == Safety /\ Counted /\ AllDelivered /\ [Next]_vars => AllDelivered'
<1> SUFFICES ASSUME Safety, Counted, AllDelivered, [Next]_vars, NEW r \in Requests
             PROVE  Delivered(req'[r])
  BY DEF AllDelivered
<1> DEFINE x == req[r]
<1>1. x \in Request /\ Delivered(x)  BY Places DEF AllDelivered
<1>2. CASE req'[r] = x  BY <1>1, <1>2
<1>3. CASE x.result = "pending" /\ req'[r] = [x EXCEPT !.result = "cancelled"]
  <2>1. /\ req'[r].completed = x.completed /\ req'[r].stream = x.stream
        /\ req'[r].token_queue = x.token_queue /\ req'[r].n_generated = x.n_generated
        /\ req'[r].result # "pending"
    BY <1>1, <1>3 DEF Request
  <2>2. QED  BY <1>1, <2>1, SameDelivered
<1>4. ASSUME ~x.completed, NEW m, NEW s, req'[r] = NewRequest(m, s)
      PROVE  Delivered(req'[r])
  BY <1>4, NewDelivered
<1>5. ASSUME ~x.completed, NEW eos \in BOOLEAN,
             \/ req'[r] = Generate(x, eos)
             \/ req'[r] = Close(Generate(x, eos))
             \/ \E c : req'[r] = [Generate(x, eos) EXCEPT !.routing_decision = c]
      PROVE  Delivered(req'[r])
  <2>1. /\ Generate(x, eos) \in Request /\ Delivered(Generate(x, eos))
        /\ ~Generate(x, eos).completed
    BY <1>1, <1>5, GenerateDelivered, GenerateType
  <2>2. CASE req'[r] = Generate(x, eos)  BY <2>1, <2>2
  <2>3. CASE req'[r] = Close(Generate(x, eos))  BY <2>1, <2>3, CloseDelivered
  <2>4. ASSUME NEW c, req'[r] = [Generate(x, eos) EXCEPT !.routing_decision = c]
        PROVE  Delivered(req'[r])
    <3> DEFINE g == Generate(x, eos)
    <3> HIDE DEF g
    <3>1. g \in Request /\ Delivered(g) /\ ~g.completed
          /\ req'[r] = [g EXCEPT !.routing_decision = c]
      BY <2>1, <2>4 DEF g
    <3>2. /\ req'[r].completed = g.completed /\ req'[r].stream = g.stream
          /\ req'[r].token_queue = g.token_queue /\ req'[r].n_generated = g.n_generated
      BY <3>1 DEF Request
    <3>3. QED  BY <3>1, <3>2, SameDelivered
  <2>5. QED  BY <1>5, <2>2, <2>3, <2>4
<1>6. CASE ~x.completed /\ req'[r] = Close(x)  BY <1>1, <1>6, CloseDelivered
<1>7. CASE ~x.completed /\ (req'[r] = React(x) \/ req'[r] = Reset(x))
  <2>1. /\ req'[r].completed = x.completed /\ req'[r].stream = x.stream
        /\ req'[r].token_queue = x.token_queue
        /\ req'[r].n_generated \in {x.n_generated, 0}
    BY <1>1, <1>7 DEF React, Reset, Request
  <2>2. QED  BY <1>1, <1>7, <2>1, SameDelivered
<1> HIDE DEF x
<1>8. QED  BY <1>2, <1>3, <1>4, <1>5, <1>6, <1>7, OneStepOn DEF x

LEMMA InitDelivered == Init => AllDelivered
BY NewDelivered DEF Init, AllDelivered

LEMMA DeliveredHolds == Spec => [](Safety /\ Counted /\ AllDelivered)
BY InitSafety, NextSafety, InitCounted, NextCounted, VerdictsHold,
   InitDelivered, NextDelivered, PTL DEF Spec

\* A stream is closed with its request and by one marker, and what stands
\* before the marker is the run that produced the text, for any number of
\* tokens, preemptions and streams.
THEOREM StreamsCloseOnce == Spec => []StreamClosedOnce
<1>1. Safety /\ AllDelivered => StreamClosedOnce
  <2> SUFFICES ASSUME Safety, AllDelivered, NEW r \in Requests, req[r].stream
               PROVE  LET s == req[r].token_queue
                          text == Append(CountTo(req[r].n_generated), EndOfStream)
                      IN  IF req[r].completed
                          THEN IsSuffix(text, s) /\ EndOfStream \notin ToSet(Front(s))
                          ELSE EndOfStream \notin ToSet(s)
    BY DEF StreamClosedOnce
  <2>1. Delivered(req[r]) /\ req[r] \in Request  BY Places DEF AllDelivered
  <2>2. req[r].n_generated \in Nat /\ EndOfStream \in Nat  BY <2>1 DEF Request, EndOfStream
  <2>3. CASE ~req[r].completed  BY <2>1, <2>3 DEF Delivered
  <2>4. CASE req[r].completed
    <3>1. PICK u \in Seq(Nat) : /\ req[r].token_queue = Append(u, EndOfStream)
                                /\ IsSuffix(CountTo(req[r].n_generated), u)
                                /\ EndOfStream \notin ToSet(u)
      BY <2>1, <2>4 DEF Delivered
    <3>2. IsSuffix(Append(CountTo(req[r].n_generated), EndOfStream), Append(u, EndOfStream))
      BY <2>2, <3>1, CountOneMore, SuffixAppended
    <3>3. Front(Append(u, EndOfStream)) = u  BY <2>2, FrontOfAppend
    <3>4. QED  BY <2>4, <3>1, <3>2, <3>3
  <2>5. QED  BY <2>3, <2>4
<1>2. QED  BY <1>1, DeliveredHolds, PTL

\* What has been delivered stays as it is: no later step of the scheduler, and
\* no client that gives up, touches a completed request.
THEOREM ServedStaysServed == Spec => ServedForGood
<1>1. ASSUME Safety, Counted, AllDelivered, [Next]_vars
      PROVE  [\A r \in Requests : req[r].completed => req'[r] = req[r]]_vars
  <2>1. ASSUME NEW r \in Requests, req[r].completed
        PROVE  req'[r] = req[r]
    <3>1. req[r].result # "pending"  BY <1>1, <2>1 DEF AllDelivered, Delivered
    <3>2. QED  BY <1>1, <2>1, <3>1, OneStepOn
  <2>2. QED  BY <2>1
<1>2. QED  BY <1>1, DeliveredHolds, PTL DEF Spec, ServedForGood

\* Without preemption a stream is its text from the first token on.
Whole(x) ==
    x.stream => x.token_queue = IF x.completed THEN Append(CountTo(x.n_generated), EndOfStream)
                                               ELSE CountTo(x.n_generated)

WholeInv == phase \notin {"preempt", "readmit"} /\ \A r \in Requests : Whole(req[r])

LEMMA NextWhole ==
    ASSUME Strategy # "probe_deprioritize", Safety, Counted, WholeInv, [Next]_vars
    PROVE  WholeInv'
<1>1. phase' \notin {"preempt", "readmit"} /\ ~Preempt
  BY DEF WholeInv, Next, Clients, Tick, TryAdmit, Submit, Cancel, BeginTick, FillSlot, EndFill,
         Preempt, RefillSlot, EndAdmission, Decode, SkipDecode, Route, Finish, EndTick, Stop,
         Stopped, vars
<1>2. SUFFICES ASSUME NEW r \in Requests PROVE Whole(req'[r])  BY <1>1 DEF WholeInv
<1> DEFINE x == req[r]
<1>3. x \in Request /\ Whole(x)  BY Places DEF WholeInv
<1>4. CASE req'[r] = x  BY <1>3, <1>4
<1>5. CASE req'[r] = [x EXCEPT !.result = "cancelled"]
  <2>1. /\ req'[r].completed = x.completed /\ req'[r].stream = x.stream
        /\ req'[r].token_queue = x.token_queue /\ req'[r].n_generated = x.n_generated
    BY <1>3, <1>5 DEF Request
  <2>2. QED  BY <1>3, <2>1 DEF Whole
<1>6. ASSUME NEW m, NEW s, req'[r] = NewRequest(m, s)
      PROVE  Whole(req'[r])
  <2>1. CountTo(0) = <<>>  BY CountOneMore, EmptySeq
  <2>2. /\ ~req'[r].completed /\ req'[r].token_queue = <<>> /\ req'[r].n_generated = 0
    BY <1>6 DEF NewRequest
  <2>3. QED  BY <2>1, <2>2 DEF Whole
<1>7. ASSUME ~x.completed, NEW eos \in BOOLEAN
      PROVE  /\ Generate(x, eos) \in Request /\ ~Generate(x, eos).completed
             /\ Whole(Generate(x, eos))
  <2>1. /\ Generate(x, eos) \in Request /\ ~Generate(x, eos).completed
    BY <1>3, <1>7, GenerateType
  <2>2. /\ x.n_generated \in Nat
        /\ x.stream => x.token_queue = CountTo(x.n_generated)
    BY <1>3, <1>7 DEF Whole, Request
  <2>3. /\ Generate(x, eos).stream = x.stream
        /\ Generate(x, eos).n_generated = x.n_generated + 1
        /\ x.stream => Generate(x, eos).token_queue
                          = Append(x.token_queue, x.n_generated + 1)
    BY <1>3 DEF Generate, Request
  <2> DEFINE g == Generate(x, eos)
             k == x.n_generated
  <2>4. CountTo(k + 1) = Append(CountTo(k), k + 1)  BY <2>2, CountOneMore
  <2>5. g.stream = x.stream /\ g.n_generated = k + 1 /\ ~g.completed  BY <2>1, <2>3
  <2>6. g.stream => g.token_queue = CountTo(k + 1)  BY <2>2, <2>3, <2>4
  <2> HIDE DEF g, k
  <2>7. Whole(g)  BY <2>5, <2>6 DEF Whole
  <2>8. QED  BY <2>1, <2>7 DEF g
<1>8. ASSUME NEW g \in Request, ~g.completed, Whole(g)
      PROVE  /\ Whole(Close(g)) /\ Whole(React(g))
             /\ \A c : Whole([g EXCEPT !.routing_decision = c])
  <2>1. Whole(Close(g))
    <3>1. Close(g).completed  BY CloseType
    <3>2. /\ Close(g).stream = g.stream /\ Close(g).n_generated = g.n_generated
          /\ g.stream => Close(g).token_queue = Append(g.token_queue, EndOfStream)
      BY DEF Close, Request
    <3>3. QED  BY <1>8, <3>1, <3>2 DEF Whole
  <2>2. Whole(React(g))  BY <1>8 DEF Whole, React, Request
  <2>3. ASSUME NEW c PROVE Whole([g EXCEPT !.routing_decision = c])
    BY <1>8 DEF Whole, Request
  <2>4. QED  BY <2>1, <2>2, <2>3
<1>9. ASSUME ~x.completed, NEW eos \in BOOLEAN,
             \/ req'[r] = Generate(x, eos)
             \/ req'[r] = Close(Generate(x, eos))
             \/ \E c : req'[r] = [Generate(x, eos) EXCEPT !.routing_decision = c]
      PROVE  Whole(req'[r])
  <2> DEFINE g == Generate(x, eos)
  <2>1. g \in Request /\ ~g.completed /\ Whole(g)  BY <1>7, <1>9
  <2>2. \/ req'[r] = g \/ req'[r] = Close(g)
        \/ \E c : req'[r] = [g EXCEPT !.routing_decision = c]
    BY <1>9
  <2> HIDE DEF g
  <2>3. QED  BY <1>8, <2>1, <2>2
<1>10. CASE ~x.completed /\ req'[r] \in {React(x), Close(x)}  BY <1>3, <1>8, <1>10
<1> HIDE DEF x
<1>11. QED  BY <1>1, <1>4, <1>5, <1>6, <1>9, <1>10, OneStepOn DEF x

\* Unless requests may be preempted, a client that reads its stream to the end
\* has read the text, each token once, for any number of tokens and requests.
THEOREM StreamsAreTexts ==
    ASSUME Strategy # "probe_deprioritize"
    PROVE  Spec => []StreamIsText
<1>1. Init => WholeInv
  <2>1. CountTo(0) = <<>>  BY CountOneMore, EmptySeq
  <2>2. QED  BY <2>1 DEF Init, WholeInv, Whole, NewRequest
<1>2. WholeInv => StreamIsText
  BY DEF WholeInv, Whole, StreamIsText, Completed
<1>3. Safety /\ Counted /\ WholeInv /\ [Next]_vars => WholeInv'  BY NextWhole
<1>4. QED  BY <1>1, <1>2, <1>3, DeliveredHolds, PTL DEF Spec

-----------------------------------------------------------------------------
(* How texts end.                                                            *)

\* The requests that the rest of this tick completes.
Ending(r) ==
    \/ phase \in {"route", "finish"} /\ r \in finished_ids
    \/ phase = "finish" /\ r \in terminated_ids

\* A reason to end is on the record of a request only from the step that found
\* it to the end of the tick, and what routing returned says so.
EndsNoted ==
    /\ \A r \in ToSet(queue) : req[r].finish_reason = "none"
    /\ \A r \in ToSet(active) :
          /\ req[r].finish_reason # "none" => Ending(r)
          /\ phase = "finish" /\ r \in terminated_ids
                => req[r].finish_reason = "probe_terminated"

LEMMA GenerateEnds ==
    ASSUME NEW x \in Request, x.finish_reason = "none", NEW eos \in BOOLEAN
    PROVE  LET y == Generate(x, eos)
           IN  /\ y.finish_reason # "none" <=> AtEnd(y, eos)
               /\ y.finish_reason = "eos" <=> eos
               /\ TokenLimit(y) = TokenLimit(x)
               /\ AtEnd(y, eos) <=> eos \/ y.n_generated >= TokenLimit(x)
<1> DEFINE y == Generate(x, eos)
<1>1. /\ y.max_tokens = x.max_tokens /\ y.n_generated = x.n_generated + 1
      /\ y.finish_reason = IF eos THEN "eos"
                           ELSE IF x.n_generated + 1 >= TokenLimit(x) THEN "max_tokens"
                           ELSE "none"
  BY DEF Generate, Request
<1> HIDE DEF y
<1>2. TokenLimit(y) = TokenLimit(x)  BY <1>1 DEF TokenLimit
<1>3. AtEnd(y, eos) <=> eos \/ y.n_generated >= TokenLimit(x)  BY <1>2 DEF AtEnd
<1>4. QED  BY <1>1, <1>2, <1>3 DEF y

\* What run_decode_step makes of one request of the batch.
LEMMA DecodeOn ==
    ASSUME Safety, EndsNoted, Decode, NEW r \in ToSet(active)
    PROVE  /\ r \in Requests /\ req[r].finish_reason = "none"
           /\ \E eos \in BOOLEAN :
                 LET y == Generate(req[r], eos)
                 IN  /\ r \in finished_ids' <=> AtEnd(y, eos)
                     /\ req'[r] = y \/ \E p \in Probability : req'[r] = Stamp(y, p)
           /\ req'[r].n_generated = req[r].n_generated + 1
           /\ req'[r].max_tokens = req[r].max_tokens
           /\ req'[r].completed = req[r].completed
           /\ req'[r].finish_reason # "none" <=> r \in finished_ids'
           /\ r \in finished_ids'
                 <=> \/ req'[r].finish_reason = "eos"
                     \/ req'[r].n_generated >= TokenLimit(req[r])
<1> DEFINE batch == ToSet(active)
           meeting == {q \in batch : MeetsGate(req[q])}
<1>1. PICK eos \in SUBSET batch, p \in [meeting -> Probabilities] :
         LET after(q) == Generate(req[q], q \in eos)
         IN  /\ req' = [q \in Requests |->
                            IF q \in meeting THEN Stamp(after(q), p[q])
                            ELSE IF q \in batch THEN after(q) ELSE req[q]]
             /\ finished_ids' = {q \in batch : AtEnd(after(q), q \in eos)}
  BY DEF Decode
<1>2. r \in Requests /\ req[r] \in Request  BY Places
<1>3. req[r].finish_reason = "none"  BY DEF EndsNoted, Ending, Decode
<1> DEFINE e == r \in eos
           y == Generate(req[r], e)
<1>4. e \in BOOLEAN  OBVIOUS
<1>5. r \in finished_ids' <=> AtEnd(y, e)  BY <1>1
<1>6. req'[r] = y \/ \E q \in Probability : req'[r] = Stamp(y, q)
  <2>1. CASE r \in meeting
    <3>1. p[r] \in Probability  BY <2>1, BatcherAssumption
    <3>2. req'[r] = Stamp(y, p[r])  BY <1>1, <1>2, <2>1
    <3>3. QED  BY <3>1, <3>2
  <2>2. CASE r \notin meeting  BY <1>1, <1>2, <2>2
  <2>3. QED  BY <2>1, <2>2
<1>7. /\ y \in Request /\ y.completed = req[r].completed
      /\ y.n_generated = req[r].n_generated + 1
  BY <1>2, <1>4, GenerateFields
<1>8. y.max_tokens = req[r].max_tokens  BY <1>2 DEF Generate, Request
<1>9. /\ y.finish_reason # "none" <=> AtEnd(y, e)
      /\ y.finish_reason = "eos" <=> e
      /\ AtEnd(y, e) <=> e \/ y.n_generated >= TokenLimit(req[r])
  BY <1>2, <1>3, <1>4, GenerateEnds
<1> HIDE DEF y, e
<1>10. /\ req'[r].n_generated = y.n_generated /\ req'[r].max_tokens = y.max_tokens
       /\ req'[r].completed = y.completed /\ req'[r].finish_reason = y.finish_reason
  BY <1>6, <1>7 DEF Stamp, Request
<1>11. \E eos_r \in BOOLEAN :
          LET z == Generate(req[r], eos_r)
          IN  /\ r \in finished_ids' <=> AtEnd(z, eos_r)
              /\ req'[r] = z \/ \E q \in Probability : req'[r] = Stamp(z, q)
  BY <1>4, <1>5, <1>6 DEF y
<1>12. QED  BY <1>2, <1>3, <1>5, <1>7, <1>8, <1>9, <1>10, <1>11

\* In the phases of admission nobody's text has ended.
LEMMA NobodyEnds ==
    ASSUME EndsNoted, phase \notin {"route", "finish"}
    PROVE  \A r \in ToSet(queue) \cup ToSet(active) : req[r].finish_reason = "none"
BY DEF EndsNoted, Ending

LEMMA AdmitOneEnds ==
    ASSUME Safety, VerdictInv, EndsNoted, queue # <<>>, NEW eos \in BOOLEAN, AdmitOne(eos),
           phase \notin {"route", "finish"}, phase' \notin {"route", "finish"}
    PROVE  EndsNoted'
<1> DEFINE r == Head(queue)
           y == Generate(req[r], eos)
<1>1. /\ queue \in Seq(Requests) /\ active \in Seq(Requests)
      /\ req \in [Requests -> Request] /\ IsInjective(queue)
      /\ ToSet(queue) \subseteq Requests /\ ToSet(active) \subseteq Requests
      /\ ToSet(queue) \cap ToSet(active) = {}
  BY Places
<1>2. r \in ToSet(queue) /\ r \in Requests /\ ToSet(Tail(queue)) = ToSet(queue) \ {r}
  BY <1>1, TailElements
<1>3. \A q \in ToSet(queue) \cup ToSet(active) : req[q].finish_reason = "none"
  BY NobodyEnds
<1>4. y.finish_reason # "none" <=> AtEnd(y, eos)  BY <1>1, <1>2, <1>3, GenerateEnds
<1>5. /\ queue' = Tail(queue)
      /\ \/ req' = [req EXCEPT ![r] = Close(y)] /\ active' = active
         \/ req' = [req EXCEPT ![r] = y] /\ ~AtEnd(y, eos) /\ active' = Append(active, r)
  BY DEF AdmitOne
<1> HIDE DEF r, y
<1>6. \A q \in Requests \ {r} : req'[q] = req[q]  BY <1>1, <1>5
<1>7. \A q \in ToSet(queue') : req'[q].finish_reason = "none"
  BY <1>1, <1>2, <1>3, <1>5, <1>6
<1>8. ASSUME NEW q \in ToSet(active')
      PROVE  req'[q].finish_reason = "none"
  <2>1. CASE q \in ToSet(active)  BY <1>1, <1>2, <1>3, <1>6, <2>1
  <2>2. CASE q \notin ToSet(active)
    <3>1. /\ active' = Append(active, r) /\ req' = [req EXCEPT ![r] = y] /\ ~AtEnd(y, eos)
      BY <1>5, <2>2
    <3>2. ToSet(active') = ToSet(active) \cup {r}  BY <1>1, <1>2, <3>1, AppendElements
    <3>3. q = r /\ req'[r] = y  BY <1>1, <1>2, <2>2, <3>1, <3>2
    <3>4. QED  BY <1>4, <3>1, <3>3
  <2>3. QED  BY <2>1, <2>2
<1>9. QED  BY <1>7, <1>8 DEF EndsNoted

LEMMA NextEnds == Safety /\ Safety' /\ VerdictInv /\ EndsNoted /\ [Next]_vars => EndsNoted'
<1> SUFFICES ASSUME Safety, Safety', VerdictInv, EndsNoted, [Next]_vars PROVE EndsNoted'
  OBVIOUS
<1>1. /\ queue \in Seq(Requests) /\ active \in Seq(Requests)
      /\ IsInjective(active) /\ req \in [Requests -> Request]
      /\ ToSet(queue) \subseteq Requests /\ ToSet(active) \subseteq Requests
      /\ ToSet(queue) \cap ToSet(active) = {}
      /\ ToSet(queue) \cup ToSet(active) = (1..submitted) \ Completed
      /\ submitted \in Nat
      /\ \A i \in DOMAIN active : active[i] \in ToSet(active)
  BY Places
<1>2. ASSUME NEW m \in MaxTokensChoices, NEW s \in StreamChoices, Submit(m, s)
      PROVE  EndsNoted'
  <2> DEFINE r == submitted + 1
  <2>1. /\ req' = [req EXCEPT ![r] = NewRequest(m, s)] /\ queue' = Append(queue, r)
        /\ UNCHANGED active /\ phase = "await" /\ phase' = "await"
    BY <1>2 DEF Submit, NextId, SubmitTo
  <2>2. r \in Requests /\ r \notin 1..submitted
    BY <1>1, <1>2, BatcherAssumption DEF Submit, Requests
  <2>3. ToSet(queue') = ToSet(queue) \cup {r}  BY <1>1, <2>1, <2>2, AppendElements
  <2>4. NewRequest(m, s).finish_reason = "none"  BY DEF NewRequest
  <2> HIDE DEF r
  <2>5. req'[r] = NewRequest(m, s) /\ \A q \in Requests \ {r} : req'[q] = req[q]
    BY <1>1, <2>1, <2>2
  <2>6. r \notin ToSet(active)  BY <1>1, <2>2
  <2>7. \A q \in ToSet(queue) \cup ToSet(active) : req[q].finish_reason = "none"
    BY <2>1, NobodyEnds
  <2>8. \A q \in ToSet(queue') : req'[q].finish_reason = "none"
    BY <1>1, <2>3, <2>4, <2>5, <2>7
  <2>9. \A q \in ToSet(active') : req'[q].finish_reason = "none"
    BY <1>1, <2>1, <2>5, <2>6, <2>7
  <2>10. QED  BY <2>1, <2>8, <2>9 DEF EndsNoted
<1>3. ASSUME NEW r \in Impatient, Cancel(r)
      PROVE  EndsNoted'
  <2>1. /\ UNCHANGED <<queue, active, phase, finished_ids, terminated_ids>>
        /\ req' = [req EXCEPT ![r].result = "cancelled"]
    BY <1>3 DEF Cancel
  <2>2. \A q \in Requests : req'[q].finish_reason = req[q].finish_reason
    BY <1>1, <2>1 DEF Request
  <2>3. QED  BY <1>1, <2>1, <2>2 DEF EndsNoted, Ending
<1>4. CASE FillSlot
  <2>1. queue # <<>> /\ phase = "admit" /\ phase' = "admit"
    BY <1>4 DEF FillSlot, MayAdmit
  <2>2. QED  BY <1>4, <2>1, AdmitOneEnds DEF FillSlot
<1>5. CASE RefillSlot
  <2>1. queue # <<>> /\ phase = "readmit" /\ phase' = "preempt"
    BY <1>5 DEF RefillSlot, Safety, RefillPossible
  <2>2. QED  BY <1>5, <2>1, AdmitOneEnds DEF RefillSlot
<1>6. CASE Preempt
  <2>1. PICK i \in VictimSlots :
           /\ active' = RemoveAt(active, i)
           /\ req' = [req EXCEPT ![active[i]] = Reset(req[active[i]])]
    BY <1>6 DEF Preempt
  <2> DEFINE r == active[i]
  <2>2. i \in DOMAIN active /\ r \in ToSet(active) /\ r \in Requests
    BY <1>1 DEF VictimSlots
  <2>3. phase = "preempt" /\ phase' = "readmit" /\ submitted' = submitted
    BY <1>6 DEF Preempt
  <2>4. \A q \in ToSet(queue) \cup ToSet(active) : req[q].finish_reason = "none"
    BY <2>3, NobodyEnds
  <2>5. /\ Reset(req[r]).finish_reason = req[r].finish_reason
        /\ Reset(req[r]).completed = req[r].completed
    BY <1>1, <2>2, ResetFields
  <2> HIDE DEF r
  <2>6. \A q \in Requests : /\ req'[q].finish_reason = req[q].finish_reason
                            /\ req'[q].completed = req[q].completed
    BY <1>1, <2>1, <2>2, <2>5 DEF r
  <2>7. Completed' = Completed  BY <2>6 DEF Completed
  <2>8. ToSet(queue') \cup ToSet(active') = ToSet(queue) \cup ToSet(active)
    BY <1>1, <2>3, <2>7 DEF Safety, NoRequestLost
  <2>9. \A q \in ToSet(queue') \cup ToSet(active') : req'[q].finish_reason = "none"
    BY <1>1, <2>4, <2>6, <2>8
  <2>10. QED  BY <2>3, <2>9 DEF EndsNoted
<1>7. CASE Decode
  <2>1. /\ UNCHANGED <<queue, active>> /\ phase' = "route"
        /\ \A q \in Requests : q \notin ToSet(active) => req'[q] = req[q]
    BY <1>7 DEF Decode
  <2>2. \A q \in ToSet(active) : req'[q].finish_reason # "none" <=> q \in finished_ids'
    BY <1>7, DecodeOn
  <2>3. \A q \in ToSet(queue) : req'[q].finish_reason = "none"
    BY <1>1, <2>1 DEF EndsNoted
  <2>4. QED  BY <2>1, <2>2, <2>3 DEF EndsNoted, Ending
<1>8. CASE Route
  <2>1. /\ UNCHANGED <<queue, active, finished_ids>> /\ phase = "route" /\ phase' = "finish"
        /\ req' = [q \in Requests |-> IF q \in NewlyRouted THEN React(req[q]) ELSE req[q]]
        /\ terminated_ids' = {q \in NewlyRouted : Terminates(req[q])}
    BY <1>8 DEF Route
  <2>2. NewlyRouted \subseteq ToSet(active)  BY DEF NewlyRouted
  <2>3. \A q \in ToSet(queue') : req'[q].finish_reason = "none"
    BY <1>1, <2>1, <2>2 DEF EndsNoted
  <2>4. ASSUME NEW q \in ToSet(active)
        PROVE  /\ req'[q].finish_reason # "none" => q \in finished_ids \/ q \in terminated_ids'
               /\ q \in terminated_ids' => req'[q].finish_reason = "probe_terminated"
    <3>1. q \in Requests /\ req[q] \in Request  BY <1>1
    <3>2. req[q].finish_reason # "none" => q \in finished_ids  BY <2>1 DEF EndsNoted, Ending
    <3>3. CASE q \in NewlyRouted
      <4>1. req'[q].finish_reason =
               IF Terminates(req[q]) THEN "probe_terminated" ELSE req[q].finish_reason
        BY <2>1, <3>1, <3>3, ReactFields
      <4>2. QED  BY <2>1, <3>2, <3>3, <4>1
    <3>4. CASE q \notin NewlyRouted  BY <2>1, <3>1, <3>2, <3>4
    <3>5. QED  BY <3>3, <3>4
  <2>5. QED  BY <2>1, <2>3, <2>4 DEF EndsNoted, Ending
<1>9. CASE Finish
  <2>1. PICK i \in DOMAIN active :
           /\ active' = RemoveAt(active, i)
           /\ req' = [req EXCEPT ![active[i]] = Close(req[active[i]])]
    BY <1>9 DEF Finish
  <2>2. ToSet(active') = ToSet(active) \ {active[i]}  BY <1>1, <2>1, RemoveAtElements
  <2>3. UNCHANGED <<queue, phase, finished_ids, terminated_ids>>  BY <1>9 DEF Finish
  <2>4. \A q \in Requests \ {active[i]} : req'[q] = req[q]  BY <1>1, <2>1
  <2>5. active[i] \notin ToSet(queue)  BY <1>1
  <2>6. QED  BY <1>1, <2>2, <2>3, <2>4, <2>5 DEF EndsNoted, Ending
<1>10. CASE BeginTick \/ EndFill \/ EndAdmission \/ SkipDecode \/ EndTick \/ Stop
  <2>1. UNCHANGED <<queue, active, req>> /\ phase' \notin {"route", "finish"}
    BY <1>10 DEF BeginTick, EndFill, EndAdmission, SkipDecode, EndTick, Stop
  <2>2. \A q \in ToSet(active) : ~Ending(q)
    BY <1>10 DEF BeginTick, EndFill, EndAdmission, SkipDecode, EndTick, Stop, Ending
  <2>3. QED  BY <2>1, <2>2 DEF EndsNoted
<1>11. CASE UNCHANGED vars  BY <1>11 DEF vars, EndsNoted, Ending
<1>12. QED
  BY <1>2, <1>3, <1>4, <1>5, <1>6, <1>7, <1>8, <1>9, <1>10, <1>11
  DEF Next, Clients, Tick, TryAdmit, Stopped

-----------------------------------------------------------------------------
(* Answers.                                                                  *)

\* A future is set by a completion, and cancelled by its client only.
Answers ==
    \A r \in Requests : /\ req[r].result = "set" => req[r].completed
                        /\ req[r].result = "cancelled" => r \in Impatient

LEMMA InitAnswers == Init => Answers
BY DEF Init, Answers, NewRequest

LEMMA NextAnswers == Safety /\ Counted /\ Answers /\ [Next]_vars => Answers'
<1> SUFFICES ASSUME Safety, Counted, Answers, [Next]_vars, NEW r \in Requests
             PROVE  /\ req'[r].result = "set" => req'[r].completed
                    /\ req'[r].result = "cancelled" => r \in Impatient
  BY DEF Answers
<1> DEFINE x == req[r]
           Fine(y) == /\ y.result = "set" => y.completed
                      /\ y.result = "cancelled" => r \in Impatient
<1>1. x \in Request /\ Fine(x)  BY Places DEF Answers
<1>2. ASSUME Cancel(r), req'[r] = [x EXCEPT !.result = "cancelled"]
      PROVE  Fine(req'[r])
  BY <1>1, <1>2 DEF Cancel, Request
<1>3. ASSUME NEW m, NEW s
      PROVE  Fine(NewRequest(m, s))
  BY DEF NewRequest
<1>4. ASSUME NEW g \in Request, Fine(g)
      PROVE  /\ Fine(Close(g)) /\ Fine(React(g)) /\ Fine(Reset(g))
             /\ \A c : Fine([g EXCEPT !.routing_decision = c])
  <2>1. Fine(Close(g))
    <3>1. Close(g).completed /\ Close(g).result = IF g.result = "pending" THEN "set" ELSE g.result
      BY DEF Close, Request
    <3>2. QED  BY <1>4, <3>1
  <2>2. Fine(React(g))  BY <1>4 DEF React, Request
  <2>3. Fine(Reset(g))  BY <1>4 DEF Reset, Request
  <2>4. ASSUME NEW c PROVE Fine([g EXCEPT !.routing_decision = c])
    BY <1>4 DEF Request
  <2>5. QED  BY <2>1, <2>2, <2>3, <2>4
<1>5. ASSUME NEW eos \in BOOLEAN
      PROVE  Generate(x, eos) \in Request /\ Fine(Generate(x, eos))
  <2>1. Generate(x, eos) \in Request  BY <1>1, GenerateType
  <2>2. /\ Generate(x, eos).result = x.result
        /\ Generate(x, eos).completed = x.completed
    BY <1>1 DEF Generate, Request
  <2>3. QED  BY <1>1, <2>1, <2>2
<1>6. ASSUME NEW eos \in BOOLEAN,
             \/ req'[r] = Generate(x, eos)
             \/ req'[r] = Close(Generate(x, eos))
             \/ \E c : req'[r] = [Generate(x, eos) EXCEPT !.routing_decision = c]
      PROVE  Fine(req'[r])
  <2> DEFINE g == Generate(x, eos)
  <2>1. g \in Request /\ Fine(g)  BY <1>5
  <2>2. \/ req'[r] = g \/ req'[r] = Close(g)
        \/ \E c : req'[r] = [g EXCEPT !.routing_decision = c]
    BY <1>6
  <2> HIDE DEF g, Fine
  <2>3. QED  BY <1>4, <2>1, <2>2
<1>7. Fine(req'[r])
  <2>1. CASE req'[r] = x  BY <1>1, <2>1
  <2>2. CASE Cancel(r) /\ req'[r] = [x EXCEPT !.result = "cancelled"]  BY <1>2, <2>2
  <2>3. CASE \E m \in MaxTokensChoices, s \in StreamChoices : req'[r] = NewRequest(m, s)
    BY <1>3, <2>3
  <2>4. CASE req'[r] \in {React(x), Close(x), Reset(x)}  BY <1>1, <1>4, <2>4
  <2> HIDE DEF Fine
  <2>5. QED  BY <1>6, <2>1, <2>2, <2>3, <2>4, OneStepOn
<1>8. QED  BY <1>7

-----------------------------------------------------------------------------
(* The order of the batch.                                                   *)

\* The batch is ordered by progress: who came first is ahead.
InOrderOfProgress ==
    \A i, j \in DOMAIN active :
        i < j => req[active[i]].n_generated >= req[active[j]].n_generated

LEMMA SameOrder ==
    ASSUME InOrderOfProgress, active' = active,
           \A i \in DOMAIN active : req'[active[i]].n_generated = req[active[i]].n_generated
    PROVE  InOrderOfProgress'
BY DEF InOrderOfProgress

\* A request that leaves lets the others move up.
LEMMA RemovedOrder ==
    ASSUME Safety, InOrderOfProgress, NEW k \in DOMAIN active, active' = RemoveAt(active, k),
           NEW x, req' = [req EXCEPT ![active[k]] = x]
    PROVE  InOrderOfProgress'
<1>1. /\ active \in Seq(Requests) /\ IsInjective(active) /\ req \in [Requests -> Request]
      /\ DOMAIN active = 1..Len(active) /\ Len(active) \in Nat
      /\ \A i \in DOMAIN active : active[i] \in Requests
  BY Places, LenProperties
<1>2. /\ active' \in Seq(Requests) /\ Len(active') = Len(active) - 1
      /\ \A i \in 1..Len(active) - 1 : active'[i] = IF i < k THEN active[i] ELSE active[i + 1]
  BY <1>1, RemoveAtProperties
<1>3. DOMAIN active' = 1..Len(active) - 1  BY <1>2, LenProperties
<1> SUFFICES ASSUME NEW i \in DOMAIN active', NEW j \in DOMAIN active', i < j
             PROVE  req'[active'[i]].n_generated >= req'[active'[j]].n_generated
  BY DEF InOrderOfProgress
<1> DEFINE From(l) == IF l < k THEN l ELSE l + 1
<1>4. ASSUME NEW l \in DOMAIN active'
      PROVE  /\ From(l) \in DOMAIN active /\ From(l) # k
             /\ active'[l] = active[From(l)]
  BY <1>1, <1>2, <1>3
<1>5. From(i) < From(j)  BY <1>1, <1>3
<1> HIDE DEF From
<1>6. ASSUME NEW l \in DOMAIN active'
      PROVE  req'[active'[l]] = req[active[From(l)]]
  <2>1. active[From(l)] # active[k]  BY <1>1, <1>4 DEF IsInjective
  <2>2. QED  BY <1>1, <1>4, <2>1
<1>7. req[active[From(i)]].n_generated >= req[active[From(j)]].n_generated
  BY <1>4, <1>5 DEF InOrderOfProgress
<1>8. QED  BY <1>6, <1>7

\* Who joins has one token, and so no more than anyone.
LEMMA AdmitOneOrder ==
    ASSUME Safety, VerdictInv, InOrderOfProgress, queue # <<>>,
           NEW eos \in BOOLEAN, AdmitOne(eos)
    PROVE  InOrderOfProgress'
<1> DEFINE r == Head(queue)
           y == Generate(req[r], eos)
<1>1. /\ queue \in Seq(Requests) /\ active \in Seq(Requests) /\ req \in [Requests -> Request]
      /\ ToSet(queue) \subseteq Requests /\ ToSet(active) \subseteq Requests
      /\ ToSet(queue) \cap ToSet(active) = {}
      /\ DOMAIN active = 1..Len(active) /\ Len(active) \in Nat
      /\ \A i \in DOMAIN active : active[i] \in ToSet(active)
  BY Places, LenProperties
<1>2. r \in ToSet(queue) /\ r \in Requests /\ r \notin ToSet(active)  BY <1>1, TailElements
<1>3. y.n_generated = 1  BY <1>1, <1>2, AdmittedFresh DEF VerdictInv
<1>4. \A i \in DOMAIN active : /\ req[active[i]].n_generated >= 1
                               /\ req[active[i]].n_generated \in Nat
  BY <1>1 DEF VerdictInv, Judged, Request
<1>5. \/ req' = [req EXCEPT ![r] = Close(y)] /\ active' = active
      \/ req' = [req EXCEPT ![r] = y] /\ active' = Append(active, r)
  BY DEF AdmitOne
<1> HIDE DEF r, y
<1>6. \A i \in DOMAIN active : req'[active[i]] = req[active[i]]  BY <1>1, <1>2, <1>5
<1>7. CASE active' = active  BY <1>6, <1>7, SameOrder
<1>8. CASE req' = [req EXCEPT ![r] = y] /\ active' = Append(active, r)
  <2>1. /\ DOMAIN active' = 1..Len(active) + 1
        /\ \A i \in DOMAIN active : active'[i] = active[i]
        /\ active'[Len(active) + 1] = r
    BY <1>1, <1>2, <1>8, AppendProperties, LenProperties
  <2>2. req'[r] = y  BY <1>1, <1>2, <1>8
  <2> SUFFICES ASSUME NEW i \in DOMAIN active', NEW j \in DOMAIN active', i < j
               PROVE  req'[active'[i]].n_generated >= req'[active'[j]].n_generated
    BY DEF InOrderOfProgress
  <2>3. i \in DOMAIN active  BY <1>1, <2>1
  <2>4. CASE j \in DOMAIN active  BY <1>6, <2>1, <2>3, <2>4 DEF InOrderOfProgress
  <2>5. CASE j \notin DOMAIN active
    <3>1. j = Len(active) + 1  BY <1>1, <2>1, <2>5
    <3>2. QED  BY <1>3, <1>4, <1>6, <2>1, <2>2, <2>3, <3>1
  <2>6. QED  BY <2>4, <2>5
<1>9. QED  BY <1>5, <1>7, <1>8

LEMMA NextOrdered ==
    Safety /\ VerdictInv /\ EndsNoted /\ InOrderOfProgress /\ [Next]_vars
        => InOrderOfProgress'
<1> SUFFICES ASSUME Safety, VerdictInv, EndsNoted, InOrderOfProgress, [Next]_vars
             PROVE  InOrderOfProgress'
  OBVIOUS
<1>1. /\ active \in Seq(Requests) /\ req \in [Requests -> Request]
      /\ ToSet(active) \subseteq Requests /\ submitted \in Nat
      /\ ToSet(queue) \cup ToSet(active) = (1..submitted) \ Completed
      /\ \A i \in DOMAIN active : active[i] \in ToSet(active)
  BY Places
<1>2. ASSUME NEW m \in MaxTokensChoices, NEW s \in StreamChoices, Submit(m, s)
      PROVE  InOrderOfProgress'
  <2>1. req' = [req EXCEPT ![submitted + 1] = NewRequest(m, s)] /\ UNCHANGED active
    BY <1>2 DEF Submit, NextId
  <2>2. submitted + 1 \notin ToSet(active)  BY <1>1
  <2>3. \A i \in DOMAIN active : req'[active[i]] = req[active[i]]  BY <1>1, <2>1, <2>2
  <2>4. QED  BY <2>1, <2>3, SameOrder
<1>3. ASSUME NEW r \in Impatient, Cancel(r)
      PROVE  InOrderOfProgress'
  <2>1. UNCHANGED active /\ req' = [req EXCEPT ![r].result = "cancelled"]
    BY <1>3 DEF Cancel
  <2>2. \A i \in DOMAIN active : req'[active[i]].n_generated = req[active[i]].n_generated
    BY <1>1, <2>1 DEF Request
  <2>3. QED  BY <2>1, <2>2, SameOrder
<1>4. CASE FillSlot  BY <1>4, AdmitOneOrder DEF FillSlot, MayAdmit
<1>5. CASE RefillSlot  BY <1>5, AdmitOneOrder DEF RefillSlot, Safety, RefillPossible
<1>6. CASE Preempt
  <2>1. PICK i \in VictimSlots :
           /\ active' = RemoveAt(active, i)
           /\ req' = [req EXCEPT ![active[i]] = Reset(req[active[i]])]
    BY <1>6 DEF Preempt
  <2>2. i \in DOMAIN active  BY DEF VictimSlots
  <2>3. QED  BY <2>1, <2>2, RemovedOrder
<1>7. CASE Decode
  <2>1. active' = active  BY <1>7 DEF Decode
  <2>2. \A i \in DOMAIN active : /\ req[active[i]].n_generated \in Nat
                                 /\ req'[active[i]].n_generated = req[active[i]].n_generated + 1
    BY <1>1, <1>7, DecodeOn DEF Request
  <2>3. QED  BY <2>1, <2>2 DEF InOrderOfProgress
<1>8. CASE Route
  <2>1. /\ UNCHANGED active
        /\ req' = [q \in Requests |-> IF q \in NewlyRouted THEN React(req[q]) ELSE req[q]]
    BY <1>8 DEF Route
  <2>2. \A i \in DOMAIN active : req'[active[i]].n_generated = req[active[i]].n_generated
    BY <1>1, <2>1, ReactFields
  <2>3. QED  BY <2>1, <2>2, SameOrder
<1>9. CASE Finish  BY <1>9, RemovedOrder DEF Finish
<1>10. CASE \/ BeginTick \/ EndFill \/ EndAdmission \/ SkipDecode \/ EndTick \/ Stop
            \/ UNCHANGED vars
  BY <1>10, SameOrder DEF BeginTick, EndFill, EndAdmission, SkipDecode, EndTick, Stop, vars
<1>11. QED
  BY <1>2, <1>3, <1>4, <1>5, <1>6, <1>7, <1>8, <1>9, <1>10
  DEF Next, Clients, Tick, TryAdmit, Stopped

-----------------------------------------------------------------------------
(* All of it together, and the length of a text when it is known where each *)
(* text ends, which is what the benchmark's comparisons rely on.            *)

Sound == Safety /\ VerdictInv /\ Counted /\ EndsNoted /\ Answers

LEMMA NextSound == Sound /\ [Next]_vars => Sound'
<1> SUFFICES ASSUME Sound, [Next]_vars PROVE Sound'  OBVIOUS
<1>1. Safety'  BY NextSafety DEF Sound
<1>2. VerdictInv' /\ Counted' /\ Answers'
  BY <1>1, NextVerdicts, NextCounted, NextAnswers DEF Sound
<1>3. EndsNoted'  BY <1>1, NextEnds DEF Sound
<1>4. QED  BY <1>1, <1>2, <1>3 DEF Sound

\* A batcher that starts with all requests in its queue.
LEMMA StartedSound ==
    ASSUME NEW m \in Int,
           queue' = [i \in Requests |-> i], active' = <<>>, cache' = {},
           req' = [r \in Requests |-> NewRequest(m, FALSE)],
           submitted' = NRequests, phase' = "await", attempts' = 0,
           finished_ids' = {}, terminated_ids' = {},
           total' = [admitted |-> 0, finished |-> 0, probe_terminated |-> 0,
                     preemptions |-> 0]
    PROVE  Sound' /\ Completed' = {}
<1> DEFINE x == NewRequest(m, FALSE)
<1>1. /\ x \in Request /\ ~x.completed
  <2>1. FALSE \in BOOLEAN  OBVIOUS
  <2>2. QED  BY <2>1, NewRequestType, Zenon
<1>2. /\ Fresh(x) /\ x.finish_reason = "none" /\ x.result = "pending"
  BY DEF NewRequest, Fresh, Decided, SaysSo
<1> HIDE DEF x
<1>3. \A r \in Requests : req'[r] = x  BY DEF x
<1>4. Completed' = {}  BY <1>1, <1>3 DEF Completed
<1>5. <<>> \in Seq(Requests) /\ ToSet(<<>>) = {} /\ IsInjective(<<>>) /\ Len(<<>>) = 0
  BY EmptySeq DEF ToSet, IsInjective
<1>6. /\ queue' \in Seq(Requests) /\ IsInjective(queue') /\ ToSet(queue') = Requests
  <2>1. [i \in 1..NRequests |-> i] \in Seq(1..NRequests)  BY BatcherAssumption
  <2>2. \A i \in Requests : queue'[i] = i  OBVIOUS
  <2>3. DOMAIN queue' = Requests  OBVIOUS
  <2>4. QED  BY <2>1, <2>2, <2>3 DEF Requests, IsInjective, ToSet
<1>7. TypeOK'
  <2>1. req' \in [Requests -> Request]  BY <1>1 DEF x
  <2>2. total' \in Totals  BY DEF Totals
  <2>3. NRequests \in 0..NRequests  BY BatcherAssumption
  <2>4. QED  BY <1>5, <1>6, <2>1, <2>2, <2>3 DEF TypeOK
<1>8. NoRequestLost'
  BY <1>4, <1>5, <1>6 DEF NoRequestLost, Requests
<1>9. CacheMatchesBatch' /\ RefillPossible'
  BY <1>5, BatcherAssumption DEF CacheMatchesBatch, RefillPossible
<1>10. Safety'  BY <1>7, <1>8, <1>9 DEF Safety
<1>11. VerdictInv'  BY <1>2, <1>3, <1>4, <1>5, <1>6 DEF VerdictInv
<1>12. Counted'
  <2>1. Cardinality({}) = 0  BY FS_EmptySet
  <2>2. {r \in Completed' : req'[r].finish_reason = "probe_terminated"} = {}  BY <1>4
  <2>3. CountersAgree'  BY <1>4, <1>5, <2>1, <2>2 DEF CountersAgree
  <2>4. QED  BY <1>4, <2>3 DEF Counted
<1>13. EndsNoted'  BY <1>2, <1>3, <1>5, <1>6 DEF EndsNoted
<1>14. Answers'  BY <1>2, <1>3 DEF Answers
<1>15. QED  BY <1>4, <1>10, <1>11, <1>12, <1>13, <1>14 DEF Sound

\* Nobody's max_tokens is changed after it was submitted.
LEMMA LimitsStay ==
    ASSUME Safety, Counted, [Next]_vars, NEW r \in Requests
    PROVE  req'[r].max_tokens = req[r].max_tokens \/ req'[r].max_tokens \in MaxTokensChoices
<1> DEFINE x == req[r]
           Same(y) == y.max_tokens = x.max_tokens
<1>1. x \in Request  BY Places
<1>2. Same([x EXCEPT !.result = "cancelled"])  BY <1>1 DEF Request
<1>3. \A m \in MaxTokensChoices : \A s \in StreamChoices :
         NewRequest(m, s).max_tokens \in MaxTokensChoices
  BY DEF NewRequest
<1>4. ASSUME NEW g \in Request, Same(g)
      PROVE  /\ Same(Close(g)) /\ Same(React(g)) /\ Same(Reset(g))
             /\ \A c : Same([g EXCEPT !.routing_decision = c])
  BY <1>4 DEF Close, React, Reset, Request
<1>5. ASSUME NEW eos \in BOOLEAN
      PROVE  Generate(x, eos) \in Request /\ Same(Generate(x, eos))
  <2>1. Generate(x, eos) \in Request  BY <1>1, GenerateType
  <2>2. Same(Generate(x, eos))  BY <1>1 DEF Generate, Request
  <2>3. QED  BY <2>1, <2>2
<1>6. ASSUME NEW eos \in BOOLEAN,
             \/ req'[r] = Generate(x, eos)
             \/ req'[r] = Close(Generate(x, eos))
             \/ \E c : req'[r] = [Generate(x, eos) EXCEPT !.routing_decision = c]
      PROVE  Same(req'[r])
  <2> DEFINE g == Generate(x, eos)
  <2>1. g \in Request /\ Same(g)  BY <1>5
  <2>2. \/ req'[r] = g \/ req'[r] = Close(g)
        \/ \E c : req'[r] = [g EXCEPT !.routing_decision = c]
    BY <1>6
  <2> HIDE DEF g, Same
  <2>3. QED  BY <1>4, <2>1, <2>2
<1>7. Same(req'[r]) \/ req'[r].max_tokens \in MaxTokensChoices
  <2>1. CASE req'[r] = x  BY <2>1
  <2>2. CASE Cancel(r) /\ req'[r] = [x EXCEPT !.result = "cancelled"]  BY <1>2, <2>2
  <2>3. CASE \E m \in MaxTokensChoices, s \in StreamChoices : req'[r] = NewRequest(m, s)
    BY <1>3, <2>3
  <2>4. CASE req'[r] \in {React(x), Close(x), Reset(x)}  BY <1>1, <1>4, <2>4
  <2> HIDE DEF Same
  <2>5. QED  BY <1>6, <2>1, <2>2, <2>3, <2>4, OneStepOn
<1>8. QED  BY <1>7

\* What the tokens of a step say of texts that end with token T[r]: as long as
\* a text is not past its end, its next token is the last in the end test's
\* sense if and only if it is the last.
TextsEndAt(T) ==
    \A r \in Requests :
        LET n == req'[r].n_generated
        IN  n = req[r].n_generated + 1 /\ n <= T[r] =>
               (req'[r].finish_reason = "eos" \/ n >= TokenLimit(req[r]) <=> n = T[r])

\* No text goes beyond its end; one that is there is finished in the same tick,
\* and a completed one is there unless the probe cut it.
UpToTheEnd(T) ==
    /\ \A r \in ToSet(active) :
          /\ req[r].n_generated <= T[r]
          /\ req[r].n_generated = T[r] <=> phase \in {"route", "finish"} /\ r \in finished_ids
    /\ \A r \in Completed :
          /\ req[r].n_generated <= T[r]
          /\ ~req[r].terminated_by_probe => req[r].n_generated = T[r]

LEMMA AdmitOneText ==
    ASSUME NEW T \in [Requests -> Nat \ {0}], Sound, UpToTheEnd(T), TextsEndAt(T),
           queue # <<>>, NEW eos \in BOOLEAN, AdmitOne(eos),
           phase \notin {"route", "finish"}, phase' \notin {"route", "finish"}
    PROVE  UpToTheEnd(T)'
<1> DEFINE r == Head(queue)
           y == Generate(req[r], eos)
<1>1. /\ queue \in Seq(Requests) /\ active \in Seq(Requests) /\ req \in [Requests -> Request]
      /\ ToSet(queue) \subseteq Requests /\ ToSet(active) \subseteq Requests
      /\ ToSet(queue) \cap ToSet(active) = {}
      /\ ToSet(queue) \cup ToSet(active) = (1..submitted) \ Completed
      /\ Completed \subseteq Requests
  BY Places DEF Sound
<1>2. /\ r \in ToSet(queue) /\ r \in Requests /\ r \notin ToSet(active) /\ r \notin Completed
      /\ req[r] \in Request
  BY <1>1, TailElements
<1>3. y \in Request /\ y.n_generated = 1 /\ req[r].n_generated = 0
  BY <1>1, <1>2, AdmittedFresh DEF Sound, VerdictInv, Fresh
<1>4. req[r].finish_reason = "none"  BY <1>2, NobodyEnds DEF Sound
<1>5. /\ y.finish_reason = "eos" <=> eos
      /\ AtEnd(y, eos) <=> eos \/ y.n_generated >= TokenLimit(req[r])
  BY <1>2, <1>4, GenerateEnds
<1>6. \/ /\ AtEnd(y, eos) /\ req' = [req EXCEPT ![r] = Close(y)] /\ active' = active
      \/ /\ ~AtEnd(y, eos) /\ req' = [req EXCEPT ![r] = y] /\ active' = Append(active, r)
  BY DEF AdmitOne
<1>7. /\ Close(y).n_generated = 1 /\ Close(y).finish_reason = y.finish_reason
      /\ Close(y).completed /\ y.completed = req[r].completed /\ ~req[r].completed
  BY <1>1, <1>2, <1>3, CloseFields, GenerateFields DEF Completed
<1> HIDE DEF r, y
<1>8. \A q \in Requests \ {r} : req'[q] = req[q]  BY <1>1, <1>6
<1>9. req'[r] \in {y, Close(y)}  BY <1>1, <1>2, <1>6
<1>10. req'[r].n_generated = 1 /\ req'[r].finish_reason = y.finish_reason
  BY <1>3, <1>7, <1>9
<1>11. AtEnd(y, eos) <=> T[r] = 1
  <2>1. T[r] \in Nat \ {0}  BY <1>2
  <2>2. req'[r].n_generated = req[r].n_generated + 1 /\ req'[r].n_generated <= T[r]
    BY <1>3, <1>10, <2>1
  <2>3. req'[r].finish_reason = "eos" \/ req'[r].n_generated >= TokenLimit(req[r])
           <=> req'[r].n_generated = T[r]
    BY <1>2, <2>2 DEF TextsEndAt
  <2>4. QED  BY <1>3, <1>5, <1>10, <2>3
<1>12. ASSUME NEW q \in ToSet(active')
       PROVE  req'[q].n_generated <= T[q] /\ req'[q].n_generated # T[q]
  <2>1. CASE q \in ToSet(active)  BY <1>1, <1>2, <1>8, <2>1 DEF UpToTheEnd
  <2>2. CASE q \notin ToSet(active)
    <3>1. active' = Append(active, r) /\ ~AtEnd(y, eos)  BY <1>6, <2>2
    <3>2. q = r  BY <1>1, <1>2, <2>2, <3>1, AppendElements
    <3>3. T[r] \in Nat \ {0} /\ T[r] # 1  BY <1>2, <1>11, <3>1
    <3>4. QED  BY <1>10, <3>2, <3>3
  <2>3. QED  BY <2>1, <2>2
<1>13. ASSUME NEW q \in Completed'
       PROVE  /\ req'[q].n_generated <= T[q]
              /\ ~req'[q].terminated_by_probe => req'[q].n_generated = T[q]
  <2>1. q \in Requests /\ req'[q].completed  BY DEF Completed
  <2>2. CASE q # r
    <3>1. q \in Completed /\ req'[q] = req[q]  BY <1>8, <2>1, <2>2 DEF Completed
    <3>2. QED  BY <3>1 DEF UpToTheEnd
  <2>3. CASE q = r
    <3>1. AtEnd(y, eos)  BY <1>1, <1>2, <1>6, <1>7, <2>1, <2>3
    <3>2. QED  BY <1>10, <1>11, <2>3, <3>1
  <2>4. QED  BY <2>2, <2>3
<1>14. QED  BY <1>12, <1>13 DEF UpToTheEnd

LEMMA TickText ==
    ASSUME NEW T \in [Requests -> Nat \ {0}], Sound, UpToTheEnd(T), Tick, TextsEndAt(T)
    PROVE  UpToTheEnd(T)'
<1>1. /\ active \in Seq(Requests) /\ req \in [Requests -> Request] /\ IsInjective(active)
      /\ ToSet(active) \subseteq Requests /\ Completed \subseteq Requests
      /\ ToSet(queue) \cup ToSet(active) = (1..submitted) \ Completed
      /\ \A i \in DOMAIN active : active[i] \in ToSet(active)
      /\ T \in [Requests -> Nat]
  BY Places DEF Sound
<1>2. CASE FillSlot
  <2>1. queue # <<>> /\ phase = "admit" /\ phase' = "admit"
    BY <1>2 DEF FillSlot, MayAdmit
  <2>2. QED  BY <1>2, <2>1, AdmitOneText DEF FillSlot
<1>3. CASE RefillSlot
  <2>1. queue # <<>> /\ phase = "readmit" /\ phase' = "preempt"
    BY <1>3 DEF RefillSlot, Sound, Safety, RefillPossible
  <2>2. QED  BY <1>3, <2>1, AdmitOneText DEF RefillSlot
<1>4. CASE Preempt
  <2>1. PICK i \in VictimSlots :
           /\ active' = RemoveAt(active, i)
           /\ req' = [req EXCEPT ![active[i]] = Reset(req[active[i]])]
    BY <1>4 DEF Preempt
  <2> DEFINE r == active[i]
  <2>2. i \in DOMAIN active /\ r \in ToSet(active) /\ r \in Requests /\ r \notin Completed
    BY <1>1 DEF VictimSlots
  <2>3. phase = "preempt" /\ phase' = "readmit"  BY <1>4 DEF Preempt
  <2>4. ToSet(active') = ToSet(active) \ {r}  BY <1>1, <2>1, <2>2, RemoveAtElements
  <2>5. ~Reset(req[r]).completed  BY <1>1, <2>2, ResetFields DEF Completed
  <2> HIDE DEF r
  <2>6. req'[r] = Reset(req[r]) /\ \A q \in Requests \ {r} : req'[q] = req[q]
    BY <1>1, <2>1, <2>2 DEF r
  <2>7. Completed' = Completed  BY <2>2, <2>5, <2>6 DEF Completed
  <2>8. QED  BY <1>1, <2>2, <2>3, <2>4, <2>6, <2>7 DEF UpToTheEnd
<1>5. CASE Decode
  <2>1. /\ UNCHANGED active /\ phase = "decode" /\ phase' = "route"
        /\ \A q \in Requests : q \notin ToSet(active) => req'[q] = req[q]
    BY <1>5 DEF Decode
  <2>2. ASSUME NEW q \in ToSet(active)
        PROVE  /\ req'[q].n_generated <= T[q] /\ ~req'[q].completed
               /\ req'[q].n_generated = T[q] <=> q \in finished_ids'
    <3>1. /\ q \in Requests /\ req'[q].n_generated = req[q].n_generated + 1
          /\ req'[q].completed = req[q].completed
          /\ q \in finished_ids' <=> \/ req'[q].finish_reason = "eos"
                                     \/ req'[q].n_generated >= TokenLimit(req[q])
      BY <1>5, DecodeOn DEF Sound
    <3>2. req[q].n_generated \in Nat /\ T[q] \in Nat  BY <1>1, <3>1 DEF Request
    <3>3. req[q].n_generated <= T[q] /\ req[q].n_generated # T[q]
      BY <2>1 DEF UpToTheEnd
    <3>4. req'[q].n_generated <= T[q]  BY <3>1, <3>2, <3>3
    <3>5. req'[q].finish_reason = "eos" \/ req'[q].n_generated >= TokenLimit(req[q])
             <=> req'[q].n_generated = T[q]
      BY <3>1, <3>4 DEF TextsEndAt
    <3>6. ~req[q].completed  BY <1>1 DEF Completed
    <3>7. QED  BY <3>1, <3>4, <3>5, <3>6
  <2>3. ASSUME NEW q \in Completed'
        PROVE  q \in Completed /\ req'[q] = req[q]
    BY <2>1, <2>2 DEF Completed
  <2>4. \A q \in ToSet(active') :
           /\ req'[q].n_generated <= T[q]
           /\ req'[q].n_generated = T[q]
                 <=> phase' \in {"route", "finish"} /\ q \in finished_ids'
    BY <2>1, <2>2
  <2>5. \A q \in Completed' :
           /\ req'[q].n_generated <= T[q]
           /\ ~req'[q].terminated_by_probe => req'[q].n_generated = T[q]
    BY <2>3 DEF UpToTheEnd
  <2>6. QED  BY <2>4, <2>5 DEF UpToTheEnd
<1>6. CASE Route
  <2>1. /\ UNCHANGED <<active, finished_ids>> /\ phase = "route" /\ phase' = "finish"
        /\ req' = [q \in Requests |-> IF q \in NewlyRouted THEN React(req[q]) ELSE req[q]]
        /\ NewlyRouted \subseteq ToSet(active)
    BY <1>6 DEF Route, NewlyRouted
  <2>2. \A q \in Requests : /\ req'[q].n_generated = req[q].n_generated
                            /\ req'[q].completed = req[q].completed
    BY <1>1, <2>1, ReactFields
  <2>3. \A q \in Completed : req'[q] = req[q]  BY <1>1, <2>1
  <2>4. Completed' = Completed  BY <2>2 DEF Completed
  <2>5. QED  BY <1>1, <2>1, <2>2, <2>3, <2>4 DEF UpToTheEnd
<1>7. CASE Finish
  <2>1. PICK i \in DOMAIN active :
           /\ active[i] \in finished_ids \cup terminated_ids
           /\ active' = RemoveAt(active, i)
           /\ req' = [req EXCEPT ![active[i]] = Close(req[active[i]])]
    BY <1>7 DEF Finish
  <2>2. phase = "finish" /\ UNCHANGED <<phase, finished_ids>>  BY <1>7 DEF Finish
  <2> DEFINE r == active[i]
  <2>3. r \in ToSet(active) /\ r \in Requests /\ r \in finished_ids \cup terminated_ids
    BY <1>1, <2>1
  <2>4. ToSet(active') = ToSet(active) \ {r}  BY <1>1, <2>1, RemoveAtElements
  <2>5. /\ Close(req[r]).n_generated = req[r].n_generated
        /\ Close(req[r]).terminated_by_probe = req[r].terminated_by_probe
    BY <1>1, <2>3, CloseFields
  <2> HIDE DEF r
  <2>6. req'[r] = Close(req[r]) /\ \A q \in Requests \ {r} : req'[q] = req[q]
    BY <1>1, <2>1, <2>3 DEF r
  <2>7. ASSUME r \notin finished_ids PROVE req[r].terminated_by_probe
    BY <2>2, <2>3, <2>7 DEF Sound, EndsNoted, VerdictInv, Judged, SaysSo
  <2>8. req[r].n_generated <= T[r] /\ (r \in finished_ids => req[r].n_generated = T[r])
    BY <2>2, <2>3 DEF UpToTheEnd
  <2>9. ASSUME NEW q \in Completed'
        PROVE  /\ req'[q].n_generated <= T[q]
               /\ ~req'[q].terminated_by_probe => req'[q].n_generated = T[q]
    <3>1. CASE q = r  BY <2>5, <2>6, <2>7, <2>8, <3>1
    <3>2. CASE q # r
      <4>1. q \in Completed /\ req'[q] = req[q]  BY <2>6, <3>2 DEF Completed
      <4>2. QED  BY <4>1 DEF UpToTheEnd
    <3>3. QED  BY <3>1, <3>2
  <2>10. \A q \in ToSet(active') :
            /\ req'[q].n_generated <= T[q]
            /\ req'[q].n_generated = T[q]
                  <=> phase' \in {"route", "finish"} /\ q \in finished_ids'
    BY <1>1, <2>2, <2>4, <2>6 DEF UpToTheEnd
  <2>11. QED  BY <2>9, <2>10 DEF UpToTheEnd
<1>8. CASE BeginTick \/ EndFill \/ EndAdmission \/ SkipDecode \/ EndTick
  <2>1. UNCHANGED <<active, req>> /\ phase' \notin {"route", "finish"}
    BY <1>8 DEF BeginTick, EndFill, EndAdmission, SkipDecode, EndTick
  <2>2. \A q \in ToSet(active) : ~(phase \in {"route", "finish"} /\ q \in finished_ids)
    BY <1>8 DEF BeginTick, EndFill, EndAdmission, SkipDecode, EndTick
  <2>3. Completed' = Completed  BY <2>1 DEF Completed
  <2>4. QED  BY <2>1, <2>2, <2>3 DEF UpToTheEnd
<1>9. QED  BY <1>2, <1>3, <1>4, <1>5, <1>6, <1>7, <1>8 DEF Tick, TryAdmit

\* A run whose requests all ask for m tokens and whose texts end with T's.
RunInv(T, m) == Sound /\ UpToTheEnd(T) /\ \A r \in Requests : req[r].max_tokens = m

LEMMA RunStarts ==
    ASSUME NEW T, NEW m \in Int,
           queue' = [i \in Requests |-> i], active' = <<>>, cache' = {},
           req' = [r \in Requests |-> NewRequest(m, FALSE)],
           submitted' = NRequests, phase' = "await", attempts' = 0,
           finished_ids' = {}, terminated_ids' = {},
           total' = [admitted |-> 0, finished |-> 0, probe_terminated |-> 0,
                     preemptions |-> 0]
    PROVE  RunInv(T, m)'
<1>1. Sound' /\ Completed' = {}  BY StartedSound
<1>2. ToSet(active') = {}  BY DEF ToSet
<1>3. UpToTheEnd(T)'  BY <1>1, <1>2 DEF UpToTheEnd
<1>4. \A r \in Requests : req'[r].max_tokens = m  BY DEF NewRequest
<1>5. QED  BY <1>1, <1>3, <1>4 DEF RunInv

LEMMA RunGoesOn ==
    ASSUME NEW T \in [Requests -> Nat \ {0}], NEW m, MaxTokensChoices = {m},
           RunInv(T, m), Tick, TextsEndAt(T)
    PROVE  RunInv(T, m)'
<1>1. Sound /\ UpToTheEnd(T) /\ \A r \in Requests : req[r].max_tokens = m
  BY DEF RunInv
<1>2. [Next]_vars  BY DEF Next
<1>3. Sound'  BY <1>1, <1>2, NextSound
<1>4. UpToTheEnd(T)'  BY <1>1, TickText
<1>5. \A r \in Requests : req'[r].max_tokens = m  BY <1>1, <1>2, LimitsStay DEF Sound
<1>6. QED  BY <1>3, <1>4, <1>5 DEF RunInv

\* Nothing of it changes while the batcher does nothing.
LEMMA RunStandsStill ==
    ASSUME NEW T, NEW m, RunInv(T, m), UNCHANGED vars
    PROVE  RunInv(T, m)'
<1>1. Sound'  BY NextSound DEF RunInv
<1>2. active' = active /\ req' = req /\ phase' = phase /\ finished_ids' = finished_ids
  BY DEF vars
<1>3. Completed' = Completed  BY <1>2 DEF Completed
<1>4. UpToTheEnd(T)'  BY <1>2, <1>3 DEF RunInv, UpToTheEnd
<1>5. QED  BY <1>1, <1>2, <1>4 DEF RunInv

\* When every future is set, every text is whole or was cut at the gate.
LEMMA RunEnds ==
    ASSUME NEW T, NEW m, RunInv(T, m), Impatient = {},
           \A r \in Requests : req[r].result # "pending"
    PROVE  /\ req \in [Requests -> Request] /\ total \in Totals
           /\ \A r \in Requests :
                 /\ req[r].n_generated <= T[r]
                 /\ ~req[r].terminated_by_probe => req[r].n_generated = T[r]
                 /\ req[r].terminated_by_probe =>
                       Strategy = "probe_terminate" /\ req[r].n_generated >= 2
           /\ total.probe_terminated = Cardinality({r \in Requests : req[r].terminated_by_probe})
<1>1. Sound /\ UpToTheEnd(T)  BY DEF RunInv
<1>2. req \in [Requests -> Request] /\ total \in Totals  BY <1>1, Places DEF Sound
<1>3. \A r \in Requests : req[r].completed
  BY <1>1, <1>2 DEF Sound, Answers, Request
<1>4. Completed = Requests  BY <1>3 DEF Completed
<1>5. \A r \in Requests : CutRight(req[r])  BY <1>1, <1>4 DEF Sound, VerdictInv
<1>6. {r \in Completed : req[r].finish_reason = "probe_terminated"}
         = {r \in Requests : req[r].terminated_by_probe}
  BY <1>4, <1>5 DEF CutRight, SaysSo
<1>7. total.probe_terminated = Cardinality({r \in Requests : req[r].terminated_by_probe})
  BY <1>1, <1>6 DEF Sound, Counted, CountersAgree
<1>8. ASSUME NEW r \in Requests, req[r].terminated_by_probe
      PROVE  Strategy = "probe_terminate" /\ req[r].n_generated >= 2
  BY <1>5, <1>8, GateTokenIs DEF CutRight, Terminates
<1>9. QED  BY <1>1, <1>2, <1>4, <1>7, <1>8 DEF UpToTheEnd

-----------------------------------------------------------------------------
(* Time.  The ticks are counted from outside: t is the tick's number, or   *)
(* that of the last one between two ticks, and c says in which tick each   *)
(* request was completed.  T says again where the texts end.               *)

\* A text of n tokens is completed so many ticks after its prefill, which is
\* followed by a decode step in the same tick.
Span(n) == IF n < 2 THEN 0 ELSE n - 2

Early == phase \in {"admit", "preempt", "readmit", "decode"}
Ran == ToSet(active) \cup Completed

\* The tick that admitted a request x of the batch, or a completed one, with a
\* text of n tokens; k is the tick that completed it.
Begun(x, early, n, t, k) ==
    IF x.completed THEN k - Span(n) ELSE t - x.n_generated + (IF early THEN 1 ELSE 2)

\* A step from tick t to tick u, after which d says what c said.
Clock(t, u, c, d) ==
    /\ u = IF phase = "await" THEN t + 1 ELSE t
    /\ d = [r \in Requests |-> IF req'[r].completed /\ ~req[r].completed THEN u ELSE c[r]]

\* What a step may be, seen from here.  An admission takes the head of the queue
\* and begins its run in this tick, and if the first token is the last the run is
\* over with it.
Admits(r, T, t, u, c, d) ==
    /\ queue # <<>> /\ r = Head(queue) /\ r \in ToSet(queue) /\ r \in Requests
    /\ queue' = Tail(queue) /\ ToSet(queue') = ToSet(queue) \ {r}
    /\ Len(active) < MaxBatchSize
    /\ u = t /\ Early /\ (phase = "admit" <=> phase' = "admit")
    /\ r \notin Ran /\ Ran' = Ran \cup {r} /\ ToSet(active') \subseteq ToSet(active) \cup {r}
    /\ UNCHANGED submitted
    /\ \A q \in Requests : q # r => req'[q] = req[q]
    /\ \A q \in Requests : req'[q].priority = req[q].priority
    /\ \A q \in Ran : /\ d[q] = c[q]
                      /\ Begun(req'[q], Early', T[q], u, d[q])
                            = Begun(req[q], Early, T[q], t, c[q])
    /\ Begun(req'[r], Early', T[r], u, d[r]) = t
    /\ r \in Completed' => T[r] = 1 /\ d[r] = t

\* A preemption takes a deprioritized request from the batch to the tail.
Yields(v, T, t, u, c, d) ==
    /\ v \in ToSet(active) /\ v \in Requests /\ req[v].priority = 1
    /\ queue' = Append(queue, v) /\ ToSet(queue') = ToSet(queue) \cup {v}
    /\ u = t /\ Early /\ Early' /\ phase # "admit" /\ phase' # "admit"
    /\ Ran' = Ran \ {v} /\ Completed' = Completed /\ ToSet(active') \subseteq ToSet(active)
    /\ UNCHANGED submitted
    /\ \A q \in Requests : req'[q].priority = req[q].priority
    /\ \A q \in Requests : q # v => req'[q] = req[q]
    /\ \A q \in Ran' : /\ d[q] = c[q]
                       /\ Begun(req'[q], Early', T[q], u, d[q])
                             = Begun(req[q], Early, T[q], t, c[q])

\* The other steps leave the queue alone, and take nobody else in.  A tick goes
\* on from filling its slots with a full batch or an empty queue.
Stays(T, t, u, c, d) ==
    /\ UNCHANGED <<queue, submitted>> /\ Ran' = Ran /\ ToSet(active') \subseteq ToSet(active)
    /\ \/ phase = "await" /\ phase' = "admit" /\ u = t + 1
       \/ phase = "admit" /\ ~MayAdmit /\ phase' # "admit" /\ u = t
       \/ phase \notin {"await", "admit"} /\ phase' # "admit" /\ u = t
    /\ Early' => Early \/ phase = "await"
    /\ \A q \in Requests : q \notin ToSet(active) => req'[q] = req[q] /\ d[q] = c[q]
    /\ \A q \in Requests : req'[q].priority = 0 => req[q].priority = 0
    /\ \A q \in Requests : d[q] \in {c[q], u}
    /\ \A q \in Completed' : q \in Completed \/ (d[q] = u /\ ~Early')
    /\ \A q \in Ran : Begun(req'[q], Early', T[q], u, d[q])
                         = Begun(req[q], Early, T[q], t, c[q])

LEMMA AdmitMoves ==
    ASSUME NEW T \in [Requests -> Nat \ {0}], NEW t \in Nat, NEW u, NEW c, NEW d,
           Sound, Sound', UpToTheEnd(T)', Clock(t, u, c, d), Strategy # "probe_terminate",
           queue # <<>>, NEW eos \in BOOLEAN, AdmitOne(eos), NEW r, r = Head(queue),
           phase \in {"admit", "readmit"}, phase' \in {"admit", "preempt"},
           phase = "admit" <=> phase' = "admit", Len(active) < MaxBatchSize
    PROVE  Admits(r, T, t, u, c, d)
<1> DEFINE y == Generate(req[r], eos)
<1>1. /\ queue \in Seq(Requests) /\ active \in Seq(Requests) /\ req \in [Requests -> Request]
      /\ ToSet(queue) \subseteq Requests /\ ToSet(active) \subseteq Requests
      /\ ToSet(queue) \cap ToSet(active) = {} /\ IsInjective(queue)
      /\ ToSet(queue) \cup ToSet(active) = (1..submitted) \ Completed
      /\ Completed \subseteq Requests
  BY Places DEF Sound
<1>2. /\ r \in ToSet(queue) /\ r \in Requests /\ r \notin ToSet(active) /\ r \notin Completed
      /\ ToSet(Tail(queue)) = ToSet(queue) \ {r} /\ req[r] \in Request
  BY <1>1, TailElements
<1>3. y \in Request /\ y.n_generated = 1 /\ y.priority = req[r].priority
  BY <1>1, <1>2, AdmittedFresh DEF Sound, VerdictInv
<1>4. /\ Close(y).n_generated = 1 /\ Close(y).completed /\ Close(y).priority = y.priority
      /\ ~y.completed
  <2>1. y.completed = req[r].completed  BY <1>2, GenerateFields
  <2>2. ~req[r].completed  BY <1>2 DEF Completed
  <2>3. QED  BY <1>3, <2>1, <2>2, CloseFields
<1>5. /\ queue' = Tail(queue) /\ UNCHANGED submitted
      /\ \/ req' = [req EXCEPT ![r] = Close(y)] /\ active' = active
         \/ req' = [req EXCEPT ![r] = y] /\ active' = Append(active, r)
  BY DEF AdmitOne
<1> HIDE DEF y
<1>6. \A q \in Requests : q # r => req'[q] = req[q]  BY <1>1, <1>5
<1>7. \/ req'[r] = Close(y) /\ active' = active
      \/ req'[r] = y /\ active' = Append(active, r)
  BY <1>1, <1>2, <1>5
<1>8. /\ req'[r].n_generated = 1 /\ req'[r].priority = req[r].priority
      /\ r \in Completed' <=> req'[r].completed
      /\ r \in Completed' => active' = active
      /\ r \notin Completed' => active' = Append(active, r)
  BY <1>2, <1>3, <1>4, <1>7 DEF Completed
<1>9. ToSet(Append(active, r)) = ToSet(active) \cup {r}  BY <1>1, <1>2, AppendElements
<1>10. Completed' \ {r} = Completed  BY <1>2, <1>6 DEF Completed
<1>11. /\ Ran' = Ran \cup {r} /\ ToSet(active') \subseteq ToSet(active) \cup {r} /\ r \notin Ran
  BY <1>2, <1>8, <1>9, <1>10 DEF Ran
<1>12. u = t /\ phase # "await" /\ Early /\ Early'  BY DEF Clock, Early
<1>13. ASSUME r \in Completed'
       PROVE  T[r] = 1 /\ d[r] = t
  <2>1. ~req'[r].terminated_by_probe
    BY <1>13 DEF Sound, VerdictInv, CutRight, Terminates
  <2>2. T[r] = 1  BY <1>8, <1>13, <2>1 DEF UpToTheEnd
  <2>3. d[r] = u  BY <1>2, <1>8, <1>13 DEF Clock, Completed
  <2>4. QED  BY <1>12, <2>2, <2>3
<1>14. Begun(req'[r], Early', T[r], u, d[r]) = t
  <2>1. CASE r \in Completed'  BY <1>8, <1>13, <2>1 DEF Begun, Span
  <2>2. CASE r \notin Completed'  BY <1>8, <1>12, <2>2 DEF Begun
  <2>3. QED  BY <2>1, <2>2
<1>15. ASSUME NEW q \in Ran
       PROVE  /\ d[q] = c[q]
              /\ Begun(req'[q], Early', T[q], u, d[q]) = Begun(req[q], Early, T[q], t, c[q])
  <2>1. q \in Requests /\ q # r  BY <1>1, <1>11 DEF Ran
  <2>2. req'[q] = req[q] /\ d[q] = c[q]  BY <1>6, <2>1 DEF Clock
  <2>3. QED  BY <1>12, <2>2
<1>16. \A q \in Requests : req'[q].priority = req[q].priority  BY <1>6, <1>8
<1>17. QED
  BY <1>2, <1>5, <1>6, <1>11, <1>12, <1>13, <1>14, <1>15, <1>16 DEF Admits

LEMMA PreemptMoves ==
    ASSUME NEW T, NEW t, NEW u, NEW c, NEW d, Sound, Clock(t, u, c, d), Preempt
    PROVE  \E v \in Requests : Yields(v, T, t, u, c, d)
<1> DEFINE priority == [q \in Requests |-> req[q].priority]
<1>1. PICK i \in VictimSlots :
         /\ active' = RemoveAt(active, i)
         /\ req' = [req EXCEPT ![active[i]] = Reset(req[active[i]])]
         /\ queue' = PushFrontPriorityAware(queue, active[i], priority)
  BY DEF Preempt
<1>2. /\ queue \in Seq(Requests) /\ active \in Seq(Requests) /\ req \in [Requests -> Request]
      /\ IsInjective(active) /\ ToSet(active) \subseteq Requests
      /\ ToSet(queue) \cup ToSet(active) = (1..submitted) \ Completed
      /\ Completed \subseteq Requests
      /\ \A j \in DOMAIN active : active[j] \in ToSet(active)
  BY Places DEF Sound
<1>3. PICK v \in ToSet(active) : v = active[i]  BY <1>2 DEF VictimSlots
<1>4. i \in DOMAIN active /\ v \in Requests /\ req[v].priority = 1 /\ v \notin Completed
  BY <1>2, <1>3 DEF VictimSlots
<1>5. ToSet(active') = ToSet(active) \ {v}  BY <1>1, <1>2, <1>3, <1>4, RemoveAtElements
<1>6. priority \in [Requests -> {0, 1}] /\ priority[v] = 1  BY <1>2, <1>4 DEF Request
<1>7. queue' = PushFrontPriorityAware(queue, v, priority)  BY <1>1, <1>3
<1> HIDE DEF priority
<1>8. queue' = Append(queue, v)  BY <1>2, <1>4, <1>6, <1>7, DeprioritizedIsAppended
<1>9. ToSet(queue') = ToSet(queue) \cup {v}  BY <1>2, <1>4, <1>8, AppendElements
<1>10. req'[v] = Reset(req[v]) /\ \A q \in Requests : q # v => req'[q] = req[q]
  BY <1>1, <1>2, <1>3, <1>4
<1>11. ~req'[v].completed /\ req'[v].priority = req[v].priority
  BY <1>2, <1>4, <1>10, ResetFields DEF Completed
<1>12. Completed' = Completed  BY <1>4, <1>10, <1>11 DEF Completed
<1>13. Ran' = Ran \ {v}  BY <1>4, <1>5, <1>12 DEF Ran
<1>14. u = t /\ phase # "await" /\ Early /\ Early'  BY DEF Clock, Preempt, Early
<1>15. ASSUME NEW q \in Ran'
       PROVE  /\ d[q] = c[q]
              /\ Begun(req'[q], Early', T[q], u, d[q]) = Begun(req[q], Early, T[q], t, c[q])
  <2>1. q \in Requests /\ q # v  BY <1>2, <1>13 DEF Ran
  <2>2. req'[q] = req[q] /\ d[q] = c[q]  BY <1>10, <2>1 DEF Clock
  <2>3. QED  BY <1>14, <2>2
<1>16. \A q \in Requests : req'[q].priority = req[q].priority  BY <1>10, <1>11
<1>17. phase # "admit" /\ phase' # "admit" /\ UNCHANGED submitted  BY DEF Preempt
<1>18. Yields(v, T, t, u, c, d)
  BY <1>4, <1>5, <1>8, <1>9, <1>10, <1>12, <1>13, <1>14, <1>15, <1>16, <1>17 DEF Yields
<1>19. QED  BY <1>4, <1>18

LEMMA OthersStay ==
    ASSUME NEW T \in [Requests -> Nat \ {0}], NEW t \in Nat, NEW u, NEW c \in [Requests -> Nat], NEW d,
           Sound, Sound', UpToTheEnd(T), UpToTheEnd(T)', Clock(t, u, c, d),
           Strategy # "probe_terminate",
           \/ BeginTick \/ EndFill \/ EndAdmission \/ SkipDecode \/ EndTick
           \/ Decode \/ Route \/ Finish
    PROVE  Stays(T, t, u, c, d)
<1>1. /\ active \in Seq(Requests) /\ req \in [Requests -> Request]
      /\ IsInjective(active) /\ ToSet(active) \subseteq Requests
      /\ ToSet(queue) \cup ToSet(active) = (1..submitted) \ Completed
      /\ Completed \subseteq Requests
      /\ \A j \in DOMAIN active : active[j] \in ToSet(active)
      /\ \A q \in Requests : req[q] \in Request
  BY Places DEF Sound
<1>2. \A q \in Requests : d[q] \in {c[q], u}  BY DEF Clock
<1>3. CASE BeginTick \/ EndFill \/ EndAdmission \/ EndTick
  <2>1. UNCHANGED <<queue, active, req, submitted>>
    BY <1>3 DEF BeginTick, EndFill, EndAdmission, EndTick
  <2>2. /\ \/ phase = "await" /\ phase' = "admit" /\ ~Early /\ Early'
           \/ phase = "admit" /\ ~MayAdmit /\ phase' \in {"preempt", "decode"} /\ Early /\ Early'
           \/ phase = "preempt" /\ phase' = "decode" /\ Early /\ Early'
           \/ phase = "finish" /\ phase' = "await" /\ ~Early /\ ~Early'
    BY <1>3 DEF BeginTick, EndFill, EndAdmission, EndTick, Early
  <2>3. Completed' = Completed /\ Ran' = Ran  BY <2>1 DEF Completed, Ran
  <2>4. \A q \in Requests : d[q] = c[q]  BY <2>1 DEF Clock
  <2>5. \A q \in Requests : req[q].n_generated \in Nat /\ c[q] \in Nat  BY <1>1 DEF Request
  <2>6. \A q \in Requests : Begun(req'[q], Early', T[q], u, d[q])
                               = Begun(req[q], Early, T[q], t, c[q])
    BY <2>1, <2>2, <2>4, <2>5 DEF Begun, Clock
  <2>7. /\ \/ phase = "await" /\ phase' = "admit" /\ u = t + 1
           \/ phase = "admit" /\ ~MayAdmit /\ phase' # "admit" /\ u = t
           \/ phase \notin {"await", "admit"} /\ phase' # "admit" /\ u = t
        /\ Early' => Early \/ phase = "await"
    BY <2>2 DEF Clock
  <2>8. \A q \in Ran : q \in Requests  BY <1>1 DEF Ran
  <2>9. QED  BY <1>2, <2>1, <2>3, <2>4, <2>6, <2>7, <2>8 DEF Stays
<1>4. CASE SkipDecode
  <2>1. /\ UNCHANGED <<queue, active, req, submitted>> /\ active = <<>>
        /\ phase = "decode" /\ phase' = "await" /\ ~Early' /\ Early /\ u = t
    BY <1>4 DEF SkipDecode, Early, Clock
  <2>2. Completed' = Completed /\ Ran' = Ran  BY <2>1 DEF Completed, Ran
  <2>3. \A q \in Requests : d[q] = c[q]  BY <2>1 DEF Clock
  <2>4. ToSet(active) = {}  BY <2>1 DEF ToSet
  <2>5. \A q \in Ran : req[q].completed  BY <2>4 DEF Ran, Completed
  <2>6. \A q \in Ran : Begun(req'[q], Early', T[q], u, d[q])
                          = Begun(req[q], Early, T[q], t, c[q])
    BY <1>1, <2>1, <2>3, <2>5 DEF Begun, Ran
  <2>7. QED  BY <1>2, <2>1, <2>2, <2>3, <2>6 DEF Stays
<1>5. CASE Decode
  <2>1. /\ UNCHANGED <<queue, active, submitted>> /\ phase = "decode" /\ phase' = "route"
        /\ ~Early' /\ Early /\ u = t
        /\ \A q \in Requests : q \notin ToSet(active) => req'[q] = req[q]
    BY <1>5 DEF Decode, Early, Clock
  <2>2. ASSUME NEW q \in ToSet(active)
        PROVE  /\ req'[q].n_generated = req[q].n_generated + 1 /\ req[q].n_generated \in Nat
               /\ ~req[q].completed /\ ~req'[q].completed
               /\ req'[q].priority = req[q].priority
    <3>1. /\ q \in Requests /\ req'[q].n_generated = req[q].n_generated + 1
          /\ req'[q].completed = req[q].completed
          /\ \E eos \in BOOLEAN :
                LET y == Generate(req[q], eos)
                IN  req'[q] = y \/ \E p \in Probability : req'[q] = Stamp(y, p)
      BY <1>5, DecodeOn DEF Sound
    <3>2. req[q] \in Request /\ ~req[q].completed  BY <1>1, <3>1 DEF Completed
    <3>3. \A eos \in BOOLEAN : /\ Generate(req[q], eos) \in Request
                               /\ Generate(req[q], eos).priority = req[q].priority
      BY <3>2, GenerateFields
    <3>4. req'[q].priority = req[q].priority  BY <3>1, <3>3, StampFields
    <3>5. QED  BY <3>1, <3>2, <3>4 DEF Request
  <2>3. \A q \in Requests : req'[q].completed <=> req[q].completed
    BY <2>1, <2>2
  <2>4. Completed' = Completed /\ Ran' = Ran  BY <2>1, <2>3 DEF Completed, Ran
  <2>5. \A q \in Requests : d[q] = c[q]  BY <2>1, <2>3 DEF Clock
  <2>6. ASSUME NEW q \in Ran
        PROVE  Begun(req'[q], Early', T[q], u, d[q]) = Begun(req[q], Early, T[q], t, c[q])
    <3>1. CASE q \in ToSet(active)  BY <2>1, <2>2, <3>1 DEF Begun
    <3>2. CASE q \notin ToSet(active)
      <4>1. q \in Completed /\ q \in Requests  BY <1>1, <3>2 DEF Ran
      <4>2. req'[q] = req[q] /\ req[q].completed  BY <2>1, <3>2, <4>1 DEF Completed
      <4>3. QED  BY <2>5, <4>1, <4>2 DEF Begun
    <3>3. QED  BY <3>1, <3>2
  <2>7. QED  BY <1>2, <2>1, <2>2, <2>4, <2>5, <2>6 DEF Stays
<1>6. CASE Route
  <2>1. /\ UNCHANGED <<queue, active, submitted>> /\ phase = "route" /\ phase' = "finish"
        /\ ~Early' /\ ~Early /\ u = t
        /\ req' = [q \in Requests |-> IF q \in NewlyRouted THEN React(req[q]) ELSE req[q]]
        /\ NewlyRouted \subseteq ToSet(active)
    BY <1>6 DEF Route, NewlyRouted, Early, Clock
  <2>2. ASSUME NEW q \in Requests
        PROVE  /\ req'[q].n_generated = req[q].n_generated
               /\ req'[q].completed = req[q].completed
               /\ req'[q].priority = 0 => req[q].priority = 0
    <3>1. /\ React(req[q]).n_generated = req[q].n_generated
          /\ React(req[q]).completed = req[q].completed
          /\ React(req[q]).priority \in {req[q].priority, 1}
      BY <1>1, ReactFields
    <3>2. req'[q] = req[q] \/ req'[q] = React(req[q])  BY <2>1
    <3>3. QED  BY <3>1, <3>2
  <2>3. Completed' = Completed /\ Ran' = Ran  BY <2>1, <2>2 DEF Completed, Ran
  <2>4. \A q \in Requests : d[q] = c[q]  BY <2>2 DEF Clock
  <2>5. \A q \in Requests : Begun(req'[q], Early', T[q], u, d[q])
                               = Begun(req[q], Early, T[q], t, c[q])
    BY <2>1, <2>2, <2>4 DEF Begun
  <2>6. QED  BY <1>1, <1>2, <2>1, <2>2, <2>3, <2>4, <2>5 DEF Ran, Stays
<1>7. CASE Finish
  <2>1. PICK i \in DOMAIN active :
           /\ active' = RemoveAt(active, i)
           /\ req' = [req EXCEPT ![active[i]] = Close(req[active[i]])]
    BY <1>7 DEF Finish
  <2>2. /\ phase = "finish" /\ phase' = "finish" /\ UNCHANGED <<queue, submitted>>
        /\ ~Early' /\ ~Early /\ u = t
    BY <1>7 DEF Finish, Early, Clock
  <2>3. PICK r \in ToSet(active) : r = active[i]  BY <1>1
  <2>4. r \in Requests /\ ~req[r].completed /\ req[r] \in Request  BY <1>1 DEF Completed
  <2>5. req'[r] = Close(req[r]) /\ \A q \in Requests : q # r => req'[q] = req[q]
    BY <1>1, <2>1, <2>3, <2>4
  <2>6. /\ req'[r].completed /\ req'[r].n_generated = req[r].n_generated
        /\ req'[r].priority = req[r].priority
    BY <2>4, <2>5, CloseFields
  <2>7. ToSet(active') = ToSet(active) \ {r}  BY <1>1, <2>1, <2>3, RemoveAtElements
  <2>8. Completed' = Completed \cup {r}  BY <2>4, <2>5, <2>6 DEF Completed
  <2>9. Ran' = Ran  BY <2>7, <2>8 DEF Ran
  <2>10. d[r] = u /\ \A q \in Requests : q # r => d[q] = c[q]
    BY <2>2, <2>4, <2>5, <2>6 DEF Clock
  <2>11. ~req'[r].terminated_by_probe
    BY <2>8 DEF Sound, VerdictInv, CutRight, Terminates
  <2>12. req[r].n_generated = T[r] /\ T[r] \in Nat /\ T[r] >= 2
    <3>1. req'[r].n_generated = T[r]  BY <2>8, <2>11 DEF UpToTheEnd
    <3>2. req[r].n_generated >= 2  BY <2>2 DEF Sound, VerdictInv, Judged
    <3>3. QED  BY <2>4, <2>6, <3>1, <3>2
  <2>13. Begun(req'[r], Early', T[r], u, d[r]) = Begun(req[r], Early, T[r], t, c[r])
    BY <2>2, <2>4, <2>6, <2>10, <2>12 DEF Begun, Span
  <2>14. ASSUME NEW q \in Ran
         PROVE  Begun(req'[q], Early', T[q], u, d[q]) = Begun(req[q], Early, T[q], t, c[q])
    <3>1. CASE q = r  BY <2>13, <3>1
    <3>2. CASE q # r
      <4>1. q \in Requests  BY <1>1 DEF Ran
      <4>2. req'[q] = req[q] /\ d[q] = c[q]  BY <2>5, <2>10, <3>2, <4>1
      <4>3. QED  BY <2>2, <4>2 DEF Begun
    <3>3. QED  BY <3>1, <3>2
  <2>15. QED  BY <1>2, <2>2, <2>5, <2>6, <2>7, <2>8, <2>9, <2>10, <2>14 DEF Stays
<1>8. QED  BY <1>3, <1>4, <1>5, <1>6, <1>7

LEMMA TickMoves ==
    ASSUME NEW T \in [Requests -> Nat \ {0}], NEW t \in Nat, NEW u,
           NEW c \in [Requests -> Nat], NEW d, Sound, Sound', UpToTheEnd(T), UpToTheEnd(T)',
           Clock(t, u, c, d), Tick, Strategy # "probe_terminate"
    PROVE  \/ \E r \in Requests : Admits(r, T, t, u, c, d)
           \/ \E v \in Requests : Yields(v, T, t, u, c, d)
           \/ Stays(T, t, u, c, d)
<1>1. CASE FillSlot
  <2>1. /\ phase = "admit" /\ phase' = "admit" /\ queue # <<>> /\ Len(active) < MaxBatchSize
        /\ \E eos \in BOOLEAN : AdmitOne(eos)
    BY <1>1 DEF FillSlot, MayAdmit, HasFreeSlot
  <2>2. PICK r : r = Head(queue)  OBVIOUS
  <2>3. Admits(r, T, t, u, c, d)  BY <2>1, <2>2, AdmitMoves
  <2>4. QED  BY <2>3 DEF Admits
<1>2. CASE RefillSlot
  <2>1. /\ phase = "readmit" /\ phase' = "preempt" /\ queue # <<>> /\ Len(active) < MaxBatchSize
        /\ \E eos \in BOOLEAN : AdmitOne(eos)
    BY <1>2 DEF RefillSlot, Sound, Safety, RefillPossible
  <2>2. PICK r : r = Head(queue)  OBVIOUS
  <2>3. Admits(r, T, t, u, c, d)  BY <2>1, <2>2, AdmitMoves
  <2>4. QED  BY <2>3 DEF Admits
<1>3. CASE Preempt  BY <1>3, PreemptMoves
<1>4. CASE \/ BeginTick \/ EndFill \/ EndAdmission \/ SkipDecode \/ EndTick
           \/ Decode \/ Route \/ Finish
  BY <1>4, OthersStay
<1>5. QED  BY <1>1, <1>2, <1>3, <1>4 DEF Tick, TryAdmit

-----------------------------------------------------------------------------
(* The queue when all requests were submitted at the start: those that have *)
(* not run are ahead of the preempted, in order, and came after all others. *)

Line ==
    /\ submitted = NRequests
    /\ \A i, j \in DOMAIN queue :
          i < j /\ req[queue[j]].priority = 0 =>
             req[queue[i]].priority = 0 /\ queue[i] < queue[j]
    /\ \A r \in NeverAdmitted, q \in Ran : q < r

LEMMA HeadOfLine ==
    ASSUME Sound, Line, queue # <<>>, NEW r, r = Head(queue), NEW w \in NeverAdmitted
    PROVE  req[r].priority = 0 /\ r \in NeverAdmitted /\ (w = r \/ r < w)
<1>1. queue \in Seq(Requests) /\ ToSet(queue) \subseteq Requests  BY Places DEF Sound
<1>2. r \in ToSet(queue) /\ r = queue[1] /\ 1 \in DOMAIN queue /\ DOMAIN queue \subseteq Nat \ {0}
  <2>1. Len(queue) \in Nat /\ DOMAIN queue = 1..Len(queue) /\ Len(queue) # 0
    BY <1>1, LenProperties, EmptySeq
  <2>2. QED  BY <1>1, <2>1, TailElements
<1>3. PICK j \in DOMAIN queue : w = queue[j]  BY DEF NeverAdmitted, ToSet
<1>4. req[w].priority = 0  BY DEF NeverAdmitted
<1>5. CASE j = 1  BY <1>2, <1>3, <1>4, <1>5 DEF NeverAdmitted
<1>6. CASE j # 1
  <2>1. 1 < j  BY <1>2, <1>3, <1>6
  <2>2. req[queue[1]].priority = 0 /\ queue[1] < queue[j]
    BY <1>2, <1>3, <1>4, <2>1 DEF Line
  <2>3. QED  BY <1>2, <1>3, <2>2 DEF NeverAdmitted
<1>7. QED  BY <1>5, <1>6

\* Who has not run yet, after each kind of step.
LEMMA NeverMoves ==
    ASSUME NEW T, NEW t, NEW u, NEW c, NEW d, Sound
    PROVE  /\ \A r \in Requests : Admits(r, T, t, u, c, d) => NeverAdmitted' = NeverAdmitted \ {r}
           /\ \A v \in Requests : Yields(v, T, t, u, c, d) => NeverAdmitted' = NeverAdmitted
           /\ Stays(T, t, u, c, d) => NeverAdmitted' = NeverAdmitted
<1>1. /\ ToSet(queue) \subseteq Requests /\ ToSet(queue) \cap ToSet(active) = {}
  BY Places DEF Sound
<1>2. ASSUME NEW r \in Requests, Admits(r, T, t, u, c, d)
      PROVE  NeverAdmitted' = NeverAdmitted \ {r}
  BY <1>1, <1>2 DEF Admits, NeverAdmitted
<1>3. ASSUME NEW v \in Requests, Yields(v, T, t, u, c, d)
      PROVE  NeverAdmitted' = NeverAdmitted
  BY <1>1, <1>3 DEF Yields, NeverAdmitted
<1>4. ASSUME Stays(T, t, u, c, d)
      PROVE  NeverAdmitted' = NeverAdmitted
  <2>1. queue' = queue /\ \A q \in ToSet(queue) : req'[q] = req[q]  BY <1>1, <1>4 DEF Stays
  <2>2. QED  BY <2>1 DEF NeverAdmitted
<1>5. QED  BY <1>2, <1>3, <1>4

LEMMA LineKept ==
    ASSUME NEW T, NEW t, NEW u, NEW c, NEW d, Sound, Line,
           \/ \E r \in Requests : Admits(r, T, t, u, c, d)
           \/ \E v \in Requests : Yields(v, T, t, u, c, d)
           \/ Stays(T, t, u, c, d)
    PROVE  Line'
<1>1. /\ queue \in Seq(Requests) /\ ToSet(queue) \subseteq Requests
      /\ ToSet(queue) \cap ToSet(active) = {}
      /\ Len(queue) \in Nat /\ DOMAIN queue = 1..Len(queue)
      /\ \A i \in DOMAIN queue : queue[i] \in ToSet(queue)
  BY Places, LenProperties DEF Sound, ToSet
<1>2. ASSUME NEW r \in Requests, Admits(r, T, t, u, c, d)
      PROVE  Line'
  <2>1. /\ queue # <<>> /\ r = Head(queue) /\ queue' = Tail(queue)
        /\ \A q \in Requests : req'[q].priority = req[q].priority
        /\ Ran' = Ran \cup {r} /\ submitted' = submitted
    BY <1>2 DEF Admits
  <2>2. NeverAdmitted' = NeverAdmitted \ {r}  BY <1>2, NeverMoves
  <2>3. /\ DOMAIN Tail(queue) = 1..Len(queue) - 1
        /\ \A i \in 1..Len(queue) - 1 : Tail(queue)[i] = queue[i + 1]
    BY <1>1, <2>1, HeadTailProperties, LenProperties
  <2>4. ASSUME NEW i \in DOMAIN queue', NEW j \in DOMAIN queue', i < j,
               req'[queue'[j]].priority = 0
        PROVE  req'[queue'[i]].priority = 0 /\ queue'[i] < queue'[j]
    <3>1. /\ i + 1 \in DOMAIN queue /\ j + 1 \in DOMAIN queue /\ i + 1 < j + 1
          /\ queue'[i] = queue[i + 1] /\ queue'[j] = queue[j + 1]
      BY <1>1, <2>1, <2>3, <2>4
    <3>2. queue[i + 1] \in Requests /\ queue[j + 1] \in Requests  BY <1>1, <3>1
    <3>3. req[queue[j + 1]].priority = 0  BY <2>1, <2>4, <3>1, <3>2
    <3>4. req[queue[i + 1]].priority = 0 /\ queue[i + 1] < queue[j + 1]
      BY <3>1, <3>3 DEF Line
    <3>5. QED  BY <2>1, <3>1, <3>2, <3>4
  <2>5. ASSUME NEW w \in NeverAdmitted', NEW q \in Ran'
        PROVE  q < w
    <3>1. w \in NeverAdmitted /\ w # r  BY <2>2
    <3>2. r < w  BY <2>1, <3>1, HeadOfLine
    <3>3. QED  BY <2>1, <3>1, <3>2 DEF Line
  <2>6. QED  BY <2>1, <2>4, <2>5 DEF Line
<1>3. ASSUME NEW v \in Requests, Yields(v, T, t, u, c, d)
      PROVE  Line'
  <2>1. /\ queue' = Append(queue, v) /\ req[v].priority = 1
        /\ \A q \in Requests : req'[q].priority = req[q].priority
        /\ Ran' = Ran \ {v} /\ submitted' = submitted
    BY <1>3 DEF Yields
  <2>2. NeverAdmitted' = NeverAdmitted  BY <1>3, NeverMoves
  <2>3. /\ DOMAIN Append(queue, v) = 1..Len(queue) + 1
        /\ Append(queue, v)[Len(queue) + 1] = v
        /\ \A i \in 1..Len(queue) : Append(queue, v)[i] = queue[i]
    BY <1>1, AppendProperties, LenProperties
  <2>4. ASSUME NEW i \in DOMAIN queue', NEW j \in DOMAIN queue', i < j,
               req'[queue'[j]].priority = 0
        PROVE  req'[queue'[i]].priority = 0 /\ queue'[i] < queue'[j]
    <3>1. j # Len(queue) + 1  BY <2>1, <2>3, <2>4
    <3>2. /\ i \in DOMAIN queue /\ j \in DOMAIN queue
          /\ queue'[i] = queue[i] /\ queue'[j] = queue[j]
      BY <1>1, <2>1, <2>3, <2>4, <3>1
    <3>3. queue[i] \in Requests /\ queue[j] \in Requests  BY <1>1, <3>2
    <3>4. req[queue[j]].priority = 0  BY <2>1, <2>4, <3>2, <3>3
    <3>5. req[queue[i]].priority = 0 /\ queue[i] < queue[j]
      BY <2>4, <3>2, <3>4 DEF Line
    <3>6. QED  BY <2>1, <3>2, <3>3, <3>5
  <2>5. QED  BY <2>1, <2>2, <2>4 DEF Line
<1>4. ASSUME Stays(T, t, u, c, d)
      PROVE  Line'
  <2>1. /\ UNCHANGED <<queue, submitted>> /\ Ran' = Ran
        /\ \A i \in DOMAIN queue : req'[queue[i]] = req[queue[i]]
    BY <1>1, <1>4 DEF Stays
  <2>2. NeverAdmitted' = NeverAdmitted  BY <1>4, NeverMoves
  <2>3. QED  BY <2>1, <2>2 DEF Line
<1>5. QED  BY <1>2, <1>3, <1>4

-----------------------------------------------------------------------------
(* When requests are completed, and what verdicts they get.                 *)

\* A request that is completed while the tick admits was so by its first token.
Punctual(T, t, c) ==
    \A q \in Completed : c[q] <= t /\ (Early /\ c[q] = t => T[q] = 1)

LEMMA PunctualKept ==
    ASSUME NEW T \in [Requests -> Nat \ {0}], NEW t \in Nat, NEW u,
           NEW c \in [Requests -> Nat], NEW d, Sound, Punctual(T, t, c),
           \/ \E r \in Requests : Admits(r, T, t, u, c, d)
           \/ \E v \in Requests : Yields(v, T, t, u, c, d)
           \/ Stays(T, t, u, c, d)
    PROVE  \A q \in Completed' : d[q] <= u /\ (Early' /\ d[q] = u => T[q] = 1)
<1>1. Completed \subseteq Ran /\ Completed \subseteq Requests /\ Completed' \subseteq Requests
  BY DEF Ran, Completed
<1>2. ASSUME NEW r \in Requests, Admits(r, T, t, u, c, d), NEW q \in Completed'
      PROVE  d[q] <= u /\ (Early' /\ d[q] = u => T[q] = 1)
  <2>1. CASE q = r  BY <1>2, <2>1 DEF Admits
  <2>2. CASE q # r
    <3>1. q \in Completed  BY <1>1, <1>2, <2>2 DEF Admits, Completed
    <3>2. d[q] = c[q] /\ u = t /\ Early  BY <1>1, <1>2, <3>1 DEF Admits
    <3>3. QED  BY <3>1, <3>2 DEF Punctual
  <2>3. QED  BY <2>1, <2>2
<1>3. ASSUME NEW v \in Requests, Yields(v, T, t, u, c, d), NEW q \in Completed'
      PROVE  d[q] <= u /\ (Early' /\ d[q] = u => T[q] = 1)
  <2>1. q \in Completed /\ q \in Ran'  BY <1>3 DEF Yields, Ran
  <2>2. d[q] = c[q] /\ u = t /\ Early  BY <1>3, <2>1 DEF Yields
  <2>3. QED  BY <2>1, <2>2 DEF Punctual
<1>4. ASSUME Stays(T, t, u, c, d), NEW q \in Completed'
      PROVE  d[q] <= u /\ (Early' /\ d[q] = u => T[q] = 1)
  <2>1. CASE q \notin Completed
    <3>1. d[q] = u /\ ~Early' /\ u \in Nat  BY <1>4, <2>1 DEF Stays
    <3>2. QED  BY <3>1
  <2>2. CASE q \in Completed
    <3>1. d[q] = c[q]
      <4>1. q \notin ToSet(active)  BY <2>2, Places DEF Sound
      <4>2. QED  BY <1>1, <1>4, <4>1 DEF Stays
    <3>2. c[q] \in Nat /\ c[q] <= t /\ (Early /\ c[q] = t => T[q] = 1)
      BY <1>1, <2>2 DEF Punctual
    <3>3. \/ u = t + 1
          \/ u = t /\ (Early' => Early)
      BY <1>4 DEF Stays
    <3>4. QED  BY <3>1, <3>2, <3>3
  <2>3. QED  BY <2>1, <2>2
<1>5. QED  BY <1>2, <1>3, <1>4

\* What the verdicts may be: V[r] for request r, whenever it is asked for.
VerdictsAre(V) ==
    \A r \in Requests : req'[r].routing_decision \in {req[r].routing_decision, NoDecision, V[r]}

\* So only a request whose verdict is divergent is ever deprioritized.
Lawful(V) ==
    \A r \in Requests :
        /\ req[r].routing_decision \in {NoDecision, V[r]}
        /\ req[r].priority = 1 => Strategy = "probe_deprioritize" /\ IsDivergent(V[r])

LEMMA LawfulKept ==
    ASSUME NEW V, Sound, Lawful(V), Tick, VerdictsAre(V)
    PROVE  Lawful(V)'
<1> SUFFICES ASSUME NEW r \in Requests, req'[r].priority = 1
             PROVE  Strategy = "probe_deprioritize" /\ IsDivergent(V[r])
  BY DEF Lawful, VerdictsAre
<1> DEFINE x == req[r]
<1>1. x \in Request /\ Safety /\ Counted /\ [Next]_vars  BY Places DEF Sound, Next
<1>2. CASE x.priority = 1  BY <1>2 DEF Lawful
<1>3. CASE x.priority # 1
  <2>1. /\ req'[r] # x
        /\ \A m, s : NewRequest(m, s).priority # 1
        /\ [x EXCEPT !.result = "cancelled"].priority # 1
        /\ Close(x).priority # 1 /\ Reset(x).priority # 1
    BY <1>1, <1>3, CloseFields, ResetFields DEF NewRequest, Request
  <2>2. ASSUME NEW eos \in BOOLEAN
        PROVE  /\ Generate(x, eos).priority # 1 /\ Close(Generate(x, eos)).priority # 1
               /\ \A k : [Generate(x, eos) EXCEPT !.routing_decision = k].priority # 1
    <3>1. Generate(x, eos) \in Request /\ Generate(x, eos).priority # 1
      BY <1>1, <1>3, GenerateFields
    <3>2. QED  BY <3>1, CloseFields DEF Request
  <2>3. req'[r] = React(x)
    <3> HIDE DEF x
    <3>1. \/ req'[r] = x
          \/ req'[r] = [x EXCEPT !.result = "cancelled"]
          \/ \E m, s : req'[r] = NewRequest(m, s)
          \/ \E eos \in BOOLEAN :
                \/ req'[r] = Generate(x, eos)
                \/ req'[r] = Close(Generate(x, eos))
                \/ \E k : req'[r] = [Generate(x, eos) EXCEPT !.routing_decision = k]
          \/ req'[r] \in {React(x), Close(x)}
          \/ req'[r] = Reset(x)
      BY <1>1, OneStepOn, Zenon DEF x
    <3>2. QED  BY <2>1, <2>2, <3>1
  <2>4. Deprioritizes(x)  BY <1>1, <1>3, <2>3, ReactFields
  <2>5. x.routing_decision = V[r]
    BY <2>4 DEF Lawful, Deprioritizes, IsDivergent, NoDecision
  <2>6. QED  BY <2>4, <2>5 DEF Deprioritizes
<1>4. QED  BY <1>2, <1>3

-----------------------------------------------------------------------------
(* The baseline's crowd.  Where S says when each request began, the rivals  *)
(* of a request are the earlier ones still in the batch when it began.      *)

Rivals(w, S, T) == {q \in Requests : q < w /\ T[q] >= 2 /\ S[q] + Span(T[q]) >= S[w]}

Since(T, t, c) == [q \in Requests |-> Begun(req[q], Early, T[q], t, c[q])]

LEMMA SinceType ==
    ASSUME NEW T \in [Requests -> Nat \ {0}], NEW t \in Nat, NEW c \in [Requests -> Nat], Safety
    PROVE  Since(T, t, c) \in [Requests -> Int]
<1> SUFFICES ASSUME NEW q \in Requests PROVE Begun(req[q], Early, T[q], t, c[q]) \in Int
  BY DEF Since
<1>1. req[q].n_generated \in Nat /\ T[q] \in Nat /\ c[q] \in Nat  BY Places DEF Request
<1>2. QED  BY <1>1 DEF Begun, Span

\* Each found fewer than the batch takes: there was a slot for it.
LEMMA RoomFound ==
    ASSUME NEW T \in [Requests -> Nat \ {0}], NEW t \in Nat, NEW u,
           NEW c \in [Requests -> Nat], NEW d, NEW R \in [Requests -> Int], R = Since(T, t, c),
           NEW S \in [Requests -> Int],
           \A q \in Requests : S[q] = Begun(req'[q], Early', T[q], u, d[q]),
           Sound, Line, Punctual(T, t, c), \A r \in Requests : req[r].priority = 0,
           \A w \in Ran : Cardinality(Rivals(w, R, T)) < MaxBatchSize,
           \/ \E r \in Requests : Admits(r, T, t, u, c, d)
           \/ \E v \in Requests : Yields(v, T, t, u, c, d)
           \/ Stays(T, t, u, c, d),
           NEW w \in Ran'
    PROVE  Cardinality(Rivals(w, S, T)) < MaxBatchSize
<1>1. /\ ToSet(active) \subseteq Requests /\ Completed \subseteq Requests
      /\ ToSet(queue) \subseteq Requests /\ active \in Seq(Requests) /\ IsInjective(active)
      /\ ToSet(queue) \cup ToSet(active) = Requests \ Completed
  BY Places DEF Sound, Line, Requests
<1>2. /\ \A q \in Requests : q \in Ran \/ q \in NeverAdmitted
      /\ Ran \subseteq Requests
  BY <1>1 DEF Ran, NeverAdmitted
<1>3. \A q \in Requests, x \in Ran : q < x => q \in Ran
  <2> SUFFICES ASSUME NEW q \in Requests, NEW x \in Ran, q < x, q \in NeverAdmitted
               PROVE  FALSE
    BY <1>2
  <2>1. x < q  BY DEF Line
  <2>2. x \in Int /\ q \in Int  BY <1>2 DEF Requests
  <2>3. QED  BY <2>1, <2>2
<1>4. ~ \E v \in Requests : Yields(v, T, t, u, c, d)  BY DEF Yields
<1>5. \A q \in Ran : S[q] = R[q]
  BY <1>2, <1>4 DEF Since, Admits, Stays
<1>6. CASE w \in Ran
  <2>1. Rivals(w, S, T) = Rivals(w, R, T)  BY <1>2, <1>3, <1>5, <1>6 DEF Rivals
  <2>2. QED  BY <1>6, <2>1
<1>7. CASE w \notin Ran
  <2>1. /\ Admits(w, T, t, u, c, d) /\ w \in Requests
    BY <1>4, <1>7 DEF Admits, Stays
  <2>2. /\ S[w] = t /\ Len(active) < MaxBatchSize /\ Early
        /\ queue # <<>> /\ w = Head(queue)
    BY <2>1 DEF Admits
  <2>3. ASSUME NEW q \in Rivals(w, S, T)
        PROVE  q \in ToSet(active)
    <3>1. q \in Requests /\ q < w /\ T[q] >= 2 /\ S[q] + Span(T[q]) >= t  BY <2>2 DEF Rivals
    <3>2. q \in Ran
      <4>1. q \in NeverAdmitted => q = w \/ w < q  BY <2>2, HeadOfLine
      <4>2. q \in Int /\ w \in Int  BY <2>1, <3>1 DEF Requests
      <4>3. QED  BY <1>2, <3>1, <4>1, <4>2
    <3>3. ASSUME q \in Completed PROVE FALSE
      <4>1. req[q].completed /\ T[q] \in Nat /\ c[q] \in Nat  BY <3>3, <3>1 DEF Completed
      <4>2. S[q] = c[q] - Span(T[q])
        BY <1>5, <3>1, <3>2, <4>1 DEF Since, Begun
      <4>3. Span(T[q]) \in Nat  BY <4>1 DEF Span
      <4>4. c[q] >= t  BY <3>1, <4>1, <4>2, <4>3
      <4>5. c[q] <= t /\ (c[q] = t => T[q] = 1)  BY <2>2, <3>3 DEF Punctual
      <4>6. QED  BY <3>1, <4>1, <4>4, <4>5
    <3>4. QED  BY <3>2, <3>3 DEF Ran
  <2>4. IsFiniteSet(ToSet(active)) /\ Cardinality(ToSet(active)) = Len(active)
    BY <1>1, InjectiveLength
  <2>5. /\ IsFiniteSet(Rivals(w, S, T))
        /\ Cardinality(Rivals(w, S, T)) <= Cardinality(ToSet(active))
    BY <2>3, <2>4, FS_Subset
  <2>6. Cardinality(Rivals(w, S, T)) \in Nat /\ Len(active) \in Nat
    BY <1>1, <2>5, FS_CardinalityType, LenProperties
  <2>7. QED  BY <2>2, <2>4, <2>5, <2>6, BatcherAssumption
<1>8. QED  BY <1>6, <1>7

-----------------------------------------------------------------------------
(* The comparison.  S says when each request began in a run whose requests   *)
(* all found room, and this run is not behind it: who has not been          *)
(* deprioritized began no later.  Until the last waiter has run nobody has   *)
(* been admitted twice, and a full batch holds rivals of everyone who waits. *)

NotBehind(T, t, c, S) ==
    /\ \A r \in NeverAdmitted : IF phase = "admit" THEN t <= S[r] ELSE t < S[r]
    /\ \A q \in Ran :
          req[q].priority = 0 \/ (q \in ToSet(active) /\ NeverAdmitted # {})
             => Begun(req[q], Early, T[q], t, c[q]) <= S[q]

\* A batch that is full leaves no one behind.
LEMMA FullBatch ==
    ASSUME NEW T \in [Requests -> Nat \ {0}], NEW t \in Nat, NEW c,
           NEW S \in [Requests -> Int],
           Sound, UpToTheEnd(T), Line, NotBehind(T, t, c, S),
           phase = "admit", ~MayAdmit, NEW w \in NeverAdmitted,
           Cardinality(Rivals(w, S, T)) < MaxBatchSize
    PROVE  t < S[w]
<1> SUFFICES ASSUME ~(t < S[w]) PROVE FALSE  OBVIOUS
<1>1. /\ ToSet(active) \subseteq Requests /\ active \in Seq(Requests) /\ IsInjective(active)
      /\ ToSet(active) \cap Completed = {} /\ ToSet(queue) \subseteq Requests
      /\ \A q \in Requests : req[q] \in Request
  BY Places DEF Sound
<1>2. /\ w \in ToSet(queue) /\ w \in Requests /\ queue # <<>>
  <2>1. w \in ToSet(queue)  BY DEF NeverAdmitted
  <2>2. QED  BY <1>1, <2>1, EmptySeq DEF ToSet
<1>3. Len(active) >= MaxBatchSize
  BY <1>1, <1>2, BatcherAssumption, LenProperties DEF MayAdmit, HasFreeSlot
<1>4. ASSUME NEW q \in ToSet(active)
      PROVE  q \in Rivals(w, S, T)
  <2>1. /\ q \in Requests /\ q < w /\ ~req[q].completed
    BY <1>1 DEF Line, Ran, Completed
  <2>2. /\ req[q].n_generated \in Nat /\ req[q].n_generated >= 1
        /\ req[q].n_generated <= T[q] /\ req[q].n_generated # T[q] /\ T[q] \in Nat
    BY <1>1, <2>1 DEF Request, Sound, VerdictInv, Judged, UpToTheEnd
  <2>3. t - req[q].n_generated + 1 <= S[q]
    <3>1. Begun(req[q], Early, T[q], t, c[q]) <= S[q]  BY DEF NotBehind, Ran
    <3>2. QED  BY <2>1, <3>1 DEF Begun, Early
  <2>4. S[q] \in Int /\ S[w] \in Int  BY <1>2, <2>1
  <2>5. T[q] >= 2 /\ Span(T[q]) = T[q] - 2  BY <2>2 DEF Span
  <2>6. S[q] + Span(T[q]) >= S[w]
    <3>1. \A a, b \in Int : \A n, k \in Nat :
             t - n + 1 <= a /\ n <= k /\ n # k /\ ~(t < b) => a + (k - 2) >= b
      OBVIOUS
    <3>2. QED  BY <2>2, <2>3, <2>4, <2>5, <3>1
  <2>7. QED  BY <2>1, <2>5, <2>6 DEF Rivals
<1>5. Cardinality(ToSet(active)) = Len(active)  BY <1>1, InjectiveLength
<1>6. IsFiniteSet(Rivals(w, S, T))
  <2>1. IsFiniteSet(Requests)  BY BatcherAssumption, FS_Interval DEF Requests
  <2>2. Rivals(w, S, T) \subseteq Requests  BY DEF Rivals
  <2>3. QED  BY <2>1, <2>2, FS_Subset
<1>7. Cardinality(ToSet(active)) <= Cardinality(Rivals(w, S, T))
  <2>1. ToSet(active) \subseteq Rivals(w, S, T)  BY <1>4
  <2>2. QED  BY <1>6, <2>1, FS_Subset
<1>8. Cardinality(Rivals(w, S, T)) \in Nat /\ Len(active) \in Nat
  BY <1>1, <1>6, FS_CardinalityType, LenProperties
<1>9. QED  BY <1>3, <1>5, <1>7, <1>8, BatcherAssumption

LEMMA NotBehindKept ==
    ASSUME NEW T \in [Requests -> Nat \ {0}], NEW t \in Nat, NEW u, NEW c, NEW d,
           NEW S \in [Requests -> Int],
           \A w \in Requests : Cardinality(Rivals(w, S, T)) < MaxBatchSize,
           Sound, Sound', UpToTheEnd(T), Line, NotBehind(T, t, c, S),
           \/ \E r \in Requests : Admits(r, T, t, u, c, d)
           \/ \E v \in Requests : Yields(v, T, t, u, c, d)
           \/ Stays(T, t, u, c, d)
    PROVE  /\ \A r \in NeverAdmitted' : IF phase' = "admit" THEN u <= S[r] ELSE u < S[r]
           /\ \A q \in Ran' :
                 req'[q].priority = 0 \/ (q \in ToSet(active') /\ NeverAdmitted' # {})
                    => Begun(req'[q], Early', T[q], u, d[q]) <= S[q]
<1>1. /\ ToSet(active) \subseteq Requests /\ Completed \subseteq Requests
      /\ NeverAdmitted \subseteq Requests
      /\ ToSet(active') \cap Completed' = {}
  <2>1. Safety /\ Safety'  BY DEF Sound
  <2>2. ToSet(active') \cap Completed' = {}  BY <2>1 DEF Safety, NoRequestLost
  <2>3. QED  BY <2>1, <2>2, Places DEF NeverAdmitted
<1>2. Ran \subseteq Requests  BY <1>1 DEF Ran
<1>3. ASSUME NEW r \in Requests, Admits(r, T, t, u, c, d)
      PROVE  /\ \A w \in NeverAdmitted' : IF phase' = "admit" THEN u <= S[w] ELSE u < S[w]
             /\ \A q \in Ran' :
                   req'[q].priority = 0 \/ (q \in ToSet(active') /\ NeverAdmitted' # {})
                      => Begun(req'[q], Early', T[q], u, d[q]) <= S[q]
  <2>1. NeverAdmitted' = NeverAdmitted \ {r}  BY <1>3, NeverMoves
  <2>2. u = t /\ (phase = "admit" <=> phase' = "admit")  BY <1>3 DEF Admits
  <2>3. \A w \in NeverAdmitted' : IF phase' = "admit" THEN u <= S[w] ELSE u < S[w]
    BY <2>1, <2>2 DEF NotBehind
  <2>4. ASSUME NEW q \in Ran, req'[q].priority = 0 \/ (q \in ToSet(active') /\ NeverAdmitted' # {})
        PROVE  Begun(req'[q], Early', T[q], u, d[q]) <= S[q]
    <3>1. /\ req'[q].priority = req[q].priority /\ q # r /\ req'[q] = req[q]
          /\ Begun(req'[q], Early', T[q], u, d[q]) = Begun(req[q], Early, T[q], t, c[q])
      BY <1>2, <1>3 DEF Admits
    <3>2. q \in ToSet(active') => q \in ToSet(active)  BY <1>3, <3>1 DEF Admits
    <3>3. QED  BY <2>1, <2>4, <3>1, <3>2 DEF NotBehind
  <2>5. ASSUME req'[r].priority = 0 \/ NeverAdmitted' # {}
        PROVE  Begun(req'[r], Early', T[r], u, d[r]) <= S[r]
    <3>1. /\ queue # <<>> /\ r = Head(queue) /\ r \in ToSet(queue)
          /\ req'[r].priority = req[r].priority
          /\ Begun(req'[r], Early', T[r], u, d[r]) = t
      BY <1>3 DEF Admits
    <3>2. r \in NeverAdmitted
      <4>1. CASE req[r].priority = 0  BY <3>1, <4>1 DEF NeverAdmitted
      <4>2. CASE req[r].priority # 0
        <5>1. PICK w : w \in NeverAdmitted  BY <2>1, <2>5, <3>1, <4>2
        <5>2. QED  BY <3>1, <5>1, HeadOfLine
      <4>3. QED  BY <4>1, <4>2
    <3>3. t <= S[r]  BY <3>2 DEF NotBehind
    <3>4. QED  BY <3>1, <3>3
  <2>6. Ran' = Ran \cup {r}  BY <1>3 DEF Admits
  <2>7. QED  BY <2>3, <2>4, <2>5, <2>6
<1>4. ASSUME NEW v \in Requests, Yields(v, T, t, u, c, d)
      PROVE  /\ \A w \in NeverAdmitted' : IF phase' = "admit" THEN u <= S[w] ELSE u < S[w]
             /\ \A q \in Ran' :
                   req'[q].priority = 0 \/ (q \in ToSet(active') /\ NeverAdmitted' # {})
                      => Begun(req'[q], Early', T[q], u, d[q]) <= S[q]
  <2>1. NeverAdmitted' = NeverAdmitted  BY <1>4, NeverMoves
  <2>2. u = t /\ phase # "admit" /\ phase' # "admit"  BY <1>4 DEF Yields
  <2>3. \A w \in NeverAdmitted' : IF phase' = "admit" THEN u <= S[w] ELSE u < S[w]
    BY <2>1, <2>2 DEF NotBehind
  <2>4. ASSUME NEW q \in Ran', req'[q].priority = 0 \/ (q \in ToSet(active') /\ NeverAdmitted' # {})
        PROVE  Begun(req'[q], Early', T[q], u, d[q]) <= S[q]
    <3>1. /\ q \in Ran /\ req'[q].priority = req[q].priority
          /\ q \in ToSet(active') => q \in ToSet(active)
          /\ Begun(req'[q], Early', T[q], u, d[q]) = Begun(req[q], Early, T[q], t, c[q])
      BY <1>2, <1>4 DEF Yields
    <3>2. QED  BY <2>1, <2>4, <3>1 DEF NotBehind
  <2>5. QED  BY <2>3, <2>4
<1>5. ASSUME Stays(T, t, u, c, d)
      PROVE  /\ \A w \in NeverAdmitted' : IF phase' = "admit" THEN u <= S[w] ELSE u < S[w]
             /\ \A q \in Ran' :
                   req'[q].priority = 0 \/ (q \in ToSet(active') /\ NeverAdmitted' # {})
                      => Begun(req'[q], Early', T[q], u, d[q]) <= S[q]
  <2>1. NeverAdmitted' = NeverAdmitted  BY <1>5, NeverMoves
  <2>2. ASSUME NEW w \in NeverAdmitted
        PROVE  IF phase' = "admit" THEN u <= S[w] ELSE u < S[w]
    <3>1. w \in Requests /\ S[w] \in Int  BY <1>1
    <3>2. CASE phase = "await" /\ phase' = "admit" /\ u = t + 1
      <4>1. t < S[w]  BY <3>2 DEF NotBehind
      <4>2. QED  BY <3>1, <3>2, <4>1
    <3>3. CASE phase = "admit" /\ ~MayAdmit /\ phase' # "admit" /\ u = t
      BY <3>1, <3>3, FullBatch
    <3>4. CASE phase \notin {"await", "admit"} /\ phase' # "admit" /\ u = t
      BY <3>4 DEF NotBehind
    <3>5. QED  BY <1>5, <3>2, <3>3, <3>4 DEF Stays
  <2>3. ASSUME NEW q \in Ran', req'[q].priority = 0 \/ (q \in ToSet(active') /\ NeverAdmitted' # {})
        PROVE  Begun(req'[q], Early', T[q], u, d[q]) <= S[q]
    <3>1. q \in Ran  BY <1>5 DEF Stays
    <3>2. /\ req'[q].priority = 0 => req[q].priority = 0
          /\ q \in ToSet(active') => q \in ToSet(active)
          /\ Begun(req'[q], Early', T[q], u, d[q]) = Begun(req[q], Early, T[q], t, c[q])
      BY <1>2, <1>5, <3>1 DEF Stays
    <3>3. QED  BY <2>1, <2>3, <3>1, <3>2 DEF NotBehind
  <2>4. QED  BY <2>1, <2>2, <2>3
<1>6. QED  BY <1>3, <1>4, <1>5

-----------------------------------------------------------------------------
(* A run of the baseline and one that is compared with it.                  *)

FoundRoom(w, S, T) == S[w] >= 1 /\ Cardinality(Rivals(w, S, T)) < MaxBatchSize

Paced(T, V, t, c) == Line /\ Lawful(V) /\ Punctual(T, t, c)

BasePace(T, V, t, c) ==
    /\ Paced(T, V, t, c)
    /\ phase # "await" => t >= 1
    /\ \A w \in Ran : FoundRoom(w, Since(T, t, c), T)

LatePace(T, V, t, c, S) == Paced(T, V, t, c) /\ NotBehind(T, t, c, S)

LEMMA PaceStarts ==
    ASSUME NEW T, NEW V, NEW c, NEW S \in [Requests -> Int], NEW m,
           queue' = [i \in Requests |-> i], active' = <<>>,
           req' = [r \in Requests |-> NewRequest(m, FALSE)],
           submitted' = NRequests, phase' = "await"
    PROVE  /\ BasePace(T, V, 0, c)'
           /\ (\A r \in Requests : S[r] >= 1) => LatePace(T, V, 0, c, S)'
<1>1. \A r \in Requests : /\ ~req'[r].completed /\ req'[r].priority = 0
                          /\ req'[r].routing_decision = NoDecision
  BY DEF NewRequest
<1>2. Completed' = {} /\ Ran' = {}
  <2>1. ToSet(active') = {}  BY DEF ToSet
  <2>2. Completed' = {}  BY <1>1 DEF Completed
  <2>3. QED  BY <2>1, <2>2 DEF Ran
<1>3. Line'
  <2>1. DOMAIN queue' = Requests /\ \A i \in Requests : queue'[i] = i  OBVIOUS
  <2>2. QED  BY <1>1, <1>2, <2>1 DEF Line
<1>4. Lawful(V)' /\ Punctual(T, 0, c)'
  <2>1. Punctual(T, 0, c)'  BY <1>2 DEF Punctual
  <2>2. ASSUME NEW r \in Requests
        PROVE  req'[r].routing_decision = NoDecision /\ req'[r].priority # 1
    <3>1. req'[r].priority = 0  BY <1>1
    <3>2. req'[r].routing_decision = NoDecision  BY <1>1
    <3>3. \A x : x = 0 => x # 1  OBVIOUS
    <3>4. req'[r].priority # 1  BY ONLY <3>1, <3>3
    <3>5. QED  BY <3>2, <3>4
  <2>3. Lawful(V)'  BY <2>2 DEF Lawful
  <2>4. QED  BY <2>1, <2>3
<1>5. Paced(T, V, 0, c)'  BY <1>3, <1>4 DEF Paced
<1>6. BasePace(T, V, 0, c)'  BY <1>2, <1>5 DEF BasePace
<1>7. ASSUME \A r \in Requests : S[r] >= 1
      PROVE  LatePace(T, V, 0, c, S)'
  <2>1. NeverAdmitted' \subseteq Requests
    <3>1. ToSet(queue') = Requests  BY DEF ToSet
    <3>2. QED  BY <3>1 DEF NeverAdmitted
  <2>2. \A r \in NeverAdmitted' : 0 < S[r]  BY <1>7, <2>1
  <2>3. NotBehind(T, 0, c, S)'  BY <1>2, <2>2 DEF NotBehind
  <2>4. QED  BY <1>5, <2>3 DEF LatePace
<1>8. QED  BY <1>6, <1>7

LEMMA PacedKept ==
    ASSUME NEW T \in [Requests -> Nat \ {0}], NEW V, NEW t \in Nat, NEW u,
           NEW c \in [Requests -> Nat], NEW d, Sound, Sound', UpToTheEnd(T), UpToTheEnd(T)',
           Clock(t, u, c, d), Tick, VerdictsAre(V), Strategy # "probe_terminate",
           Paced(T, V, t, c)
    PROVE  Paced(T, V, u, d)'
<1>1. Line /\ Lawful(V) /\ Punctual(T, t, c)  BY DEF Paced
<1>2. \/ \E r \in Requests : Admits(r, T, t, u, c, d)
      \/ \E v \in Requests : Yields(v, T, t, u, c, d)
      \/ Stays(T, t, u, c, d)
  BY TickMoves
<1>3. Line'  BY <1>1, <1>2, LineKept
<1>4. Lawful(V)'  BY <1>1, LawfulKept
<1>5. Punctual(T, u, d)'
  <2>1. \A q \in Completed' : d[q] <= u /\ (Early' /\ d[q] = u => T[q] = 1)
    BY <1>1, <1>2, PunctualKept, SMTT(30)
  <2>2. QED  BY <2>1 DEF Punctual
<1>6. QED  BY <1>3, <1>4, <1>5 DEF Paced

LEMMA BaseGoesOn ==
    ASSUME NEW T \in [Requests -> Nat \ {0}], NEW V, NEW t \in Nat, NEW u,
           NEW c \in [Requests -> Nat], NEW d, NEW m,
           RunInv(T, m), RunInv(T, m)', Clock(t, u, c, d), Tick, VerdictsAre(V),
           Strategy = "baseline", BasePace(T, V, t, c)
    PROVE  BasePace(T, V, u, d)'
<1>1. /\ Sound /\ Sound' /\ UpToTheEnd(T) /\ UpToTheEnd(T)' /\ Paced(T, V, t, c)
      /\ Safety /\ Safety'
      /\ Strategy # "probe_terminate"
  BY DEF RunInv, BasePace, Sound
<1>2. /\ u \in Nat /\ u >= t /\ (phase = "await" => u >= 1)
      /\ d \in [Requests -> Nat]
  BY DEF Clock
<1>3. Paced(T, V, u, d)'  BY <1>1, PacedKept
<1>4. phase' # "await" => u >= 1
  BY <1>2 DEF BasePace
<1>5. \/ \E r \in Requests : Admits(r, T, t, u, c, d)
      \/ \E v \in Requests : Yields(v, T, t, u, c, d)
      \/ Stays(T, t, u, c, d)
  BY <1>1, TickMoves
<1>6. PICK R \in [Requests -> Int] : R = Since(T, t, c)  BY <1>1, SinceType
<1>7. PICK S : S = [q \in Requests |-> Begun(req'[q], Early', T[q], u, d[q])]  OBVIOUS
<1>8. S \in [Requests -> Int] /\ S = Since(T, u, d)'
  <2>1. \A q \in Requests : req'[q].n_generated \in Nat
    BY <1>1 DEF Safety, TypeOK, Request
  <2>2. \A q \in Requests : Begun(req'[q], Early', T[q], u, d[q]) \in Int
    BY <1>2, <2>1 DEF Begun, Span
  <2>3. QED  BY <1>7, <2>2 DEF Since
<1>9. /\ Line /\ Punctual(T, t, c) /\ \A q \in Requests : req[q].priority = 0
  <2>1. \A q \in Requests : req[q].priority \in {0, 1}  BY <1>1 DEF Safety, TypeOK, Request
  <2>2. QED  BY <1>1, <2>1 DEF Paced, Lawful
<1>10. \A w \in Ran : R[w] >= 1 /\ Cardinality(Rivals(w, R, T)) < MaxBatchSize
  BY <1>6 DEF BasePace, FoundRoom
<1>11. ASSUME NEW w \in Ran'
       PROVE  Cardinality(Rivals(w, S, T)) < MaxBatchSize
  BY <1>1, <1>5, <1>6, <1>7, <1>8, <1>9, <1>10, RoomFound
<1>12. ASSUME NEW w \in Ran'
       PROVE  S[w] >= 1
  <2>1. Ran \subseteq Requests  BY <1>1, Places DEF Ran
  <2>2. ASSUME NEW r \in Requests, Admits(r, T, t, u, c, d)
        PROVE  S[w] >= 1
    <3>1. CASE w = r
      <4>1. S[w] = t /\ u = t /\ phase # "await"  BY <1>7, <2>2, <3>1 DEF Admits, Early
      <4>2. QED  BY <4>1 DEF BasePace
    <3>2. CASE w # r
      <4>1. w \in Ran  BY <2>2, <3>2 DEF Admits
      <4>2. S[w] = R[w]  BY <1>6, <1>7, <2>1, <2>2, <4>1 DEF Admits, Since
      <4>3. QED  BY <1>10, <4>1, <4>2
    <3>3. QED  BY <3>1, <3>2
  <2>3. ASSUME Stays(T, t, u, c, d)
        PROVE  S[w] >= 1
    <3>1. w \in Ran  BY <2>3 DEF Stays
    <3>2. S[w] = R[w]  BY <1>6, <1>7, <2>1, <2>3, <3>1 DEF Stays, Since
    <3>3. QED  BY <1>10, <3>1, <3>2
  <2>4. ASSUME NEW v \in Requests, Yields(v, T, t, u, c, d)
        PROVE  FALSE
    BY <1>9, <2>4 DEF Yields
  <2>5. QED  BY <1>5, <2>2, <2>3, <2>4
<1>13. QED  BY <1>3, <1>4, <1>8, <1>11, <1>12 DEF BasePace, FoundRoom

LEMMA LateGoesOn ==
    ASSUME NEW T \in [Requests -> Nat \ {0}], NEW V, NEW t \in Nat, NEW u,
           NEW c \in [Requests -> Nat], NEW d, NEW m, NEW S \in [Requests -> Int],
           \A w \in Requests : FoundRoom(w, S, T),
           RunInv(T, m), RunInv(T, m)', Clock(t, u, c, d), Tick, VerdictsAre(V),
           Strategy # "probe_terminate", LatePace(T, V, t, c, S)
    PROVE  LatePace(T, V, u, d, S)'
<1>1. /\ Sound /\ Sound' /\ UpToTheEnd(T) /\ UpToTheEnd(T)' /\ Paced(T, V, t, c)
      /\ Line /\ NotBehind(T, t, c, S)
      /\ \A w \in Requests : Cardinality(Rivals(w, S, T)) < MaxBatchSize
  BY DEF RunInv, LatePace, Paced, FoundRoom
<1>2. Paced(T, V, u, d)'  BY <1>1, PacedKept
<1>3. \/ \E r \in Requests : Admits(r, T, t, u, c, d)
      \/ \E v \in Requests : Yields(v, T, t, u, c, d)
      \/ Stays(T, t, u, c, d)
  BY <1>1, TickMoves
<1>4. /\ \A r \in NeverAdmitted' : IF phase' = "admit" THEN u <= S[r] ELSE u < S[r]
      /\ \A q \in Ran' :
            req'[q].priority = 0 \/ (q \in ToSet(active') /\ NeverAdmitted' # {})
               => Begun(req'[q], Early', T[q], u, d[q]) <= S[q]
  BY <1>1, <1>3, NotBehindKept
<1>5. NotBehind(T, u, d, S)'  BY <1>4 DEF NotBehind
<1>6. QED  BY <1>2, <1>5 DEF LatePace

LEMMA PaceStandsStill ==
    ASSUME NEW T, NEW V, NEW t, NEW c, NEW S, UNCHANGED vars
    PROVE  /\ BasePace(T, V, t, c) => BasePace(T, V, t, c)'
           /\ LatePace(T, V, t, c, S) => LatePace(T, V, t, c, S)'
<1>1. /\ queue' = queue /\ active' = active /\ req' = req /\ submitted' = submitted
      /\ phase' = phase
  BY DEF vars
<1>2. /\ Completed' = Completed /\ Ran' = Ran /\ NeverAdmitted' = NeverAdmitted
      /\ (Early' <=> Early)
  BY <1>1 DEF Completed, Ran, NeverAdmitted, Early
<1>3. Paced(T, V, t, c) => Paced(T, V, t, c)'
  BY <1>1, <1>2 DEF Paced, Line, Lawful, Punctual
<1>4. Since(T, t, c)' = Since(T, t, c)  BY <1>1, <1>2 DEF Since, Begun
<1>5. NotBehind(T, t, c, S) => NotBehind(T, t, c, S)'
  BY <1>1, <1>2 DEF NotBehind, Begun
<1>6. QED  BY <1>1, <1>2, <1>3, <1>4, <1>5 DEF BasePace, LatePace

\* What the baseline leaves to compare with: when each request began, by when
\* it was completed.
LEMMA BaseEnds ==
    ASSUME NEW T \in [Requests -> Nat \ {0}], NEW V, NEW t, NEW c \in [Requests -> Nat],
           NEW m, RunInv(T, m), Impatient = {}, \A r \in Requests : req[r].result # "pending",
           BasePace(T, V, t, c)
    PROVE  \A w \in Requests : FoundRoom(w, [q \in Requests |-> c[q] - Span(T[q])], T)
<1>1. \A r \in Requests : req[r].completed
  <2>1. Sound /\ Safety /\ Answers  BY DEF RunInv, Sound
  <2>2. \A r \in Requests : req[r].result \in {"pending", "set", "cancelled"}
    BY <2>1, Places DEF Request
  <2>3. QED  BY <2>1, <2>2 DEF Answers
<1>2. \A r \in Requests : r \in Ran  BY <1>1 DEF Ran, Completed
<1>3. Since(T, t, c) = [q \in Requests |-> c[q] - Span(T[q])]  BY <1>1 DEF Since, Begun
<1>4. QED  BY <1>2, <1>3 DEF BasePace

\* And what the other run comes to: who had a verdict that does not deprioritize
\* was completed no later.
LEMMA LateEnds ==
    ASSUME NEW T \in [Requests -> Nat \ {0}], NEW V, NEW t, NEW c \in [Requests -> Nat],
           NEW b \in [Requests -> Nat], NEW m, RunInv(T, m), Impatient = {},
           \A r \in Requests : req[r].result # "pending",
           LatePace(T, V, t, c, [q \in Requests |-> b[q] - Span(T[q])])
    PROVE  \A r \in Requests : req[r].routing_decision.label = "convergent" => c[r] <= b[r]
<1> SUFFICES ASSUME NEW r \in Requests, req[r].routing_decision.label = "convergent"
             PROVE  c[r] <= b[r]
  OBVIOUS
<1>1. /\ Safety /\ Answers /\ Lawful(V)
      /\ NotBehind(T, t, c, [q \in Requests |-> b[q] - Span(T[q])])
  BY DEF RunInv, Sound, LatePace, Paced
<1>2. req[r] \in Request  BY <1>1, Places
<1>3. req[r].completed  BY <1>1, <1>2 DEF Answers, Request
<1>4. req[r].priority = 0
  <2>1. req[r].routing_decision = V[r]  BY <1>1 DEF Lawful, NoDecision
  <2>2. ~IsDivergent(V[r])  BY <2>1 DEF IsDivergent
  <2>3. QED  BY <1>1, <1>2, <2>2 DEF Lawful, Request
<1>5. r \in Ran  BY <1>3 DEF Ran, Completed
<1>6. c[r] - Span(T[r]) <= b[r] - Span(T[r])
  <2>1. Begun(req[r], Early, T[r], t, c[r]) <= b[r] - Span(T[r])
    BY <1>1, <1>4, <1>5 DEF NotBehind
  <2>2. QED  BY <1>3, <2>1 DEF Begun
<1>7. Span(T[r]) \in Nat  BY DEF Span
<1>8. QED  BY <1>6, <1>7
================================================================================
