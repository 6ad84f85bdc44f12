--------------------------- MODULE EndlessArrivals ---------------------------
(***************************************************************************)
(* The batcher under clients that never stop: the server of src/server.py  *)
(* takes requests as long as it runs.  In ContinuousBatcher a behaviour    *)
(* has at most NRequests of them, so whatever a request waits for ends     *)
(* with the arrivals.  Here NRequests bounds only those remembered at a    *)
(* time: a completed request is out of the queue and the batch, nothing in *)
(* the tick looks at it again, and its id may name a later arrival.  The   *)
(* counters behind /health, which only grow and decide nothing, then       *)
(* forget what is over.                                                    *)
(***************************************************************************)
EXTENDS ContinuousBatcher

\* The counters as if the past had been the requests of the batch and the
\* completed ones that are still remembered.
TotalsOf(completed) ==
    [admitted |-> Len(active) + Cardinality(completed), finished |-> Cardinality(completed),
     preemptions |-> 0,
     probe_terminated |-> Cardinality({r \in completed : req[r].terminated_by_probe})]

\* RequestQueue.submit once more, under the id of a completed request.
SubmitAgain(r, max_tokens, stream) ==
    /\ phase = "await"
    /\ submitted = NRequests /\ req[r].completed
    /\ req' = [req EXCEPT ![r] = NewRequest(max_tokens, stream)]
    /\ queue' = SubmitTo(queue, r)
    /\ total' = TotalsOf(Completed \ {r})
    /\ UNCHANGED <<active, cache, submitted, phase, attempts, finished_ids, terminated_ids>>

EndlessNext ==
    \/ Next
    \/ \E r \in Requests, m \in MaxTokensChoices, s \in StreamChoices : SubmitAgain(r, m, s)

\* The event loop keeps running the batcher's task; it owes the clients nothing.
\* They may come for ever, and are not obliged to.
EndlessSpec == Init /\ [][EndlessNext]_vars /\ WF_vars(Tick)

-----------------------------------------------------------------------------
Unfinished(r) == r <= submitted /\ ~req[r].completed

\* Being preempted again and again is the only thing that can keep a request
\* from finishing, however many others arrive.  Nobody waits in the queue for
\* ever, since submit() and push_front_priority_aware both put the others behind
\* it, and nobody is left in the batch.
StarvesOnlyIfPreempted ==
    \A r \in Requests :
        <>[][~(r \in ToSet(active) /\ r \in ToSet(queue'))]_vars =>
            (Unfinished(r) ~> ~Unfinished(r) \/ phase = "stopped")

\* A request that is never judged divergent finishes, whatever arrives and
\* whatever deprioritized requests are ahead of it or in the batch: the
\* preemptions made for its sake let it in and do not go round in circles.
NormalsFinish ==
    \A r \in Requests :
        Unfinished(r) /\ req[r].priority = 0
            ~> ~Unfinished(r) \/ req[r].priority = 1 \/ phase = "stopped"

\* However many have come, and however often the deprioritized were preempted
\* for them: if at last nobody new comes, all are answered.
AnsweredIfArrivalsEnd ==
    <>[][\A r \in Requests : req[r].completed => req'[r].completed]_vars =>
        \A r \in Requests :
            r <= submitted ~> req[r].result # "pending" \/ phase = "stopped"

\* While the batcher runs "every request eventually finishes -- preemption
\* requeues, it never drops" (tests/test_scheduler_smoke.py).
EveryRequestFinishes ==
    \A r \in Requests : Unfinished(r) ~> ~Unfinished(r) \/ phase = "stopped"
=============================================================================
