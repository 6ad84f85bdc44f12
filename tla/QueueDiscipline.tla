--------------------------- MODULE QueueDiscipline ---------------------------
(***************************************************************************)
(* What the deque of src/queue.py promises under any legal use: a request  *)
(* is submitted once, popped from the head, perhaps deprioritized while it *)
(* is out, and perhaps queued again with the priority it then has.  The    *)
(* batcher's use of the deque implements this (ContinuousBatcher), and is  *)
(* less than this: it queues again deprioritized requests only.            *)
(***************************************************************************)
EXTENDS RequestQueue

CONSTANT Requests

VARIABLES pending,   \* the deque
          held,      \* the requests popped and not queued again
          priority,
          submitted

vars == <<pending, held, priority, submitted>>

Init ==
    /\ pending = <<>> /\ held = {} /\ submitted = {}
    /\ priority = [r \in Requests |-> 0]

Submit(r) ==
    /\ submitted' = submitted \cup {r}
    /\ pending' = SubmitTo(pending, r)
    /\ UNCHANGED <<held, priority>>

PopLeft ==
    /\ pending # <<>>
    /\ pending' = Tail(pending)
    /\ held' = held \cup {Head(pending)}
    /\ UNCHANGED <<priority, submitted>>

\* _apply_routing deprioritizes any number of requests in one call.
Deprioritize(rs) ==
    /\ priority' = [r \in Requests |-> IF r \in rs THEN 1 ELSE priority[r]]
    /\ UNCHANGED <<pending, held, submitted>>

Requeue(r) ==
    /\ pending' = PushFrontPriorityAware(pending, r, priority)
    /\ held' = held \ {r}
    /\ UNCHANGED <<priority, submitted>>

Next == \/ \E r \in Requests \ submitted : Submit(r)
        \/ PopLeft
        \/ \E rs \in SUBSET held : Deprioritize(rs)
        \/ \E r \in held : Requeue(r)

Spec == Init /\ [][Next]_vars

-----------------------------------------------------------------------------
\* A request that joins the queue, new or queued again, is put in it once, and
\* the others keep their places relative to each other: append() and insert()
\* neither drop nor reorder nor overwrite a waiter.
Joins(r) == \E i \in DOMAIN pending' : pending'[i] = r /\ pending = RemoveAt(pending', i)

OthersKeepTheirPlaces ==
    [][\A r \in (held \ held') \cup (submitted' \ submitted) : Joins(r)]_vars

\* A deprioritized request queued again waits behind everyone, the normal
\* requests and the other deprioritized ones: push_front_priority_aware, for
\* all its search of a place, appends.
DeprioritizedJoinsTheTail ==
    [][\A r \in held \ held' :
          priority[r] = 1 => pending' = Append(pending, r)]_vars
=============================================================================
