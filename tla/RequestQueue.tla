---------------------------- MODULE RequestQueue ----------------------------
(***************************************************************************)
(* The pending queue of src/queue.py: a plain deque of requests, as pure   *)
(* operators on a sequence.  The head of the deque is the first element.   *)
(* The priority of a request is a field the scheduler changes while the    *)
(* request is out of the queue, so it comes as a function of the request.  *)
(***************************************************************************)
EXTENDS Integers, SequencesExt, FiniteSetsExt

\* The operators named with an underscore are wrong on purpose: each shows that
\* a property notices a change of the operator below it.
SubmitTo_Front(pending, r) == <<r>> \o pending

\* RequestQueue.submit: a new request joins at the tail.
SubmitTo(pending, r) == Append(pending, r)

\* RequestQueue.push_front: back to the head.  No caller in the repository.
PushFront(pending, r) == <<r>> \o pending

\* The position of the last waiting request of priority 0, or 0 (the code's
\* last_priority0_idx, which counts from 0 and starts at -1).
LastNormal(pending, priority) ==
    Max({0} \cup {i \in DOMAIN pending : priority[pending[i]] = 0})

InsertionPoint_NoSkip(pending, priority) == LastNormal(pending, priority) + 1

\* Where a deprioritized request goes: the first place behind the last normal
\* waiter that is not taken by another deprioritized one.
InsertionPoint(pending, priority) ==
    Min({i \in LastNormal(pending, priority) + 1 .. Len(pending) + 1 :
            i = Len(pending) + 1 \/ priority[pending[i]] # 1})

PushFrontPriorityAware_Front(pending, r, priority) == PushFront(pending, r)

PushFrontPriorityAware_Overwrites(pending, r, priority) ==
    IF priority[r] = 0 THEN PushFront(pending, r)
    ELSE ReplaceAt(pending, InsertionPoint(pending, priority) - 1, r)

\* RequestQueue.push_front_priority_aware.
PushFrontPriorityAware(pending, r, priority) ==
    IF priority[r] = 0
    THEN PushFront(pending, r)
    ELSE InsertAt(pending, InsertionPoint(pending, priority), r)
=============================================================================
