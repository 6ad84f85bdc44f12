--------------------------- MODULE RequestLifecycle ---------------------------
(***************************************************************************)
(* What the scheduler promises of its requests, whatever the queue, the    *)
(* batch and the gate do to bring it about: requests start in the order    *)
(* they came, at most Capacity run at a time, a running one yields its     *)
(* place only to one that has never run and only when no place is free,    *)
(* one that yielded may start again at any time, and served is final.      *)
(***************************************************************************)
EXTENDS Integers, FiniteSets

CONSTANTS NRequests, Capacity,  \* numbers
          MayYield  \* whether running requests may be asked to yield

Requests == 1..NRequests

VARIABLE status

Of(s) == {r \in Requests : status[r] = s}

TypeOK == status \in [Requests -> {"new", "waiting", "running", "yielded", "served"}]

Init == status = [r \in Requests |-> "new"]

Become(r, s) == status' = [status EXCEPT ![r] = s]

First(r, S) == r \in S /\ \A q \in S : r <= q

Arrive(r) == First(r, Of("new")) /\ Become(r, "waiting")

\* Its turn: the oldest of those that never ran, or any that yielded.
MayStart(r) == /\ Cardinality(Of("running")) < Capacity
               /\ First(r, Of("waiting")) \/ r \in Of("yielded")

Start(r) == MayStart(r) /\ Become(r, "running")

\* A request that its first token completes never holds a place.
ServeAtOnce(r) == MayStart(r) /\ Become(r, "served")

Yield(r) ==
    /\ MayYield
    /\ r \in Of("running") /\ Cardinality(Of("running")) = Capacity
    /\ Of("waiting") # {}
    /\ Become(r, "yielded")

Serve(r) == r \in Of("running") /\ Become(r, "served")

Next == \E r \in Requests :
            Arrive(r) \/ Start(r) \/ ServeAtOnce(r) \/ Yield(r) \/ Serve(r)

Spec == Init /\ [][Next]_status
===============================================================================
