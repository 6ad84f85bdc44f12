------------------------ MODULE QueueDisciplineProofs ------------------------
(***************************************************************************)
(* What the deque promises under any legal use, for any set of requests.   *)
(***************************************************************************)
EXTENDS QueueDiscipline, SequenceLemmas

\* What the operations are applied to: requests, with one of two priorities.
WellTyped ==
    /\ pending \in Seq(Requests)
    /\ held \subseteq Requests
    /\ priority \in [Requests -> {0, 1}]

LEMMA InitWellTyped == Init => WellTyped
<1>1. <<>> \in Seq(Requests)  BY EmptySeq
<1>2. QED  BY <1>1 DEF Init, WellTyped

\* A normal request queued again goes to the head, a deprioritized one to the tail.
LEMMA RequeueMeans ==
    ASSUME WellTyped, NEW r \in held, Requeue(r)
    PROVE  /\ r \in Requests /\ pending \in Seq(Requests)
           /\ priority[r] = 0 => pending' = <<r>> \o pending
           /\ priority[r] = 1 => pending' = Append(pending, r)
           /\ priority[r] \in {0, 1}
<1>1. r \in Requests /\ pending \in Seq(Requests) /\ priority \in [Requests -> {0, 1}]
  BY DEF WellTyped
<1>2. priority[r] = 0 => pending' = <<r>> \o pending
  BY DEF Requeue, PushFrontPriorityAware, PushFront
<1>3. priority[r] = 1 => pending' = Append(pending, r)
  BY <1>1, DeprioritizedIsAppended DEF Requeue
<1>4. QED  BY <1>1, <1>2, <1>3

LEMMA NextWellTyped == WellTyped /\ [Next]_vars => WellTyped'
<1> SUFFICES ASSUME WellTyped, [Next]_vars PROVE WellTyped'  OBVIOUS
<1>1. ASSUME NEW r \in Requests \ submitted, Submit(r)
      PROVE  WellTyped'
  <2>1. pending' = Append(pending, r)  BY <1>1 DEF Submit, SubmitTo
  <2>2. pending' \in Seq(Requests)  BY <2>1, AppendProperties DEF WellTyped
  <2>3. QED  BY <1>1, <2>2 DEF Submit, WellTyped
<1>2. CASE PopLeft
  <2>1. Head(pending) \in Requests /\ Tail(pending) \in Seq(Requests)
    BY <1>2, HeadTailProperties DEF PopLeft, WellTyped
  <2>2. QED  BY <1>2, <2>1 DEF PopLeft, WellTyped
<1>3. ASSUME NEW rs \in SUBSET held, Deprioritize(rs)
      PROVE  WellTyped'
  BY <1>3 DEF Deprioritize, WellTyped
<1>4. ASSUME NEW r \in held, Requeue(r)
      PROVE  WellTyped'
  <2>1. /\ r \in Requests /\ pending \in Seq(Requests) /\ priority[r] \in {0, 1}
        /\ priority[r] = 0 => pending' = <<r>> \o pending
        /\ priority[r] = 1 => pending' = Append(pending, r)
    BY <1>4, RequeueMeans
  <2>2. <<r>> \in Seq(Requests)  BY <2>1
  <2>3. <<r>> \o pending \in Seq(Requests) /\ Append(pending, r) \in Seq(Requests)
    BY <2>1, <2>2, ConcatProperties, AppendProperties
  <2>4. QED  BY <1>4, <2>1, <2>3 DEF Requeue, WellTyped
<1>5. CASE UNCHANGED vars  BY <1>5 DEF vars, WellTyped
<1>6. QED  BY <1>1, <1>2, <1>3, <1>4, <1>5 DEF Next

\* A request leaves held only by being queued again.
LEMMA LeavesByRequeue ==
    ASSUME [Next]_vars, NEW r \in held \ held'
    PROVE  Requeue(r)
<1>1. PICK q \in held : Requeue(q)
  BY DEF Next, vars, Submit, PopLeft, Deprioritize
<1>2. q = r  BY <1>1 DEF Requeue
<1>3. QED  BY <1>1, <1>2

LEMMA StepJoinsTheTail ==
    ASSUME WellTyped, [Next]_vars, NEW r \in held \ held', priority[r] = 1
    PROVE  pending' = Append(pending, r)
BY LeavesByRequeue, RequeueMeans

\* push_front_priority_aware puts a deprioritized request behind everyone, the
\* normal requests and the other deprioritized ones, whatever happened before.
THEOREM DeprioritizedWaitsBehindAll == Spec => DeprioritizedJoinsTheTail
<1>1. WellTyped /\ [Next]_vars =>
        [\A r \in held \ held' : priority[r] = 1 => pending' = Append(pending, r)]_vars
  BY StepJoinsTheTail
<1>2. QED
  BY <1>1, InitWellTyped, NextWellTyped, PTL DEF Spec, DeprioritizedJoinsTheTail

-----------------------------------------------------------------------------
(* Removing the request that joined gives the queue as it was. *)


LEMMA RemoveAppended ==
    ASSUME NEW S, NEW s \in Seq(S), NEW x \in S
    PROVE  /\ Len(s) + 1 \in DOMAIN Append(s, x) /\ Append(s, x)[Len(s) + 1] = x
           /\ s = RemoveAt(Append(s, x), Len(s) + 1)
<1> DEFINE t == Append(s, x)
           u == RemoveAt(t, Len(s) + 1)
<1>1. /\ Len(s) \in Nat /\ t \in Seq(S) /\ Len(t) = Len(s) + 1 /\ t[Len(s) + 1] = x
      /\ \A i \in 1..Len(s) : t[i] = s[i]
  BY LenProperties, AppendProperties
<1>2. Len(s) + 1 \in DOMAIN t  BY <1>1, LenProperties
<1> HIDE DEF t
<1>3. /\ u \in Seq(S) /\ Len(u) = Len(t) - 1
      /\ \A i \in 1..Len(t) - 1 : u[i] = IF i < Len(s) + 1 THEN t[i] ELSE t[i + 1]
  BY <1>1, <1>2, RemoveAtProperties
<1>4. Len(s) = Len(u)  BY <1>1, <1>3
<1>5. \A i \in 1..Len(s) : s[i] = u[i]  BY <1>1, <1>3
<1> HIDE DEF u
<1>6. s = u  BY <1>3, <1>4, <1>5, SeqEqual
<1>7. QED  BY <1>1, <1>2, <1>6 DEF t, u

LEMMA RemovePushed ==
    ASSUME NEW S, NEW s \in Seq(S), NEW x \in S
    PROVE  /\ 1 \in DOMAIN (<<x>> \o s) /\ (<<x>> \o s)[1] = x
           /\ s = RemoveAt(<<x>> \o s, 1)
<1> DEFINE t == <<x>> \o s
           u == RemoveAt(t, 1)
<1>1. <<x>> \in Seq(S) /\ Len(<<x>>) = 1 /\ <<x>>[1] = x /\ Len(s) \in Nat
  BY LenProperties
<1>2. /\ t \in Seq(S) /\ Len(t) = 1 + Len(s)
      /\ \A i \in 1..1 + Len(s) : t[i] = IF i <= 1 THEN <<x>>[i] ELSE s[i - 1]
  BY <1>1, ConcatProperties
<1>3. 1 \in DOMAIN t /\ t[1] = x  BY <1>1, <1>2, LenProperties
<1> HIDE DEF t
<1>4. /\ u \in Seq(S) /\ Len(u) = Len(t) - 1
      /\ \A i \in 1..Len(t) - 1 : u[i] = IF i < 1 THEN t[i] ELSE t[i + 1]
  BY <1>2, <1>3, RemoveAtProperties
<1>5. Len(s) = Len(u)  BY <1>1, <1>2, <1>4
<1>6. ASSUME NEW i \in 1..Len(s)
      PROVE  s[i] = u[i]
  <2>1. i \in 1..Len(t) - 1 /\ ~(i < 1) /\ i + 1 \in 1..1 + Len(s) /\ ~(i + 1 <= 1)
        /\ i + 1 - 1 = i
    BY <1>1, <1>2
  <2>2. u[i] = t[i + 1]  BY <1>4, <2>1
  <2>3. t[i + 1] = s[i + 1 - 1]  BY <1>2, <2>1
  <2>4. QED  BY <2>1, <2>2, <2>3
<1> HIDE DEF u
<1>7. s = u  BY <1>4, <1>5, <1>6, SeqEqual
<1>8. QED  BY <1>3, <1>7 DEF t, u

LEMMA StepKeepsPlaces ==
    ASSUME WellTyped, [Next]_vars, NEW r \in (held \ held') \cup (submitted' \ submitted)
    PROVE  Joins(r)
<1>1. CASE r \in held \ held'
  <2>1. Requeue(r)  BY <1>1, LeavesByRequeue
  <2>2. /\ r \in Requests /\ pending \in Seq(Requests) /\ priority[r] \in {0, 1}
        /\ priority[r] = 0 => pending' = <<r>> \o pending
        /\ priority[r] = 1 => pending' = Append(pending, r)
    BY <1>1, <2>1, RequeueMeans
  <2>3. CASE pending' = <<r>> \o pending
    BY <2>2, <2>3, RemovePushed DEF Joins
  <2>4. CASE pending' = Append(pending, r)
    BY <2>2, <2>4, RemoveAppended DEF Joins
  <2>5. QED  BY <2>2, <2>3, <2>4
<1>2. CASE r \in submitted' \ submitted
  <2>1. PICK q \in Requests \ submitted : Submit(q)
    BY <1>2 DEF Next, vars, PopLeft, Deprioritize, Requeue
  <2>2. q = r  BY <1>2, <2>1 DEF Submit
  <2>3. pending' = Append(pending, r)  BY <2>1, <2>2 DEF Submit, SubmitTo
  <2>4. pending \in Seq(Requests) /\ r \in Requests  BY <2>1, <2>2 DEF WellTyped
  <2>5. QED  BY <2>3, <2>4, RemoveAppended DEF Joins
<1>3. QED  BY <1>1, <1>2

\* Nobody who waits is dropped, overwritten or overtaken by one who waited
\* behind: a request that joins the queue, at the head, inside or at the tail,
\* only makes room for itself.
THEOREM JoiningKeepsPlaces == Spec => OthersKeepTheirPlaces
<1>1. WellTyped /\ [Next]_vars =>
        [\A r \in (held \ held') \cup (submitted' \ submitted) : Joins(r)]_vars
  BY StepKeepsPlaces
<1>2. QED
  BY <1>1, InitWellTyped, NextWellTyped, PTL DEF Spec, OthersKeepTheirPlaces
=============================================================================
