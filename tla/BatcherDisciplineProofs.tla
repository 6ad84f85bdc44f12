------------------------ MODULE BatcherDisciplineProofs ------------------------
(***************************************************************************)
(* How the batcher and its clients use the deque, for every value of the   *)
(* constants: each step of theirs is a step of QueueDiscipline or changes  *)
(* nothing it sees.  From that, the order in which requests are admitted,  *)
(* what _try_admit leaves behind, what preemption costs and loses, and     *)
(* that the batcher implements RequestLifecycle.                           *)
(***************************************************************************)
EXTENDS ContinuousBatcherProofs

\* What the deque's user sees.  An id not handed out yet is that of a normal
\* request: _apply_routing reacts to requests of the batch only.
Held == (1..submitted) \ ToSet(queue)
Priority == [r \in Requests |-> req[r].priority]
NewIsNormal == \A r \in Requests : r > submitted => req[r].priority = 0

DisciplineInv == Safety /\ NewIsNormal

LEMMA Facts ==
    ASSUME DisciplineInv
    PROVE  /\ queue \in Seq(Requests) /\ active \in Seq(Requests)
           /\ req \in [Requests -> Request]
           /\ submitted \in Nat /\ 1..submitted \subseteq Requests
           /\ IsInjective(queue)
           /\ ToSet(queue) \subseteq 1..submitted /\ ToSet(active) \subseteq Held
BY BatcherAssumption DEF DisciplineInv, Safety, TypeOK, NoRequestLost, Held, Requests

\* Steps that leave the deque and all priorities alone change nothing it sees.
LEMMA Unseen ==
    ASSUME UNCHANGED <<queue, submitted>>,
           \A r \in Requests : req'[r].priority = req[r].priority
    PROVE  UNCHANGED Discipline!vars
BY DEF Discipline!vars

LEMMA SubmitIsSubmit ==
    ASSUME DisciplineInv, NEW m \in MaxTokensChoices, NEW s \in StreamChoices, Submit(m, s)
    PROVE  /\ \E r \in Requests \ (1..submitted) : Discipline!Submit(r)
           /\ NewIsNormal'
<1> DEFINE r == submitted + 1
<1>1. /\ queue \in Seq(Requests) /\ req \in [Requests -> Request] /\ submitted \in Nat
      /\ ToSet(queue) \subseteq 1..submitted
  BY Facts
<1>2. /\ r \in Requests \ (1..submitted) /\ 1..r = (1..submitted) \cup {r}
      /\ r > submitted
  BY <1>1, BatcherAssumption DEF Submit, Requests
<1>3. /\ queue' = SubmitTo(queue, r) /\ submitted' = r
      /\ req' = [req EXCEPT ![r] = NewRequest(m, s)]
  BY DEF Submit, NextId
<1>4. \A q \in Requests : req'[q].priority = req[q].priority
  <2>1. req[r].priority = 0  BY <1>2 DEF DisciplineInv, NewIsNormal
  <2>2. NewRequest(m, s).priority = 0  BY DEF NewRequest
  <2>3. QED  BY <1>1, <1>2, <1>3, <2>1, <2>2
<1>5. ToSet(queue') = ToSet(queue) \cup {r}
  BY <1>1, <1>2, <1>3, AppendElements DEF SubmitTo
<1>6. 1..submitted' \ ToSet(queue') = (1..submitted) \ ToSet(queue)
  BY <1>1, <1>2, <1>3, <1>5
<1>7. [q \in Requests |-> req'[q].priority] = [q \in Requests |-> req[q].priority]
  BY <1>4
<1>8. Discipline!Submit(r)
  BY <1>2, <1>3, <1>6, <1>7 DEF Discipline!Submit, Discipline!SubmitTo, SubmitTo
<1>9. NewIsNormal'
  <2>1. \A q \in Requests : q > submitted' => q > submitted
    BY <1>1, <1>3 DEF Requests
  <2>2. QED  BY <1>4, <2>1 DEF DisciplineInv, NewIsNormal
<1>10. QED  BY <1>2, <1>8, <1>9

LEMMA AdmitOneIsPopLeft ==
    ASSUME DisciplineInv, queue # <<>>, NEW eos \in BOOLEAN, AdmitOne(eos)
    PROVE  Discipline!PopLeft /\ NewIsNormal'
<1> DEFINE r == Head(queue)
           after == Generate(req[r], eos)
<1>1. /\ queue \in Seq(Requests) /\ req \in [Requests -> Request]
      /\ IsInjective(queue) /\ ToSet(queue) \subseteq 1..submitted
  BY Facts
<1>2. /\ r \in Requests /\ r \in ToSet(queue)
      /\ ToSet(Tail(queue)) = ToSet(queue) \ {r}
  BY <1>1, TailElements
<1>3. after.priority = req[r].priority /\ Close(after).priority = after.priority
  <2>1. req[r] \in Request  BY <1>1, <1>2
  <2>2. QED  BY <2>1 DEF Generate, Close, Request
<1>4. queue' = Tail(queue) /\ submitted' = submitted
      /\ (\/ req' = [req EXCEPT ![r] = Close(after)]
          \/ req' = [req EXCEPT ![r] = after])
  BY DEF AdmitOne
<1> HIDE DEF after
<1>5. \A q \in Requests : req'[q].priority = req[q].priority
  BY <1>1, <1>2, <1>3, <1>4
<1>6. (1..submitted') \ ToSet(queue') = ((1..submitted) \ ToSet(queue)) \cup {r}
  BY <1>1, <1>2, <1>4
<1>7. Discipline!PopLeft  BY <1>4, <1>5, <1>6 DEF Discipline!PopLeft
<1>8. NewIsNormal'  BY <1>4, <1>5 DEF DisciplineInv, NewIsNormal
<1>9. QED  BY <1>7, <1>8

\* The operator of the instance is the one the batcher uses.
LEMMA SamePushFront ==
    ASSUME NEW q, NEW r, NEW priority
    PROVE  Discipline!PushFrontPriorityAware(q, r, priority)
              = PushFrontPriorityAware(q, r, priority)
BY DEF Discipline!PushFrontPriorityAware, PushFrontPriorityAware,
       Discipline!PushFront, PushFront, Discipline!InsertAt, InsertAt,
       Discipline!InsertionPoint, InsertionPoint, Discipline!LastNormal, LastNormal,
       Discipline!Min, Min, Discipline!Max, Max

LEMMA PreemptIsRequeue ==
    ASSUME DisciplineInv, Safety', Preempt
    PROVE  (\E r \in Held : Discipline!Requeue(r)) /\ NewIsNormal'
<1>1. PICK i \in VictimSlots :
         /\ req' = [req EXCEPT ![active[i]] = Reset(req[active[i]])]
         /\ queue' = PushFrontPriorityAware(queue, active[i], [q \in Requests |-> req[q].priority])
  BY DEF Preempt
<1> DEFINE r == active[i]
<1>2. /\ queue \in Seq(Requests) /\ active \in Seq(Requests)
      /\ req \in [Requests -> Request] /\ ToSet(active) \subseteq Held
      /\ 1..submitted \subseteq Requests
  BY Facts
<1>3. i \in DOMAIN active /\ req[r].priority = 1  BY DEF VictimSlots
<1>4. r \in Held /\ r \in Requests  BY <1>2, <1>3 DEF ToSet, Held
<1>5. submitted' = submitted  BY DEF Preempt
<1>6. \A q \in Requests : req'[q].priority = req[q].priority
  <2>1. req[r] \in Request  BY <1>2, <1>4
  <2>2. Reset(req[r]).priority = req[r].priority  BY <2>1 DEF Reset, Request
  <2>3. QED  BY <1>1, <1>2, <1>4, <2>2
<1>7. queue' = Append(queue, r)
  <2>1. Priority \in [Requests -> {0, 1}]  BY <1>2 DEF Request, Priority
  <2>2. Priority[r] = 1  BY <1>3, <1>4 DEF Priority
  <2>3. queue' = PushFrontPriorityAware(queue, r, Priority)  BY <1>1 DEF Priority
  <2> HIDE DEF r
  <2>4. QED  BY <1>2, <1>4, <2>1, <2>2, <2>3, DeprioritizedIsAppended
<1>8. ToSet(queue') = ToSet(queue) \cup {r}  BY <1>2, <1>4, <1>7, AppendElements
<1>9. (1..submitted') \ ToSet(queue') = ((1..submitted) \ ToSet(queue)) \ {r}
  BY <1>5, <1>8
<1>10. Discipline!Requeue(r)
  BY <1>1, <1>5, <1>6, <1>9, SamePushFront DEF Discipline!Requeue
<1>11. NewIsNormal'  BY <1>5, <1>6 DEF DisciplineInv, NewIsNormal
<1>12. QED  BY <1>4, <1>10, <1>11

LEMMA RouteIsDeprioritize ==
    ASSUME DisciplineInv, Route
    PROVE  (\E rs \in SUBSET Held : Discipline!Deprioritize(rs)) /\ NewIsNormal'
<1> DEFINE rs == {r \in NewlyRouted : Deprioritizes(req[r])}
<1>1. req \in [Requests -> Request] /\ ToSet(active) \subseteq Held
      /\ 1..submitted \subseteq Requests /\ submitted \in Nat
  BY Facts
<1>2. NewlyRouted \subseteq Held /\ rs \in SUBSET Held  BY <1>1 DEF NewlyRouted
<1>3. UNCHANGED <<queue, submitted>>
      /\ req' = [r \in Requests |-> IF r \in NewlyRouted THEN React(req[r]) ELSE req[r]]
  BY DEF Route
<1>4. ASSUME NEW r \in Requests
      PROVE  req'[r].priority = IF r \in rs THEN 1 ELSE req[r].priority
  <2>1. req[r] \in Request  BY <1>1
  <2>2. React(req[r]).priority = IF Deprioritizes(req[r]) THEN 1 ELSE req[r].priority
    BY <2>1 DEF React, Request
  <2>3. QED  BY <1>3, <2>2
<1>5. ASSUME NEW rq \in SUBSET Held, rq = rs
      PROVE  Discipline!Deprioritize(rq)
  BY <1>3, <1>4, <1>5 DEF Discipline!Deprioritize
<1> HIDE DEF rs
<1>6. NewIsNormal'
  <2>1. \A r \in Requests : r > submitted => r \notin Held
    BY <1>1 DEF Held, Requests
  <2>2. QED  BY <1>2, <1>3, <1>4, <2>1 DEF DisciplineInv, NewIsNormal
<1>7. QED  BY <1>2, <1>5, <1>6

LEMMA StampPriority ==
    ASSUME NEW r \in Request, NEW p
    PROVE  Stamp(r, p).priority = r.priority
BY DEF Stamp, Request

\* Decoding, finishing and cancelling change fields the deque does not see.
LEMMA OthersKeepPriorities ==
    ASSUME DisciplineInv,
           Decode \/ Finish \/ \E r \in Impatient : Cancel(r)
    PROVE  UNCHANGED Discipline!vars /\ NewIsNormal'
<1>1. req \in [Requests -> Request] /\ active \in Seq(Requests)
      /\ ToSet(active) \subseteq Requests
  BY Facts DEF Held
<1>2. UNCHANGED <<queue, submitted>>  BY DEF Decode, Finish, Cancel
<1>3. ASSUME NEW r \in Requests
      PROVE  req'[r].priority = req[r].priority
  <2>1. req[r] \in Request  BY <1>1
  <2>2. ASSUME NEW eos \in BOOLEAN
        PROVE  Generate(req[r], eos) \in Request
               /\ Generate(req[r], eos).priority = req[r].priority
    <3>1. Generate(req[r], eos) \in Request  BY <2>1, GenerateType
    <3>2. Generate(req[r], eos).priority = req[r].priority
      BY <2>1 DEF Generate, Request
    <3>3. QED  BY <3>1, <3>2
  <2>3. Close(req[r]).priority = req[r].priority  BY <2>1 DEF Close, Request
  <2>4. [req[r] EXCEPT !.result = "cancelled"].priority = req[r].priority
    BY <2>1 DEF Request
  <2>5. CASE Decode
    <3>1. PICK eos \in SUBSET ToSet(active),
               p \in [{q \in ToSet(active) : MeetsGate(req[q])} -> Probabilities] :
            \/ req'[r] = Stamp(Generate(req[r], r \in eos), p[r])
            \/ req'[r] = Generate(req[r], r \in eos)
            \/ req'[r] = req[r]
      BY <2>5 DEF Decode
    <3>2. (r \in eos) \in BOOLEAN  OBVIOUS
    <3>3. Generate(req[r], r \in eos) \in Request
          /\ Generate(req[r], r \in eos).priority = req[r].priority
      BY <2>2, <3>2
    <3>4. Stamp(Generate(req[r], r \in eos), p[r]).priority = Generate(req[r], r \in eos).priority
      BY <3>3, StampPriority
    <3>5. QED  BY <3>1, <3>3, <3>4
  <2>6. CASE Finish  BY <1>1, <2>3, <2>6 DEF Finish
  <2>7. CASE \E q \in Impatient : Cancel(q)
    BY <1>1, <2>4, <2>7, BatcherAssumption DEF Cancel
  <2>8. QED  BY <2>5, <2>6, <2>7
<1>4. UNCHANGED Discipline!vars  BY <1>2, <1>3, Unseen
<1>5. NewIsNormal'  BY <1>2, <1>3 DEF DisciplineInv, NewIsNormal
<1>6. QED  BY <1>4, <1>5

LEMMA InitDiscipline == Init => Discipline!Init /\ DisciplineInv
<1> SUFFICES ASSUME Init PROVE Discipline!Init /\ DisciplineInv  OBVIOUS
<1>1. ToSet(<<>>) = {} /\ 1..0 = {}  BY DEF ToSet
<1>2. \A r \in Requests : req[r].priority = 0  BY DEF Init, NewRequest
<1>3. Discipline!Init  BY <1>1, <1>2 DEF Init, Discipline!Init
<1>4. NewIsNormal  BY <1>2 DEF NewIsNormal
<1>5. QED  BY <1>3, <1>4, InitSafety DEF DisciplineInv

\* One case for each action that the deque sees, one for all the others.
LEMMA StepDiscipline ==
    ASSUME DisciplineInv, [Next]_vars
    PROVE  DisciplineInv' /\ [Discipline!Next]_(Discipline!vars)
<1>0. Safety'  BY NextSafety DEF DisciplineInv
<1>1. ASSUME NEW m \in MaxTokensChoices, NEW s \in StreamChoices, Submit(m, s)
      PROVE  Discipline!Next /\ NewIsNormal'
  BY <1>1, SubmitIsSubmit DEF Discipline!Next
<1>2. CASE FillSlot \/ RefillSlot
  <2>1. PICK eos \in BOOLEAN : AdmitOne(eos)  BY <1>2 DEF FillSlot, RefillSlot
  <2>2. queue # <<>>
    BY <1>2 DEF FillSlot, MayAdmit, RefillSlot, DisciplineInv, Safety, RefillPossible
  <2>3. Discipline!PopLeft /\ NewIsNormal'  BY <2>1, <2>2, AdmitOneIsPopLeft
  <2>4. QED  BY <1>0, <2>3 DEF Discipline!Next, DisciplineInv
<1>3. CASE Preempt
  BY <1>0, <1>3, PreemptIsRequeue DEF Discipline!Next, DisciplineInv, Held
<1>4. CASE Route
  BY <1>0, <1>4, RouteIsDeprioritize DEF Discipline!Next, DisciplineInv, Held
<1>5. CASE Decode \/ Finish \/ \E r \in Impatient : Cancel(r)
  BY <1>0, <1>5, OthersKeepPriorities DEF DisciplineInv
<1>6. CASE UNCHANGED <<queue, req, submitted>>
  <2>1. UNCHANGED Discipline!vars  BY <1>6, Unseen
  <2>2. NewIsNormal'  BY <1>6 DEF DisciplineInv, NewIsNormal
  <2>3. QED  BY <1>0, <2>1, <2>2 DEF DisciplineInv
<1>7. BeginTick \/ EndFill \/ EndAdmission \/ SkipDecode \/ EndTick \/ Stop \/ Stopped
      \/ UNCHANGED vars => UNCHANGED <<queue, req, submitted>>
  BY DEF BeginTick, EndFill, EndAdmission, SkipDecode, EndTick, Stop, Stopped, vars
<1>8. QED
  BY <1>0, <1>1, <1>2, <1>3, <1>4, <1>5, <1>6, <1>7
  DEF Next, Clients, Tick, TryAdmit, DisciplineInv

\* The scheduler uses the deque legally: requests enter it once, leave it at
\* the head, and change their priority only while they are out of it, so what
\* QueueDiscipline promises of the deque holds in the scheduler's hands.
THEOREM QueueUsedLegally == Spec => UsesQueueLegally
<1>1. DisciplineInv /\ [Next]_vars => DisciplineInv' /\ [Discipline!Next]_(Discipline!vars)
  BY StepDiscipline
<1>2. QED
  BY <1>1, InitDiscipline, PTL DEF Spec, UsesQueueLegally, Discipline!Spec

-----------------------------------------------------------------------------
Promises == INSTANCE QueueDisciplineProofs
    WITH pending <- queue,
         held <- (1..submitted) \ ToSet(queue),
         priority <- [r \in Requests |-> req[r].priority],
         submitted <- 1..submitted

\* Promises and Discipline are two instances of one module, which the provers
\* must be shown to be the same.
LEMMA SameDiscipline ==
    /\ Discipline!Init => Promises!Init
    /\ [Discipline!Next]_(Discipline!vars) => [Promises!Next]_(Promises!vars)
    /\ Promises!vars = Discipline!vars /\ Promises!vars' = Discipline!vars'
    /\ \A r : Promises!Joins(r) = Discipline!Joins(r)
<1>1. \A q, r, priority : Promises!PushFrontPriorityAware(q, r, priority)
                            = Discipline!PushFrontPriorityAware(q, r, priority)
  BY DEF Discipline!PushFrontPriorityAware, Promises!PushFrontPriorityAware,
         Discipline!PushFront, Promises!PushFront, Discipline!InsertAt, Promises!InsertAt,
         Discipline!InsertionPoint, Promises!InsertionPoint,
         Discipline!LastNormal, Promises!LastNormal,
         Discipline!Min, Promises!Min, Discipline!Max, Promises!Max
<1>2. Promises!vars = Discipline!vars /\ Promises!vars' = Discipline!vars'
  BY DEF Promises!vars, Discipline!vars
<1>3. Discipline!Init => Promises!Init  BY DEF Discipline!Init, Promises!Init
<1>4. \A r : Discipline!Submit(r) => Promises!Submit(r)
  BY DEF Discipline!Submit, Promises!Submit, Discipline!SubmitTo, Promises!SubmitTo
<1>5. Discipline!PopLeft => Promises!PopLeft  BY DEF Discipline!PopLeft, Promises!PopLeft
<1>6. \A rs : Discipline!Deprioritize(rs) => Promises!Deprioritize(rs)
  BY DEF Discipline!Deprioritize, Promises!Deprioritize
<1>7. \A r : Discipline!Requeue(r) => Promises!Requeue(r)
  BY <1>1 DEF Discipline!Requeue, Promises!Requeue
<1>8. Discipline!Next => Promises!Next
  BY <1>4, <1>5, <1>6, <1>7 DEF Discipline!Next, Promises!Next
<1>9. \A r : Promises!Joins(r) = Discipline!Joins(r)
  BY DEF Promises!Joins, Discipline!Joins, Promises!RemoveAt, Discipline!RemoveAt
<1>10. [Discipline!Next]_(Discipline!vars) => [Promises!Next]_(Promises!vars)
  BY <1>8 DEF Discipline!vars, Promises!vars
<1>11. QED  BY <1>2, <1>3, <1>9, <1>10

LEMMA PromisesApply == Spec => Promises!Spec
BY SameDiscipline, QueueUsedLegally, PTL
DEF UsesQueueLegally, Discipline!Spec, Promises!Spec

\* A request that joins the scheduler's queue is put in it once, and no waiter is
\* dropped or overtakes another, in any run of the scheduler.
THEOREM WaitersKeepTheirPlaces == Spec => OthersKeepTheirPlaces
<1>1. Promises!Spec => Promises!OthersKeepTheirPlaces  BY Promises!JoiningKeepsPlaces
<1>2. [\A r \in (Held \ Held') \cup ((1..submitted)' \ (1..submitted)) : Promises!Joins(r)]_
         (Promises!vars)
      => [\A r \in (Held \ Held') \cup ((1..submitted)' \ (1..submitted)) : Discipline!Joins(r)]_
            (Discipline!vars)
  BY SameDiscipline
<1>3. QED
  BY <1>1, <1>2, PromisesApply, PTL
  DEF OthersKeepTheirPlaces, Promises!OthersKeepTheirPlaces,
      Discipline!OthersKeepTheirPlaces, Held

\* A preempted request that was judged divergent waits behind everyone, in any
\* run of the scheduler.
THEOREM PreemptedWaitsBehindAll == Spec => DeprioritizedJoinsTheTail
<1> DEFINE priority == [r \in Requests |-> req[r].priority]
<1>1. Promises!Spec => Promises!DeprioritizedJoinsTheTail
  BY Promises!DeprioritizedWaitsBehindAll
<1>2. [\A r \in Held \ Held' : priority[r] = 1 => queue' = Append(queue, r)]_(Promises!vars)
      => [\A r \in Held \ Held' : priority[r] = 1 => queue' = Append(queue, r)]_
            (Discipline!vars)
  BY SameDiscipline
<1>3. QED
  BY <1>1, <1>2, PromisesApply, PTL
  DEF DeprioritizedJoinsTheTail, Promises!DeprioritizedJoinsTheTail,
      Discipline!DeprioritizedJoinsTheTail, Held

-----------------------------------------------------------------------------
(* The order of admission.                                                   *)

\* What each action does to the queue, in the words of the code.
LEMMA SubmitQueues ==
    ASSUME DisciplineInv, NEW m \in MaxTokensChoices, NEW s \in StreamChoices, Submit(m, s)
    PROVE  /\ submitted + 1 \in Requests /\ submitted' = submitted + 1
           /\ queue' = Append(queue, submitted + 1)
           /\ Priority' = Priority /\ Priority[submitted + 1] = 0
<1>1. PICK r \in Requests \ (1..submitted) : Discipline!Submit(r)  BY SubmitIsSubmit
<1>2. Priority' = Priority  BY <1>1 DEF Discipline!Submit, Priority
<1>3. submitted + 1 \in Requests /\ submitted' = submitted + 1
      /\ queue' = Append(queue, submitted + 1)
  BY Facts, BatcherAssumption DEF Submit, NextId, SubmitTo, Requests
<1>4. Priority[submitted + 1] = 0
  BY <1>3, Facts DEF DisciplineInv, NewIsNormal, Priority
<1>5. QED  BY <1>2, <1>3, <1>4

LEMMA AdmitOneQueues ==
    ASSUME DisciplineInv, queue # <<>>, NEW eos \in BOOLEAN, AdmitOne(eos)
    PROVE  /\ queue' = Tail(queue) /\ submitted' = submitted
           /\ Priority' = Priority
<1>1. Discipline!PopLeft  BY AdmitOneIsPopLeft
<1>2. Priority' = Priority  BY <1>1 DEF Discipline!PopLeft, Priority
<1>3. QED  BY <1>2 DEF AdmitOne

LEMMA PreemptQueues ==
    ASSUME DisciplineInv, Safety', Preempt
    PROVE  /\ Priority' = Priority /\ submitted' = submitted
           /\ \E i \in VictimSlots :
                 /\ active' = RemoveAt(active, i)
                 /\ active[i] \in ToSet(active) /\ active[i] \in Requests
                 /\ Priority[active[i]] = 1
                 /\ queue' = Append(queue, active[i])
<1>1. PICK i \in VictimSlots :
         /\ active' = RemoveAt(active, i)
         /\ queue' = PushFrontPriorityAware(queue, active[i], Priority)
  BY DEF Preempt, Priority
<1>2. PICK r \in Held : Discipline!Requeue(r)  BY PreemptIsRequeue
<1>3. Priority' = Priority  BY <1>2 DEF Discipline!Requeue, Priority
<1>4. /\ queue \in Seq(Requests) /\ req \in [Requests -> Request]
      /\ 1..submitted \subseteq Requests /\ ToSet(active) \subseteq Held
  BY Facts
<1>5. active[i] \in ToSet(active) /\ active[i] \in Requests /\ Priority[active[i]] = 1
  <2>1. i \in DOMAIN active /\ req[active[i]].priority = 1  BY DEF VictimSlots
  <2>2. QED  BY <1>4, <2>1 DEF ToSet, Held, Priority
<1>6. queue' = Append(queue, active[i])
  <2>1. Priority \in [Requests -> {0, 1}]  BY <1>4 DEF Request, Priority
  <2>2. QED  BY <1>1, <1>4, <1>5, <2>1, DeprioritizedIsAppended
<1>7. submitted' = submitted  BY DEF Preempt
<1>8. QED  BY <1>1, <1>3, <1>5, <1>6, <1>7

LEMMA OthersQueue ==
    ASSUME DisciplineInv, [Next]_vars,
           ~\E m \in MaxTokensChoices, s \in StreamChoices : Submit(m, s),
           ~FillSlot, ~RefillSlot, ~Preempt
    PROVE  /\ UNCHANGED <<queue, submitted>>
           /\ \A r \in ToSet(queue) : Priority'[r] = Priority[r]
<1>1. req \in [Requests -> Request] /\ ToSet(queue) \subseteq Requests
      /\ ToSet(queue) \cap ToSet(active) = {}
  BY Facts DEF Held, DisciplineInv, Safety, NoRequestLost
<1>2. CASE Route
  <2>1. UNCHANGED <<queue, submitted>>  BY <1>2 DEF Route
  <2>2. \A r \in ToSet(queue) : req'[r] = req[r]
    BY <1>1, <1>2 DEF Route, NewlyRouted
  <2>3. QED  BY <1>1, <2>1, <2>2 DEF Priority
<1>3. CASE Decode \/ Finish \/ \E r \in Impatient : Cancel(r)
  <2>1. UNCHANGED Discipline!vars  BY <1>3, OthersKeepPriorities
  <2>2. Priority' = Priority  BY <2>1 DEF Discipline!vars, Priority
  <2>3. UNCHANGED <<queue, submitted>>  BY <1>3 DEF Decode, Finish, Cancel
  <2>4. QED  BY <2>2, <2>3
<1>4. CASE BeginTick \/ EndFill \/ EndAdmission \/ SkipDecode \/ EndTick \/ Stop \/ Stopped
           \/ UNCHANGED vars
  <2>1. UNCHANGED <<queue, submitted, req>>
    BY <1>4 DEF BeginTick, EndFill, EndAdmission, SkipDecode, EndTick, Stop, Stopped, vars
  <2>2. QED  BY <2>1 DEF Priority
<1>5. QED  BY <1>2, <1>3, <1>4 DEF Next, Clients, Tick, TryAdmit

\* NeverAdmitted and the order in it, by the queue and the priorities.
LEMMA NeverIs ==
    ASSUME DisciplineInv
    PROVE  NeverAdmitted = {r \in ToSet(queue) : Priority[r] = 0}
BY Facts DEF NeverAdmitted, Priority, Held

InOrder(q, priority, n) ==
    LET never == {r \in ToSet(q) : priority[r] = 0}
    IN  /\ \A r \in never : r..n \subseteq never
        /\ \A i, j \in DOMAIN q : i < j /\ {q[i], q[j]} \subseteq never => q[i] < q[j]

LEMMA InOrderIs ==
    ASSUME DisciplineInv
    PROVE  FirstComeFirstAdmitted <=> InOrder(queue, Priority, submitted)
BY NeverIs DEF FirstComeFirstAdmitted, InOrder

LEMMA NewestInOrder ==
    ASSUME NEW q \in Seq(Requests), NEW priority, NEW n \in Nat, InOrder(q, priority, n),
           ToSet(q) \subseteq 1..n, n + 1 \in Requests, priority[n + 1] = 0
    PROVE  InOrder(Append(q, n + 1), priority, n + 1)
<1> DEFINE t == Append(q, n + 1)
           never == {r \in ToSet(q) : priority[r] = 0}
           nevert == {r \in ToSet(t) : priority[r] = 0}
<1>1. /\ ToSet(t) = ToSet(q) \cup {n + 1} /\ Len(q) \in Nat
      /\ DOMAIN q = 1..Len(q) /\ DOMAIN t = 1..Len(q) + 1
      /\ t[Len(q) + 1] = n + 1 /\ \A i \in 1..Len(q) : t[i] = q[i]
  BY AppendElements, AppendProperties, LenProperties
<1>2. nevert = never \cup {n + 1}  BY <1>1
<1>3. never \subseteq 1..n /\ \A r \in never : r..n \subseteq never  BY DEF InOrder
<1>4. \A i, j \in 1..Len(q) : i < j /\ {q[i], q[j]} \subseteq never => q[i] < q[j]
  BY <1>1 DEF InOrder
<1>5. \A i \in 1..Len(q) : q[i] \in ToSet(q)  BY <1>1 DEF ToSet
<1> HIDE DEF t, never, nevert
<1>6. \A r \in nevert : r..n + 1 \subseteq nevert  BY <1>2, <1>3
<1>7. ASSUME NEW i \in DOMAIN t, NEW j \in DOMAIN t, i < j, {t[i], t[j]} \subseteq nevert
      PROVE  t[i] < t[j]
  <2>1. i \in 1..Len(q) /\ t[i] = q[i] /\ q[i] \in 1..n  BY <1>1, <1>5, <1>7
  <2>2. CASE j = Len(q) + 1  BY <1>1, <2>1, <2>2
  <2>3. CASE j \in 1..Len(q)
    <3>1. t[j] = q[j] /\ q[j] \in 1..n  BY <1>1, <1>5, <2>3
    <3>2. {q[i], q[j]} \subseteq never  BY <1>2, <1>7, <2>1, <3>1
    <3>3. QED  BY <1>4, <1>7, <2>1, <2>3, <3>1, <3>2
  <2>4. QED  BY <1>1, <2>2, <2>3
<1>8. QED  BY <1>6, <1>7 DEF InOrder, t, nevert

LEMMA PreemptedInOrder ==
    ASSUME NEW q \in Seq(Requests), NEW priority, NEW n \in Nat, InOrder(q, priority, n),
           NEW r \in Requests, priority[r] # 0
    PROVE  /\ InOrder(Append(q, r), priority, n)
           /\ {x \in ToSet(Append(q, r)) : priority[x] = 0} = {x \in ToSet(q) : priority[x] = 0}
<1> DEFINE t == Append(q, r)
           never == {x \in ToSet(q) : priority[x] = 0}
           nevert == {x \in ToSet(t) : priority[x] = 0}
<1>1. /\ ToSet(t) = ToSet(q) \cup {r} /\ Len(q) \in Nat
      /\ DOMAIN q = 1..Len(q) /\ DOMAIN t = 1..Len(q) + 1
      /\ t[Len(q) + 1] = r /\ \A i \in 1..Len(q) : t[i] = q[i]
  BY AppendElements, AppendProperties, LenProperties
<1>2. nevert = never /\ r \notin never  BY <1>1
<1>3. \A x \in never : x..n \subseteq never  BY DEF InOrder
<1>4. \A i, j \in 1..Len(q) : i < j /\ {q[i], q[j]} \subseteq never => q[i] < q[j]
  BY <1>1 DEF InOrder
<1> HIDE DEF t, never, nevert
<1>5. ASSUME NEW i \in DOMAIN t, NEW j \in DOMAIN t, i < j, {t[i], t[j]} \subseteq nevert
      PROVE  t[i] < t[j]
  <2>1. i \in 1..Len(q) /\ j \in 1..Len(q)  BY <1>1, <1>2, <1>5
  <2>2. QED  BY <1>1, <1>2, <1>4, <1>5, <2>1
<1>6. QED  BY <1>2, <1>3, <1>5 DEF InOrder, t, never, nevert

LEMMA RestInOrder ==
    ASSUME NEW q \in Seq(Requests), NEW priority, NEW n \in Nat, InOrder(q, priority, n),
           IsInjective(q), q # <<>>
    PROVE  /\ InOrder(Tail(q), priority, n)
           /\ {x \in ToSet(Tail(q)) : priority[x] = 0}
                 = {x \in ToSet(q) : priority[x] = 0} \ {Head(q)}
<1> DEFINE t == Tail(q)
           never == {x \in ToSet(q) : priority[x] = 0}
           nevert == {x \in ToSet(t) : priority[x] = 0}
<1>1. /\ ToSet(t) = ToSet(q) \ {Head(q)} /\ Len(q) \in Nat /\ Len(q) # 0
      /\ DOMAIN q = 1..Len(q) /\ DOMAIN t = 1..Len(q) - 1
      /\ Head(q) = q[1] /\ \A i \in 1..Len(q) - 1 : t[i] = q[i + 1]
  BY TailElements, HeadTailProperties, LenProperties, EmptySeq
<1>2. nevert = never \ {q[1]}  BY <1>1
<1>3. \A x \in never : x..n \subseteq never  BY DEF InOrder
<1>4. \A i, j \in 1..Len(q) : i < j /\ {q[i], q[j]} \subseteq never => q[i] < q[j]
  BY <1>1 DEF InOrder
<1>5. never \subseteq Nat /\ \A x \in never : \E j \in 1..Len(q) : x = q[j]
  <2>1. \A x \in ToSet(q) : \E j \in 1..Len(q) : x = q[j]  BY <1>1 DEF ToSet
  <2>2. \A j \in 1..Len(q) : q[j] \in Nat
    <3>1. \A j \in 1..Len(q) : q[j] \in Requests  BY ElementOfSeq
    <3>2. QED  BY <3>1 DEF Requests
  <2>3. QED  BY <2>1, <2>2
<1> HIDE DEF t, never, nevert
<1>6. ASSUME NEW x \in nevert, NEW y \in x..n
      PROVE  y \in nevert
  <2>1. x \in never /\ x # q[1] /\ y \in never  BY <1>2, <1>3
  <2>2. CASE q[1] \in never
    <3>1. PICK j \in 1..Len(q) : x = q[j]  BY <1>5, <2>1
    <3>2. 1 < j  BY <1>1, <2>1, <3>1
    <3>3. q[1] < x  BY <1>1, <1>4, <2>1, <2>2, <3>1, <3>2
    <3>4. QED  BY <1>2, <1>5, <2>1, <2>2, <3>3
  <2>3. CASE q[1] \notin never  BY <1>2, <2>1, <2>3
  <2>4. QED  BY <2>2, <2>3
<1>7. ASSUME NEW i \in DOMAIN t, NEW j \in DOMAIN t, i < j, {t[i], t[j]} \subseteq nevert
      PROVE  t[i] < t[j]
  <2>1. i + 1 \in 1..Len(q) /\ j + 1 \in 1..Len(q) /\ i + 1 < j + 1
        /\ t[i] = q[i + 1] /\ t[j] = q[j + 1]
    BY <1>1, <1>7
  <2>2. {q[i + 1], q[j + 1]} \subseteq never  BY <1>2, <1>7, <2>1
  <2>3. QED  BY <1>4, <2>1, <2>2
<1>8. QED  BY <1>1, <1>2, <1>6, <1>7 DEF InOrder, t, never, nevert

LEMMA NextInOrder ==
    ASSUME DisciplineInv, FirstComeFirstAdmitted, [Next]_vars
    PROVE  FirstComeFirstAdmitted'
<1>1. DisciplineInv' /\ Safety'  BY StepDiscipline DEF DisciplineInv
<1>2. InOrder(queue, Priority, submitted)  BY InOrderIs
<1>3. FirstComeFirstAdmitted' <=> InOrder(queue, Priority, submitted)'
  BY <1>1, InOrderIs, PTL
<1>4. /\ queue \in Seq(Requests) /\ submitted \in Nat /\ IsInjective(queue)
      /\ ToSet(queue) \subseteq 1..submitted
  BY Facts
<1>5. CASE \E m \in MaxTokensChoices, s \in StreamChoices : Submit(m, s)
  BY <1>2, <1>3, <1>4, <1>5, SubmitQueues, NewestInOrder
<1>6. CASE FillSlot \/ RefillSlot
  <2>1. PICK eos \in BOOLEAN : AdmitOne(eos)  BY <1>6 DEF FillSlot, RefillSlot
  <2>2. queue # <<>>
    BY <1>6 DEF FillSlot, MayAdmit, RefillSlot, DisciplineInv, Safety, RefillPossible
  <2>3. queue' = Tail(queue) /\ submitted' = submitted /\ Priority' = Priority
    BY <2>1, <2>2, AdmitOneQueues
  <2>4. InOrder(Tail(queue), Priority, submitted)  BY <1>2, <1>4, <2>2, RestInOrder
  <2>5. QED  BY <1>3, <2>3, <2>4
<1>7. CASE Preempt
  <2>1. PICK r \in Requests : Priority[r] = 1 /\ queue' = Append(queue, r)
    BY <1>1, <1>7, PreemptQueues
  <2>2. Priority' = Priority /\ submitted' = submitted  BY <1>1, <1>7, PreemptQueues
  <2>3. InOrder(Append(queue, r), Priority, submitted)
    BY <1>2, <1>4, <2>1, PreemptedInOrder
  <2>4. QED  BY <1>3, <2>1, <2>2, <2>3
<1>8. CASE ~(\E m \in MaxTokensChoices, s \in StreamChoices : Submit(m, s))
           /\ ~FillSlot /\ ~RefillSlot /\ ~Preempt
  <2>1. UNCHANGED <<queue, submitted>> /\ \A r \in ToSet(queue) : Priority'[r] = Priority[r]
    BY <1>8, OthersQueue
  <2>2. {r \in ToSet(queue') : Priority'[r] = 0} = {r \in ToSet(queue) : Priority[r] = 0}
    BY <2>1
  <2>3. QED  BY <1>2, <1>3, <2>1, <2>2 DEF InOrder
<1>9. QED  BY <1>5, <1>6, <1>7, <1>8

LEMMA InitInOrder == Init => FirstComeFirstAdmitted
<1> SUFFICES ASSUME Init PROVE FirstComeFirstAdmitted  OBVIOUS
<1>1. ToSet(<<>>) = {} /\ DOMAIN <<>> = {}  BY DEF ToSet
<1>2. QED  BY <1>1 DEF Init, FirstComeFirstAdmitted, NeverAdmitted

\* Requests are first admitted in the order of their arrival, whatever is
\* preempted and queued again meanwhile, for any number of them.
THEOREM AdmittedInOrder == Spec => []FirstComeFirstAdmitted
<1>1. DisciplineInv /\ FirstComeFirstAdmitted /\ [Next]_vars
      => DisciplineInv' /\ FirstComeFirstAdmitted'
  BY StepDiscipline, NextInOrder
<1>2. QED  BY <1>1, InitDiscipline, InitInOrder, PTL DEF Spec

-----------------------------------------------------------------------------
(* What _try_admit leaves behind, and what preemption costs.                 *)

Running == ToSet(active)
Yielding == {r \in Running : Priority[r] = 1}

\* While the second loop of _try_admit runs: each turn replaces one of the
\* deprioritized by a normal request, so that when the bound on the turns ends
\* it none is left; and the slot that is free between the two halves of a turn
\* is the victim's.
Admitting ==
    /\ phase \in {"preempt", "readmit"} => Strategy = "probe_deprioritize"
    /\ phase = "readmit" =>
          /\ Priority[Head(queue)] = 0 /\ Len(active) = MaxBatchSize - 1
          /\ Cardinality(Yielding) + attempts + 1 <= MaxBatchSize
    /\ phase = "preempt" =>
          /\ Cardinality(Yielding) + attempts <= MaxBatchSize
          /\ queue # <<>> =>
                \/ Len(active) = MaxBatchSize
                \/ Len(active) = MaxBatchSize - 1 /\ attempts > 0

AdmissionInv == DisciplineInv /\ Admitting /\ AdmissionDone

LEMMA Batch ==
    ASSUME DisciplineInv
    PROVE  /\ active \in Seq(Requests) /\ IsInjective(active)
           /\ Running \subseteq Requests /\ Running \subseteq Held
           /\ IsFiniteSet(Running) /\ Cardinality(Running) = Len(active)
           /\ Len(active) \in Nat /\ Len(active) <= MaxBatchSize
           /\ IsFiniteSet(Yielding) /\ Cardinality(Yielding) \in Nat
           /\ Cardinality(Yielding) <= Len(active)
           /\ attempts \in Nat /\ total \in Totals
           /\ Priority \in [Requests -> {0, 1}]
<1>1. /\ active \in Seq(Requests) /\ IsInjective(active) /\ Len(active) <= MaxBatchSize
      /\ attempts \in Nat /\ total \in Totals /\ req \in [Requests -> Request]
  BY DEF DisciplineInv, Safety, TypeOK, NoRequestLost, CacheMatchesBatch
<1>2. Running \subseteq Requests /\ Running \subseteq Held
  BY Facts DEF Held, Running
<1>3. /\ IsFiniteSet(Running) /\ Cardinality(Running) = Len(active)
      /\ Len(active) \in Nat
  BY <1>1, InjectiveLength, LenProperties DEF Running
<1>4. Yielding \in SUBSET Running  BY DEF Yielding
<1>5. IsFiniteSet(Yielding) /\ Cardinality(Yielding) <= Cardinality(Running)
  BY <1>3, <1>4, FS_Subset
<1>6. Cardinality(Yielding) \in Nat  BY <1>5, FS_CardinalityType
<1>7. Priority \in [Requests -> {0, 1}]  BY <1>1 DEF Priority, Request
<1>8. QED  BY <1>1, <1>2, <1>3, <1>5, <1>6, <1>7

\* _find_deprioritize_victim finds one if there is one.
LEMMA VictimFound ==
    ASSUME DisciplineInv, VictimSlots = {}
    PROVE  \A i \in DOMAIN active : req[active[i]].priority = 0
<1> DEFINE Candidates == {i \in DOMAIN active : req[active[i]].priority = 1}
           n(i) == req[active[i]].n_generated
           Progress == {n(i) : i \in Candidates}
<1>1. /\ active \in Seq(Requests) /\ req \in [Requests -> Request]
      /\ DOMAIN active = 1..Len(active) /\ Len(active) \in Nat
  BY Facts, LenProperties
<1>2. \A i \in DOMAIN active : /\ req[active[i]].priority \in {0, 1}
                              /\ n(i) \in Nat /\ i \in Nat
  <2>1. \A i \in DOMAIN active : active[i] \in Requests  BY <1>1, ElementOfSeq
  <2>2. QED  BY <1>1, <2>1 DEF Request
<1>3. ASSUME Candidates # {}
      PROVE  FALSE
  <2>1. Progress \in SUBSET Nat /\ Progress # {}  BY <1>2, <1>3
  <2>2. PICK m \in Progress : \A k \in Progress : m <= k  BY <2>1, LeastOfNaturals
  <2> DEFINE Least == {i \in Candidates : n(i) = m}
  <2>3. Least \in SUBSET Nat /\ Least # {}  BY <1>2
  <2>4. PICK i \in Least : \A j \in Least : i <= j  BY <2>3, LeastOfNaturals
  <2>5. ASSUME NEW j \in Candidates
        PROVE  n(i) < n(j) \/ (n(i) = n(j) /\ i <= j)
    <3>1. n(i) = m /\ m <= n(j) /\ m \in Nat /\ n(j) \in Nat  BY <1>2, <2>1, <2>2
    <3>2. CASE n(j) = m  BY <2>4, <3>1, <3>2
    <3>3. CASE n(j) # m  BY <3>1, <3>3
    <3>4. QED  BY <3>2, <3>3
  <2>6. i \in VictimSlots  BY <2>5 DEF VictimSlots
  <2>7. QED  BY <2>6
<1>4. QED  BY <1>2, <1>3

LEMMA EndFillAdmission ==
    ASSUME AdmissionInv, EndFill
    PROVE  Admitting' /\ AdmissionDone'
<1>1. /\ UNCHANGED <<queue, active, req>> /\ attempts' = 0
      /\ phase' = IF Strategy = "probe_deprioritize" THEN "preempt" ELSE "decode"
      /\ queue # <<>> => ~(Len(active) < MaxBatchSize)
  BY DEF EndFill, MayAdmit, HasFreeSlot
<1>2. /\ Len(active) \in Nat /\ Len(active) <= MaxBatchSize
      /\ Cardinality(Yielding) \in Nat /\ Cardinality(Yielding) <= Len(active)
  BY Batch DEF AdmissionInv
<1>3. queue # <<>> => Len(active) = MaxBatchSize  BY <1>1, <1>2, BatcherAssumption
<1>4. Yielding' = Yielding  BY <1>1 DEF Yielding, Running, Priority
<1>5. Cardinality(Yielding) + 0 <= MaxBatchSize  BY <1>2, BatcherAssumption
<1>6. Admitting'  BY <1>1, <1>3, <1>4, <1>5 DEF Admitting
<1>7. AdmissionDone'  BY <1>1, <1>3 DEF AdmissionDone
<1>8. QED  BY <1>6, <1>7

LEMMA PreemptAdmission ==
    ASSUME AdmissionInv, Safety', Preempt
    PROVE  Admitting' /\ AdmissionDone'
<1>1. PICK i \in VictimSlots :
         /\ active' = RemoveAt(active, i)
         /\ active[i] \in ToSet(active) /\ active[i] \in Requests
         /\ Priority[active[i]] = 1
         /\ queue' = Append(queue, active[i])
  BY PreemptQueues DEF AdmissionInv
<1>2. Priority' = Priority  BY PreemptQueues DEF AdmissionInv
<1>3. /\ phase = "preempt" /\ phase' = "readmit" /\ attempts' = attempts
      /\ queue # <<>> /\ Len(active) >= MaxBatchSize /\ req[Head(queue)].priority = 0
  BY DEF Preempt, MayPreempt
<1>4. /\ active \in Seq(Requests) /\ IsInjective(active)
      /\ Len(active) \in Nat /\ Len(active) <= MaxBatchSize
      /\ IsFiniteSet(Yielding) /\ Cardinality(Yielding) \in Nat
      /\ attempts \in Nat /\ queue \in Seq(Requests)
  BY Batch, Facts DEF AdmissionInv
<1>5. i \in DOMAIN active  BY DEF VictimSlots
<1>6. Len(active') = MaxBatchSize - 1
  BY <1>1, <1>3, <1>4, <1>5, RemoveAtProperties, BatcherAssumption
<1>7. Yielding' = Yielding \ {active[i]} /\ active[i] \in Yielding
  <2>1. ToSet(active') = Running \ {active[i]}
    BY <1>1, <1>4, <1>5, RemoveAtElements DEF Running
  <2>2. QED  BY <1>1, <1>2, <2>1 DEF Yielding, Running
<1>8. Cardinality(Yielding') = Cardinality(Yielding) - 1
  BY <1>4, <1>7, FS_RemoveElement
<1>9. Cardinality(Yielding') + attempts' + 1 <= MaxBatchSize
  <2>1. Cardinality(Yielding) + attempts <= MaxBatchSize
    BY <1>3 DEF AdmissionInv, Admitting
  <2>2. QED  BY <1>3, <1>4, <1>8, <2>1, BatcherAssumption
<1>10. Priority'[Head(queue')] = 0
  <2>1. Head(queue') = Head(queue) /\ Head(queue) \in Requests
    <3>1. Len(queue) \in Nat /\ Len(queue) # 0  BY <1>3, <1>4, LenProperties, EmptySeq
    <3>2. queue'[1] = queue[1]  BY <1>1, <1>4, <3>1, AppendProperties
    <3>3. Head(queue) \in Requests  BY <1>3, <1>4, HeadTailProperties
    <3>4. QED  BY <3>2, <3>3
  <2>2. QED  BY <1>2, <1>3, <2>1 DEF Priority
<1>11. Strategy = "probe_deprioritize"  BY <1>3 DEF AdmissionInv, Admitting
<1>12. QED  BY <1>3, <1>6, <1>9, <1>10, <1>11 DEF Admitting, AdmissionDone

LEMMA RefillAdmission ==
    ASSUME AdmissionInv, RefillSlot
    PROVE  Admitting' /\ AdmissionDone'
<1>1. PICK eos \in BOOLEAN : AdmitOne(eos)  BY DEF RefillSlot
<1>2. phase = "readmit" /\ phase' = "preempt" /\ attempts' = attempts + 1
  BY DEF RefillSlot
<1>3. /\ queue # <<>> /\ Priority[Head(queue)] = 0
      /\ Len(active) = MaxBatchSize - 1
      /\ Cardinality(Yielding) + attempts + 1 <= MaxBatchSize
      /\ Strategy = "probe_deprioritize"
  BY <1>2 DEF AdmissionInv, Admitting, DisciplineInv, Safety, RefillPossible
<1>4. /\ active \in Seq(Requests) /\ queue \in Seq(Requests)
      /\ Cardinality(Yielding) \in Nat /\ attempts \in Nat
  BY Batch, Facts DEF AdmissionInv
<1>5. Priority' = Priority  BY <1>1, <1>3, AdmitOneQueues DEF AdmissionInv
<1>6. active' = active \/ active' = Append(active, Head(queue))  BY <1>1 DEF AdmitOne
<1>7. Head(queue) \in Requests  BY <1>3, <1>4, HeadTailProperties
<1>8. Len(active') = MaxBatchSize \/ Len(active') = MaxBatchSize - 1
  BY <1>3, <1>4, <1>6, <1>7, AppendProperties, BatcherAssumption
<1>9. ToSet(active') = Running \/ ToSet(active') = Running \cup {Head(queue)}
  <2>1. ToSet(Append(active, Head(queue))) = ToSet(active) \cup {Head(queue)}
    BY <1>4, <1>7, AppendElements
  <2>2. QED  BY <1>6, <2>1 DEF Running
<1>10. Yielding' = Yielding  BY <1>3, <1>5, <1>9 DEF Yielding, Running
<1>11. Cardinality(Yielding') + attempts' <= MaxBatchSize /\ attempts' > 0
  BY <1>2, <1>3, <1>4, <1>10, BatcherAssumption
<1>12. QED  BY <1>2, <1>3, <1>8, <1>11 DEF Admitting, AdmissionDone

LEMMA EndAdmissionAdmission ==
    ASSUME AdmissionInv, EndAdmission
    PROVE  Admitting' /\ AdmissionDone'
<1>1. /\ phase = "preempt" /\ phase' = "decode"
      /\ UNCHANGED <<queue, active, req, attempts>>
      /\ (~MayPreempt \/ VictimSlots = {})
  BY DEF EndAdmission
<1>2. /\ active \in Seq(Requests) /\ Len(active) \in Nat /\ attempts \in Nat
      /\ IsFiniteSet(Yielding) /\ Cardinality(Yielding) \in Nat
      /\ req \in [Requests -> Request]
  BY Batch, Facts DEF AdmissionInv
<1>3. /\ Cardinality(Yielding) + attempts <= MaxBatchSize
      /\ queue # <<>> =>
            \/ Len(active) = MaxBatchSize
            \/ Len(active) = MaxBatchSize - 1 /\ attempts > 0
  BY <1>1 DEF AdmissionInv, Admitting
<1>4. ASSUME queue # <<>>, Len(active) = MaxBatchSize, req[Head(queue)].priority = 0
      PROVE  \A i \in DOMAIN active : req[active[i]].priority = 0
  <2>1. CASE attempts >= MaxBatchSize
    <3>1. Cardinality(Yielding) = 0  BY <1>2, <1>3, <2>1, BatcherAssumption
    <3>2. Yielding = {}  BY <1>2, <3>1, FS_EmptySet
    <3>3. \A i \in DOMAIN active : active[i] \in Running /\ active[i] \in Requests
      BY <1>2, LenProperties, ElementOfSeq DEF Running, ToSet
    <3>4. \A i \in DOMAIN active : req[active[i]].priority # 1
      BY <3>2, <3>3 DEF Yielding, Priority
    <3>5. \A r \in Requests : req[r].priority \in {0, 1}  BY <1>2 DEF Request
    <3>6. QED  BY <3>3, <3>4, <3>5
  <2>2. CASE ~(attempts >= MaxBatchSize)
    <3>1. MayPreempt  BY <1>2, <1>4, <2>2, BatcherAssumption DEF MayPreempt
    <3>2. VictimSlots = {}  BY <1>1, <3>1
    <3>3. QED  BY <3>2, VictimFound DEF AdmissionInv
  <2>3. QED  BY <2>1, <2>2
<1>5. AdmissionDone'  BY <1>1, <1>3, <1>4 DEF AdmissionDone
<1>6. Admitting'  BY <1>1 DEF Admitting
<1>7. QED  BY <1>5, <1>6

LEMMA NextAdmission == AdmissionInv /\ [Next]_vars => AdmissionInv'
<1> SUFFICES ASSUME AdmissionInv, [Next]_vars PROVE AdmissionInv'  OBVIOUS
<1>1. DisciplineInv' /\ Safety'  BY StepDiscipline DEF AdmissionInv, DisciplineInv
<1>2. CASE EndFill  BY <1>1, <1>2, EndFillAdmission DEF AdmissionInv
<1>3. CASE Preempt  BY <1>1, <1>3, PreemptAdmission DEF AdmissionInv
<1>4. CASE RefillSlot  BY <1>1, <1>4, RefillAdmission DEF AdmissionInv
<1>5. CASE EndAdmission  BY <1>1, <1>5, EndAdmissionAdmission DEF AdmissionInv
<1>6. CASE UNCHANGED vars
  <2>1. UNCHANGED <<queue, active, req, phase, attempts>>  BY <1>6 DEF vars
  <2>2. Priority' = Priority /\ Yielding' = Yielding
    BY <2>1 DEF Priority, Yielding, Running
  <2>3. Admitting' /\ AdmissionDone'
    BY <2>1, <2>2 DEF AdmissionInv, Admitting, AdmissionDone
  <2>4. QED  BY <1>1, <2>3 DEF AdmissionInv
<1>7. CASE ~EndFill /\ ~Preempt /\ ~RefillSlot /\ ~EndAdmission /\ ~UNCHANGED vars
  <2>1. phase' \notin {"preempt", "readmit", "decode"}
    BY <1>7 DEF Next, Clients, Tick, TryAdmit, Stopped, Submit, Cancel, BeginTick, FillSlot,
                Decode, SkipDecode, Route, Finish, EndTick, Stop
  <2>2. Admitting' /\ AdmissionDone'  BY <2>1 DEF Admitting, AdmissionDone
  <2>3. QED  BY <1>1, <2>2 DEF AdmissionInv
<1>8. QED  BY <1>2, <1>3, <1>4, <1>5, <1>6, <1>7

LEMMA InitAdmission == Init => AdmissionInv
BY InitDiscipline DEF Init, AdmissionInv, Admitting, AdmissionDone

\* The admission leaves no slot empty and no deprioritized request in the batch
\* that a waiting normal one could have, for any batch size and any load; but
\* for the slot of a replacement that its first token finished.
THEOREM AdmissionComplete == Spec => []AdmissionDone
<1>1. AdmissionInv => AdmissionDone  BY DEF AdmissionInv
<1>2. QED  BY <1>1, InitAdmission, NextAdmission, PTL DEF Spec

\* Those that wait for their first run, and how many they are.
LEMMA Never ==
    ASSUME DisciplineInv
    PROVE  /\ NeverAdmitted = {r \in ToSet(queue) : Priority[r] = 0}
           /\ NeverAdmitted \subseteq 1..submitted /\ NeverAdmitted \cap Running = {}
           /\ IsFiniteSet(NeverAdmitted) /\ Cardinality(NeverAdmitted) \in Nat
           /\ Cardinality(NeverAdmitted) + Len(active) <= submitted
<1>1. NeverAdmitted = {r \in ToSet(queue) : Priority[r] = 0}  BY NeverIs
<1>2. /\ submitted \in Nat /\ ToSet(queue) \subseteq 1..submitted
      /\ Running \subseteq (1..submitted) \ ToSet(queue)
  BY Facts DEF Held, Running
<1>3. NeverAdmitted \subseteq 1..submitted /\ NeverAdmitted \cap Running = {}
  BY <1>1, <1>2
<1>4. IsFiniteSet(1..submitted) /\ Cardinality(1..submitted) = submitted
  BY <1>2, FS_Interval
<1>5. IsFiniteSet(NeverAdmitted)  BY <1>3, <1>4, FS_Subset
<1>6. Cardinality(NeverAdmitted) \in Nat  BY <1>5, FS_CardinalityType
<1>7. IsFiniteSet(Running) /\ Cardinality(Running) = Len(active) /\ Len(active) \in Nat
  BY Batch
<1>8. Cardinality(NeverAdmitted \cup Running) = Cardinality(NeverAdmitted) + Len(active)
  <2>1. Cardinality(NeverAdmitted \cap Running) = 0  BY <1>3, FS_EmptySet
  <2>2. Cardinality(NeverAdmitted \cup Running)
           = Cardinality(NeverAdmitted) + Cardinality(Running)
                - Cardinality(NeverAdmitted \cap Running)
    BY <1>5, <1>7, FS_Union
  <2>3. QED  BY <1>6, <1>7, <2>1, <2>2
<1>9. Cardinality(NeverAdmitted \cup Running) <= submitted
  BY <1>2, <1>3, <1>4, FS_Subset
<1>10. QED  BY <1>1, <1>3, <1>5, <1>6, <1>8, <1>9

LEMMA AdmitOnePreemptions ==
    ASSUME DisciplineInv, NEW eos \in BOOLEAN, AdmitOne(eos)
    PROVE  total'.preemptions = total.preemptions
<1>1. total \in Totals  BY Batch
<1>2. QED  BY <1>1 DEF AdmitOne, CountFinish, Totals

Allowance == IF phase = "readmit" THEN 1 ELSE 0

LEMMA NextBudget ==
    ASSUME AdmissionInv, AdmissionInv', PreemptionBudget, [Next]_vars
    PROVE  PreemptionBudget'
<1>1. /\ DisciplineInv /\ DisciplineInv' /\ Safety'
      /\ queue \in Seq(Requests) /\ IsInjective(queue) /\ submitted \in Nat
      /\ ToSet(queue) \subseteq 1..submitted
  BY Facts DEF AdmissionInv, DisciplineInv
<1>2. /\ NeverAdmitted = {r \in ToSet(queue) : Priority[r] = 0}
      /\ IsFiniteSet(NeverAdmitted) /\ Cardinality(NeverAdmitted) \in Nat
      /\ Cardinality(NeverAdmitted) + Len(active) <= submitted
  BY <1>1, Never
<1>3. /\ NeverAdmitted' = {r \in ToSet(queue') : Priority'[r] = 0}
      /\ IsFiniteSet(NeverAdmitted') /\ Cardinality(NeverAdmitted') \in Nat
  <2>1. /\ (NeverAdmitted = {r \in ToSet(queue) : Priority[r] = 0})'
        /\ IsFiniteSet(NeverAdmitted)' /\ (Cardinality(NeverAdmitted) \in Nat)'
    BY <1>1, Never, PTL
  <2>2. QED  BY <2>1
<1>4. /\ Len(active) \in Nat /\ Len(active) <= MaxBatchSize /\ MaxBatchSize \in Nat
      /\ total \in Totals /\ total.preemptions \in Nat
  BY <1>1, Batch, BatcherAssumption DEF Totals
<1>5. total.preemptions > 0 =>
         total.preemptions + MaxBatchSize + Cardinality(NeverAdmitted)
            <= submitted + Allowance
  BY DEF PreemptionBudget, Allowance
<1>6. SUFFICES total'.preemptions > 0 =>
         total'.preemptions + MaxBatchSize + Cardinality(NeverAdmitted')
            <= submitted' + Allowance'
  BY DEF PreemptionBudget, Allowance
<1>7. CASE \E m \in MaxTokensChoices, s \in StreamChoices : Submit(m, s)
  <2>1. /\ submitted + 1 \in Requests /\ submitted' = submitted + 1
        /\ queue' = Append(queue, submitted + 1)
        /\ Priority' = Priority /\ Priority[submitted + 1] = 0
    BY <1>1, <1>7, SubmitQueues
  <2>2. NeverAdmitted' = NeverAdmitted \cup {submitted + 1}
    <3>1. ToSet(queue') = ToSet(queue) \cup {submitted + 1}  BY <1>1, <2>1, AppendElements
    <3>2. QED  BY <1>2, <1>3, <2>1, <3>1
  <2>3. Cardinality(NeverAdmitted') <= Cardinality(NeverAdmitted) + 1
    <3>1. Cardinality(NeverAdmitted') = IF submitted + 1 \in NeverAdmitted
                                        THEN Cardinality(NeverAdmitted)
                                        ELSE Cardinality(NeverAdmitted) + 1
      BY <1>2, <2>2, FS_AddElement
    <3>2. QED  BY <1>2, <3>1
  <2>4. total' = total /\ Allowance' = Allowance  BY <1>7 DEF Submit, Allowance
  <2>5. Allowance \in Nat  BY DEF Allowance
  <2>6. /\ submitted \in Nat /\ submitted' = submitted + 1
        /\ Cardinality(NeverAdmitted) \in Nat /\ Cardinality(NeverAdmitted') \in Nat
    BY <1>1, <1>2, <1>3, <2>1
  <2>7. QED  BY <1>4, <1>5, <2>3, <2>4, <2>5, <2>6
<1>8. CASE FillSlot
  <2>1. PICK eos \in BOOLEAN : AdmitOne(eos)  BY <1>8 DEF FillSlot
  <2>2. queue # <<>> /\ Allowance = 0 /\ Allowance' = 0
    BY <1>8 DEF FillSlot, MayAdmit, Allowance
  <2>3. queue' = Tail(queue) /\ submitted' = submitted /\ Priority' = Priority
    BY <1>1, <2>1, <2>2, AdmitOneQueues
  <2>4. NeverAdmitted' \subseteq NeverAdmitted
    <3>1. ToSet(queue') \subseteq ToSet(queue)  BY <1>1, <2>2, <2>3, TailElements
    <3>2. QED  BY <1>2, <1>3, <2>3, <3>1
  <2>5. Cardinality(NeverAdmitted') <= Cardinality(NeverAdmitted)
    BY <1>2, <2>4, FS_Subset
  <2>6. total'.preemptions = total.preemptions  BY <1>1, <2>1, AdmitOnePreemptions
  <2>7. QED  BY <1>1, <1>2, <1>3, <1>4, <1>5, <2>2, <2>3, <2>5, <2>6
<1>9. CASE RefillSlot
  <2>1. PICK eos \in BOOLEAN : AdmitOne(eos)  BY <1>9 DEF RefillSlot
  <2>2. phase = "readmit" /\ Allowance = 1 /\ Allowance' = 0
    BY <1>9 DEF RefillSlot, Allowance
  <2>3. queue # <<>> /\ Priority[Head(queue)] = 0
    BY <2>2 DEF AdmissionInv, Admitting, DisciplineInv, Safety, RefillPossible
  <2>4. queue' = Tail(queue) /\ submitted' = submitted /\ Priority' = Priority
    BY <1>1, <2>1, <2>3, AdmitOneQueues
  <2>5. Head(queue) \in ToSet(queue) /\ ToSet(queue') = ToSet(queue) \ {Head(queue)}
    BY <1>1, <2>3, <2>4, TailElements
  <2>6. NeverAdmitted' = NeverAdmitted \ {Head(queue)} /\ Head(queue) \in NeverAdmitted
    BY <1>2, <1>3, <2>3, <2>4, <2>5
  <2>7. Cardinality(NeverAdmitted') = Cardinality(NeverAdmitted) - 1
    BY <1>2, <2>6, FS_RemoveElement
  <2>8. total'.preemptions = total.preemptions  BY <1>1, <2>1, AdmitOnePreemptions
  <2>9. QED  BY <1>1, <1>2, <1>3, <1>4, <1>5, <2>2, <2>4, <2>7, <2>8
<1>10. CASE Preempt
  <2>1. PICK r \in Requests : Priority[r] = 1 /\ queue' = Append(queue, r)
    BY <1>1, <1>10, PreemptQueues
  <2>2. Priority' = Priority /\ submitted' = submitted  BY <1>1, <1>10, PreemptQueues
  <2>3. NeverAdmitted' = NeverAdmitted
    <3>1. ToSet(queue') = ToSet(queue) \cup {r}  BY <1>1, <2>1, AppendElements
    <3>2. QED  BY <1>2, <1>3, <2>1, <2>2, <3>1
  <2>4. /\ Len(active) >= MaxBatchSize
        /\ total' = [total EXCEPT !.preemptions = @ + 1]
        /\ Allowance = 0 /\ Allowance' = 1
    BY <1>10 DEF Preempt, MayPreempt, Allowance
  <2>5. total'.preemptions = total.preemptions + 1  BY <1>4, <2>4 DEF Totals
  <2>6. CASE total.preemptions > 0
    BY <1>1, <1>2, <1>4, <1>5, <2>2, <2>3, <2>4, <2>5, <2>6
  <2>7. CASE total.preemptions = 0
    BY <1>1, <1>2, <1>4, <2>2, <2>3, <2>4, <2>5, <2>7
  <2>8. QED  BY <1>4, <2>6, <2>7
<1>11. CASE ~(\E m \in MaxTokensChoices, s \in StreamChoices : Submit(m, s))
            /\ ~FillSlot /\ ~RefillSlot /\ ~Preempt
  <2>1. UNCHANGED <<queue, submitted>> /\ \A r \in ToSet(queue) : Priority'[r] = Priority[r]
    BY <1>1, <1>11, OthersQueue
  <2>2. NeverAdmitted' = NeverAdmitted  BY <1>2, <1>3, <2>1
  <2>3. total'.preemptions = total.preemptions
    BY <1>4, <1>11 DEF Next, Clients, Tick, TryAdmit, Stopped, vars, Cancel, BeginTick, EndFill,
                EndAdmission, Decode, SkipDecode, Route, Finish, EndTick, Stop,
                CountFinish, Totals
  <2>4. phase' = "readmit" => phase = "readmit"
    BY <1>11 DEF Next, Clients, Tick, TryAdmit, Stopped, vars, Cancel, BeginTick, EndFill,
                EndAdmission, Decode, SkipDecode, Route, Finish, EndTick, Stop
  <2>5. phase = "readmit" => phase' = "readmit"
    BY <1>11 DEF Next, Clients, Tick, TryAdmit, Stopped, vars, Cancel, BeginTick, EndFill,
                EndAdmission, Decode, SkipDecode, Route, Finish, EndTick, Stop
  <2>6. Allowance' = Allowance  BY <2>4, <2>5 DEF Allowance
  <2>7. QED  BY <1>5, <2>1, <2>2, <2>3, <2>6
<1>12. QED  BY <1>7, <1>8, <1>9, <1>10, <1>11

LEMMA InitBudget == Init => PreemptionBudget
BY DEF Init, PreemptionBudget

\* Each preemption is paid for by a request that had never run: the requests
\* preempted are never more than the others, for any load and batch size.
THEOREM PreemptionsArePaidFor == Spec => []PreemptionBudget
<1>1. AdmissionInv /\ PreemptionBudget /\ [Next]_vars => AdmissionInv' /\ PreemptionBudget'
  BY NextAdmission, NextBudget
<1>2. QED  BY <1>1, InitAdmission, InitBudget, PTL DEF Spec

-----------------------------------------------------------------------------
(* The step simulation of RequestLifecycle.                                  *)

status == [r \in Requests |-> StatusOf(r)]

LifeInv == AdmissionInv /\ FirstComeFirstAdmitted

\* The status of a request, by its place.
Place(r) == IF r > submitted THEN "new"
            ELSE IF r \in Running THEN "running"
            ELSE IF r \in NeverAdmitted THEN "waiting"
            ELSE IF r \in ToSet(queue) THEN "yielded" ELSE "served"

LEMMA Statuses ==
    ASSUME DisciplineInv
    PROVE  /\ \A r \in Requests : StatusOf(r) = Place(r)
           /\ Lifecycle!Of("new") = {r \in Requests : r > submitted}
           /\ Lifecycle!Of("running") = Running
           /\ Lifecycle!Of("waiting") = NeverAdmitted
           /\ Lifecycle!Of("yielded") = ToSet(queue) \ NeverAdmitted
<1>1. /\ submitted \in Nat /\ 1..submitted \subseteq Requests
      /\ ToSet(queue) \subseteq 1..submitted
      /\ Running \subseteq (1..submitted) \ ToSet(queue)
      /\ ToSet(queue) \cup Running = (1..submitted) \ Completed
      /\ Priority \in [Requests -> {0, 1}]
  BY Facts, Batch DEF Held, Running, DisciplineInv, Safety, NoRequestLost
<1>2. NeverAdmitted = {r \in ToSet(queue) : req[r].priority = 0}  BY DEF NeverAdmitted
<1>3. \A r \in Requests : req[r].priority \in {0, 1}  BY <1>1 DEF Priority
<1>4. ASSUME NEW r \in Requests
      PROVE  StatusOf(r) = Place(r)
  <2>1. r > submitted \/ r \in 1..submitted  BY <1>1 DEF Requests
  <2>2. r \in 1..submitted => ~(r > submitted)  BY <1>1
  <2>3. r \in 1..submitted /\ ~req[r].completed <=> r \in ToSet(queue) \/ r \in Running
    BY <1>1 DEF Completed
  <2>4. QED  BY <1>1, <1>2, <1>3, <2>1, <2>2, <2>3 DEF StatusOf, Place, Running
<1>5. \A x : Lifecycle!Of(x) = {r \in Requests : StatusOf(r) = x}
  BY DEF Lifecycle!Of, Lifecycle!Requests, Requests
<1>6. \A r \in Running \cup ToSet(queue) : r \in Requests /\ ~(r > submitted)  BY <1>1
<1>7. Lifecycle!Of("new") = {r \in Requests : r > submitted}  BY <1>4, <1>5 DEF Place
<1>8. Lifecycle!Of("running") = Running  BY <1>4, <1>5, <1>6 DEF Place
<1>9. Lifecycle!Of("waiting") = NeverAdmitted  BY <1>1, <1>2, <1>4, <1>5, <1>6 DEF Place
<1>10. Lifecycle!Of("yielded") = ToSet(queue) \ NeverAdmitted
  BY <1>1, <1>2, <1>4, <1>5, <1>6 DEF Place
<1>11. QED  BY <1>4, <1>7, <1>8, <1>9, <1>10

\* One request changes its place, the others stay.
LEMMA Becomes ==
    ASSUME NEW r \in Requests, NEW x, StatusOf(r)' = x,
           \A q \in Requests \ {r} : StatusOf(q)' = StatusOf(q)
    PROVE  Lifecycle!Become(r, x)
<1>1. status' = [status EXCEPT ![r] = x]  BY DEF status
<1>2. QED  BY <1>1 DEF Lifecycle!Become, status

LEMMA SubmitIsArrive ==
    ASSUME LifeInv, LifeInv', NEW m \in MaxTokensChoices, NEW s \in StreamChoices, Submit(m, s)
    PROVE  Lifecycle!Next
<1>0. PICK r \in Requests : r = submitted + 1
  BY SubmitQueues DEF LifeInv, AdmissionInv
<1>1. /\ submitted' = r /\ submitted \in Nat
      /\ UNCHANGED active /\ req' = [req EXCEPT ![r] = NewRequest(m, s)]
      /\ req \in [Requests -> Request] /\ Running \subseteq 1..submitted
  BY <1>0, Facts, Batch DEF LifeInv, AdmissionInv, Submit, NextId, Held
<1>2. StatusOf(r)' = "waiting"
  <2>1. req'[r] = NewRequest(m, s)  BY <1>1
  <2>2. ~req'[r].completed /\ req'[r].priority = 0  BY <2>1 DEF NewRequest
  <2>3. r \notin ToSet(active') /\ ~(r > submitted')  BY <1>0, <1>1 DEF Running
  <2>4. QED  BY <2>2, <2>3 DEF StatusOf
<1>3. ASSUME NEW q \in Requests \ {r}
      PROVE  StatusOf(q)' = StatusOf(q)
  <2>1. req'[q] = req[q] /\ (q > submitted' <=> q > submitted)
    BY <1>0, <1>1 DEF Requests
  <2>2. QED  BY <1>1, <2>1 DEF StatusOf
<1>4. Lifecycle!First(r, Lifecycle!Of("new"))
  <2>1. Lifecycle!Of("new") = {q \in Requests : q > submitted}
    BY Statuses DEF LifeInv, AdmissionInv
  <2>2. QED  BY <1>0, <1>1, <2>1 DEF Lifecycle!First, Requests
<1>5. Lifecycle!Become(r, "waiting")  BY <1>2, <1>3, Becomes
<1>6. QED  BY <1>4, <1>5 DEF Lifecycle!Next, Lifecycle!Arrive, Lifecycle!Requests, Requests

\* The abstract module counts with its own copy of Cardinality: the same.
LEMMA SameCardinality ==
    ASSUME NEW S
    PROVE  Lifecycle!Cardinality(S) = Cardinality(S)
BY DEF Lifecycle!Cardinality, Cardinality

LEMMA AdmitOneIsStart ==
    ASSUME LifeInv, queue # <<>>, Len(active) < MaxBatchSize, NEW eos \in BOOLEAN, AdmitOne(eos)
    PROVE  Lifecycle!Next
<1>0. PICK r \in Requests : r = Head(queue)
  BY Facts, HeadTailProperties DEF LifeInv, AdmissionInv
<1> DEFINE y == Generate(req[r], eos)
<1>1. /\ queue \in Seq(Requests) /\ active \in Seq(Requests)
      /\ req \in [Requests -> Request] /\ submitted \in Nat
      /\ Running \subseteq (1..submitted) \ ToSet(queue)
      /\ ToSet(queue) \subseteq 1..submitted
      /\ ToSet(queue) \cap Completed = {} /\ Cardinality(Running) = Len(active)
  BY Facts, Batch
  DEF LifeInv, AdmissionInv, Held, Running, DisciplineInv, Safety, NoRequestLost
<1>2. r \in ToSet(queue) /\ r \in 1..submitted /\ r = queue[1]
  BY <1>0, <1>1, TailElements
<1>3. y.completed = req[r].completed /\ y \in Request  BY <1>1, <1>2, GenerateType
<1>4. ~req[r].completed  BY <1>1, <1>2 DEF Completed
<1>5. UNCHANGED submitted
      /\ (\/ req' = [req EXCEPT ![r] = Close(y)] /\ active' = active
          \/ req' = [req EXCEPT ![r] = y] /\ active' = Append(active, r))
  BY <1>0 DEF AdmitOne
<1>6. Lifecycle!MayStart(r)
  <2>1. /\ Lifecycle!Of("running") = Running /\ Lifecycle!Of("waiting") = NeverAdmitted
        /\ Lifecycle!Of("yielded") = ToSet(queue) \ NeverAdmitted
    BY Statuses DEF LifeInv, AdmissionInv
  <2>2. ASSUME r \in NeverAdmitted
        PROVE  \A q \in NeverAdmitted : r <= q
    <3>1. SUFFICES ASSUME NEW q \in NeverAdmitted PROVE r <= q  OBVIOUS
    <3>2. PICK j \in DOMAIN queue : q = queue[j]  BY DEF NeverAdmitted, ToSet
    <3>3. DOMAIN queue = 1..Len(queue) /\ Len(queue) \in Nat  BY <1>1, LenProperties
    <3>4. CASE j = 1  BY <1>2, <3>2, <3>4
    <3>5. CASE j # 1
      <4>1. 1 \in DOMAIN queue /\ 1 < j  BY <3>3, <3>5
      <4>2. queue[1] < queue[j]
        BY <1>2, <2>2, <3>2, <4>1 DEF LifeInv, FirstComeFirstAdmitted
      <4>3. q \in 1..submitted  BY <1>1 DEF NeverAdmitted
      <4>4. QED  BY <1>2, <3>2, <4>2, <4>3
    <3>6. QED  BY <3>4, <3>5
  <2>3. Cardinality(Lifecycle!Of("running")) < MaxBatchSize  BY <1>1, <2>1
  <2>4. Lifecycle!First(r, Lifecycle!Of("waiting")) \/ r \in Lifecycle!Of("yielded")
    BY <1>2, <2>1, <2>2 DEF Lifecycle!First
  <2>5. Lifecycle!Cardinality(Lifecycle!Of("running")) < MaxBatchSize
    BY <2>3, SameCardinality
  <2>6. QED  BY <2>4, <2>5 DEF Lifecycle!MayStart
<1> HIDE DEF y
<1>7. CASE req' = [req EXCEPT ![r] = Close(y)] /\ active' = active
  <2>1. Close(y).completed  BY <1>3, CloseType
  <2>2. req'[r] = Close(y) /\ \A q \in Requests \ {r} : req'[q] = req[q]
    BY <1>1, <1>2, <1>7
  <2>3. StatusOf(r)' = "served"
    <3>1. ~(r > submitted')  BY <1>1, <1>2, <1>5
    <3>2. QED  BY <2>1, <2>2, <3>1 DEF StatusOf
  <2>4. \A q \in Requests \ {r} : StatusOf(q)' = StatusOf(q)
    BY <1>5, <1>7, <2>2 DEF StatusOf
  <2>5. Lifecycle!Become(r, "served")  BY <1>2, <2>3, <2>4, Becomes
  <2>6. QED
    BY <1>2, <1>6, <2>5
    DEF Lifecycle!Next, Lifecycle!ServeAtOnce, Lifecycle!Requests, Requests
<1>8. CASE req' = [req EXCEPT ![r] = y] /\ active' = Append(active, r)
  <2>1. req'[r] = y /\ \A q \in Requests \ {r} : req'[q] = req[q]
    BY <1>1, <1>2, <1>8
  <2>2. ToSet(active') = ToSet(active) \cup {r}
    <3>1. active' = Append(active, r)  BY <1>8
    <3>2. QED  BY <1>1, <1>2, <3>1, AppendElements
  <2>3. StatusOf(r)' = "running"
    <3>1. ~(r > submitted') /\ r \in ToSet(active')  BY <1>1, <1>2, <1>5, <2>2
    <3>2. req'[r].completed = req[r].completed  BY <1>3, <2>1
    <3>3. QED  BY <1>4, <3>1, <3>2 DEF StatusOf
  <2>4. \A q \in Requests \ {r} : StatusOf(q)' = StatusOf(q)
    BY <1>5, <2>1, <2>2 DEF StatusOf
  <2>5. Lifecycle!Become(r, "running")  BY <1>2, <2>3, <2>4, Becomes
  <2>6. QED
    BY <1>2, <1>6, <2>5
    DEF Lifecycle!Next, Lifecycle!Start, Lifecycle!Requests, Requests
<1>9. QED  BY <1>5, <1>7, <1>8

LEMMA PreemptIsYield ==
    ASSUME LifeInv, Safety', Preempt
    PROVE  Lifecycle!Next
<1>1. PICK i \in VictimSlots :
         /\ active' = RemoveAt(active, i)
         /\ active[i] \in ToSet(active) /\ active[i] \in Requests
         /\ Priority[active[i]] = 1
         /\ queue' = Append(queue, active[i])
  BY PreemptQueues DEF LifeInv, AdmissionInv
<1>2. PICK j \in VictimSlots :
         /\ active' = RemoveAt(active, j)
         /\ req' = [req EXCEPT ![active[j]] = Reset(req[active[j]])]
  BY DEF Preempt
<1>3. /\ active \in Seq(Requests) /\ IsInjective(active) /\ queue \in Seq(Requests)
      /\ req \in [Requests -> Request] /\ submitted \in Nat
      /\ Running \subseteq 1..submitted /\ Running \cap Completed = {}
      /\ Cardinality(Running) = Len(active)
      /\ Len(active) \in Nat /\ Len(active) <= MaxBatchSize
  BY Facts, Batch
  DEF LifeInv, AdmissionInv, Held, Running, DisciplineInv, Safety, NoRequestLost
<1>4. PICK r \in Requests : /\ j \in DOMAIN active /\ r = active[j]
                            /\ r \in Running /\ req[r].priority = 1
  <2>1. j \in DOMAIN active /\ req[active[j]].priority = 1  BY DEF VictimSlots
  <2>2. active[j] \in Running /\ active[j] \in Requests
    BY <1>3, <2>1, ElementOfSeq DEF Running, ToSet
  <2>3. QED  BY <2>1, <2>2
<1>5. ToSet(active') = ToSet(active) \ {r}  BY <1>2, <1>3, <1>4, RemoveAtElements
<1>6. /\ Reset(req[r]).completed = req[r].completed
      /\ Reset(req[r]).priority = 1
  <2>1. req[r] \in Request  BY <1>3
  <2>2. Reset(req[r]).priority = req[r].priority  BY <2>1 DEF Reset, Request
  <2>3. QED  BY <1>4, <2>1, <2>2, ResetType
<1>7. /\ phase = "preempt" /\ UNCHANGED submitted
      /\ queue # <<>> /\ Len(active) >= MaxBatchSize /\ req[Head(queue)].priority = 0
  BY DEF Preempt, MayPreempt
<1>8. req' = [req EXCEPT ![r] = Reset(req[r])]  BY <1>2, <1>4
<1>9. req'[r] = Reset(req[r]) /\ \A q \in Requests \ {r} : req'[q] = req[q]
  BY <1>3, <1>4, <1>8
<1>10. StatusOf(r)' = "yielded"
  <2>1. ~(r > submitted') /\ r \notin ToSet(active')  BY <1>3, <1>4, <1>5, <1>7
  <2>2. ~req[r].completed  BY <1>3, <1>4 DEF Completed
  <2>3. req'[r].completed = req[r].completed /\ req'[r].priority = 1  BY <1>6, <1>9
  <2>4. QED  BY <2>1, <2>2, <2>3 DEF StatusOf
<1>11. \A q \in Requests \ {r} : StatusOf(q)' = StatusOf(q)
  BY <1>5, <1>7, <1>9 DEF StatusOf
<1>12. Lifecycle!Become(r, "yielded")  BY <1>4, <1>10, <1>11, Becomes
<1>13. /\ Lifecycle!Of("running") = Running /\ Lifecycle!Of("waiting") = NeverAdmitted
  BY Statuses DEF LifeInv, AdmissionInv
<1>14. NeverAdmitted # {}  BY <1>3, <1>7, TailElements DEF NeverAdmitted
<1>15. Strategy = "probe_deprioritize"  BY <1>7 DEF LifeInv, AdmissionInv, Admitting
<1>16. Lifecycle!Cardinality(Lifecycle!Of("running")) = MaxBatchSize
  <2>1. Cardinality(Running) = MaxBatchSize  BY <1>3, <1>7, BatcherAssumption
  <2>2. QED  BY <1>13, <2>1, SameCardinality
<1>17. Lifecycle!Yield(r)
  BY <1>4, <1>12, <1>13, <1>14, <1>15, <1>16 DEF Lifecycle!Yield
<1>18. QED  BY <1>4, <1>17 DEF Lifecycle!Next, Lifecycle!Requests, Requests

LEMMA FinishIsServe ==
    ASSUME LifeInv, Finish
    PROVE  Lifecycle!Next
<1>1. PICK i \in DOMAIN active :
         /\ active' = RemoveAt(active, i)
         /\ req' = [req EXCEPT ![active[i]] = Close(req[active[i]])]
  BY DEF Finish
<1>2. /\ active \in Seq(Requests) /\ IsInjective(active) /\ submitted \in Nat
      /\ req \in [Requests -> Request] /\ Running \subseteq 1..submitted
  BY Facts, Batch DEF LifeInv, AdmissionInv, Held
<1>3. PICK r \in Requests : r = active[i] /\ r \in Running
  BY <1>2, LenProperties, ElementOfSeq DEF Running, ToSet
<1>4. ToSet(active') = ToSet(active) \ {r}  BY <1>1, <1>2, <1>3, RemoveAtElements
<1>5. Close(req[r]).completed  BY <1>2, <1>3, CloseType
<1>6. req' = [req EXCEPT ![r] = Close(req[r])] /\ UNCHANGED submitted
  BY <1>1, <1>3 DEF Finish
<1>7. req'[r] = Close(req[r]) /\ \A q \in Requests \ {r} : req'[q] = req[q]
  BY <1>2, <1>3, <1>6
<1>8. StatusOf(r)' = "served"
  <2>1. ~(r > submitted')  BY <1>2, <1>3, <1>6
  <2>2. QED  BY <1>5, <1>7, <2>1 DEF StatusOf
<1>9. \A q \in Requests \ {r} : StatusOf(q)' = StatusOf(q)
  BY <1>4, <1>6, <1>7 DEF StatusOf
<1>10. Lifecycle!Become(r, "served")  BY <1>3, <1>8, <1>9, Becomes
<1>11. Lifecycle!Of("running") = Running  BY Statuses DEF LifeInv, AdmissionInv
<1>12. QED
  BY <1>3, <1>10, <1>11
  DEF Lifecycle!Next, Lifecycle!Serve, Lifecycle!Requests, Requests

\* The rest moves no request from its place.
LEMMA OthersKeepStatus ==
    ASSUME LifeInv, LifeInv', [Next]_vars,
           ~\E m \in MaxTokensChoices, s \in StreamChoices : Submit(m, s),
           ~FillSlot, ~RefillSlot, ~Preempt, ~Finish
    PROVE  status' = status
<1>1. /\ DisciplineInv /\ DisciplineInv'  BY DEF LifeInv, AdmissionInv
<1>2. /\ UNCHANGED <<queue, submitted>>
      /\ \A r \in ToSet(queue) : Priority'[r] = Priority[r]
  BY <1>1, OthersQueue
<1>3. active' = active
  BY DEF Next, Clients, Tick, TryAdmit, Stopped, vars, Cancel, BeginTick, EndFill,
         EndAdmission, Decode, SkipDecode, Route, EndTick, Stop
<1>4. Running' = Running  BY <1>3 DEF Running
<1>5. NeverAdmitted' = NeverAdmitted
  <2>1. NeverAdmitted = {r \in ToSet(queue) : Priority[r] = 0}  BY <1>1, Never
  <2>2. (NeverAdmitted = {r \in ToSet(queue) : Priority[r] = 0})'  BY <1>1, Never, PTL
  <2>3. QED  BY <1>2, <2>1, <2>2
<1>6. \A r \in Requests : StatusOf(r) = Place(r)  BY <1>1, Statuses
<1>7. (\A r \in Requests : StatusOf(r) = Place(r))'  BY <1>1, Statuses, PTL
<1>8. \A r \in Requests : StatusOf(r)' = StatusOf(r)
  BY <1>2, <1>4, <1>5, <1>6, <1>7 DEF Place
<1>9. QED  BY <1>8 DEF status

LEMMA StepOfLife == LifeInv /\ LifeInv' /\ [Next]_vars => [Lifecycle!Next]_status
<1> SUFFICES ASSUME LifeInv, LifeInv', [Next]_vars PROVE [Lifecycle!Next]_status  OBVIOUS
<1>1. Safety'  BY DEF LifeInv, AdmissionInv, DisciplineInv
<1>2. CASE \E m \in MaxTokensChoices, s \in StreamChoices : Submit(m, s)
  BY <1>2, SubmitIsArrive
<1>3. CASE FillSlot \/ RefillSlot
  <2>1. PICK eos \in BOOLEAN : AdmitOne(eos)  BY <1>3 DEF FillSlot, RefillSlot
  <2>2. queue # <<>> /\ Len(active) < MaxBatchSize
    BY <1>3 DEF FillSlot, MayAdmit, HasFreeSlot, RefillSlot, LifeInv, AdmissionInv,
                DisciplineInv, Safety, RefillPossible
  <2>3. QED  BY <2>1, <2>2, AdmitOneIsStart
<1>4. CASE Preempt  BY <1>1, <1>4, PreemptIsYield
<1>5. CASE Finish  BY <1>5, FinishIsServe
<1>6. CASE ~(\E m \in MaxTokensChoices, s \in StreamChoices : Submit(m, s))
           /\ ~FillSlot /\ ~RefillSlot /\ ~Preempt /\ ~Finish
  BY <1>6, OthersKeepStatus
<1>7. QED  BY <1>2, <1>3, <1>4, <1>5, <1>6

LEMMA InitLife == Init => Lifecycle!Init /\ LifeInv
<1> SUFFICES ASSUME Init PROVE Lifecycle!Init /\ LifeInv  OBVIOUS
<1>1. \A r \in Requests : r > submitted  BY BatcherAssumption DEF Init, Requests
<1>2. \A r \in Requests : StatusOf(r) = "new"  BY <1>1 DEF StatusOf
<1>3. Lifecycle!Init
  BY <1>2 DEF Lifecycle!Init, Lifecycle!Requests, Requests
<1>4. QED  BY <1>3, InitAdmission, InitInOrder DEF LifeInv

\* The batcher, with its queue, its tick and its preemptions, implements the
\* abstract life of a request, whatever its constants.
THEOREM LifecycleImplemented == Spec => ImplementsLifecycle
<1>1. LifeInv /\ [Next]_vars => LifeInv'
  <2>1. AdmissionInv => DisciplineInv  BY DEF AdmissionInv
  <2>2. QED  BY <2>1, NextAdmission, NextInOrder DEF LifeInv
<1>2. QED
  BY <1>1, InitLife, StepOfLife, PTL
  DEF Spec, ImplementsLifecycle, Lifecycle!Spec, status

-----------------------------------------------------------------------------
(* What a preemption takes away.                                             *)

LEMMA PreemptLoses ==
    ASSUME DisciplineInv, Preempt, NEW r \in Requests,
           req'[r].n_generated < req[r].n_generated
    PROVE  /\ Len(active) = MaxBatchSize
           /\ NeverAdmitted # {}
           /\ \A q \in ToSet(active) :
                 req[r].priority = 1
                 /\ (req[q].priority = 1 => req[r].n_generated <= req[q].n_generated)
<1>1. PICK i \in VictimSlots : req' = [req EXCEPT ![active[i]] = Reset(req[active[i]])]
  BY DEF Preempt
<1>2. /\ req \in [Requests -> Request] /\ queue \in Seq(Requests)
      /\ active \in Seq(Requests) /\ Len(active) \in Nat /\ Len(active) <= MaxBatchSize
  BY Facts, Batch
<1>3. r = active[i]
  <2>1. SUFFICES ASSUME r # active[i] PROVE FALSE  OBVIOUS
  <2>2. req'[r] = req[r] /\ req[r].n_generated \in Nat
    BY <1>1, <1>2, <2>1 DEF Request
  <2>3. QED  BY <2>2
<1>4. /\ req[r].priority = 1
      /\ \A j \in DOMAIN active : req[active[j]].priority = 1 =>
            \/ req[r].n_generated < req[active[j]].n_generated
            \/ req[r].n_generated = req[active[j]].n_generated
  BY <1>3 DEF VictimSlots
<1>5. ASSUME NEW q \in ToSet(active), req[q].priority = 1
      PROVE  req[r].n_generated <= req[q].n_generated
  <2>1. PICK j \in DOMAIN active : q = active[j]  BY DEF ToSet
  <2>2. q \in Requests  BY <1>2, <2>1, ElementOfSeq
  <2>3. req[q].n_generated \in Nat /\ req[r].n_generated \in Nat  BY <1>2, <2>2 DEF Request
  <2>4. QED  BY <1>4, <1>5, <2>1, <2>3
<1>6. Len(active) >= MaxBatchSize /\ queue # <<>> /\ req[Head(queue)].priority = 0
  BY DEF Preempt, MayPreempt
<1>7. NeverAdmitted # {}  BY <1>2, <1>6, TailElements DEF NeverAdmitted
<1>8. Len(active) = MaxBatchSize  BY <1>2, <1>6, BatcherAssumption
<1>9. QED  BY <1>4, <1>5, <1>7, <1>8

\* No other step takes a token from a request that has been handed out.
LEMMA OthersLoseNothing ==
    ASSUME DisciplineInv, [Next]_vars, ~Preempt, NEW r \in Requests, r <= submitted
    PROVE  ~(req'[r].n_generated < req[r].n_generated)
<1>1. /\ req \in [Requests -> Request] /\ submitted \in Nat /\ queue \in Seq(Requests)
      /\ req[r].n_generated \in Nat
  BY Facts DEF Request
<1> DEFINE n == req[r].n_generated
<1>2. SUFFICES req'[r].n_generated \in {n, n + 1}  BY <1>1
<1>3. \A eos \in BOOLEAN : Generate(req[r], eos).n_generated = n + 1
  BY <1>1 DEF Generate, Request
<1>4. \A x \in Request : Close(x).n_generated = x.n_generated
  BY DEF Close, Request
<1>5. CASE \E m \in MaxTokensChoices, s \in StreamChoices : Submit(m, s)
  <2>1. \E x : req' = [req EXCEPT ![submitted + 1] = x]  BY <1>5 DEF Submit, NextId
  <2>2. QED  BY <1>1, <2>1
<1>6. CASE \E q \in Impatient : Cancel(q)
  <2>1. PICK q \in Impatient : req' = [req EXCEPT ![q].result = "cancelled"]
    BY <1>6 DEF Cancel
  <2>2. QED  BY <1>1, <2>1 DEF Request
<1>7. CASE FillSlot \/ RefillSlot
  <2>1. PICK eos \in BOOLEAN : AdmitOne(eos)  BY <1>7 DEF FillSlot, RefillSlot
  <2>2. CASE r = Head(queue)
    <3>1. Generate(req[r], eos) \in Request  BY <1>1, GenerateType
    <3>2. req'[r] = Close(Generate(req[r], eos)) \/ req'[r] = Generate(req[r], eos)
      BY <1>1, <2>1, <2>2 DEF AdmitOne
    <3>3. QED  BY <1>3, <1>4, <3>1, <3>2
  <2>3. CASE r # Head(queue)  BY <1>1, <2>1, <2>3 DEF AdmitOne
  <2>4. QED  BY <2>2, <2>3
<1>8. CASE Decode
  <2>1. PICK eos \in SUBSET ToSet(active),
                p \in [{x \in ToSet(active) : MeetsGate(req[x])} -> Probabilities] :
           req' = [q \in Requests |->
                     IF q \in {x \in ToSet(active) : MeetsGate(req[x])}
                     THEN Stamp(Generate(req[q], q \in eos), p[q])
                     ELSE IF q \in ToSet(active) THEN Generate(req[q], q \in eos) ELSE req[q]]
    BY <1>8 DEF Decode
  <2>2. (r \in eos) \in BOOLEAN  OBVIOUS
  <2>3. Generate(req[r], r \in eos) \in Request  BY <1>1, <2>2, GenerateType
  <2>4. \A x \in Request : \A c : Stamp(x, c).n_generated = x.n_generated
    BY DEF Stamp, Request
  <2>5. QED  BY <1>3, <2>1, <2>2, <2>3, <2>4
<1>9. CASE Route
  <2>1. req'[r] = React(req[r]) \/ req'[r] = req[r]  BY <1>9 DEF Route
  <2>2. QED  BY <1>1, <2>1 DEF React, Request
<1>10. CASE Finish
  <2>1. PICK q : req' = [req EXCEPT ![q] = Close(req[q])]  BY <1>10 DEF Finish
  <2>2. QED  BY <1>1, <1>4, <2>1
<1>11. CASE \/ BeginTick \/ EndFill \/ EndAdmission \/ SkipDecode \/ EndTick \/ Stop
            \/ UNCHANGED vars
  BY <1>11 DEF BeginTick, EndFill, EndAdmission, SkipDecode, EndTick, Stop, vars
<1>12. QED
  BY <1>5, <1>6, <1>7, <1>8, <1>9, <1>10, <1>11
  DEF Next, Clients, Tick, TryAdmit, Stopped

\* Tokens are thrown away only in a full batch, for a request that has never
\* run, and of the deprioritized request that loses least, whatever the constants.
THEOREM LossesArePaidFor == Spec => LossOnlyUnderContention
<1>1. ASSUME DisciplineInv, [Next]_vars
      PROVE  [\A r \in Requests :
                r <= submitted /\ req'[r].n_generated < req[r].n_generated =>
                    /\ Len(active) = MaxBatchSize
                    /\ NeverAdmitted # {}
                    /\ \A q \in ToSet(active) :
                          req[r].priority = 1
                          /\ (req[q].priority = 1 =>
                                req[r].n_generated <= req[q].n_generated)]_vars
  BY <1>1, PreemptLoses, OthersLoseNothing
<1>2. QED
  BY <1>1, InitDiscipline, StepDiscipline, PTL DEF Spec, LossOnlyUnderContention
================================================================================
