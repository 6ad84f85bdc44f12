----------------------------- MODULE ServerProofs -----------------------------
(***************************************************************************)
(* The server for any number of requests, any artifact at the probe's path *)
(* and any forward pass or verdict that raises.  While the batcher's task  *)
(* lives all that holds of the batcher holds; what the exception breaks is *)
(* conservation, of one request, and what survives it is what the handlers *)
(* rely on.                                                                *)
(***************************************************************************)
EXTENDS Server, ContinuousBatcherProofs

\* The task has not ended: what the batcher's own theorems are about.
Alive == task \in {"starting", "refused", "running"}

ServerTypes ==
    /\ TypeOK
    /\ task \in {"starting", "refused", "running", "died", "cancelled"}
    /\ handler \in [Requests -> {"none", "awaiting", "reading", "returned", "gone"}]
    /\ consumed \in [Requests -> Nat]

\* With a probe of another dimension nobody ever gets a verdict.
NoVerdictFromMisfit ==
    task = "starting" \/ (task = "running" /\ probe.dim # HiddenDim)
        => \A r \in Requests : ~Decided(req[r])

OneStranded == \E s : Stranded \subseteq {s}

HandlerFits(r) ==
    /\ handler[r] = "none" <=> r > submitted
    /\ handler[r] = "awaiting" => ~req[r].stream
    /\ handler[r] \in {"reading", "gone"} => req[r].stream
    /\ handler[r] = "returned" =>
          /\ req[r].completed
          /\ req[r].stream => consumed[r] = Len(req[r].token_queue)

ServerInv ==
    /\ ServerTypes
    /\ Alive => Safety /\ VerdictInv /\ EndsNoted /\ InOrderOfProgress
    /\ NoVerdictFromMisfit
    /\ OneStranded
    /\ Counted /\ AllDelivered /\ Answers
    /\ \A r \in Requests : HandlerFits(r)

\* While the task lives nobody is stranded.
LEMMA NobodyStranded ==
    ASSUME Safety
    PROVE  Stranded = {}
BY DEF Safety, NoRequestLost, Stranded

LEMMA InitServerInv == ServerInit => ServerInv
<1> SUFFICES ASSUME ServerInit PROVE ServerInv  OBVIOUS
<1>1. Init  BY DEF ServerInit
<1>2. Safety /\ VerdictInv /\ Counted /\ AllDelivered /\ Answers
  BY <1>1, InitSafety, InitVerdicts, InitCounted, InitDelivered, InitAnswers
<1>3. ToSet(<<>>) = {} /\ DOMAIN <<>> = {}  BY DEF ToSet
<1>4. EndsNoted /\ InOrderOfProgress
  BY <1>1, <1>3 DEF Init, EndsNoted, InOrderOfProgress
<1>5. \A r \in Requests : ~Decided(req[r])
  BY <1>1 DEF Init, NewRequest, Decided
<1>6. OneStranded  BY <1>2, NobodyStranded DEF OneStranded
<1>7. ServerTypes  BY <1>2 DEF Safety, ServerInit, ServerTypes
<1>8. \A r \in Requests : HandlerFits(r)
  BY <1>1, BatcherAssumption DEF Init, ServerInit, HandlerFits, Requests
<1>9. QED  BY <1>2, <1>4, <1>5, <1>6, <1>7, <1>8 DEF ServerInv, NoVerdictFromMisfit

\* A step that leaves the batcher's state alone and the task among the living,
\* or changes handlers only.
LEMMA BatcherUntouched ==
    ASSUME ServerInv, UNCHANGED vars,
           task' \in {"starting", "refused", "running", "died", "cancelled"},
           Alive' => Alive,
           task' = "starting" => task = "starting",
           task' = "running" => task = "starting" \/ (task = "running" /\ probe' = probe),
           handler' \in [Requests -> {"none", "awaiting", "reading", "returned", "gone"}],
           consumed' \in [Requests -> Nat],
           \A r \in Requests : HandlerFits(r)'
    PROVE  ServerInv'
<1>1. ServerTypes'  BY DEF ServerInv, ServerTypes, TypeOK, vars
<1>2. Alive' => Safety' /\ VerdictInv' /\ EndsNoted' /\ InOrderOfProgress'
  <2>1. ASSUME Alive PROVE Safety' /\ VerdictInv' /\ EndsNoted' /\ InOrderOfProgress'
    <3>1. Safety /\ VerdictInv /\ EndsNoted /\ InOrderOfProgress  BY <2>1 DEF ServerInv
    <3>2. Safety'  BY <3>1, NextSafety
    <3>3. VerdictInv'  BY <3>1, <3>2, NextVerdicts
    <3>4. EndsNoted' /\ InOrderOfProgress'  BY <3>1, <3>2, NextEnds, NextOrdered
    <3>5. QED  BY <3>2, <3>3, <3>4
  <2>2. QED  BY <2>1
<1>3. NoVerdictFromMisfit'  BY DEF ServerInv, NoVerdictFromMisfit, vars, Decided
<1>4. OneStranded'  BY DEF ServerInv, OneStranded, Stranded, Completed, vars
<1>5. Counted' /\ AllDelivered' /\ Answers'
  BY DEF ServerInv, Counted, CountersAgree, Completed, AllDelivered, Delivered, Answers, vars
<1>6. QED  BY <1>1, <1>2, <1>3, <1>4, <1>5 DEF ServerInv

LEMMA StartupKeeps ==
    ASSUME ServerInv, Startup
    PROVE  ServerInv'
<1>1. UNCHANGED <<vars, handler, consumed>>  BY DEF Startup
<1>2. task = "starting" /\ task' \in {"running", "refused"}  BY DEF Startup
<1>3. \A r \in Requests : HandlerFits(r)'
  BY <1>1 DEF ServerInv, HandlerFits, vars
<1>4. QED  BY <1>1, <1>2, <1>3, BatcherUntouched DEF ServerInv, ServerTypes, Alive

-----------------------------------------------------------------------------
(* The handlers.                                                             *)

\* A handler returns when its request is completed and its stream read.
LEMMA HandlingKeeps ==
    ASSUME ServerInv, NEW r \in Requests, Respond(r) \/ Read(r) \/ Disconnect(r)
    PROVE  ServerInv'
<1>1. UNCHANGED <<vars, task, probe>>  BY DEF Respond, Read, Disconnect
<1>2. /\ handler \in [Requests -> {"none", "awaiting", "reading", "returned", "gone"}]
      /\ consumed \in [Requests -> Nat] /\ req \in [Requests -> Request]
      /\ HandlerFits(r) /\ Delivered(req[r])
  BY DEF ServerInv, ServerTypes, TypeOK, AllDelivered
<1>3. \A q \in Requests \ {r} : handler'[q] = handler[q] /\ consumed'[q] = consumed[q]
  BY <1>2 DEF Respond, Read, Disconnect
<1>4. /\ handler' \in [Requests -> {"none", "awaiting", "reading", "returned", "gone"}]
      /\ consumed' \in [Requests -> Nat]
  <2>1. CASE Respond(r)  BY <1>2, <2>1 DEF Respond
  <2>2. CASE Read(r)  BY <1>2, <2>2 DEF Read
  <2>3. CASE Disconnect(r)  BY <1>2, <2>3 DEF Disconnect
  <2>4. QED  BY <2>1, <2>2, <2>3
<1>5. HandlerFits(r)'
  <2>1. CASE Respond(r)
    <3>1. handler[r] = "awaiting" /\ req[r].result = "set" /\ handler'[r] = "returned"
      BY <1>2, <2>1 DEF Respond
    <3>2. req[r].completed /\ ~req[r].stream
      BY <1>2, <3>1 DEF ServerInv, Answers, HandlerFits
    <3>3. QED  BY <1>1, <1>2, <3>1, <3>2 DEF HandlerFits, vars
  <2>2. CASE Read(r)
    <3> DEFINE next == consumed[r] + 1
               s == req[r].token_queue
    <3>1. /\ handler[r] = "reading" /\ next <= Len(s) /\ consumed'[r] = next
          /\ handler'[r] = IF s[next] = EndOfStream THEN "returned" ELSE "reading"
      BY <1>2, <2>2 DEF Read
    <3>2. req[r].stream /\ s \in Seq(Nat) /\ next \in 1..Len(s)
      <4>1. req[r].stream  BY <1>2, <3>1 DEF HandlerFits
      <4>2. s \in Seq(Nat)  BY <1>2 DEF Request
      <4>3. Len(s) \in Nat  BY <4>2, LenProperties
      <4>4. next \in 1..Len(s)  BY <1>2, <3>1, <4>3
      <4>5. QED  BY <4>1, <4>2, <4>4
    <3>3. ASSUME s[next] = EndOfStream
          PROVE  req[r].completed /\ next = Len(s)
      <4>1. EndOfStream \in ToSet(s)
        <5>1. next \in DOMAIN s  BY <3>2, LenProperties
        <5>2. QED  BY <3>3, <5>1 DEF ToSet
      <4>2. req[r].completed  BY <1>2, <3>2, <4>1 DEF Delivered
      <4>3. PICK u \in Seq(Nat) : s = Append(u, EndOfStream) /\ EndOfStream \notin ToSet(u)
        BY <1>2, <3>2, <4>2 DEF Delivered
      <4>4. EndOfStream \in Nat  BY DEF EndOfStream
      <4>5. /\ Len(s) = Len(u) + 1 /\ Len(u) \in Nat
            /\ \A i \in 1..Len(u) : s[i] = u[i]
        BY <4>3, <4>4, AppendProperties, LenProperties
      <4>6. next \notin 1..Len(u)
        <5>1. \A i \in 1..Len(u) : u[i] \in ToSet(u)
          BY <4>3, LenProperties DEF ToSet
        <5>2. QED  BY <3>3, <4>3, <4>5, <5>1
      <4>7. QED  BY <3>2, <4>2, <4>5, <4>6
    <3> HIDE DEF next, s
    <3>4. handler'[r] = "returned" => req[r].completed /\ consumed'[r] = Len(s)
      BY <3>1, <3>3
    <3>5. QED  BY <1>1, <1>2, <3>1, <3>2, <3>4 DEF HandlerFits, vars, s
  <2>3. CASE Disconnect(r)
    <3>1. handler[r] = "reading" /\ handler'[r] = "gone"  BY <1>2, <2>3 DEF Disconnect
    <3>2. QED  BY <1>1, <1>2, <3>1 DEF HandlerFits, vars
  <2>4. QED  BY <2>1, <2>2, <2>3
<1>6. \A q \in Requests : HandlerFits(q)'
  BY <1>1, <1>3, <1>5 DEF ServerInv, HandlerFits, vars
<1>7. QED  BY <1>1, <1>4, <1>6, BatcherUntouched DEF ServerInv, ServerTypes, Alive

\* RequestQueue.submit asks nothing of the batcher, which may be dead: types,
\* the counters and who is stranded stay as they are.
LEMMA SubmitAnyway ==
    ASSUME TypeOK, Counted, AllDelivered, Answers,
           NEW m \in MaxTokensChoices, NEW s \in StreamChoices, Submit(m, s)
    PROVE  /\ TypeOK' /\ Counted' /\ AllDelivered' /\ Answers'
           /\ Stranded' \subseteq Stranded
           /\ NextId \in Requests /\ submitted' = NextId /\ NextId = submitted + 1
           /\ req'[NextId] = NewRequest(m, s)
           /\ \A q \in Requests \ {NextId} : req'[q] = req[q]
<1> DEFINE r == submitted + 1
<1>1. /\ queue \in Seq(Requests) /\ active \in Seq(Requests) /\ req \in [Requests -> Request]
      /\ submitted \in 0..NRequests /\ submitted < NRequests
      /\ Completed \subseteq 1..submitted
  BY DEF TypeOK, Submit, Counted
<1>2. /\ r \in Requests /\ r \notin 1..submitted /\ 1..r = (1..submitted) \cup {r}
      /\ r \in 0..NRequests
  BY <1>1, BatcherAssumption DEF Requests
<1>3. /\ queue' = Append(queue, r) /\ submitted' = r /\ NextId = r
      /\ req' = [req EXCEPT ![r] = NewRequest(m, s)]
      /\ UNCHANGED <<active, cache, phase, attempts, finished_ids, terminated_ids, total>>
  BY DEF Submit, SubmitTo, NextId
<1>4. NewRequest(m, s) \in Request /\ ~NewRequest(m, s).completed
  BY NewRequestType, BatcherAssumption
<1>5. queue' \in Seq(Requests) /\ ToSet(queue') = ToSet(queue) \cup {r}
  BY <1>1, <1>2, <1>3, AppendProperties, AppendElements
<1>6. TypeOK'
  <2>1. req' \in [Requests -> Request]  BY <1>1, <1>3, <1>4
  <2>2. QED  BY <1>2, <1>3, <1>5, <2>1 DEF TypeOK
<1> HIDE DEF r
<1>7. req'[r] = NewRequest(m, s) /\ \A q \in Requests \ {r} : req'[q] = req[q]
  BY <1>1, <1>2, <1>3
<1>8. r \notin Completed  BY <1>1, <1>2
<1>9. Completed' = Completed  BY <1>4, <1>7, <1>8 DEF Completed
<1>10. Counted'
  <2>1. {q \in Completed' : req'[q].finish_reason = "probe_terminated"} =
        {q \in Completed : req[q].finish_reason = "probe_terminated"}
    BY <1>7, <1>8, <1>9 DEF Completed
  <2>2. CountersAgree'  BY <1>3, <1>9, <2>1 DEF Counted, CountersAgree
  <2>3. QED  BY <1>1, <1>2, <1>3, <1>9, <2>2 DEF Counted
<1>11. AllDelivered'
  <2>1. Delivered(NewRequest(m, s))  BY NewDelivered
  <2>2. QED  BY <1>7, <2>1 DEF AllDelivered
<1>12. Answers'
  <2>1. NewRequest(m, s).result = "pending"  BY DEF NewRequest
  <2>2. QED  BY <1>7, <2>1 DEF Answers
<1>13. Stranded' \subseteq Stranded
  BY <1>2, <1>3, <1>5, <1>9 DEF Stranded
<1>14. QED  BY <1>2, <1>3, <1>6, <1>7, <1>10, <1>11, <1>12, <1>13 DEF r

LEMMA AcceptKeeps ==
    ASSUME ServerInv, NEW m \in MaxTokensChoices, NEW s \in StreamChoices, Accept(m, s)
    PROVE  ServerInv'
<1>1. /\ Submit(m, s) /\ UNCHANGED <<task, probe, consumed>>
      /\ handler' = [handler EXCEPT ![NextId] = IF s THEN "reading" ELSE "awaiting"]
  BY DEF Accept
<1>2. /\ TypeOK' /\ Counted' /\ AllDelivered' /\ Answers'
      /\ Stranded' \subseteq Stranded
      /\ NextId \in Requests /\ submitted' = NextId /\ NextId = submitted + 1
      /\ req'[NextId] = NewRequest(m, s)
      /\ \A q \in Requests \ {NextId} : req'[q] = req[q]
  BY <1>1, SubmitAnyway DEF ServerInv, ServerTypes
<1>3. handler \in [Requests -> {"none", "awaiting", "reading", "returned", "gone"}]
  BY DEF ServerInv, ServerTypes
<1>4. ServerTypes'  BY <1>1, <1>2, <1>3 DEF ServerInv, ServerTypes
<1>5. Alive' => Safety' /\ VerdictInv' /\ EndsNoted' /\ InOrderOfProgress'
  <2> SUFFICES ASSUME Alive PROVE Safety' /\ VerdictInv' /\ EndsNoted' /\ InOrderOfProgress'
    BY <1>1 DEF Alive
  <2>1. Safety /\ VerdictInv /\ EndsNoted /\ InOrderOfProgress  BY DEF ServerInv
  <2>2. [Next]_vars  BY <1>1 DEF Next, Clients
  <2>3. Safety'  BY <2>1, <2>2, NextSafety
  <2>4. QED  BY <2>1, <2>2, <2>3, NextVerdicts, NextEnds, NextOrdered
<1>6. NoVerdictFromMisfit'
  <2>1. ~Decided(NewRequest(m, s))  BY DEF NewRequest, Decided
  <2>2. QED  BY <1>1, <1>2, <2>1 DEF ServerInv, NoVerdictFromMisfit
<1>7. OneStranded'
  <2>1. PICK x : Stranded \subseteq {x}  BY DEF ServerInv, OneStranded
  <2>2. Stranded' \subseteq {x}  BY <1>2, <2>1
  <2>3. QED  BY <2>2 DEF OneStranded
<1>8. ASSUME NEW r \in Requests
      PROVE  HandlerFits(r)'
  <2>1. submitted \in Nat /\ r \in Nat
    BY BatcherAssumption DEF ServerInv, ServerTypes, TypeOK, Requests
  <2>2. HandlerFits(r)  BY DEF ServerInv
  <2>3. CASE r = NextId
    <3>1. handler'[r] = IF s THEN "reading" ELSE "awaiting"  BY <1>1, <1>2, <1>3, <2>3
    <3>2. req'[r].stream = s  BY <1>2, <2>3 DEF NewRequest
    <3>3. s \in BOOLEAN  BY BatcherAssumption
    <3>4. ~(r > submitted')  BY <1>2, <2>1, <2>3
    <3>5. QED  BY <3>1, <3>2, <3>3, <3>4 DEF HandlerFits
  <2>4. CASE r # NextId
    <3>1. handler'[r] = handler[r] /\ consumed'[r] = consumed[r] /\ req'[r] = req[r]
      BY <1>1, <1>2, <1>3, <2>4
    <3>2. r > submitted' <=> r > submitted  BY <1>2, <2>1, <2>4
    <3>3. QED  BY <2>2, <3>1, <3>2 DEF HandlerFits
  <2>5. QED  BY <2>3, <2>4
<1>9. QED  BY <1>2, <1>4, <1>5, <1>6, <1>7, <1>8 DEF ServerInv

LEMMA ShutdownKeeps ==
    ASSUME ServerInv, Shutdown
    PROVE  ServerInv'
<1>1. /\ task' = "cancelled" /\ UNCHANGED <<probe, handler, consumed>>
      /\ phase' = "stopped"
      /\ UNCHANGED <<queue, active, cache, req, submitted, attempts, finished_ids,
                     terminated_ids, total>>
  BY DEF Shutdown, Stop
<1>2. ServerTypes'  BY <1>1 DEF ServerInv, ServerTypes, TypeOK
<1>3. ~Alive' /\ NoVerdictFromMisfit'  BY <1>1 DEF Alive, NoVerdictFromMisfit
<1>4. OneStranded' /\ Counted' /\ AllDelivered' /\ Answers'
  BY <1>1 DEF ServerInv, OneStranded, Stranded, Counted, CountersAgree, Completed,
              AllDelivered, Delivered, Answers
<1>5. \A r \in Requests : HandlerFits(r)'  BY <1>1 DEF ServerInv, HandlerFits
<1>6. QED  BY <1>2, <1>3, <1>4, <1>5 DEF ServerInv

-----------------------------------------------------------------------------
(* The batcher at work.                                                      *)

\* What a tick leaves of a request for its handler.
LEMMA TickOn ==
    ASSUME Safety, Counted, Tick, NEW r \in Requests
    PROVE  /\ submitted' = submitted
           /\ req'[r].stream = req[r].stream
           /\ req[r].completed => req'[r].completed /\ req'[r].token_queue = req[r].token_queue
<1> DEFINE x == req[r]
           Same(y) == y.stream = x.stream
<1>1. x \in Request /\ submitted \in Nat  BY Places
<1>2. submitted' = submitted
  BY DEF Tick, TryAdmit, BeginTick, FillSlot, EndFill, Preempt, RefillSlot, EndAdmission,
         AdmitOne, Decode, SkipDecode, Route, Finish, EndTick
<1>3. \A m \in MaxTokensChoices, s \in StreamChoices : ~Submit(m, s)
  BY <1>1, <1>2 DEF Submit
<1>4. ASSUME NEW g \in Request, Same(g)
      PROVE  /\ Same(Close(g)) /\ Same(React(g)) /\ Same(Reset(g))
             /\ \A c : Same([g EXCEPT !.routing_decision = c])
  BY <1>4 DEF Close, React, Reset, Request
<1>5. ASSUME NEW eos \in BOOLEAN
      PROVE  Generate(x, eos) \in Request /\ Same(Generate(x, eos))
  <2>1. Generate(x, eos) \in Request  BY <1>1, GenerateType
  <2>2. Same(Generate(x, eos))  BY <1>1 DEF Generate, Request
  <2>3. QED  BY <2>1, <2>2
<1>6. ASSUME NEW eos \in BOOLEAN,
             \/ req'[r] = Generate(x, eos)
             \/ req'[r] = Close(Generate(x, eos))
             \/ \E c : req'[r] = [Generate(x, eos) EXCEPT !.routing_decision = c]
      PROVE  Same(req'[r])
  <2> DEFINE g == Generate(x, eos)
  <2>1. g \in Request /\ Same(g)  BY <1>5
  <2>2. \/ req'[r] = g \/ req'[r] = Close(g)
        \/ \E c : req'[r] = [g EXCEPT !.routing_decision = c]
    BY <1>6
  <2> HIDE DEF g, Same
  <2>3. QED  BY <1>4, <2>1, <2>2
<1>7. \/ req'[r] = x
      \/ Cancel(r) /\ req'[r] = [x EXCEPT !.result = "cancelled"]
      \/ ~x.completed /\ Same(req'[r])
  <2>1. [Next]_vars  BY DEF Next
  <2>2. CASE req'[r] \in {React(x), Close(x), Reset(x)}  BY <1>1, <1>4, <2>2, <2>1, OneStepOn
  <2> HIDE DEF Same
  <2>3. QED  BY <1>3, <1>6, <2>1, <2>2, OneStepOn
<1>8. /\ Same([x EXCEPT !.result = "cancelled"])
      /\ [x EXCEPT !.result = "cancelled"].completed = x.completed
      /\ [x EXCEPT !.result = "cancelled"].token_queue = x.token_queue
  BY <1>1 DEF Request
<1>9. QED  BY <1>2, <1>7, <1>8

\* No misfit is met where the task works on, so no request meets the gate of a
\* probe that does not fit.
LEMMA NoMisfitNoGate ==
    ASSUME Misfits = {}, probe.dim # HiddenDim, active \in Seq(Requests)
    PROVE  \A r \in ToSet(active) : ~MeetsGate(req[r])
<1> SUFFICES ASSUME NEW k \in DOMAIN active, MeetsGate(req[active[k]]) PROVE FALSE
  BY DEF ToSet
<1> DEFINE M == {i \in DOMAIN active : MeetsGate(req[active[i]])}
<1>1. DOMAIN active = 1..Len(active) /\ Len(active) \in Nat  BY LenProperties
<1>2. M \in SUBSET Nat /\ M # {}  BY <1>1
<1>3. PICK i \in M : \A j \in M : i <= j  BY <1>2, LeastOfNaturals
<1>4. \A j \in 1..i - 1 : ~MeetsGate(req[active[j]])
  <2> SUFFICES ASSUME NEW j \in 1..i - 1, j \in M PROVE FALSE  BY <1>1, <1>3
  <2>1. QED  BY <1>1, <1>3
<1>5. i \in Misfits  BY <1>3, <1>4 DEF Misfits
<1>6. QED  BY <1>5

LEMMA UndecidedStays ==
    ASSUME Safety, Counted, Tick, \A r \in Requests : ~Decided(req[r]),
           phase = "decode" => \A r \in ToSet(active) : ~MeetsGate(req[r])
    PROVE  \A r \in Requests : ~Decided(req'[r])
<1> SUFFICES ASSUME NEW r \in Requests PROVE ~Decided(req'[r])  OBVIOUS
<1> DEFINE x == req[r]
<1>1. x \in Request /\ ~Decided(x)  BY Places
<1>2. ~(Decode /\ r \in ToSet(active) /\ MeetsGate(x))  BY DEF Decode
<1>3. ASSUME NEW g \in Request, ~Decided(g)
      PROVE  ~Decided(Close(g)) /\ ~Decided(React(g)) /\ ~Decided(Reset(g))
  BY <1>3, CloseFields, ReactFields, ResetFields DEF Decided
<1>4. ASSUME NEW eos \in BOOLEAN
      PROVE  /\ Generate(x, eos) \in Request /\ ~Decided(Generate(x, eos))
             /\ ~Decided(Close(Generate(x, eos)))
  <2>1. Generate(x, eos) \in Request /\ ~Decided(Generate(x, eos))
    BY <1>1, GenerateFields DEF Decided
  <2>2. QED  BY <1>3, <2>1
<1>5. ~Decided([x EXCEPT !.result = "cancelled"])  BY <1>1 DEF Decided, Request
<1>6. \A m, s : ~Decided(NewRequest(m, s))  BY DEF NewRequest, Decided
<1>7. [Next]_vars  BY DEF Next
<1>8. CASE req'[r] \in {x, Close(x), React(x), Reset(x)}  BY <1>1, <1>3, <1>8
<1>9. QED  BY <1>2, <1>4, <1>5, <1>6, <1>7, <1>8, OneStepOn

LEMMA WorkKeeps ==
    ASSUME ServerInv, Work
    PROVE  ServerInv'
<1>1. /\ task = "running" /\ Tick /\ UNCHANGED <<task, probe, handler, consumed>>
      /\ phase = "decode" => Misfits = {}
  BY DEF Work, server
<1>2. /\ Safety /\ VerdictInv /\ EndsNoted /\ InOrderOfProgress
      /\ Counted /\ AllDelivered /\ Answers
  BY <1>1 DEF ServerInv, Alive
<1>3. [Next]_vars  BY <1>1 DEF Next
<1>4. Safety'  BY <1>2, <1>3, NextSafety
<1>5. VerdictInv' /\ EndsNoted' /\ InOrderOfProgress'
  BY <1>2, <1>3, <1>4, NextVerdicts, NextEnds, NextOrdered
<1>6. Counted' /\ AllDelivered' /\ Answers'
  BY <1>2, <1>3, NextCounted, NextDelivered, NextAnswers
<1>7. ServerTypes'  BY <1>1, <1>4 DEF ServerInv, ServerTypes, Safety
<1>8. NoVerdictFromMisfit'
  <2> SUFFICES ASSUME probe.dim # HiddenDim PROVE \A r \in Requests : ~Decided(req'[r])
    BY <1>1 DEF NoVerdictFromMisfit
  <2>1. \A r \in Requests : ~Decided(req[r])  BY <1>1 DEF ServerInv, NoVerdictFromMisfit
  <2>2. phase = "decode" => \A r \in ToSet(active) : ~MeetsGate(req[r])
    BY <1>1, <1>2, NoMisfitNoGate, Places
  <2>3. QED  BY <1>1, <1>2, <2>1, <2>2, UndecidedStays
<1>9. OneStranded'
  <2>1. Stranded' = {}  BY <1>4 DEF Safety, NoRequestLost, Stranded
  <2>2. QED  BY <2>1 DEF OneStranded
<1>10. ASSUME NEW r \in Requests
       PROVE  HandlerFits(r)'
  <2>1. /\ submitted' = submitted /\ req'[r].stream = req[r].stream
        /\ req[r].completed => req'[r].completed /\ req'[r].token_queue = req[r].token_queue
    BY <1>1, <1>2, TickOn
  <2>2. HandlerFits(r)  BY DEF ServerInv
  <2>3. QED  BY <1>1, <2>1, <2>2 DEF HandlerFits
<1>11. QED  BY <1>5, <1>4, <1>6, <1>7, <1>8, <1>9, <1>10 DEF ServerInv

-----------------------------------------------------------------------------
(* What an exception leaves behind.                                          *)

\* Its effect on one request: none, or one more token.
LEMMA FailOn ==
    ASSUME ServerInv, Fail, NEW r \in Requests
    PROVE  \/ req'[r] = req[r]
           \/ /\ r \in ToSet(active) /\ ~req[r].completed
              /\ \E eos \in BOOLEAN :
                    \/ req'[r] = Generate(req[r], eos)
                    \/ req'[r] = [Generate(req[r], eos) EXCEPT
                                     !.finish_reason = req[r].finish_reason]
<1>1. CASE FailInPrefill \/ FailInForward  BY <1>1 DEF FailInPrefill, FailInForward
<1>2. CASE FailInClassify
  <2>1. PICK i \in Misfits, eos \in SUBSET ToSet(active) :
           req' = [q \in Requests |->
                      IF q \in {active[j] : j \in 1..i - 1} THEN Generate(req[q], q \in eos)
                      ELSE IF q = active[i]
                           THEN [Generate(req[q], FALSE) EXCEPT
                                    !.finish_reason = req[q].finish_reason]
                      ELSE req[q]]
    BY <1>2 DEF FailInClassify
  <2>2. task = "running"  BY <1>2 DEF FailInClassify, Die
  <2>3. Safety  BY <2>2 DEF ServerInv, Alive
  <2>4. /\ active \in Seq(Requests) /\ DOMAIN active = 1..Len(active) /\ Len(active) \in Nat
        /\ \A j \in DOMAIN active : active[j] \in ToSet(active)
        /\ \A q \in ToSet(active) : q \notin Completed
    BY <2>3, Places, LenProperties
  <2>5. i \in DOMAIN active  BY DEF Misfits
  <2>6. \A j \in 1..i - 1 : active[j] \in ToSet(active)  BY <2>4, <2>5
  <2>7. r \in ToSet(active) => ~req[r].completed  BY <2>4 DEF Completed
  <2>8. CASE r \in {active[j] : j \in 1..i - 1}
    <3> DEFINE e == r \in eos
    <3>1. e \in BOOLEAN /\ req'[r] = Generate(req[r], e)  BY <2>1, <2>8
    <3> HIDE DEF e
    <3>2. QED  BY <2>6, <2>7, <2>8, <3>1
  <2>9. CASE r \notin {active[j] : j \in 1..i - 1} /\ r = active[i]
    BY <2>1, <2>4, <2>5, <2>7, <2>9
  <2>10. CASE r \notin {active[j] : j \in 1..i - 1} /\ r # active[i]
    BY <2>1, <2>10
  <2>11. QED  BY <2>8, <2>9, <2>10
<1>3. QED  BY <1>1, <1>2 DEF Fail

\* So it finishes nobody, answers nobody and closes no stream.
LEMMA FailSpares ==
    ASSUME ServerInv, Fail, NEW r \in Requests
    PROVE  /\ req'[r] \in Request
           /\ req'[r].completed = req[r].completed /\ req'[r].stream = req[r].stream
           /\ req'[r].result = req[r].result
           /\ req[r].completed => req'[r] = req[r]
           /\ Delivered(req'[r])
<1>1. req[r] \in Request /\ Delivered(req[r])
  BY DEF ServerInv, ServerTypes, TypeOK, AllDelivered
<1>2. CASE req'[r] = req[r]  BY <1>1, <1>2
<1>3. ASSUME ~req[r].completed, NEW eos \in BOOLEAN,
             \/ req'[r] = Generate(req[r], eos)
             \/ req'[r] = [Generate(req[r], eos) EXCEPT !.finish_reason = req[r].finish_reason]
      PROVE  /\ req'[r] \in Request
             /\ req'[r].completed = req[r].completed /\ req'[r].stream = req[r].stream
             /\ req'[r].result = req[r].result /\ Delivered(req'[r])
  <2> DEFINE g == Generate(req[r], eos)
  <2>1. g \in Request /\ Delivered(g) /\ g.completed = req[r].completed
    BY <1>1, <1>3, GenerateDelivered, GenerateType
  <2>2. g.stream = req[r].stream /\ g.result = req[r].result
    BY <1>1 DEF Generate, Request
  <2>3. req'[r] = g \/ req'[r] = [g EXCEPT !.finish_reason = req[r].finish_reason]
    BY <1>3
  <2> HIDE DEF g
  <2>4. CASE req'[r] = g  BY <1>3, <2>1, <2>2, <2>4
  <2>5. CASE req'[r] = [g EXCEPT !.finish_reason = req[r].finish_reason]
    <3>1. req[r].finish_reason \in {"none", "eos", "max_tokens", "probe_terminated"}
      BY <1>1 DEF Request
    <3>2. req'[r] \in Request  BY <2>1, <2>5, <3>1 DEF Request
    <3>3. /\ req'[r].completed = g.completed /\ req'[r].stream = g.stream
          /\ req'[r].token_queue = g.token_queue /\ req'[r].n_generated = g.n_generated
          /\ req'[r].result = g.result
      BY <2>1, <2>5 DEF Request
    <3>4. Delivered(req'[r])  BY <1>3, <2>1, <3>3, SameDelivered
    <3>5. QED  BY <1>3, <2>1, <2>2, <3>2, <3>3, <3>4
  <2>6. QED  BY <2>3, <2>4, <2>5
<1>4. QED  BY <1>1, <1>2, <1>3, FailOn

LEMMA FailKeeps ==
    ASSUME ServerInv, Fail
    PROVE  ServerInv'
<1>1. /\ task = "running" /\ task' = "died" /\ phase' = "await"
      /\ UNCHANGED <<active, cache, submitted, attempts, finished_ids, terminated_ids, total,
                     probe, handler, consumed>>
  BY DEF Fail, FailInPrefill, FailInForward, FailInClassify, Die, Aftermath
<1>2. Safety  BY <1>1 DEF ServerInv, Alive
<1>3. /\ queue \in Seq(Requests) /\ req \in [Requests -> Request]
      /\ Completed \subseteq Requests
  BY <1>2, Places
<1>4. queue' \in Seq(Requests) /\ \E s : ToSet(queue) \subseteq ToSet(queue') \cup {s}
  <2>1. CASE FailInPrefill
    <3>1. queue # <<>> /\ queue' = Tail(queue)
      BY <1>2, <2>1 DEF FailInPrefill, MayAdmit, Safety, RefillPossible
    <3>2. /\ Tail(queue) \in Seq(Requests) /\ ToSet(Tail(queue)) = ToSet(queue) \ {Head(queue)}
      BY <1>2, <1>3, <3>1, TailElements, Places
    <3>3. ToSet(queue) \subseteq ToSet(queue') \cup {Head(queue)}  BY <3>1, <3>2
    <3>4. QED  BY <3>1, <3>2, <3>3
  <2>2. CASE FailInForward \/ FailInClassify
    BY <1>3, <2>2 DEF FailInForward, FailInClassify
  <2>3. QED  BY <2>1, <2>2 DEF Fail
<1>5. \A r \in Requests :
         /\ req'[r] \in Request
         /\ req'[r].completed = req[r].completed /\ req'[r].stream = req[r].stream
         /\ req'[r].result = req[r].result
         /\ req[r].completed => req'[r] = req[r]
         /\ Delivered(req'[r])
  BY FailSpares
<1>6. req' \in [Requests -> Request]
  <2>1. req' = req \/ \E f : req' = [r \in Requests |-> f[r]]
    <3>1. CASE FailInPrefill \/ FailInForward  BY <3>1 DEF FailInPrefill, FailInForward
    <3>2. CASE FailInClassify
      <4>1. req' = [r \in Requests |-> req'[r]]  BY <3>2 DEF FailInClassify
      <4>2. QED  BY <4>1
    <3>3. QED  BY <3>1, <3>2 DEF Fail
  <2>2. QED  BY <1>3, <1>5, <2>1
<1>7. ServerTypes'  BY <1>1, <1>4, <1>6 DEF ServerInv, ServerTypes, TypeOK
<1>8. Completed' = Completed  BY <1>5 DEF Completed
<1>9. OneStranded'
  <2>1. PICK s : ToSet(queue) \subseteq ToSet(queue') \cup {s}  BY <1>4
  <2>2. Stranded = {}  BY <1>2, NobodyStranded
  <2>3. Stranded' \subseteq {s}  BY <1>1, <1>8, <2>1, <2>2 DEF Stranded
  <2>4. QED  BY <2>3 DEF OneStranded
<1>10. Counted'
  <2>1. {q \in Completed' : req'[q].finish_reason = "probe_terminated"} =
        {q \in Completed : req[q].finish_reason = "probe_terminated"}
    BY <1>3, <1>5, <1>8 DEF Completed
  <2>2. CountersAgree'  BY <1>1, <1>8, <2>1 DEF ServerInv, Counted, CountersAgree
  <2>3. QED  BY <1>1, <1>8, <2>2 DEF ServerInv, Counted
<1>11. AllDelivered' /\ Answers'
  BY <1>5 DEF ServerInv, AllDelivered, Answers
<1>12. \A r \in Requests : HandlerFits(r)'
  BY <1>1, <1>5 DEF ServerInv, HandlerFits
<1>13. ~Alive' /\ NoVerdictFromMisfit'  BY <1>1 DEF Alive, NoVerdictFromMisfit
<1>14. QED  BY <1>7, <1>9, <1>10, <1>11, <1>12, <1>13 DEF ServerInv

LEMMA NextServerInv == ServerInv /\ [ServerNext]_all => ServerInv'
<1> SUFFICES ASSUME ServerInv, [ServerNext]_all PROVE ServerInv'  OBVIOUS
<1>1. CASE UNCHANGED all
  <2>1. UNCHANGED <<vars, task, probe, handler, consumed>>  BY <1>1 DEF all, server
  <2>2. \A r \in Requests : HandlerFits(r)'  BY <2>1 DEF ServerInv, HandlerFits, vars
  <2>3. QED  BY <2>1, <2>2, BatcherUntouched DEF ServerInv, ServerTypes, Alive
<1>2. QED
  BY <1>1, StartupKeeps, ShutdownKeeps, AcceptKeeps, HandlingKeeps, WorkKeeps, FailKeeps
  DEF ServerNext, Refused, ShutDown, Handling

LEMMA ServerHolds == ServerSpec => []ServerInv
BY InitServerInv, NextServerInv, PTL DEF ServerSpec

-----------------------------------------------------------------------------
(* The results.                                                              *)

\* However the batcher's task ends, at most one request has lost its place, and
\* none has while it lives.
THEOREM LossesAreBounded == ServerSpec => []LossIsBounded
<1>1. ServerInv => LossIsBounded
  <2> SUFFICES ASSUME ServerInv PROVE LossIsBounded  OBVIOUS
  <2>1. PICK s : Stranded \subseteq {s}  BY DEF ServerInv, OneStranded
  <2>2. IsFiniteSet({s}) /\ Cardinality({s}) = 1  BY FS_Singleton
  <2>3. Cardinality(Stranded) \in Nat /\ Cardinality(Stranded) <= 1
    BY <2>1, <2>2, FS_Subset, FS_CardinalityType
  <2>4. task = "running" => Stranded = {}  BY NobodyStranded DEF ServerInv, Alive
  <2>5. QED  BY <2>3, <2>4 DEF LossIsBounded
<1>2. QED  BY <1>1, ServerHolds, PTL

\* The counters of /health add up after an exception too.
THEOREM CountersSurvive == ServerSpec => []CountersAgree
<1>1. ServerInv => CountersAgree  BY DEF ServerInv, Counted
<1>2. QED  BY <1>1, ServerHolds, PTL

\* No handler returns early: it had a completed request, and all of its stream.
THEOREM DoneIsWhole == ServerSpec => []DoneMeansWhole
<1>1. ServerInv => DoneMeansWhole  BY DEF ServerInv, HandlerFits, DoneMeansWhole
<1>2. QED  BY <1>1, ServerHolds, PTL

\* The most an exception leaves half done is one more token, without a verdict,
\* for the head of the batch: whoever is ahead of the request that fails would
\* have met the gate before it.
THEOREM FailuresSpareTheBatch == ServerSpec => FailureSparesTheBatch
<1>1. ASSUME ServerInv, ServerNext, task = "running", task' = "died",
             NEW r \in Requests, req'[r] # req[r]
      PROVE  /\ r = active[1]
             /\ req'[r].n_generated = req[r].n_generated + 1
             /\ req'[r].finish_reason = "none" /\ req'[r].result = req[r].result
  <2>1. FailInClassify
    <3>1. Fail
      BY <1>1 DEF ServerNext, Startup, Refused, ShutDown, Shutdown, Accept, Handling, Respond,
                  Read, Disconnect, Work, all, server, vars
    <3>2. QED  BY <1>1, <3>1 DEF Fail, FailInPrefill, FailInForward
  <2>2. PICK i \in Misfits, eos \in SUBSET ToSet(active) :
           req' = [q \in Requests |->
                      IF q \in {active[j] : j \in 1..i - 1} THEN Generate(req[q], q \in eos)
                      ELSE IF q = active[i]
                           THEN [Generate(req[q], FALSE) EXCEPT
                                    !.finish_reason = req[q].finish_reason]
                      ELSE req[q]]
    BY <2>1 DEF FailInClassify
  <2>3. Safety /\ EndsNoted /\ InOrderOfProgress  BY <1>1 DEF ServerInv, Alive
  <2>4. /\ i \in DOMAIN active /\ probe.dim # HiddenDim /\ MeetsGate(req[active[i]])
        /\ \A j \in 1..i - 1 : ~MeetsGate(req[active[j]])
    BY DEF Misfits
  <2>5. /\ active \in Seq(Requests) /\ DOMAIN active = 1..Len(active) /\ Len(active) \in Nat
        /\ req \in [Requests -> Request]
        /\ \A j \in DOMAIN active : active[j] \in ToSet(active) /\ active[j] \in Requests
    BY <2>3, Places, LenProperties
  <2>6. i = 1
    <3> SUFFICES ASSUME i # 1 PROVE FALSE  OBVIOUS
    <3>1. 1 \in DOMAIN active /\ 1 < i /\ 1 \in 1..i - 1  BY <2>4, <2>5
    <3>2. req[active[1]].n_generated >= req[active[i]].n_generated
      BY <2>3, <2>4, <3>1 DEF InOrderOfProgress
    <3>3. req[active[1]].n_generated \in Nat /\ req[active[i]].n_generated \in Nat
      BY <2>4, <2>5, <3>1 DEF Request
    <3>4. ~Decided(req[active[1]])
      BY <1>1, <2>4, <2>5, <3>1 DEF ServerInv, NoVerdictFromMisfit
    <3>5. GateLoaded /\ req[active[i]].n_generated + 1 >= Checkpoint
      BY <2>4 DEF MeetsGate, ReadyAt
    <3>6. req[active[1]].n_generated + 1 >= Checkpoint
      BY <3>2, <3>3, <3>5, GateAssumption
    <3>7. MeetsGate(req[active[1]])  BY <3>4, <3>5, <3>6 DEF MeetsGate, ReadyAt, Decided
    <3>8. QED  BY <2>4, <3>1, <3>7
  <2>7. r = active[1] /\ req'[r] = [Generate(req[r], FALSE) EXCEPT
                                       !.finish_reason = req[r].finish_reason]
    <3>1. {active[j] : j \in 1..i - 1} = {}  BY <2>6
    <3>2. QED  BY <1>1, <2>2, <2>6, <3>1
  <2>8. req[r].finish_reason = "none" /\ req[r] \in Request
    <3>1. phase = "decode"  BY <2>1 DEF FailInClassify
    <3>2. r \in ToSet(active)  BY <2>4, <2>5, <2>6, <2>7
    <3>3. QED  BY <2>3, <2>5, <3>1, <3>2, NobodyEnds
  <2>9. /\ Generate(req[r], FALSE) \in Request
        /\ Generate(req[r], FALSE).n_generated = req[r].n_generated + 1
        /\ Generate(req[r], FALSE).result = req[r].result
    <3>1. FALSE \in BOOLEAN  OBVIOUS
    <3>2. /\ Generate(req[r], FALSE) \in Request
          /\ Generate(req[r], FALSE).n_generated = req[r].n_generated + 1
      BY <2>8, <3>1, GenerateFields
    <3>3. Generate(req[r], FALSE).result = req[r].result  BY <2>8 DEF Generate, Request
    <3>4. QED  BY <3>2, <3>3
  <2> DEFINE g == Generate(req[r], FALSE)
  <2>10. /\ g \in Request /\ g.n_generated = req[r].n_generated + 1
         /\ g.result = req[r].result
         /\ req'[r] = [g EXCEPT !.finish_reason = req[r].finish_reason]
    BY <2>7, <2>9
  <2> HIDE DEF g
  <2>11. QED  BY <2>7, <2>8, <2>10 DEF Request
<1>2. ServerInv /\ [ServerNext]_all
         => [task = "running" /\ task' = "died" =>
               \A r \in Requests :
                  req'[r] # req[r] =>
                     /\ r = active[1]
                     /\ req'[r].n_generated = req[r].n_generated + 1
                     /\ req'[r].finish_reason = "none" /\ req'[r].result = req[r].result]_all
  BY <1>1
<1>3. QED  BY <1>2, ServerHolds, PTL DEF ServerSpec, FailureSparesTheBatch
================================================================================
