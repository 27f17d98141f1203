----------------------------- MODULE HttpAppProofs -----------------------------
(***************************************************************************)
(* The safety properties of HttpApp for any number of requests and any     *)
(* header ids.                                                             *)
(***************************************************************************)
EXTENDS HttpApp, TLAPS

\* build_app and the adapters start with nothing asked and nothing cached.
LEMMA Initially == Init => IInv
<1> SUFFICES ASSUME Init PROVE IInv
  OBVIOUS
<1>1. TypeOK
  BY DEF Init, TypeOK, Steps, Routes
<1>2. LoopInv /\ AnswerInv /\ MetricInv /\ IdsStayApart
  BY DEF Init, LoopInv, AnswerInv, MetricInv, IdsStayApart, Executing
<1> QED
  BY <1>1, <1>2 DEF IInv

\* Whatever a request does, every variable keeps its type.
LEMMA TypeStep == IInv /\ [Next]_vars => TypeOK'
<1> SUFFICES ASSUME IInv, [Next]_vars PROVE TypeOK'
  OBVIOUS
<1> USE DEF IInv, TypeOK, Steps, Answers, Routes
<1>1. CASE UNCHANGED vars
  BY <1>1 DEF vars, client, response, metrics
<1>2. ASSUME NEW q \in Requests, Arrive(q) PROVE TypeOK'
  BY <1>2 DEF Arrive, Goto, response, metrics
<1>3. ASSUME NEW q \in Requests, BodyArrives(q) \/ Leave(q) PROVE TypeOK'
  BY <1>3 DEF BodyArrives, Leave, response, metrics
<1>4. ASSUME NEW q \in Requests, Start(q) PROVE TypeOK'
  <2>1. RequestId(q) \in Requests \cup HeaderIds
    BY DEF RequestId
  <2> QED
    BY <1>4, <2>1 DEF Start, Bind, Goto, client, response, metrics
<1>5. ASSUME NEW q \in Requests, Probe(q) \/ ClientDisconnect(q) PROVE TypeOK'
  BY <1>5 DEF Probe, ClientDisconnect, Respond, Goto, client, response, metrics
<1>6. ASSUME NEW q \in Requests, RunService(q) PROVE TypeOK'
  BY <1>6 DEF RunService, AnswerInv, Waiting, HoldLoop, Goto, client, response, metrics
<1>7. ASSUME NEW q \in Requests, Execute(q) PROVE TypeOK'
  BY <1>7 DEF Execute, Respond, Goto, client, metrics
<1>8. ASSUME NEW q \in Requests, LookUp(q) \/ CreateInstrument(q) \/ StoreInstrument(q)
      PROVE  TypeOK'
  <2>1. CASE LookUp(q)
    BY <2>1 DEF LookUp, Goto, client, response, metrics
  <2>2. CASE CreateInstrument(q)
    BY <2>2 DEF CreateInstrument, Goto, client, response
  <2>3. CASE StoreInstrument(q)
    BY <2>3 DEF StoreInstrument, Goto, client, response
  <2> QED
    BY <1>8, <2>1, <2>2, <2>3
<1>9. ASSUME NEW q \in Requests, Render(q) PROVE TypeOK'
  BY <1>9 DEF Render, Goto, client, response, metrics
<1>10. ASSUME NEW q \in Requests, Reply(q) \/ Fail(q) PROVE TypeOK'
  <2>1. RequestId(q) \in Requests \cup HeaderIds
    BY DEF RequestId
  <2>2. CASE Reply(q)
    BY <2>1, <2>2 DEF Reply, Close, Bind, Goto, metrics
  <2>3. CASE Fail(q)
    BY <2>3 DEF Fail, Close, Bind, Goto, metrics
  <2> QED
    BY <1>10, <2>2, <2>3
<1> QED
  BY <1>1, <1>2, <1>3, <1>4, <1>5, <1>6, <1>7, <1>8, <1>9, <1>10 DEF Next, Serve

\* Between two awaits nobody else gets the loop: it is taken only when it is
\* free, and given back with the last step that needs it.
LEMMA LoopStep == IInv /\ [Next]_vars => LoopInv'
<1> SUFFICES ASSUME IInv, [Next]_vars PROVE LoopInv'
  OBVIOUS
<1> USE DEF IInv, TypeOK, LoopInv, Executing
<1>1. CASE UNCHANGED vars
  BY <1>1 DEF vars
<1>2. ASSUME NEW q \in Requests, Arrive(q) PROVE LoopInv'
  BY <1>2 DEF Arrive, Goto
<1>3. ASSUME NEW q \in Requests, BodyArrives(q) \/ Leave(q) PROVE LoopInv'
  BY <1>3 DEF BodyArrives, Leave
<1>4. ASSUME NEW q \in Requests, Start(q) \/ Probe(q) \/ ClientDisconnect(q) PROVE LoopInv'
  BY <1>4 DEF Start, Probe, ClientDisconnect, Respond, Goto
<1>5. ASSUME NEW q \in Requests, RunService(q) PROVE LoopInv'
  BY <1>5, HttpAppAssumption DEF RunService, HoldLoop, Goto
<1>6. ASSUME NEW q \in Requests, Execute(q) PROVE LoopInv'
  BY <1>6 DEF Execute, Respond, Goto
<1>7. ASSUME NEW q \in Requests, LookUp(q) \/ CreateInstrument(q) \/ StoreInstrument(q)
      PROVE  LoopInv'
  BY <1>7 DEF LookUp, CreateInstrument, StoreInstrument, Goto
<1>8. ASSUME NEW q \in Requests, Render(q) PROVE LoopInv'
  BY <1>8 DEF Render, Goto
<1>9. ASSUME NEW q \in Requests, Reply(q) \/ Fail(q) PROVE LoopInv'
  BY <1>9 DEF Reply, Fail, Close, Goto
<1> QED
  BY <1>1, <1>2, <1>3, <1>4, <1>5, <1>6, <1>7, <1>8, <1>9 DEF Next, Serve

\* The answer is determined by the route, by execute and by the handlers, and
\* nothing but the middleware, when the request ends, writes its header.
LEMMA AnswerStep == IInv /\ [Next]_vars => AnswerInv'
<1> SUFFICES ASSUME IInv, [Next]_vars PROVE AnswerInv'
  OBVIOUS
<1> USE DEF IInv, TypeOK, AnswerInv, Executing, Waiting, Answers
<1>1. CASE UNCHANGED vars
  BY <1>1 DEF client, vars, response
<1>2. ASSUME NEW q \in Requests, Arrive(q) PROVE AnswerInv'
  BY <1>2 DEF Arrive, Goto, response
<1>3. ASSUME NEW q \in Requests, BodyArrives(q) \/ Leave(q) PROVE AnswerInv'
  BY <1>3 DEF BodyArrives, Leave, response
<1>4. ASSUME NEW q \in Requests, Start(q) \/ Probe(q) \/ ClientDisconnect(q) PROVE AnswerInv'
  BY <1>4 DEF client, Start, Probe, ClientDisconnect, Respond, Goto, response
<1>5. ASSUME NEW q \in Requests, RunService(q) PROVE AnswerInv'
  BY <1>5 DEF client, RunService, Goto, response
<1>6. ASSUME NEW q \in Requests, Execute(q) PROVE AnswerInv'
  BY <1>6 DEF client, Execute, Respond, Goto
<1>7. ASSUME NEW q \in Requests, LookUp(q) \/ CreateInstrument(q) \/ StoreInstrument(q)
      PROVE  AnswerInv'
  BY <1>7 DEF client, LookUp, CreateInstrument, StoreInstrument, Goto, response
<1>8. ASSUME NEW q \in Requests, Render(q) PROVE AnswerInv'
  BY <1>8 DEF client, Render, Goto, response
<1>9. ASSUME NEW q \in Requests, Reply(q) \/ Fail(q) PROVE AnswerInv'
  BY <1>9 DEF Reply, Fail, Close, Goto
<1> QED
  BY <1>1, <1>2, <1>3, <1>4, <1>5, <1>6, <1>7, <1>8, <1>9 DEF Next, Serve

\* OpenTelemetryObservability.metric: the steps between the look at the cache
\* and the store belong to the one request that holds the loop.
LEMMA MetricStep == IInv /\ [Next]_vars => MetricInv'
<1> SUFFICES ASSUME IInv, [Next]_vars PROVE MetricInv'
  OBVIOUS
<1> USE DEF IInv, TypeOK, LoopInv, MetricInv, Executing
<1>1. CASE UNCHANGED vars
  BY <1>1 DEF vars, metrics
<1>2. ASSUME NEW q \in Requests, Arrive(q) PROVE MetricInv'
  BY <1>2 DEF Arrive, Goto, metrics
<1>3. ASSUME NEW q \in Requests, BodyArrives(q) \/ Leave(q) PROVE MetricInv'
  BY <1>3 DEF BodyArrives, Leave, metrics
<1>4. ASSUME NEW q \in Requests, Start(q) \/ Probe(q) \/ ClientDisconnect(q) PROVE MetricInv'
  BY <1>4 DEF Start, Probe, ClientDisconnect, Respond, Goto, metrics
<1>5. ASSUME NEW q \in Requests, RunService(q) PROVE MetricInv'
  BY <1>5 DEF RunService, Goto, metrics
<1>6. ASSUME NEW q \in Requests, Execute(q) PROVE MetricInv'
  BY <1>6 DEF Execute, Respond, Goto, metrics
<1>7. ASSUME NEW q \in Requests, LookUp(q) PROVE MetricInv'
  BY <1>7 DEF LookUp, Goto, metrics
<1>8. ASSUME NEW q \in Requests, CreateInstrument(q) PROVE MetricInv'
  BY <1>8 DEF CreateInstrument, Goto
<1>9. ASSUME NEW q \in Requests, StoreInstrument(q) PROVE MetricInv'
  BY <1>9 DEF StoreInstrument, Goto
<1>10. ASSUME NEW q \in Requests, Render(q) PROVE MetricInv'
  BY <1>10 DEF Render, Goto, metrics
<1>11. ASSUME NEW q \in Requests, Reply(q) \/ Fail(q) PROVE MetricInv'
  BY <1>11 DEF Reply, Fail, Close, Goto, metrics
<1> QED
  BY <1>1, <1>2, <1>3, <1>4, <1>5, <1>6, <1>7, <1>8, <1>9, <1>10, <1>11 DEF Next, Serve

\* RequestContextMiddleware writes the variable of its own request only, and
\* a header does not change while its request is served.
LEMMA IdsStep == IInv /\ [Next]_vars => IdsStayApart'
<1> SUFFICES ASSUME IInv, [Next]_vars PROVE IdsStayApart'
  OBVIOUS
<1> USE DEF IInv, TypeOK, IdsStayApart, RequestId
<1>1. CASE UNCHANGED vars
  BY <1>1 DEF vars, client, response
<1>2. ASSUME NEW q \in Requests, Arrive(q) PROVE IdsStayApart'
  BY <1>2 DEF Arrive, Goto, response
<1>3. ASSUME NEW q \in Requests, BodyArrives(q) \/ Leave(q) PROVE IdsStayApart'
  BY <1>3 DEF BodyArrives, Leave, response
<1>4. ASSUME NEW q \in Requests, Start(q) PROVE IdsStayApart'
  BY <1>4 DEF Start, Bind, Goto, client, response
<1>5. ASSUME NEW q \in Requests, Probe(q) \/ ClientDisconnect(q) PROVE IdsStayApart'
  BY <1>5 DEF Probe, ClientDisconnect, Respond, Goto, client, response
<1>6. ASSUME NEW q \in Requests, RunService(q) PROVE IdsStayApart'
  BY <1>6 DEF RunService, Goto, client, response
<1>7. ASSUME NEW q \in Requests, Execute(q) PROVE IdsStayApart'
  BY <1>7 DEF Execute, Respond, Goto, client
<1>8. ASSUME NEW q \in Requests, LookUp(q) \/ CreateInstrument(q) \/ StoreInstrument(q)
      PROVE  IdsStayApart'
  BY <1>8 DEF LookUp, CreateInstrument, StoreInstrument, Goto, client, response
<1>9. ASSUME NEW q \in Requests, Render(q) PROVE IdsStayApart'
  BY <1>9 DEF Render, Goto, client, response
<1>10. ASSUME NEW q \in Requests, Reply(q) PROVE IdsStayApart'
  BY <1>10 DEF Reply, Close, Bind, Goto, AnswerInv
<1>11. ASSUME NEW q \in Requests, Fail(q) PROVE IdsStayApart'
  BY <1>11 DEF Fail, Close, Bind, Goto, AnswerInv
<1> QED
  BY <1>1, <1>2, <1>3, <1>4, <1>5, <1>6, <1>7, <1>8, <1>9, <1>10, <1>11 DEF Next, Serve

\* The application behind build_app: the loop belongs to one coroutine between
\* two awaits, and answers, instruments and ids are what its steps make them.
THEOREM Inductive == Spec => []IInv
<1>1. IInv /\ [Next]_vars => IInv'
  BY TypeStep, LoopStep, AnswerStep, MetricStep, IdsStep DEF IInv
<1> QED
  BY Initially, <1>1, PTL DEF Spec

\* metric checks its cache and fills it without a lock, and still no number
\* of overlapping requests makes the meter create an instrument twice.
THEOREM OneInstrument == Spec => []InstrumentsCreatedOnce
<1>1. IInv => InstrumentsCreatedOnce
  BY DEF IInv, TypeOK, MetricInv, InstrumentsCreatedOnce
<1> QED
  BY Inductive, <1>1, PTL

\* However many requests overlap, each sees its own request_id_var and is
\* answered with its own header.
THEOREM OwnIds == Spec => []IdsStayApart
<1>1. IInv => IdsStayApart
  BY DEF IInv
<1> QED
  BY Inductive, <1>1, PTL

-----------------------------------------------------------------------------
\* The refinement: which step of a request is a step of its server.

\* build_app: no request was made yet.
LEMMA PromiseInit == Init => Promise!Init
BY DEF Init, Promise!Init, StateOf

\* What changes neither where a request stands nor what it was given changes
\* nothing for those outside.
LEMMA Hidden ==
  ASSUME TypeOK, NEW q \in Requests,
         \A p \in Requests \ {q} : pc'[p] = pc[p],
         pc[q] \notin {"none", "done"}, pc'[q] \notin {"none", "done"},
         UNCHANGED <<executions, arrived>>,
         \A p \in Requests \ {q} : answer'[p] = answer[p]
  PROVE  UNCHANGED Promise!pvars
BY DEF TypeOK, Promise!pvars, StateOf

\* A request ends: the middleware and the handlers close it, with an answer
\* that depends on whether its execution began.
LEMMA PromiseClose ==
  ASSUME IInv, NEW q \in Requests, Reply(q) \/ Fail(q)
  PROVE  Promise!Close(q)
<1>1. UNCHANGED arrived
  BY DEF Reply, Fail, Close
<1> USE DEF IInv, TypeOK, Steps, StateOf, AnswerInv
<1>2. [p \in Requests |-> StateOf(p)]'
        = [[p \in Requests |-> StateOf(p)] EXCEPT ![q] = "closed"]
  <2>1. /\ pc' = [pc EXCEPT ![q] = "done"] /\ UNCHANGED executions
    BY DEF Reply, Fail, Close, Goto
  <2>2. StateOf(q)' = "closed"
    BY <2>1
  <2>3. \A p \in Requests \ {q} : StateOf(p)' = StateOf(p)
    BY <2>1
  <2> QED
    BY <2>2, <2>3, Zenon
<1>3. StateOf(q) = IF executions[q] = 0 THEN "open" ELSE "begun"
  BY DEF Reply, Fail
<1>4. PICK how \in IF StateOf(q) = "begun"
                   THEN {"ok", "error", "service_error", "internal_error"}
                   ELSE {"status", "internal_error"} : answer' = [answer EXCEPT ![q] = how]
  <2>1. CASE Reply(q)
    <3>1. answer' = [answer EXCEPT ![q] = answer[q]]
      BY <2>1 DEF Reply
    <3> QED
      BY <2>1, <3>1, <1>3 DEF Reply
  <2>2. CASE Fail(q)
    BY <2>2 DEF Fail
  <2> QED
    BY <2>1, <2>2
<1>5. [p \in Requests |-> IF pc[p] = "done" THEN answer[p] ELSE None]'
        = [[p \in Requests |-> IF pc[p] = "done" THEN answer[p] ELSE None] EXCEPT ![q] = how]
  BY <1>4 DEF Reply, Fail, Close, Goto
<1> QED
  BY <1>1, <1>2, <1>3, <1>4, <1>5 DEF Promise!Close

\* Every step of the application is a step of one of its servers or none.
LEMMA PromiseStep == IInv /\ [Next]_vars => [Promise!Next]_(Promise!pvars)
<1> SUFFICES ASSUME IInv, [Next]_vars PROVE [Promise!Next]_(Promise!pvars)
  OBVIOUS
<1> USE DEF IInv, TypeOK
<1>1. CASE UNCHANGED vars
  BY <1>1 DEF vars, client, response, Promise!pvars, StateOf
<1>2. ASSUME NEW q \in Requests, Arrive(q) PROVE Promise!Open(q)
  BY <1>2 DEF Arrive, Goto, response, AnswerInv, Waiting, StateOf, Promise!Open
<1>3. ASSUME NEW q \in Requests, BodyArrives(q) PROVE Promise!Send(q)
  BY <1>3 DEF BodyArrives, response, AnswerInv, StateOf, Promise!Send
<1>4. ASSUME NEW q \in Requests, Leave(q) PROVE UNCHANGED Promise!pvars
  BY <1>4 DEF Leave, response, StateOf, Promise!pvars
<1>5. ASSUME NEW q \in Requests, RunService(q) PROVE Promise!Begin(q)
  <2>1. pc[q] = "body" /\ executions[q] = 0 /\ arrived[q]
    BY <1>5 DEF RunService, Readable, AnswerInv, Waiting
  <2>2. StateOf(q) = "open"
    BY <2>1 DEF StateOf
  <2>3. [p \in Requests |-> StateOf(p)]'
          = [[p \in Requests |-> StateOf(p)] EXCEPT ![q] = "begun"]
    <3>1. pc' = [pc EXCEPT ![q] = "execute"] /\ executions' = [executions EXCEPT ![q] = 1]
      BY <1>5, <2>1 DEF RunService, Goto
    <3>2. \A p \in Requests : StateOf(p)' = IF p = q THEN "begun" ELSE StateOf(p)
      BY <3>1, <2>1 DEF StateOf
    <3> QED
      BY <3>2
  <2>4. UNCHANGED <<arrived, [p \in Requests |-> IF pc[p] = "done" THEN answer[p] ELSE None]>>
    BY <1>5, <2>1 DEF RunService, Goto, client, response
  <2> QED
    BY <2>1, <2>2, <2>3, <2>4 DEF Promise!Begin
<1>6. ASSUME NEW q \in Requests, Start(q) \/ Probe(q) \/ ClientDisconnect(q)
      PROVE  UNCHANGED Promise!pvars
  BY <1>6, Hidden DEF Start, Probe, ClientDisconnect, Respond, Goto, client, response
<1>7. ASSUME NEW q \in Requests, Execute(q) PROVE UNCHANGED Promise!pvars
  BY <1>7, Hidden DEF Execute, Respond, Goto, client
<1>8. ASSUME NEW q \in Requests, LookUp(q) \/ CreateInstrument(q) \/ StoreInstrument(q)
      PROVE  UNCHANGED Promise!pvars
  BY <1>8, Hidden DEF LookUp, CreateInstrument, StoreInstrument, Goto, client, response
<1>9. ASSUME NEW q \in Requests, Render(q) PROVE UNCHANGED Promise!pvars
  BY <1>9, Hidden DEF Render, Goto, client, response
<1>10. ASSUME NEW q \in Requests, Reply(q) \/ Fail(q) PROVE Promise!Close(q)
  BY <1>10, PromiseClose
<1> QED
  BY <1>1, <1>2, <1>3, <1>4, <1>5, <1>6, <1>7, <1>8, <1>9, <1>10
  DEF Next, Serve, Promise!Next

\* /run_service executes a whole message at most once and answers about that
\* execution, whatever the other requests of the instance do: the safety part
\* of KeepsPromise.
THEOREM Refinement == Spec => Promise!Init /\ [][Promise!Next]_(Promise!pvars)
BY Inductive, PromiseInit, PromiseStep, PTL DEF Spec
=============================================================================
