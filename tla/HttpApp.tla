-------------------------------- MODULE HttpApp --------------------------------
(***************************************************************************)
(* One instance of the HTTP application that build_app assembles: requests *)
(* that share one event loop and one runner.                               *)
(*                                                                         *)
(* A coroutine keeps the loop from one await to the next.  /run_service    *)
(* awaits its body and then calls execute, which is synchronous: the loop  *)
(* is held until the result is rendered.  The probes of /health are plain  *)
(* functions, which FastAPI runs in its thread pool; before and after they *)
(* need the loop like everybody else.  Clients may leave at any time.      *)
(*                                                                         *)
(* From the outside in: the handler of Exception, the middleware that      *)
(* binds request_id_var, the handler of GrabatusServiceError, the routes.  *)
(* What execute does is the subject of Receiver and ServiceRunner; here it *)
(* ends in one of four ways.                                               *)
(***************************************************************************)
EXTENDS Naturals

CONSTANTS
  Requests,     \* HTTP requests
  HeaderIds,    \* x-request-id values that clients send
  None

\* uuid4() ids are named by the request they were made for.
ASSUME HttpAppAssumption ==
  /\ None \notin Requests \cup HeaderIds
  /\ Requests \cap HeaderIds = {}

Routes == {"/run_service", "/health"}

VARIABLES
  pc,         \* where each request is
  loop,       \* the request that holds the event loop
  route,      \* what it asks for
  incoming,   \* its x-request-id header
  arrived,    \* whether its whole body is there
  waiting,    \* whether its client still waits
  bound,      \* request_id_var, as the request's own context sees it
  executions, \* how often execute began for it
  answer,     \* the response, by its kind
  header,     \* the x-request-id header of the response
  cached,     \* whether the adapter's cache has the histogram of errors
  created     \* how often the meter was asked to create it

client == <<route, incoming, arrived, waiting>>
metrics == <<cached, created>>
response == <<answer, header>>
vars == <<pc, loop, client, bound, executions, response, metrics>>

Answers == {"status", "ok", "error", "service_error", "internal_error"}

Init ==
  /\ pc = [q \in Requests |-> "none"]
  /\ loop = None
  /\ route = [q \in Requests |-> "/health"]
  /\ incoming = [q \in Requests |-> None]
  /\ arrived = [q \in Requests |-> FALSE]
  /\ waiting = [q \in Requests |-> FALSE]
  /\ bound = [q \in Requests |-> None]
  /\ executions = [q \in Requests |-> 0]
  /\ answer = [q \in Requests |-> None]
  /\ header = [q \in Requests |-> None]
  /\ cached = FALSE
  /\ created = 0

Goto(q, step) == pc' = [pc EXCEPT ![q] = step]

\* The id of a request: the one it came with, or a fresh one.
RequestId(q) == IF incoming[q] = None THEN q ELSE incoming[q]

-----------------------------------------------------------------------------
\* The clients, and the server in front of the application.

Arrive(q) ==
  /\ pc[q] = "none"
  /\ Goto(q, "queued")
  /\ \E r \in Routes, id \in HeaderIds \cup {None} :
       /\ route' = [route EXCEPT ![q] = r]
       /\ incoming' = [incoming EXCEPT ![q] = id]
  /\ waiting' = [waiting EXCEPT ![q] = TRUE]
  /\ UNCHANGED <<loop, arrived, bound, executions, response, metrics>>

BodyArrives(q) ==
  /\ waiting[q] /\ route[q] = "/run_service" /\ ~arrived[q]
  /\ arrived' = [arrived EXCEPT ![q] = TRUE]
  /\ UNCHANGED <<pc, loop, route, incoming, waiting, bound, executions, response, metrics>>

\* The deadline of the caller passes, or its connection breaks.
Leave(q) ==
  /\ waiting[q]
  /\ waiting' = [waiting EXCEPT ![q] = FALSE]
  /\ UNCHANGED <<pc, loop, route, incoming, arrived, bound, executions, response, metrics>>

-----------------------------------------------------------------------------
\* The middleware, on the way in.

\* Seeded bug: one variable for all contexts.
BindGlobal(q, id) == bound' = [p \in Requests |-> id]

\* ContextVar.set and reset concern the context of the request only.
Bind(q, id) == bound' = [bound EXCEPT ![q] = id]

Start(q) ==
  /\ pc[q] = "queued" /\ loop = None
  /\ Bind(q, RequestId(q))
  /\ Goto(q, IF route[q] = "/run_service" THEN "body" ELSE "pool")
  /\ UNCHANGED <<loop, client, executions, response, metrics>>

-----------------------------------------------------------------------------
\* The routes.

Respond(q, how) ==
  /\ answer' = [answer EXCEPT ![q] = how]
  /\ Goto(q, "reply")

\* A probe, on a thread of the pool.
Probe(q) ==
  /\ pc[q] = "pool"
  /\ Respond(q, "status")
  /\ UNCHANGED <<loop, client, bound, executions, header, metrics>>

\* Seeded bugs: execute on a thread of its own; the part of the body that came
\* before the client left is executed; the body of a client that left is
\* awaited.
HoldNothing(q) == loop' = loop
ReadableAnyhow(q) == arrived[q] \/ ~waiting[q]
NeverGone(q) == FALSE

HoldLoop(q) == loop' = q

\* request.body() returns the whole body or raises ClientDisconnect, which
\* takes precedence.
Readable(q) == arrived[q] /\ waiting[q]
Gone(q) == ~waiting[q]

RunService(q) ==
  /\ pc[q] = "body" /\ loop = None /\ Readable(q)
  /\ HoldLoop(q)
  /\ executions' = [executions EXCEPT ![q] = @ + 1]
  /\ Goto(q, "execute")
  /\ UNCHANGED <<client, bound, response, metrics>>

ClientDisconnect(q) ==
  /\ pc[q] = "body" /\ loop = None /\ Gone(q)
  /\ Goto(q, "fail")
  /\ UNCHANGED <<loop, client, bound, executions, response, metrics>>

\* execute returns a result, or a result with an error, which is counted, or
\* raises.  The runners of this repository let no GrabatusServiceError pass,
\* but RunnerLike promises no such thing.
Execute(q) ==
  /\ pc[q] = "execute"
  /\ \/ Goto(q, "render") /\ answer' = [answer EXCEPT ![q] = "ok"] /\ UNCHANGED loop
     \/ Goto(q, "lookup") /\ answer' = [answer EXCEPT ![q] = "error"] /\ UNCHANGED loop
     \/ Respond(q, "service_error") /\ loop' = None
     \/ Goto(q, "fail") /\ loop' = None /\ UNCHANGED answer
  /\ UNCHANGED <<client, bound, executions, header, metrics>>

\* OpenTelemetryObservability.metric: get, or create; then store.
LookUp(q) ==
  /\ pc[q] = "lookup"
  /\ Goto(q, IF cached THEN "store" ELSE "create")
  /\ UNCHANGED <<loop, client, bound, executions, response, metrics>>

CreateInstrument(q) ==
  /\ pc[q] = "create"
  /\ created' = created + 1
  /\ Goto(q, "store")
  /\ UNCHANGED <<loop, client, bound, executions, response, cached>>

StoreInstrument(q) ==
  /\ pc[q] = "store"
  /\ cached' = TRUE
  /\ Goto(q, "render")
  /\ UNCHANGED <<loop, client, bound, executions, response, created>>

\* Seeded bug: what cannot be rendered is executed again.
RenderOrRepeat(q) ==
  /\ pc[q] = "render"
  /\ Goto(q, "reply") \/ Goto(q, "body")
  /\ loop' = None
  /\ UNCHANGED <<client, bound, executions, response, metrics>>

\* _result_to_json and the JSON response: what a backend put into the metadata
\* of a success need not be expressible.
Render(q) ==
  /\ pc[q] = "render"
  /\ \/ Goto(q, "reply")
     \/ answer[q] = "ok" /\ Goto(q, "fail")
  /\ loop' = None
  /\ UNCHANGED <<client, bound, executions, response, metrics>>

-----------------------------------------------------------------------------
\* The middleware and the handler of Exception, on the way out.

Close(q) ==
  /\ Goto(q, "done")
  /\ Bind(q, None)
  /\ waiting' = [waiting EXCEPT ![q] = FALSE]
  /\ UNCHANGED <<loop, route, incoming, arrived, executions, metrics>>

Reply(q) ==
  /\ pc[q] = "reply" /\ loop = None
  /\ header' = [header EXCEPT ![q] = RequestId(q)]
  /\ Close(q)
  /\ UNCHANGED answer

\* The handler stands outside the middleware: nobody adds the header.
Fail(q) ==
  /\ pc[q] = "fail" /\ loop = None
  /\ answer' = [answer EXCEPT ![q] = "internal_error"]
  /\ Close(q)
  /\ UNCHANGED header

-----------------------------------------------------------------------------
Serve(q) ==
  \/ Start(q) \/ Probe(q) \/ RunService(q) \/ ClientDisconnect(q)
  \/ Execute(q) \/ LookUp(q) \/ CreateInstrument(q) \/ StoreInstrument(q)
  \/ Render(q) \/ Reply(q) \/ Fail(q)

Next == \E q \in Requests : Arrive(q) \/ BodyArrives(q) \/ Leave(q) \/ Serve(q)

\* The loop turns and threads run.  The ready queue of asyncio is first in,
\* first out, so whoever is ready again and again gets its turn.  A caller
\* that sends no body does not stay for ever: Cloud Run ends the request.
Fairness == \A q \in Requests : SF_vars(Serve(q)) /\ WF_vars(Leave(q))

Spec == Init /\ [][Next]_vars /\ Fairness

-----------------------------------------------------------------------------
\* Properties.

Steps == {"none", "queued", "body", "pool", "execute", "lookup", "create", "store",
          "render", "reply", "fail", "done"}

TypeOK ==
  /\ pc \in [Requests -> Steps]
  /\ loop \in Requests \cup {None}
  /\ route \in [Requests -> Routes]
  /\ incoming \in [Requests -> HeaderIds \cup {None}]
  /\ arrived \in [Requests -> BOOLEAN]
  /\ waiting \in [Requests -> BOOLEAN]
  /\ bound \in [Requests -> Requests \cup HeaderIds \cup {None}]
  /\ executions \in [Requests -> {0, 1}]
  /\ answer \in [Requests -> Answers \cup {None}]
  /\ header \in [Requests -> Requests \cup HeaderIds \cup {None}]
  /\ cached \in BOOLEAN
  /\ created \in Nat

\* OpenTelemetryObservability.metric checks its cache and then fills it, with
\* no lock.  All requests of an instance share the adapter, and still every
\* instrument is created once: execute never leaves the loop in between.
InstrumentsCreatedOnce == created <= 1 /\ (cached => created = 1)

\* RequestContextMiddleware: however requests overlap, each of them sees its
\* own id from the middleware on until it is answered, also on the threads of
\* the pool and after the body was awaited, and no trace of it afterwards; the
\* header it is answered with is its own.  An internal error has none.
IdsStayApart ==
  \A q \in Requests :
    /\ bound[q] = IF pc[q] \in {"none", "queued", "done"} THEN None ELSE RequestId(q)
    /\ pc[q] = "done" =>
         header[q] = IF answer[q] = "internal_error" THEN None ELSE RequestId(q)

\* exception_handler.py: every request comes to its answer, a failed one too,
\* and one whose client left; none keeps the loop from the others for good.
EveryRequestIsAnswered == \A q \in Requests : (pc[q] = "queued") ~> (pc[q] = "done")

\* Each request is a server of its own, as Receiver assumes.
StateOf(q) ==
  IF pc[q] = "none" THEN "unknown"
  ELSE IF pc[q] = "done" THEN "closed"
  ELSE IF executions[q] = 0 THEN "open" ELSE "begun"

Promise == INSTANCE ServerPromise WITH
  state <- [q \in Requests |-> StateOf(q)],
  sent <- arrived,
  given <- [q \in Requests |-> IF pc[q] = "done" THEN answer[q] ELSE None]

KeepsPromise == Promise!Spec

-----------------------------------------------------------------------------
\* The inductive invariant behind the safety properties.

Executing == {"execute", "lookup", "create", "store", "render"}
Waiting == {"none", "queued", "body", "pool"}

\* Between two awaits a coroutine has the loop to itself.
LoopInv == \A q \in Requests : pc[q] \in Executing => loop = q

\* How far the answer of a request is determined.
AnswerInv ==
  \A q \in Requests :
    /\ pc[q] \in Waiting => executions[q] = 0
    /\ pc[q] \in {"lookup", "create", "store"} => answer[q] = "error"
    /\ pc[q] = "render" => answer[q] \in {"ok", "error"}
    /\ pc[q] = "reply" => answer[q] \in IF executions[q] = 0 THEN {"status"}
                                        ELSE {"ok", "error", "service_error"}
    /\ pc[q] \in Executing => executions[q] = 1
    /\ pc[q] # "done" => header[q] = None
    /\ waiting[q] => pc[q] # "none"

\* Who is about to create the instrument finds none, who is about to store it
\* created the only one or found it.
MetricInv ==
  /\ \A q \in Requests : /\ pc[q] = "create" => created = 0
                         /\ pc[q] = "store" => created = 1
  /\ ~cached /\ (\A q \in Requests : pc[q] # "store") => created = 0
  /\ cached => created = 1
  /\ created <= 1

IInv == TypeOK /\ LoopInv /\ AnswerInv /\ MetricInv /\ IdsStayApart
=============================================================================
