---------------------------- MODULE RemoteCompute ----------------------------
(***************************************************************************)
(* HttpComputeBackend: the computation of a run happens in a remote        *)
(* service.  Each attempt is one POST of the same question; a timeout, a   *)
(* refused connection or a broken one makes with_retry send it again, and  *)
(* nothing tells the remote service that nobody waits for the first any    *)
(* more.  Runs are processes of their own and share the remote service.    *)
(*                                                                         *)
(* Inputs and outputs are bytes this adapter only encodes and decodes: a   *)
(* question is named by its run and the time stamp of its ComputeContext,  *)
(* an answer by the question and attempt it belongs to and by its shape.   *)
(***************************************************************************)
EXTENDS Integers

CONSTANTS
  Runs,
  Serializable,  \* runs whose parameters model_dump to what JSON can express
  Responses,     \* what the remote service may answer
  MaxAttempts,   \* _DEFAULT_MAX_ATTEMPTS of adapters/retry.py
  MaxClock,      \* bound on the ticks of the clock
  Computing,     \* a question the remote service still works on
  None

OutputKinds == {"base64", "bad_base64", "not_text"}

\* What is sent back: bytes that are no text, text that is no JSON, JSON that
\* is no object, an object without an object "outputs", or a whole envelope.
Bodies == {"not_text", "not_json", "other_json", "no_outputs", "envelope"}

ASSUME RemoteComputeAssumption ==
  /\ Serializable \subseteq Runs
  /\ MaxAttempts \in Nat \ {0}
  /\ MaxClock \in Nat
  /\ {None, Computing} \cap (Nat \cup Responses) = {} /\ None # Computing
  /\ \A p \in Responses :
       /\ p.status \in {"2xx", "other"}
       /\ p.body \in Bodies
       /\ \A role \in DOMAIN p.outputs : p.outputs[role] \in OutputKinds
       /\ p.metadata \in {"absent", "object", "other"}

VARIABLES
  clock,    \* the ClockPort of the runners
  pc,       \* what each run does next
  context,  \* generated_at of its ComputeContext
  attempt,  \* the attempt number with_retry is at
  posts,    \* the questions that reached the remote service
  remote,   \* what the remote service made of each of them
  heard,    \* the attempts whose answer the run read
  outcome,  \* how the call ended
  result    \* the answer a ComputeResult was decoded from

vars == <<clock, pc, context, attempt, posts, remote, heard, outcome, result>>

Attempts == 1 .. MaxAttempts
Outcomes == {"none", "result", "compute_failed", "escaped", "killed"}

Questions == [run : Runs, attempt : Attempts, generated_at : 0 .. MaxClock]

Init ==
  /\ clock = 0
  /\ pc = [r \in Runs |-> "idle"]
  /\ context = [r \in Runs |-> None]
  /\ attempt = [r \in Runs |-> 1]
  /\ posts = {}
  /\ remote = [r \in Runs |-> [a \in Attempts |-> None]]
  /\ heard = [r \in Runs |-> {}]
  /\ outcome = [r \in Runs |-> "none"]
  /\ result = [r \in Runs |-> None]

-----------------------------------------------------------------------------
\* _decode_response and the status check before it, in their order.

\* Seeded bug: whatever decodes is taken, whole or not.
SomeOutputsDecode(outputs) == \E role \in DOMAIN outputs : outputs[role] = "base64"

OutputsDecode(outputs) == \A role \in DOMAIN outputs : outputs[role] = "base64"

\* A body that is no text in any encoding of JSON raises UnicodeDecodeError,
\* which `except json.JSONDecodeError' lets pass.
Decode(p) ==
  CASE p.status # "2xx" -> "compute_failed"
    [] p.status = "2xx" /\ p.body = "not_text" -> "escaped"
    [] p.status = "2xx" /\ p.body # "not_text" ->
         IF p.body = "envelope" /\ OutputsDecode(p.outputs) /\ p.metadata # "other"
         THEN "result" ELSE "compute_failed"

-----------------------------------------------------------------------------
\* The client: make_compute_context and HttpComputeBackend.run.

Tick ==
  /\ clock < MaxClock
  /\ clock' = clock + 1
  /\ UNCHANGED <<pc, context, attempt, posts, remote, heard, outcome, result>>

Begin(r) ==
  /\ pc[r] = "idle"
  /\ pc' = [pc EXCEPT ![r] = "stamp"]
  /\ UNCHANGED <<clock, context, attempt, posts, remote, heard, outcome, result>>

\* Once per run, before the retried call.
MakeComputeContext(r) ==
  /\ pc[r] = "stamp"
  /\ context' = [context EXCEPT ![r] = clock]
  /\ pc' = [pc EXCEPT ![r] = "post"]
  /\ UNCHANGED <<clock, attempt, posts, remote, heard, outcome, result>>

Finish(r, how) ==
  /\ pc' = [pc EXCEPT ![r] = "done"]
  /\ outcome' = [outcome EXCEPT ![r] = how]

\* Seeded bugs: one attempt too many, a budget that renews itself, and a
\* context that is stamped again for every attempt.
RetryOnceMore(r) ==
  IF attempt[r] <= MaxAttempts
  THEN /\ pc' = [pc EXCEPT ![r] = "post"]
       /\ attempt' = [attempt EXCEPT ![r] = @ + 1]
       /\ UNCHANGED outcome
  ELSE Finish(r, "escaped") /\ UNCHANGED attempt

RetryForever(r) ==
  /\ pc' = [pc EXCEPT ![r] = "post"]
  /\ attempt' = [attempt EXCEPT ![r] = (@ % MaxAttempts) + 1]
  /\ UNCHANGED outcome

RetryStamped(r) ==
  IF attempt[r] < MaxAttempts
  THEN /\ pc' = [pc EXCEPT ![r] = "stamp"]
       /\ attempt' = [attempt EXCEPT ![r] = @ + 1]
       /\ UNCHANGED outcome
  ELSE Finish(r, "escaped") /\ UNCHANGED attempt

\* with_retry: the last httpx error is re-raised as it is.
RetryOrReraise(r) ==
  IF attempt[r] < MaxAttempts
  THEN /\ pc' = [pc EXCEPT ![r] = "post"]
       /\ attempt' = [attempt EXCEPT ![r] = @ + 1]
       /\ UNCHANGED outcome
  ELSE Finish(r, "escaped") /\ UNCHANGED attempt

\* _encode_request runs for every attempt.  A model_dump() in python mode may
\* hold what json cannot express: a TypeError.
EncodeFails(r) ==
  /\ pc[r] = "post" /\ r \notin Serializable
  /\ Finish(r, "escaped")
  /\ UNCHANGED <<clock, context, attempt, posts, remote, heard, result>>

\* The request reaches the remote service, which starts to compute, or not.
Post(r) ==
  LET question == [run |-> r, attempt |-> attempt[r], generated_at |-> context[r]] IN
  /\ pc[r] = "post" /\ r \in Serializable
  /\ pc' = [pc EXCEPT ![r] = "wait"]
  /\ \/ /\ posts' = posts \cup {question}
        /\ remote' = [remote EXCEPT ![r][attempt[r]] = Computing]
     \/ UNCHANGED <<posts, remote>>
  /\ UNCHANGED <<clock, context, attempt, heard, outcome, result>>

\* Seeded bug: the connection of the first attempt is read again.
FirstAttempt(r) == 1

\* The attempt whose connection is open: httpx closes it when an attempt fails.
OpenAttempt(r) == attempt[r]

Read(r, p) ==
  /\ pc[r] = "wait" /\ p \in Responses
  /\ heard' = [heard EXCEPT ![r] = @ \cup {OpenAttempt(r)}]
  /\ result' = [result EXCEPT ![r] = IF Decode(p) = "result" THEN p ELSE @]
  /\ UNCHANGED <<clock, context, posts, remote>>

\* Seeded bug: a refused answer is asked for again.
ReceiveRetrying(r) ==
  LET p == remote[r][OpenAttempt(r)] IN
  /\ Read(r, p)
  /\ \/ Decode(p) = "result" /\ Finish(r, "result") /\ UNCHANGED attempt
     \/ Decode(p) # "result" /\ RetryOrReraise(r)

Receive(r) ==
  LET p == remote[r][OpenAttempt(r)] IN
  /\ Read(r, p)
  /\ Finish(r, Decode(p))
  /\ UNCHANGED attempt

\* TimeoutException, ConnectError, RemoteProtocolError.
FailTransiently(r) ==
  /\ pc[r] = "wait"
  /\ RetryOrReraise(r)
  /\ UNCHANGED <<clock, context, posts, remote, heard, result>>

\* Any other httpx.HTTPError.
FailForGood(r) ==
  /\ pc[r] = "wait"
  /\ Finish(r, "compute_failed")
  /\ UNCHANGED <<clock, context, attempt, posts, remote, heard, result>>

\* The container is stopped; the remote service does not notice.
Kill(r) ==
  /\ pc[r] \in {"stamp", "post", "wait"}
  /\ Finish(r, "killed")
  /\ UNCHANGED <<clock, context, attempt, posts, remote, heard, result>>

\* The remote service (external) answers each question once, or never.
Answer(r, a) ==
  /\ remote[r][a] = Computing
  /\ \E p \in Responses : remote' = [remote EXCEPT ![r][a] = p]
  /\ UNCHANGED <<clock, pc, context, attempt, posts, heard, outcome, result>>

-----------------------------------------------------------------------------
Step(r) ==
  \/ MakeComputeContext(r) \/ EncodeFails(r) \/ Post(r)
  \/ Receive(r) \/ FailTransiently(r) \/ FailForGood(r)

Next ==
  \/ Tick
  \/ \E r \in Runs : Begin(r) \/ Step(r) \/ Kill(r)
  \/ \E r \in Runs, a \in Attempts : Answer(r, a)

\* A process that runs goes on, and its POST times out; the remote service
\* owes nobody an answer.
Fairness == \A r \in Runs : WF_vars(Step(r))

Spec == Init /\ [][Next]_vars /\ Fairness

-----------------------------------------------------------------------------
\* Properties.

TypeOK ==
  /\ clock \in 0 .. MaxClock
  /\ pc \in [Runs -> {"idle", "stamp", "post", "wait", "done"}]
  /\ context \in [Runs -> 0 .. MaxClock \cup {None}]
  /\ attempt \in [Runs -> Attempts]
  /\ posts \subseteq Questions
  /\ remote \in [Runs -> [Attempts -> Responses \cup {None, Computing}]]
  /\ heard \in [Runs -> SUBSET Attempts]
  /\ outcome \in [Runs -> Outcomes]
  /\ result \in [Runs -> Responses \cup {None}]

\* The retried `run': what it returns is the whole, decodable answer to the
\* last request it sent, never that of an earlier one it gave up on, which
\* the remote service may have answered since.
ResultsAnswerTheLastPost ==
  \A r \in Runs : outcome[r] = "result" =>
    /\ heard[r] = {attempt[r]}
    /\ \E q \in posts : q.run = r /\ q.attempt = attempt[r]
    /\ result[r] = remote[r][attempt[r]]
    /\ result[r].status = "2xx" /\ result[r].body = "envelope"
    /\ \A role \in DOMAIN result[r].outputs : result[r].outputs[role] = "base64"

\* make_compute_context is called outside the retried call: however often and
\* however late the question is sent, and whichever of the computations that
\* then overlap answers it, they were all asked the same.
OneQuestionPerRun ==
  \A p, q \in posts : p.run = q.run => p.generated_at = q.generated_at

\* Only a lost connection makes the run ask again.  Once an answer was read,
\* good or bad, no further computation is started for it.
AnswersAreFinal == \A r \in Runs : heard[r] # {} => pc[r] = "done" /\ heard[r] = {attempt[r]}

\* The call ends even if the remote service never answers.
EveryCallEnds == \A r \in Runs : (pc[r] = "stamp") ~> (pc[r] = "done")

-----------------------------------------------------------------------------
\* The inductive invariant behind the safety properties.

\* What was asked, and what the remote service knows, is of attempts so far.
PostInv ==
  /\ \A q \in posts :
       /\ q.generated_at = context[q.run]
       /\ pc[q.run] \notin {"idle", "stamp"}
       /\ pc[q.run] = "post" => q.attempt < attempt[q.run]
       /\ q.attempt <= attempt[q.run]
  /\ \A r \in Runs, a \in Attempts :
       remote[r][a] # None => \E q \in posts : q.run = r /\ q.attempt = a

OutcomeInv ==
  \A r \in Runs :
    /\ pc[r] \in {"idle", "stamp"} => attempt[r] = 1
    /\ pc[r] # "done" => outcome[r] = "none"
    /\ outcome[r] = "result" => result[r] \in Responses
    /\ pc[r] \notin {"idle", "stamp", "done"} => context[r] # None

IInv == TypeOK /\ PostInv /\ OutcomeInv /\ AnswersAreFinal /\ ResultsAnswerTheLastPost
=============================================================================
