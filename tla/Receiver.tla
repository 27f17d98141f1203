------------------------------- MODULE Receiver -------------------------------
(***************************************************************************)
(* The receivers behind their Pub/Sub push subscriptions: ServiceRunner in *)
(* RECEIVER mode, the dedicated receiver of one service, and               *)
(* SharedReceiverRunner.  The topic a message is published to decides      *)
(* which of the two gets it.                                               *)
(*                                                                         *)
(* Each delivery of a message is one POST /run_service.  The receiver      *)
(* decides about the contract, asks Cloud Run for a job, and answers 200   *)
(* whatever happened; it remembers nothing between two requests.           *)
(* Deliveries run on any number of instances and interleave.               *)
(*                                                                         *)
(* Pub/Sub (external) redelivers a message whose delivery is not answered  *)
(* within the acknowledgement deadline, MaxDeliveries times in all, and    *)
(* then moves it to the dead-letter topic.  An answer after the deadline   *)
(* changes nothing, but the request behind it runs on.                     *)
(***************************************************************************)
EXTENDS Steps

CONSTANTS
  Messages,       \* publications; two of them may carry one request
  Publications,   \* what may be published: <<contract or Malformed, to the shared topic?>>
  Malformed,
  NoPayload,
  Registry,       \* service name -> worker job, of the shared receiver
  WorkerJob,      \* worker_job_name of the dedicated receiver
  MaxAttempts,    \* _DEFAULT_MAX_ATTEMPTS of adapters/retry.py
  MaxDeliveries   \* of the subscription's dead-letter policy

Payloads == {p[1] : p \in Publications}

ASSUME ReceiverAssumption ==
  /\ Publications \subseteq (ContractRecords \cup {Malformed}) \X BOOLEAN
  /\ MaxAttempts \in Nat \ {0}
  /\ MaxDeliveries \in Nat \ {0}
  /\ Malformed \notin ContractRecords
  /\ NoPayload \notin Payloads
  /\ DOMAIN Registry \subseteq Services

VARIABLES
  topic,     \* what Pub/Sub thinks of each message
  payload,   \* the published payload
  shared,    \* whether it was published to the topic of the shared receiver
  sent,      \* number of deliveries of each message
  leased,    \* whether Pub/Sub is waiting for the answer to the last one
  rpc,       \* how far each request is
  rattempt,  \* attempt number of the dispatch of each request
  answer,    \* "status" or error code of each HTTP response
  jobs       \* the job executions Cloud Run launched

pubsub == <<topic, payload, shared, sent, leased>>
requests == <<rpc, rattempt, answer>>
vars == <<topic, payload, shared, sent, leased, rpc, rattempt, answer, jobs>>

Deliveries == Messages \X (1 .. MaxDeliveries)
Jobs == Messages \X (1 .. MaxDeliveries) \X (1 .. MaxAttempts)

\* A job is named by the delivery and the dispatch attempt that launched it.
Delivery(j) == <<j[1], j[2]>>

\* Admission resolves no credential and opens no connection.
AdmissionErrors ==
  ContractErrors \cup (SecurityErrors \ {"blocked_host", "credential_resolution_failed"})

Answers == AdmissionErrors \cup {NoError, "ok", "compute_failed", "internal_error"}

Init ==
  /\ topic = [m \in Messages |-> "unpublished"]
  /\ payload = [m \in Messages |-> NoPayload]
  /\ shared = [m \in Messages |-> FALSE]
  /\ sent = [m \in Messages |-> 0]
  /\ leased = [m \in Messages |-> FALSE]
  /\ rpc = [d \in Deliveries |-> "none"]
  /\ rattempt = [d \in Deliveries |-> 1]
  /\ answer = [d \in Deliveries |-> NoError]
  /\ jobs = {}

-----------------------------------------------------------------------------
\* The decision: decode, validate, then either the roles (dedicated) or the
\* registry (shared), in the order of the code.

RegistryError(c) == IF c.service \in DOMAIN Registry THEN NoError ELSE "unknown_service"
RoleError(c) == IF RolesCompatible(c) THEN NoError ELSE "invalid_contract"

\* Seeded bug: a later check overwrites the error of an earlier one.
LastError(first, second) == second

FirstError(first, second) == IF first # NoError THEN first ELSE second

Decision(m) ==
  LET c == payload[m] IN
  CASE c = Malformed -> "malformed_message"
    [] c # Malformed /\ ValidationError(c, ~shared[m]) # NoError -> ValidationError(c, ~shared[m])
    [] OTHER -> IF shared[m]
                THEN FirstError(AuthorizationError(c), RegistryError(c))
                ELSE FirstError(RoleError(c), AuthorizationError(c))

WorkerOf(m) == IF shared[m] THEN Registry[payload[m].service] ELSE WorkerJob

-----------------------------------------------------------------------------
\* Pub/Sub.

Publish(m) ==
  /\ topic[m] = "unpublished"
  /\ topic' = [topic EXCEPT ![m] = "pending"]
  /\ \E p \in Publications : /\ payload' = [payload EXCEPT ![m] = p[1]]
                             /\ shared' = [shared EXCEPT ![m] = p[2]]
  /\ UNCHANGED <<sent, leased, requests, jobs>>

Deliver(m) ==
  /\ topic[m] = "pending" /\ ~leased[m] /\ sent[m] < MaxDeliveries
  /\ sent' = [sent EXCEPT ![m] = @ + 1]
  /\ leased' = [leased EXCEPT ![m] = TRUE]
  /\ rpc' = [rpc EXCEPT ![<<m, sent[m] + 1>>] = "admit"]
  /\ UNCHANGED <<topic, payload, shared, rattempt, answer, jobs>>

\* The deadline passes, or the connection breaks.
Expire(m) ==
  /\ leased[m]
  /\ leased' = [leased EXCEPT ![m] = FALSE]
  /\ UNCHANGED <<topic, payload, shared, sent, requests, jobs>>

DeadLetter(m) ==
  /\ topic[m] = "pending" /\ ~leased[m] /\ sent[m] = MaxDeliveries
  /\ topic' = [topic EXCEPT ![m] = "dead"]
  /\ UNCHANGED <<payload, shared, sent, leased, requests, jobs>>

-----------------------------------------------------------------------------
\* One request.

Respond(d, how) ==
  /\ rpc' = [rpc EXCEPT ![d] = "reply"]
  /\ answer' = [answer EXCEPT ![d] = how]

\* Nothing is shared until the dispatch, so the decision is one step.
Admit(d) ==
  LET error == Decision(d[1]) IN
  /\ rpc[d] = "admit"
  /\ \/ /\ error # NoError
        /\ Respond(d, error)
     \/ /\ error = NoError
        /\ rpc' = [rpc EXCEPT ![d] = "dispatch"]
        /\ UNCHANGED answer
  /\ UNCHANGED <<pubsub, rattempt, jobs>>

\* Seeded bugs: one attempt too many; the budget is renewed; the transport
\* error is reported as a refusal.
RetryDispatchOnceMore(d) ==
  IF rattempt[d] <= MaxAttempts
  THEN /\ rattempt' = [rattempt EXCEPT ![d] = @ + 1]
       /\ UNCHANGED <<rpc, answer>>
  ELSE Respond(d, "internal_error") /\ UNCHANGED rattempt

RetryDispatchForever(d) ==
  /\ rattempt' = [rattempt EXCEPT ![d] = (@ % MaxAttempts) + 1]
  /\ UNCHANGED <<rpc, answer>>

RetryDispatchMisreported(d) ==
  IF rattempt[d] < MaxAttempts
  THEN /\ rattempt' = [rattempt EXCEPT ![d] = @ + 1]
       /\ UNCHANGED <<rpc, answer>>
  ELSE Respond(d, "unknown_service") /\ UNCHANGED rattempt

\* with_retry: the last transient error is re-raised past `execute' and the
\* exception handler of the app turns it into internal_error.
RetryDispatch(d) ==
  IF rattempt[d] < MaxAttempts
  THEN /\ rattempt' = [rattempt EXCEPT ![d] = @ + 1]
       /\ UNCHANGED <<rpc, answer>>
  ELSE Respond(d, "internal_error") /\ UNCHANGED rattempt

Launch(d) == jobs' = jobs \cup {<<d[1], d[2], rattempt[d]>>}

\* One call of run_job.  Its reply may be lost after the job was launched.
\* A GoogleAPIError that is not transient is a compute_failed, and any other
\* error escapes, both at once and whatever Cloud Run did by then.
Dispatch(d) ==
  /\ rpc[d] = "dispatch"
  /\ \/ Launch(d) /\ Respond(d, "ok") /\ UNCHANGED rattempt
     \/ Launch(d) /\ RetryDispatch(d)
     \/ UNCHANGED jobs /\ RetryDispatch(d)
     \/ /\ Launch(d) \/ UNCHANGED jobs
        /\ Respond(d, "compute_failed") \/ Respond(d, "internal_error")
        /\ UNCHANGED rattempt
  /\ UNCHANGED pubsub

\* Every response is a 200, which acknowledges the message if Pub/Sub still
\* waits for it.
Reply(d) ==
  LET current == leased[d[1]] /\ sent[d[1]] = d[2] IN
  /\ rpc[d] = "reply"
  /\ rpc' = [rpc EXCEPT ![d] = "closed"]
  /\ \/ /\ current
        /\ topic' = [topic EXCEPT ![d[1]] = "acked"]
        /\ leased' = [leased EXCEPT ![d[1]] = FALSE]
     \/ ~current /\ UNCHANGED <<topic, leased>>
  /\ UNCHANGED <<payload, shared, sent, rattempt, answer, jobs>>

\* The instance goes away in the middle of a request, and the connection with
\* it.
Crash(d) ==
  /\ rpc[d] \in {"admit", "dispatch", "reply"}
  /\ rpc' = [rpc EXCEPT ![d] = "closed"]
  /\ UNCHANGED <<pubsub, rattempt, answer, jobs>>

-----------------------------------------------------------------------------
Serve(d) == Admit(d) \/ Dispatch(d) \/ Reply(d)

Next ==
  \/ \E m \in Messages : Publish(m) \/ Deliver(m) \/ Expire(m) \/ DeadLetter(m)
  \/ \E d \in Deliveries : Serve(d) \/ Crash(d)

\* The platform need not publish and instances need not crash; requests are
\* served, and Pub/Sub delivers, gives up waiting and dead-letters.
Fairness ==
  /\ \A m \in Messages : WF_vars(Deliver(m)) /\ WF_vars(Expire(m))
                         /\ WF_vars(DeadLetter(m))
  /\ \A d \in Deliveries : WF_vars(Serve(d))

Spec == Init /\ [][Next]_vars /\ Fairness

-----------------------------------------------------------------------------
\* Properties.

TypeOK ==
  /\ topic \in [Messages -> {"unpublished", "pending", "acked", "dead"}]
  /\ payload \in [Messages -> Payloads \cup {NoPayload}]
  /\ shared \in [Messages -> BOOLEAN]
  /\ sent \in [Messages -> 0 .. MaxDeliveries]
  /\ leased \in [Messages -> BOOLEAN]
  /\ rpc \in [Deliveries -> {"none", "admit", "dispatch", "reply", "closed"}]
  /\ rattempt \in [Deliveries -> 1 .. MaxAttempts]
  /\ answer \in [Deliveries -> Answers]
  /\ jobs \subseteq Jobs

\* What a worker is started with: a decoded contract of a known version whose
\* every URI the policies accept, sent to the worker of its service.
Dispatchable(m) ==
  LET c == payload[m] IN
  /\ c # Malformed
  /\ c.version \in SUPPORTED_PROTOCOL_VERSIONS
  /\ WellFormed(c)
  /\ \A i \in DOMAIN AllSpecs(c) : Authorized(c, AllSpecs(c)[i].uri)
  /\ IF shared[m] THEN c.service \in DOMAIN Registry ELSE c.params /\ RolesCompatible(c)

\* SharedReceiverRunner.execute and _run_receiver dispatch last.  No retry,
\* redelivery or crash ever launches a job for a contract that fails one of
\* the checks.
JobsAreAdmitted == \A j \in jobs : Dispatchable(j[1])

\* The two receivers have no memory, but the decision is a function of the
\* contract: a message refused by one delivery launches no job by another.
\* An answer "ok" names a job that exists, the last one its request launched.
AnswersMatchJobs ==
  \A d \in Deliveries :
    /\ answer[d] \in AdmissionErrors => \A j \in jobs : j[1] # d[1]
    /\ answer[d] = "ok" => /\ <<d[1], d[2], rattempt[d]>> \in jobs
                           /\ \A j \in jobs : Delivery(j) = d => j[3] <= rattempt[d]

\* with_retry around run_job: whatever Cloud Run answers, every request is
\* answered, unless its instance goes away.
EveryRequestIsAnswered ==
  \A d \in Deliveries : (rpc[d] = "admit") ~> (rpc[d] = "closed")

\* docs/integration_contract.md: request_id is the idempotency key and the
\* receiver de-dupes on it.
OneJobPerRequest ==
  \A i, j \in jobs : payload[i[1]].request = payload[j[1]].request => i = j

-----------------------------------------------------------------------------
\* The inductive invariant behind the safety properties.

\* How far a delivery is, and what is settled by then.
FlowInv ==
  /\ \A m \in Messages :
       topic[m] = "unpublished" => sent[m] = 0 /\ ~leased[m]
  /\ \A m \in Messages : topic[m] # "unpublished" => payload[m] \in Payloads
  /\ \A d \in Deliveries :
       /\ d[2] > sent[d[1]] => rpc[d] = "none"
       /\ rpc[d] \in {"none", "admit", "dispatch"} => answer[d] = NoError
       /\ rpc[d] = "dispatch" => Decision(d[1]) = NoError
       /\ answer[d] \in AdmissionErrors => Decision(d[1]) = answer[d]
       /\ answer[d] = "ok" => <<d[1], d[2], rattempt[d]>> \in jobs

\* A job is the work of a delivery that got as far as its dispatch.
JobInv ==
  \A j \in jobs :
    /\ rpc[Delivery(j)] \notin {"none", "admit"}
    /\ j[3] <= rattempt[Delivery(j)]
    /\ Decision(j[1]) = NoError

IInv == TypeOK /\ FlowInv /\ JobInv
=============================================================================
