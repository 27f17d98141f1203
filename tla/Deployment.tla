------------------------------ MODULE Deployment ------------------------------
(***************************************************************************)
(* A whole deployment: the receiver (module Receiver) launches Cloud Run   *)
(* jobs, and each job is one execution of the worker (module               *)
(* ServiceRunner, which this module extends) on the contract the receiver  *)
(* dispatched.  The jobs share the object storage.                         *)
(*                                                                         *)
(* GBT_JOB_PAYLOAD carries the contract as JSON.  Dumping and parsing it   *)
(* again keeps every field these modules distinguish, so the worker gets   *)
(* the published contract.                                                 *)
(***************************************************************************)
EXTENDS ServiceRunner

CONSTANTS Messages, Publications, NoPayload, Registry, WorkerJob, MaxDeliveries

VARIABLES topic, payload, shared, sent, leased, rpc, rattempt, answer, jobs

R == INSTANCE Receiver

receiverVars == <<topic, payload, shared, sent, leased, rpc, rattempt, answer, jobs>>
deploymentVars == <<receiverVars, vars>>

\* The executions of ServiceRunner are the jobs that Cloud Run may launch, and
\* what the receivers may dispatch is what the workers may be handed.
ASSUME DeploymentAssumption ==
  /\ Runs = R!Jobs
  /\ R!Payloads \ {Malformed} \subseteq Contracts
  /\ Publications \subseteq (ContractRecords \cup {Malformed}) \X BOOLEAN
  /\ MaxDeliveries \in Nat \ {0}
  /\ Malformed \notin ContractRecords
  /\ NoPayload \notin R!Payloads
  /\ DOMAIN Registry \subseteq Services

DeploymentInit == R!Init /\ Init

\* run_worker_once of a launched job, in the image of this worker.
StartJob(j) ==
  /\ j \in jobs
  /\ R!WorkerOf(j[1]) = WorkerJob
  /\ Start(j)
  /\ msg'[j] = payload[j[1]]
  /\ UNCHANGED receiverVars

WorkerStep(j) == (Step(j) \/ Kill(j)) /\ UNCHANGED receiverVars

ReceiverStep == R!Next /\ UNCHANGED vars

DeploymentNext ==
  \/ ReceiverStep
  \/ \E j \in Runs : StartJob(j) \/ WorkerStep(j)

\* Cloud Run starts the jobs it accepted.
DeploymentFairness ==
  /\ R!Fairness
  /\ Fairness
  /\ \A j \in Runs : WF_deploymentVars(StartJob(j))

DeploymentSpec == DeploymentInit /\ [][DeploymentNext]_deploymentVars /\ DeploymentFairness

-----------------------------------------------------------------------------
\* Properties.

JobsOf(m) == {j \in Runs : j[1] = m}

\* The worker repeats the checks of the receiver on what it is sent.  It never
\* refuses what the dedicated receiver let through, and of what the shared
\* receiver let through only the parameters and roles of the contract, which
\* that receiver cannot judge; it does so before it touches anything.
WorkerAgreesWithReceiver ==
  \A j \in Runs :
    outcome[j] \in R!AdmissionErrors /\ touched[j] = {} =>
      shared[j[1]] /\ outcome[j] = "invalid_contract"

\* A request that any delivery answered with a refusal leaves no trace in
\* storage and is never announced, whatever its other deliveries did.
RefusedRequestsLeaveNoTrace ==
  \A d \in R!Deliveries :
    answer[d] \in R!AdmissionErrors =>
      \A j \in JobsOf(d[1]) : ~HadEffect(j)

\* The jobs that redelivery and dispatch retries launch for one message write
\* to the same destinations.  Once one of them announced success, storage
\* keeps complete outputs of that request while the others come and go.  The
\* contract must not name one destination twice, and no other message may use
\* its destinations.
DuplicatesKeepOutputs ==
  \A j \in Runs :
    LET outputs == msg[j].outputs
        destinations == {outputs[i].uri : i \in DOMAIN outputs}
    IN  /\ accepted[j] > 0
        /\ DistinctDestinations(msg[j])
        /\ \A k \in Runs : touched[k] \cap destinations # {} => k[1] = j[1]
        => \A i \in DOMAIN outputs :
             LET blob == store[outputs[i].uri]
             IN  blob # NoData /\ blob.role = outputs[i].role /\ blob.run[1] = j[1]

\* The whole system comes to rest: a published message leaves the subscription
\* and every job launched for it ends.
EveryRequestComesToRest ==
  \A m \in Messages :
    (topic[m] = "pending") ~>
      /\ topic[m] \in {"acked", "dead"}
      /\ \A j \in JobsOf(m) : j \in jobs => pc[j] = "done"

\* docs/architecture.rst: the pipeline never panics, any unexpected exception
\* is caught.  A worker has no exception handler around `execute'.
WorkerNeverPanics == \A j \in Runs : outcome[j] # "escaped"

-----------------------------------------------------------------------------
\* The inductive invariant behind the safety properties, with IInv of the
\* workers.

\* What the receivers have settled once a message is published: its contract,
\* and with it the decision of every delivery.
AdmissionInv ==
  /\ payload \in [Messages -> R!Payloads \cup {NoPayload}]
  /\ shared \in [Messages -> BOOLEAN]
  /\ topic \in [Messages -> {"unpublished", "pending", "acked", "dead"}]
  /\ DOMAIN rpc = R!Deliveries /\ DOMAIN answer = R!Deliveries
  /\ rattempt \in [R!Deliveries -> 1 .. MaxAttempts]
  /\ jobs \subseteq Runs
  /\ \A m \in Messages : topic[m] # "unpublished" => payload[m] \in R!Payloads
  /\ \A d \in R!Deliveries :
       /\ rpc[d] # "none" => topic[d[1]] # "unpublished"
       /\ rpc[d] = "dispatch" => R!Decision(d[1]) = NoError
       /\ answer[d] \in R!AdmissionErrors => rpc[d] # "none" /\ R!Decision(d[1]) = answer[d]
  /\ \A j \in jobs : topic[j[1]] # "unpublished" /\ R!Decision(j[1]) = NoError

\* A worker runs the contract of its message, and refuses it only for what the
\* shared receiver does not look at.
WorkerInv ==
  \A j \in Runs :
    /\ pc[j] # "idle" => j \in jobs /\ msg[j] = payload[j[1]]
    /\ pc[j] = "idle" => outcome[j] = NoError
    /\ outcome[j] \in R!AdmissionErrors =>
         \/ touched[j] # {}
         \/ shared[j[1]] /\ outcome[j] = "invalid_contract"

DeploymentInv == IInv /\ AdmissionInv /\ WorkerInv
=============================================================================
