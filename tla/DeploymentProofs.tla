---------------------------- MODULE DeploymentProofs ----------------------------
(***************************************************************************)
(* The safety properties of a whole deployment, for any messages, any      *)
(* contracts and policies, and any numbers of deliveries and attempts.     *)
(* The workers' part is that of ServiceRunnerProofs: a step of the         *)
(* deployment is a step of ServiceRunner or leaves the workers alone.      *)
(***************************************************************************)
EXTENDS Deployment, ServiceRunnerProofs

\* A job is named by its message, the delivery and the dispatch attempt.
LEMMA JobShape ==
  ASSUME NEW j \in Runs
  PROVE  j[1] \in Messages /\ R!Delivery(j) \in R!Deliveries /\ R!Delivery(j)[1] = j[1]
BY DeploymentAssumption DEF R!Jobs, R!Delivery, R!Deliveries

\* A delivery is named by its message and its number.
LEMMA DeliveryShape ==
  ASSUME NEW d \in R!Deliveries
  PROVE  d[1] \in Messages /\ d[2] \in 1 .. MaxDeliveries
BY DEF R!Deliveries

\* The receivers and the worker call the same code: validate, the role check
\* and authorize of the runner package.
LEMMA SameChecks ==
  ASSUME NEW c
  PROVE  /\ \A typed : R!ValidationError(c, typed) = ValidationError(c, typed)
         /\ R!RolesCompatible(c) <=> RolesCompatible(c)
         /\ R!AuthorizationError(c) = AuthorizationError(c)
<1>1. R!WellFormed(c) <=> WellFormed(c)
  BY DEF R!WellFormed, WellFormed, R!MAX_INPUTS, MAX_INPUTS, R!MAX_OUTPUTS, MAX_OUTPUTS,
     R!UniqueRoles, UniqueRoles
<1>2. \A typed : R!ValidationError(c, typed) = ValidationError(c, typed)
  BY <1>1 DEF R!ValidationError, ValidationError, R!NoError, NoError,
     R!SUPPORTED_PROTOCOL_VERSIONS, SUPPORTED_PROTOCOL_VERSIONS
<1>3. R!RolesCompatible(c) <=> RolesCompatible(c)
  BY DEF R!RolesCompatible, RolesCompatible, R!RolesOf, RolesOf,
     R!ExpectedOutputRoles, ExpectedOutputRoles,
     R!READOUT_PROTOCOL_VERSION, READOUT_PROTOCOL_VERSION,
     R!READOUT_OUTPUT_ROLE, READOUT_OUTPUT_ROLE
<1>4. R!AuthorizationError(c) = AuthorizationError(c)
  BY DEF R!AuthorizationError, AuthorizationError, R!AllSpecs, AllSpecs,
     R!UriError, UriError, R!NoError, NoError
<1> QED BY <1>2, <1>3, <1>4

\* The decision depends on the publication alone.
LEMMA DecisionFrame ==
  ASSUME NEW m \in Messages, payload'[m] = payload[m], shared'[m] = shared[m]
  PROVE  R!Decision(m)' = R!Decision(m)
BY DEF R!Decision

\* What the worker may rely on in a dispatched contract.
LEMMA DispatchedPasses ==
  ASSUME NEW m \in Messages, R!Decision(m) = NoError
  PROVE  /\ payload[m] # Malformed
         /\ ValidationError(payload[m], ~shared[m]) = NoError
         /\ AuthorizationError(payload[m]) = NoError
         /\ ~shared[m] => RolesCompatible(payload[m])
<1> DEFINE c == payload[m]
<1>1. c # Malformed
  BY DEF R!Decision, NoError
<1>2. ValidationError(c, ~shared[m]) = NoError
  BY <1>1, SameChecks DEF R!Decision, NoError, R!NoError
<1>3. AuthorizationError(c) = NoError
  BY <1>1, <1>2, SameChecks DEF R!Decision, R!FirstError, NoError, R!NoError
<1>4. ~shared[m] => RolesCompatible(c)
  BY <1>1, <1>2, SameChecks DEF R!Decision, R!FirstError, R!RoleError, NoError, R!NoError
<1> QED BY <1>1, <1>2, <1>3, <1>4

LEMMA DeploymentInitially == DeploymentInit => DeploymentInv
<1> SUFFICES ASSUME DeploymentInit PROVE DeploymentInv
  OBVIOUS
<1>1. IInv
  BY Initially DEF DeploymentInit
<1>2. AdmissionInv
  BY ServiceRunnerAssumption
     DEF DeploymentInit, R!Init, R!NoError, R!AdmissionErrors, R!ContractErrors, R!SecurityErrors,
     AdmissionInv, NoError
<1>3. WorkerInv
  BY DEF DeploymentInit, Init, WorkerInv, NoError, R!AdmissionErrors, R!ContractErrors,
     R!SecurityErrors
<1> QED BY <1>1, <1>2, <1>3 DEF DeploymentInv

\* A step of the deployment is a step of the workers or leaves them alone, and
\* the same of the receivers.
LEMMA WorkersStep == [DeploymentNext]_deploymentVars => [Next]_vars
BY DEF DeploymentNext, deploymentVars, ReceiverStep, StartJob, WorkerStep, Next

LEMMA ReceiversStep == [DeploymentNext]_deploymentVars => R!Next \/ UNCHANGED receiverVars
BY DEF DeploymentNext, deploymentVars, ReceiverStep, StartJob, WorkerStep

\* One call of run_job.
LEMMA DispatchStep ==
  ASSUME AdmissionInv, NEW d \in R!Deliveries, R!Dispatch(d)
  PROVE  /\ rpc[d] = "dispatch" /\ UNCHANGED <<topic, payload, shared>>
         /\ jobs' = jobs \/ \E k \in 1 .. MaxAttempts : jobs' = jobs \cup {<<d[1], d[2], k>>}
         /\ \/ UNCHANGED <<rpc, answer>>
            \/ \E how \in {"ok", "compute_failed", "internal_error"} : R!Respond(d, how)
         /\ rattempt' \in [R!Deliveries -> 1 .. MaxAttempts]
<1> USE ServiceRunnerAssumption DEF AdmissionInv
<1>1. rattempt[d] \in 1 .. MaxAttempts /\ rpc[d] = "dispatch" /\ UNCHANGED <<topic, payload, shared>>
  BY DEF R!Dispatch, R!pubsub
<1>2. jobs' = jobs \/ jobs' = jobs \cup {<<d[1], d[2], rattempt[d]>>}
  BY DEF R!Dispatch, R!Launch
<1>3. \/ UNCHANGED <<rpc, answer>>
      \/ \E how \in {"ok", "compute_failed", "internal_error"} : R!Respond(d, how)
  BY DEF R!Dispatch, R!RetryDispatch
<1>4. \/ UNCHANGED rattempt
      \/ rattempt[d] < MaxAttempts /\ rattempt' = [rattempt EXCEPT ![d] = @ + 1]
  BY DEF R!Dispatch, R!RetryDispatch
<1>5. rattempt' \in [R!Deliveries -> 1 .. MaxAttempts]
  BY <1>1, <1>4
<1> QED BY <1>1, <1>2, <1>3, <1>5

\* One request: what becomes of it, and what it decides and launches.
LEMMA RequestStep ==
  ASSUME AdmissionInv, NEW d \in R!Deliveries, R!Serve(d) \/ R!Crash(d)
  PROVE  /\ UNCHANGED <<payload, shared>>
         /\ rpc[d] # "none" /\ rpc'[d] # "none"
         /\ rpc'[d] = "dispatch" => R!Decision(d[1]) = NoError
         /\ answer'[d] \in R!AdmissionErrors => answer'[d] = R!Decision(d[1])
         /\ \A e \in R!Deliveries \ {d} : rpc'[e] = rpc[e] /\ answer'[e] = answer[e]
         /\ DOMAIN rpc' = R!Deliveries /\ DOMAIN answer' = R!Deliveries
         /\ rattempt' \in [R!Deliveries -> 1 .. MaxAttempts]
         /\ \/ jobs' = jobs
            \/ /\ R!Decision(d[1]) = NoError
               /\ \E k \in 1 .. MaxAttempts : jobs' = jobs \cup {<<d[1], d[2], k>>}
         /\ UNCHANGED topic \/ topic' = [topic EXCEPT ![d[1]] = "acked"]
<1> USE DEF AdmissionInv, NoError, R!NoError
<1>1. CASE R!Admit(d)
  BY <1>1 DEF R!Admit, R!Respond, R!pubsub
<1>2. CASE R!Dispatch(d)
  <2>1. {"ok", "compute_failed", "internal_error"} \cap R!AdmissionErrors = {}
    BY DEF R!AdmissionErrors, R!ContractErrors, R!SecurityErrors
  <2>2. rpc[d] = "dispatch" /\ R!Decision(d[1]) = NoError
    BY <1>2, DispatchStep
  <2> QED BY <1>2, <2>1, <2>2, DispatchStep DEF R!Respond
<1>3. CASE R!Reply(d)
  BY <1>3 DEF R!Reply
<1>4. CASE R!Crash(d)
  BY <1>4 DEF R!Crash, R!pubsub
<1> QED BY <1>1, <1>2, <1>3, <1>4 DEF R!Serve

\* AdmissionInv speaks of published messages, whose contracts stay.
LEMMA DecisionsStand ==
  ASSUME AdmissionInv, UNCHANGED <<payload, shared>>, NEW m \in Messages
  PROVE  R!Decision(m)' = R!Decision(m)
BY DecisionFrame

\* SharedReceiverRunner.execute and _run_receiver, behind Pub/Sub.
LEMMA ReceptionStep ==
  ASSUME AdmissionInv, R!Next
  PROVE  AdmissionInv'
<1> USE DEF AdmissionInv
<1>1. ASSUME NEW m \in Messages, R!Publish(m) PROVE AdmissionInv'
  <2>1. /\ topic[m] = "unpublished" /\ topic' = [topic EXCEPT ![m] = "pending"]
        /\ UNCHANGED <<rpc, answer, rattempt, jobs>>
        /\ \A n \in Messages \ {m} : payload'[n] = payload[n] /\ shared'[n] = shared[n]
    BY <1>1 DEF R!Publish, R!requests
  <2>2. /\ payload' \in [Messages -> R!Payloads \cup {NoPayload}] /\ payload'[m] \in R!Payloads
        /\ shared' \in [Messages -> BOOLEAN]
    <3>1. PICK p \in Publications : /\ payload' = [payload EXCEPT ![m] = p[1]]
                                    /\ shared' = [shared EXCEPT ![m] = p[2]]
      BY <1>1 DEF R!Publish
    <3>2. p[1] \in R!Payloads /\ p[2] \in BOOLEAN
      BY DeploymentAssumption DEF R!Payloads
    <3> QED BY <3>1, <3>2
  <2>3. \A n \in Messages \ {m} : R!Decision(n)' = R!Decision(n)
    BY <2>1, DecisionFrame
  <2>4. ASSUME NEW d \in R!Deliveries
        PROVE  /\ rpc'[d] # "none" => topic'[d[1]] # "unpublished"
               /\ rpc'[d] = "dispatch" => R!Decision(d[1])' = NoError
               /\ answer'[d] \in R!AdmissionErrors =>
                    rpc'[d] # "none" /\ R!Decision(d[1])' = answer'[d]
    <3>1. d[1] \in Messages
      BY DeliveryShape
    <3>2. rpc[d] # "none" => d[1] # m
      BY <2>1
    <3> QED BY <2>1, <2>3, <3>1, <3>2
  <2>5. ASSUME NEW j \in jobs
        PROVE  topic'[j[1]] # "unpublished" /\ R!Decision(j[1])' = NoError
    <3>1. j[1] \in Messages /\ j[1] # m
      BY <2>1, JobShape
    <3> QED BY <2>1, <2>3, <3>1
  <2> QED BY <2>1, <2>2, <2>4, <2>5
<1>2. ASSUME NEW m \in Messages, R!Deliver(m) PROVE AdmissionInv'
  <2>1. /\ topic[m] = "pending" /\ UNCHANGED <<topic, payload, shared, rattempt, answer, jobs>>
        /\ rpc' = [rpc EXCEPT ![<<m, sent[m] + 1>>] = "admit"]
    BY <1>2 DEF R!Deliver
  <2>2. \A n \in Messages : R!Decision(n)' = R!Decision(n)
    BY <2>1, DecisionsStand
  <2>3. \A d \in R!Deliveries : rpc'[d] = rpc[d] \/ (rpc'[d] = "admit" /\ d[1] = m)
    BY <2>1
  <2> QED BY <2>1, <2>2, <2>3, DeliveryShape, JobShape
<1>3. ASSUME NEW m \in Messages, R!Expire(m) \/ R!DeadLetter(m) PROVE AdmissionInv'
  <2>1. /\ UNCHANGED <<payload, shared, rpc, rattempt, answer, jobs>>
        /\ UNCHANGED topic \/ topic' = [topic EXCEPT ![m] = "dead"]
        /\ topic[m] # "unpublished" \/ UNCHANGED topic
    BY <1>3 DEF R!Expire, R!DeadLetter, R!requests
  <2>2. \A n \in Messages : R!Decision(n)' = R!Decision(n)
    BY <2>1, DecisionsStand
  <2> QED BY <2>1, <2>2, DeliveryShape, JobShape
<1>4. ASSUME NEW d \in R!Deliveries, R!Serve(d) \/ R!Crash(d) PROVE AdmissionInv'
  <2>1. d[1] \in Messages /\ d[2] \in 1 .. MaxDeliveries /\ topic[d[1]] # "unpublished"
    BY <1>4, RequestStep, DeliveryShape
  <2>2. \A n \in Messages : R!Decision(n)' = R!Decision(n)
    BY <1>4, RequestStep, DecisionsStand
  <2>3. /\ topic' \in [Messages -> {"unpublished", "pending", "acked", "dead"}]
        /\ \A n \in Messages : topic'[n] = "unpublished" <=> topic[n] = "unpublished"
    BY <1>4, <2>1, RequestStep
  <2>4. /\ jobs' \subseteq Runs
        /\ \A j \in jobs' : topic'[j[1]] # "unpublished" /\ R!Decision(j[1])' = NoError
    <3>1. CASE jobs' = jobs
      BY <2>2, <2>3, <3>1, JobShape
    <3>2. CASE R!Decision(d[1]) = NoError
      <4>1. ASSUME NEW k \in 1 .. MaxAttempts
            PROVE  <<d[1], d[2], k>> \in Runs
        BY <2>1, DeploymentAssumption DEF R!Jobs
      <4>2. \A j \in jobs' : j \in jobs \/ (j \in Runs /\ j[1] = d[1])
        BY <1>4, <4>1, RequestStep
      <4> QED BY <2>1, <2>2, <2>3, <3>2, <4>2, JobShape
    <3> QED BY <1>4, <3>1, <3>2, RequestStep
  <2>5. ASSUME NEW e \in R!Deliveries
        PROVE  /\ rpc'[e] # "none" => topic'[e[1]] # "unpublished"
               /\ rpc'[e] = "dispatch" => R!Decision(e[1])' = NoError
               /\ answer'[e] \in R!AdmissionErrors =>
                    rpc'[e] # "none" /\ R!Decision(e[1])' = answer'[e]
    <3>1. e[1] \in Messages
      BY DeliveryShape
    <3>2. CASE e = d
      BY <1>4, <2>1, <2>2, <2>3, <3>2, RequestStep
    <3>3. CASE e # d
      BY <1>4, <2>2, <2>3, <3>1, <3>3, RequestStep
    <3> QED BY <3>2, <3>3
  <2> QED BY <1>4, <2>3, <2>4, <2>5, RequestStep
<1> QED BY <1>1, <1>2, <1>3, <1>4 DEF R!Next

-----------------------------------------------------------------------------

\* A launched job stays launched, and what it was launched for stays too.
LEMMA LaunchedStays ==
  ASSUME AdmissionInv, R!Next
  PROVE  /\ jobs \subseteq jobs'
         /\ \A j \in jobs : payload'[j[1]] = payload[j[1]] /\ shared'[j[1]] = shared[j[1]]
<1>1. ASSUME NEW m \in Messages, R!Publish(m)
      PROVE  /\ jobs \subseteq jobs'
             /\ \A j \in jobs : payload'[j[1]] = payload[j[1]] /\ shared'[j[1]] = shared[j[1]]
  <2>1. \A j \in jobs : j[1] \in Messages \ {m}
    BY <1>1, JobShape DEF AdmissionInv, R!Publish
  <2>2. /\ jobs' = jobs
        /\ \A n \in Messages \ {m} : payload'[n] = payload[n] /\ shared'[n] = shared[n]
    BY <1>1 DEF AdmissionInv, R!Publish
  <2> QED BY <2>1, <2>2
<1>2. ASSUME NEW m \in Messages, R!Deliver(m) \/ R!Expire(m) \/ R!DeadLetter(m)
      PROVE  UNCHANGED <<payload, shared, jobs>>
  BY <1>2 DEF R!Deliver, R!Expire, R!DeadLetter
<1>3. ASSUME NEW d \in R!Deliveries, R!Serve(d) \/ R!Crash(d)
      PROVE  UNCHANGED <<payload, shared>> /\ jobs \subseteq jobs'
  BY <1>3, RequestStep
<1> QED BY <1>1, <1>2, <1>3 DEF R!Next

\* An action of a started job ends it for a reason the receiver does not
\* know, or after it touched something, or for what the shared one leaves.
LEMMA WorkerFrame ==
  ASSUME IInv, WorkerInv, UNCHANGED receiverVars, NEW j \in Runs, Step(j) \/ Kill(j),
         pc[j] # "idle", pc'[j] # "idle", msg' = msg,
         \A k \in Runs : touched[k] \subseteq touched'[k],
         \/ outcome'[j] = outcome[j]
         \/ outcome'[j] \notin R!AdmissionErrors
         \/ touched'[j] # {}
         \/ shared[j[1]] /\ outcome'[j] = "invalid_contract"
  PROVE  WorkerInv'
<1>1. SameElsewhere(j) /\ \A k \in Runs \ {j} : outcome'[k] = outcome[k]
  BY ActsAlone DEF IInv
<1>2. UNCHANGED <<payload, shared, jobs>>
  BY DEF receiverVars
<1>3. ASSUME NEW k \in Runs
      PROVE  /\ pc'[k] # "idle" => k \in jobs /\ msg[k] = payload[k[1]]
             /\ pc'[k] = "idle" => outcome'[k] = NoError
             /\ outcome'[k] \in R!AdmissionErrors =>
                  \/ touched'[k] # {}
                  \/ shared[k[1]] /\ outcome'[k] = "invalid_contract"
  <2>1. CASE k = j
    BY <2>1 DEF WorkerInv
  <2>2. CASE k # j
    BY <1>1, <2>2 DEF WorkerInv, SameElsewhere
  <2> QED BY <2>1, <2>2
<1> QED BY <1>2, <1>3 DEF WorkerInv

\* Steps 1 to 3 and the authorization, once more and in the worker.
LEMMA RepeatedChecks ==
  ASSUME IInv, AdmissionInv, WorkerInv, NEW j \in Runs,
         Decode(j) \/ Validate(j) \/ CheckRoleCompatibility(j) \/ Authorize(j)
  PROVE  \/ outcome'[j] = outcome[j]
         \/ shared[j[1]] /\ outcome'[j] = "invalid_contract"
<1> DEFINE m == j[1]
<1>1. pc[j] # "idle" /\ DOMAIN outcome = Runs
  BY AdmissionStep DEF IInv, TypeOK
<1>2. m \in Messages /\ msg[j] = payload[m] /\ R!Decision(m) = NoError /\ shared[m] \in BOOLEAN
  BY <1>1, JobShape DEF WorkerInv, AdmissionInv
<1>3. /\ msg[j] # Malformed
      /\ ValidationError(msg[j], ~shared[m]) = NoError
      /\ AuthorizationError(msg[j]) = NoError
      /\ ~shared[m] => RolesCompatible(msg[j])
  BY <1>2, DispatchedPasses
<1> HIDE DEF m
<1>4. CASE Decode(j)
  BY <1>3, <1>4 DEF Decode, Check, Goto
<1>5. CASE Validate(j)
  <2>1. \/ ValidationError(msg[j], TRUE) = NoError
        \/ shared[m] /\ ValidationError(msg[j], TRUE) = "invalid_contract"
    BY <1>2, <1>3 DEF ValidationError, NoError
  <2> QED BY <1>1, <1>5, <2>1 DEF Validate, Check, Goto, Finish, m
<1>6. CASE CheckRoleCompatibility(j)
  BY <1>1, <1>2, <1>3, <1>6 DEF CheckRoleCompatibility, Check, Goto, Finish, m
<1>7. CASE Authorize(j)
  BY <1>3, <1>7 DEF Authorize, Check, Goto
<1> QED BY <1>4, <1>5, <1>6, <1>7

LEMMA WorkerInvStep == DeploymentInv /\ [DeploymentNext]_deploymentVars => WorkerInv'
<1> SUFFICES ASSUME DeploymentInv, [DeploymentNext]_deploymentVars PROVE WorkerInv'
  OBVIOUS
<1>0. IInv /\ AdmissionInv /\ WorkerInv /\ TypeOK
  BY DEF DeploymentInv, IInv
<1>1. CASE ReceiverStep
  <2>1. UNCHANGED <<pc, msg, outcome, touched>>
    BY <1>1 DEF ReceiverStep, vars
  <2>2. ASSUME NEW j \in Runs, pc[j] # "idle"
        PROVE  j \in jobs' /\ payload'[j[1]] = payload[j[1]] /\ shared'[j[1]] = shared[j[1]]
    BY <1>0, <1>1, <2>2, LaunchedStays DEF ReceiverStep, WorkerInv
  <2>3. NoError \notin R!AdmissionErrors
    BY DEF NoError, R!AdmissionErrors, R!ContractErrors, R!SecurityErrors
  <2>4. ASSUME NEW j \in Runs
        PROVE  /\ pc'[j] # "idle" => j \in jobs' /\ msg'[j] = payload'[j[1]]
               /\ pc'[j] = "idle" => outcome'[j] = NoError
               /\ outcome'[j] \in R!AdmissionErrors =>
                    \/ touched'[j] # {}
                    \/ shared'[j[1]] /\ outcome'[j] = "invalid_contract"
    <3>1. CASE pc[j] = "idle"
      BY <1>0, <2>1, <2>3, <3>1 DEF WorkerInv
    <3>2. CASE pc[j] # "idle"
      BY <1>0, <2>1, <2>2, <3>2 DEF WorkerInv
    <3> QED BY <3>1, <3>2
  <2> QED BY <2>4 DEF WorkerInv
<1>2. ASSUME NEW j \in Runs, StartJob(j) PROVE WorkerInv'
  <2>1. /\ j \in jobs /\ msg'[j] = payload[j[1]] /\ UNCHANGED <<payload, shared, jobs>>
        /\ pc[j] = "idle" /\ pc'[j] = "decode" /\ UNCHANGED <<outcome, touched>>
    BY <1>0, <1>2 DEF StartJob, receiverVars, Start, Goto, effects, TypeOK
  <2>2. \A k \in Runs \ {j} : pc'[k] = pc[k] /\ msg'[k] = msg[k]
    BY <1>0, <1>2, ActsAlone DEF StartJob, SameElsewhere
  <2>3. ASSUME NEW k \in Runs
        PROVE  /\ pc'[k] # "idle" => k \in jobs /\ msg'[k] = payload[k[1]]
               /\ pc'[k] = "idle" => outcome[k] = NoError
               /\ outcome[k] \in R!AdmissionErrors =>
                    touched[k] # {} \/ (shared[k[1]] /\ outcome[k] = "invalid_contract")
    <3>1. CASE k = j
      BY <1>0, <2>1, <3>1 DEF WorkerInv
    <3>2. CASE k # j
      BY <1>0, <2>2, <3>2 DEF WorkerInv
    <3> QED BY <3>1, <3>2
  <2> QED BY <2>1, <2>3 DEF WorkerInv
<1>3. ASSUME NEW j \in Runs, WorkerStep(j) PROVE WorkerInv'
  <2> USE <1>0
  <2>1. /\ UNCHANGED receiverVars /\ (Step(j) \/ Kill(j))
        /\ j \in DOMAIN pc /\ j \in DOMAIN outcome /\ touched \in [Runs -> SUBSET Uris]
    BY <1>3 DEF WorkerStep, TypeOK
  <2>2. {"credential_resolution_failed", "escaped", "compute_failed", "ok", "webhook_failed", "killed",
         "missing_model_readout", "invalid_model_readout", "readout_identity_mismatch", NoError}
          \cap R!AdmissionErrors = {}
    BY DEF NoError, R!AdmissionErrors, R!ContractErrors, R!SecurityErrors
  <2> DEFINE Fine == /\ pc[j] # "idle" /\ pc'[j] # "idle" /\ msg' = msg
                     /\ \A k \in Runs : touched[k] \subseteq touched'[k]
                     /\ \/ outcome'[j] = outcome[j]
                        \/ outcome'[j] \notin R!AdmissionErrors
                        \/ touched'[j] # {}
                        \/ shared[j[1]] /\ outcome'[j] = "invalid_contract"
  <2>3. ASSUME Decode(j) \/ Validate(j) \/ CheckRoleCompatibility(j) \/ Authorize(j) PROVE Fine
    BY <2>3, AdmissionStep, RepeatedChecks DEF effects
  <2>4. ASSUME ResolveCredentials(j) PROVE Fine
    BY <2>1, <2>2, <2>4
    DEF ResolveCredentials, ResolutionFails, NextSpec, RetryOrReraise, Goto, Finish, effects
  <2>5. ASSUME LoadInput(j) PROVE Fine
    BY <2>1, <2>5 DEF LoadInput, NextSpec, RetryOrReraise, Goto, Finish
  <2>6. ASSUME RunCompute(j) PROVE Fine
    BY <2>1, <2>2, <2>6 DEF RunCompute, ComputeFails, RetryOrReraise, Goto, Finish, effects
  <2>7. ASSUME ValidateReadout(j) PROVE Fine
    <3>1. ReadoutError(msg[j], result[j].readout) \notin R!AdmissionErrors
      BY <2>2 DEF ReadoutError
    <3> QED BY <2>1, <2>7, <3>1 DEF ValidateReadout, Check, Goto, Finish, effects
  <2>8. ASSUME OmittedOutput(j) \/ Kill(j) PROVE Fine
    BY <2>1, <2>2, <2>8 DEF OmittedOutput, Kill, Finish, effects
  <2>9. ASSUME SaveOutput(j) PROVE Fine
    BY <2>1, <2>9, SaveOutputFrame
  <2>10. ASSUME Notify(j) PROVE Fine
    BY <2>1, <2>2, <2>10 DEF Notify, RetryOrReraise, Finish
  <2>11. Fine
    BY <2>1, <2>3, <2>4, <2>5, <2>6, <2>7, <2>8, <2>9, <2>10 DEF Step
  <2>12. /\ pc[j] # "idle" /\ pc'[j] # "idle" /\ msg' = msg
         /\ \A k \in Runs : touched[k] \subseteq touched'[k]
    BY <2>11
  <2>13. \/ outcome'[j] = outcome[j]
         \/ outcome'[j] \notin R!AdmissionErrors
         \/ touched'[j] # {}
         \/ shared[j[1]] /\ outcome'[j] = "invalid_contract"
    BY <2>11
  <2> HIDE DEF Fine
  <2> QED BY <2>1, <2>12, <2>13, WorkerFrame
<1>4. CASE UNCHANGED deploymentVars
  BY <1>0, <1>4 DEF deploymentVars, receiverVars, vars, WorkerInv
<1> QED BY <1>1, <1>2, <1>3, <1>4 DEF DeploymentNext

LEMMA DeploymentStep == DeploymentInv /\ [DeploymentNext]_deploymentVars => DeploymentInv'
<1> SUFFICES ASSUME DeploymentInv, [DeploymentNext]_deploymentVars PROVE DeploymentInv'
  OBVIOUS
<1>1. IInv'
  BY WorkersStep, InvariantStep DEF DeploymentInv
<1>2. AdmissionInv'
  <2>1. CASE R!Next
    BY <2>1, ReceptionStep DEF DeploymentInv
  <2>2. CASE UNCHANGED receiverVars
    <3>1. AdmissionInv /\ UNCHANGED <<topic, payload, shared, rpc, rattempt, answer, jobs>>
      BY <2>2 DEF DeploymentInv, receiverVars
    <3>2. \A m \in Messages : R!Decision(m)' = R!Decision(m)
      BY <3>1, DecisionsStand
    <3> QED BY <3>1, <3>2, DeliveryShape, JobShape DEF AdmissionInv
  <2> QED BY <2>1, <2>2, ReceiversStep
<1> QED BY <1>1, <1>2, WorkerInvStep DEF DeploymentInv

\* Composition: in a deployment the workers behave as ServiceRunner says, so
\* that every theorem about ServiceRunner holds of its jobs, and the receivers
\* as Receiver says.
THEOREM Composition ==
  DeploymentSpec => /\ Init /\ [][Next]_vars
                    /\ R!Init /\ [][R!Next]_receiverVars
<1>1. DeploymentInit => Init /\ R!Init
  BY DEF DeploymentInit
<1>2. [DeploymentNext]_deploymentVars => [R!Next]_receiverVars
  BY ReceiversStep
<1> QED BY <1>1, <1>2, WorkersStep, PTL DEF DeploymentSpec

\* Every reachable state of a deployment satisfies the joint invariant of
\* run_worker_once, its jobs and the receivers, however often a message is
\* delivered and a dispatch retried.
THEOREM DeploymentInductive == DeploymentSpec => []DeploymentInv
BY DeploymentInitially, DeploymentStep, PTL DEF DeploymentSpec

\* validate, _check_role_compatibility and authorize run in the receiver and
\* again in the worker: a worker that touched nothing refuses only what the
\* shared receiver does not look at.
THEOREM WorkersAgree == DeploymentSpec => []WorkerAgreesWithReceiver
<1>1. DeploymentInv => WorkerAgreesWithReceiver
  BY DEF DeploymentInv, WorkerInv, WorkerAgreesWithReceiver
<1> QED BY DeploymentInductive, <1>1, PTL

\* A refusal is final for the message: no delivery of it, before or after,
\* leaves a trace in storage or reaches the webhook.
THEOREM RefusalsLeaveNoTrace == DeploymentSpec => []RefusedRequestsLeaveNoTrace
<1>1. DeploymentInv => RefusedRequestsLeaveNoTrace
  <2> SUFFICES ASSUME DeploymentInv, NEW d \in R!Deliveries, answer[d] \in R!AdmissionErrors,
                      NEW j \in Runs, j[1] = d[1]
               PROVE  ~HadEffect(j)
    BY DEF RefusedRequestsLeaveNoTrace, JobsOf
  <2>1. NoError \notin R!AdmissionErrors
    BY DEF NoError, R!AdmissionErrors, R!ContractErrors, R!SecurityErrors
  <2>2. j \notin jobs
    BY <2>1 DEF DeploymentInv, AdmissionInv
  <2>3. pc[j] = "idle"
    BY <2>2 DEF DeploymentInv, WorkerInv
  <2>4. touched[j] = {} /\ written[j] = {} /\ accepted[j] = 0
    BY <2>3 DEF DeploymentInv, IInv, StageInv, EffectInv, AnnounceInv, IoStages, BeforeGate, Stages
  <2> QED BY <2>4 DEF HadEffect
<1> QED BY DeploymentInductive, <1>1, PTL

\* Redelivery and dispatch retries launch several jobs for one message; none
\* of them spoils what another announced, unless another message uses the same
\* destinations.
THEOREM DuplicatesAgree == DeploymentSpec => []DuplicatesKeepOutputs
<1>1. DeploymentInv => DuplicatesKeepOutputs
  <2> SUFFICES ASSUME DeploymentInv, NEW j \in Runs, accepted[j] > 0,
                      DistinctDestinations(msg[j]),
                      \A k \in Runs :
                        touched[k] \cap {msg[j].outputs[i].uri : i \in DOMAIN msg[j].outputs} # {}
                          => k[1] = j[1],
                      NEW i \in DOMAIN msg[j].outputs
               PROVE  LET blob == store[msg[j].outputs[i].uri]
                      IN  /\ blob # NoData /\ blob.role = msg[j].outputs[i].role
                          /\ blob.run[1] = j[1]
    BY DEF DuplicatesKeepOutputs
  <2> DEFINE u == msg[j].outputs[i].uri
             role == msg[j].outputs[i].role
             blob == store[u]
  <2> USE DEF DeploymentInv, IInv
  <2>1. /\ msg[j] \in Contracts /\ receipts[j] = RolesOf(msg[j].outputs)
        /\ written[j] # {}
    <3>1. HadEffect(j) /\ receipts[j] = RolesOf(msg[j].outputs)
      BY DEF HadEffect, AnnounceInv
    <3>2. role \in receipts[j]
      BY <3>1 DEF RolesOf
    <3>3. receipts[j] \subseteq written[j]
      BY DEF SaveInv, SaveInvOf
    <3> QED BY <3>1, <3>2, <3>3 DEF EffectInv
  <2>2. u \in Uris /\ role \in Roles /\ role \in receipts[j] /\ IsOutput(msg[j], role, u)
    BY <2>1, ContractShape DEF RolesOf, IsOutput
  <2>3. blob # NoData
    BY <2>2 DEF LandedInv
  <2>4. /\ blob.run \in Runs /\ u \in touched[blob.run] /\ IsOutput(msg[blob.run], blob.role, u)
        /\ blob.role \in written[blob.run]
    BY <2>2, <2>3 DEF LandedInv, StoreInv, TypeOK, Blobs
  <2>5. blob.run[1] = j[1]
    BY <2>4
  <2>6. pc[j] # "idle" /\ pc[blob.run] # "idle"
    BY <2>1, <2>4 DEF EffectInv, BeforeGate, Stages
  <2>7. msg[blob.run] = msg[j]
    BY <2>4, <2>5, <2>6 DEF WorkerInv
  <2>8. blob.role = role
    BY <2>4, <2>7 DEF IsOutput, DistinctDestinations
  <2> QED BY <2>3, <2>5, <2>8
<1> QED BY DeploymentInductive, <1>1, PTL
=============================================================================
