---------------------------- MODULE ServiceRunner ----------------------------
(***************************************************************************)
(* Executions of ServiceRunner._run_full_pipeline, in worker mode (one     *)
(* execution per Cloud Run job) or monolith mode (one per HTTP request).   *)
(* Executions share the object storage and the platform's webhook and      *)
(* interleave between any two adapter calls.                               *)
(*                                                                         *)
(* An adapter call wrapped by with_retry is attempted up to MaxAttempts    *)
(* times.  An attempt may fail before or after its effect took place (the  *)
(* reply was lost); when the last attempt fails, tenacity re-raises the    *)
(* transport exception, which is no GrabatusServiceError and so leaves     *)
(* `execute' as an exception: outcome "escaped".                           *)
(***************************************************************************)
EXTENDS Steps

CONSTANTS
  Runs,        \* executions of the pipeline
  Contracts,   \* the contracts an execution may be handed
  Malformed,   \* a raw message that MessagePort.decode refuses
  Missing,     \* a compute result without a readout
  Invalid,     \* a readout that fails its schema
  NoMessage, NoResult, NoData,
  MaxAttempts  \* _DEFAULT_MAX_ATTEMPTS of adapters/retry.py

\* What compute may answer, and what storage may hold.
Identities == Requests \X Services
Results == [produced : SUBSET OUTPUT_ROLES, readout : Identities \cup {Missing, Invalid}]
Blobs == [run : Runs, role : Roles]

ASSUME ServiceRunnerAssumption ==
  /\ MaxAttempts \in Nat \ {0}
  /\ Contracts \subseteq ContractRecords
  /\ Malformed \notin Contracts
  /\ NoMessage \notin Contracts \cup {Malformed}
  /\ {Missing, Invalid} \cap Identities = {}
  /\ Missing # Invalid
  /\ NoResult \notin Results
  /\ NoData \notin Blobs

VARIABLES
  pc,        \* the step function each execution is about to run
  msg,       \* the raw message of each execution
  idx,       \* position in the list of specs the current step loops over
  attempt,   \* attempt number of the current adapter call
  result,    \* what run_compute returned
  receipts,  \* roles in WriteReceipts.by_role
  outcome,   \* how the execution ended
  store,     \* contents of the object storage
  touched,   \* history: URIs this execution read or tried to write
  written,   \* history: roles this execution brought to storage
  accepted   \* history: success payloads the platform took from this execution

control == <<pc, idx, attempt, outcome>>
effects == <<store, touched, written, accepted>>
vars == <<pc, msg, idx, attempt, result, receipts, outcome,
          store, touched, written, accepted>>

Stages == {"idle", "decode", "validate", "roles", "authorize", "resolve",
           "load", "compute", "gate", "save", "notify", "done"}

Outcomes == ErrorCodes \cup {NoError, "ok", "escaped", "killed"}

\* The roles in ComputeResult.by_role.
ProducedRoles(res) ==
  res.produced \cup (IF res.readout = Missing THEN {} ELSE {READOUT_OUTPUT_ROLE})

Init ==
  /\ pc = [r \in Runs |-> "idle"]
  /\ msg = [r \in Runs |-> NoMessage]
  /\ idx = [r \in Runs |-> 1]
  /\ attempt = [r \in Runs |-> 1]
  /\ result = [r \in Runs |-> NoResult]
  /\ receipts = [r \in Runs |-> {}]
  /\ outcome = [r \in Runs |-> NoError]
  /\ store = [u \in Uris |-> NoData]
  /\ touched = [r \in Runs |-> {}]
  /\ written = [r \in Runs |-> {}]
  /\ accepted = [r \in Runs |-> 0]

-----------------------------------------------------------------------------
\* Control.

\* Seeded bug: the next loop starts where the last one ended.
GotoKeepingIndex(r, stage) ==
  /\ pc' = [pc EXCEPT ![r] = stage]
  /\ attempt' = [attempt EXCEPT ![r] = 1]
  /\ UNCHANGED <<idx, outcome>>

Goto(r, stage) ==
  /\ pc' = [pc EXCEPT ![r] = stage]
  /\ idx' = [idx EXCEPT ![r] = 1]
  /\ attempt' = [attempt EXCEPT ![r] = 1]
  /\ UNCHANGED outcome

Finish(r, how) ==
  /\ pc' = [pc EXCEPT ![r] = "done"]
  /\ idx' = [idx EXCEPT ![r] = 1]
  /\ attempt' = [attempt EXCEPT ![r] = 1]
  /\ outcome' = [outcome EXCEPT ![r] = how]

\* Seeded bugs: the last spec is skipped; the loop starts over.
NextSpecButLast(r, count, stage) ==
  IF idx[r] + 1 < count
  THEN /\ idx' = [idx EXCEPT ![r] = @ + 1]
       /\ attempt' = [attempt EXCEPT ![r] = 1]
       /\ UNCHANGED <<pc, outcome>>
  ELSE Goto(r, stage)

NextSpecCyclic(r, count, stage) ==
  /\ idx' = [idx EXCEPT ![r] = (@ % count) + 1]
  /\ attempt' = [attempt EXCEPT ![r] = 1]
  /\ UNCHANGED <<pc, outcome>>

\* The for loops over specs: the next spec, or the next step after the last.
NextSpec(r, count, stage) ==
  IF idx[r] < count
  THEN /\ idx' = [idx EXCEPT ![r] = @ + 1]
       /\ attempt' = [attempt EXCEPT ![r] = 1]
       /\ UNCHANGED <<pc, outcome>>
  ELSE Goto(r, stage)

\* Seeded bugs: one attempt too many; the budget is renewed, not exhausted.
RetryOnceMore(r) ==
  IF attempt[r] <= MaxAttempts
  THEN /\ attempt' = [attempt EXCEPT ![r] = @ + 1]
       /\ UNCHANGED <<pc, idx, outcome>>
  ELSE Finish(r, "escaped")

RetryForever(r) ==
  /\ attempt' = [attempt EXCEPT ![r] = (@ % MaxAttempts) + 1]
  /\ UNCHANGED <<pc, idx, outcome>>

\* with_retry after a transient failure.
RetryOrReraise(r) ==
  IF attempt[r] < MaxAttempts
  THEN /\ attempt' = [attempt EXCEPT ![r] = @ + 1]
       /\ UNCHANGED <<pc, idx, outcome>>
  ELSE Finish(r, "escaped")

\* A step that raises GrabatusServiceError ends in _make_error_result.
Check(r, error, stage) ==
  \/ error = NoError /\ Goto(r, stage)
  \/ error # NoError /\ Finish(r, error)

-----------------------------------------------------------------------------
\* Steps 1 to 3: no I/O.

Start(r) ==
  /\ pc[r] = "idle"
  /\ \E m \in Contracts \cup {Malformed} : msg' = [msg EXCEPT ![r] = m]
  /\ Goto(r, "decode")
  /\ UNCHANGED <<result, receipts, effects>>

Decode(r) ==
  /\ pc[r] = "decode"
  /\ Check(r, IF msg[r] = Malformed THEN "malformed_message" ELSE NoError, "validate")
  /\ UNCHANGED <<msg, result, receipts, effects>>

Validate(r) ==
  /\ pc[r] = "validate"
  /\ Check(r, ValidationError(msg[r], TRUE), "roles")
  /\ UNCHANGED <<msg, result, receipts, effects>>

CheckRoleCompatibility(r) ==
  /\ pc[r] = "roles"
  /\ Check(r, IF RolesCompatible(msg[r]) THEN NoError ELSE "invalid_contract", "authorize")
  /\ UNCHANGED <<msg, result, receipts, effects>>

Authorize(r) ==
  /\ pc[r] = "authorize"
  /\ Check(r, AuthorizationError(msg[r]), "resolve")
  /\ UNCHANGED <<msg, result, receipts, effects>>

-----------------------------------------------------------------------------
\* Secret Manager: a transient error, a missing version or a refusal.  An
\* exception that is neither transient nor a GoogleAPIError escapes from any
\* adapter at its first attempt.
ResolutionFails(r) ==
  RetryOrReraise(r) \/ \E how \in {"credential_resolution_failed", "escaped"} : Finish(r, how)

\* Step 4: a spec without credential_ref gets the null token, no call is made.
ResolveCredentials(r) ==
  LET specs == AllSpecs(msg[r]) IN
  /\ pc[r] = "resolve"
  /\ \/ NextSpec(r, Len(specs), "load")
     \/ /\ specs[idx[r]].secret
        /\ ResolutionFails(r)
  /\ UNCHANGED <<msg, result, receipts, effects>>

\* Step 5.  CompositeStorage refuses a scheme it has no adapter for, even if
\* the allowlist accepts it.  A truncated gzip stream raises EOFError, which
\* CompressedStorage does not translate.
LoadInput(r) ==
  LET specs == msg[r].inputs IN
  /\ pc[r] = "load"
  /\ touched' = [touched EXCEPT ![r] = @ \cup {specs[idx[r]].uri}]
  /\ \/ NextSpec(r, Len(specs), "compute")
     \/ RetryOrReraise(r)
     \/ \E how \in {"input_read_failed", "unsupported_scheme", "blocked_host", "escaped"} :
          Finish(r, how)
  /\ UNCHANGED <<msg, result, receipts, store, written, accepted>>

\* HttpComputeBackend: a transient error, a status or a body that is refused,
\* an exception of the service's own code.
ComputeFails(r) ==
  RetryOrReraise(r) \/ \E how \in {"compute_failed", "escaped"} : Finish(r, how)

\* Step 6, with make_compute_context.  The backend is service code: it may
\* omit roles, emit any readout, or raise anything.
RunCompute(r) ==
  /\ pc[r] = "compute"
  /\ \/ /\ \E res \in Results : result' = [result EXCEPT ![r] = res]
        /\ Goto(r, "gate")
     \/ ComputeFails(r) /\ UNCHANGED result
  /\ UNCHANGED <<msg, receipts, effects>>

\* Seeded bug: any schema-valid readout passes.
SchemaErrorOnly(c, readout) ==
  CASE readout = Missing -> "missing_model_readout"
    [] readout = Invalid -> "invalid_model_readout"
    [] OTHER -> NoError

\* Step 7: validate_readout and _check_readout_identity.
ReadoutError(c, readout) ==
  CASE readout = Missing -> "missing_model_readout"
    [] readout = Invalid -> "invalid_model_readout"
    [] readout \in Identities /\ readout # IdentityOf(c) -> "readout_identity_mismatch"
    [] OTHER -> NoError

ValidateReadout(r) ==
  /\ pc[r] = "gate"
  /\ Check(r, ReadoutError(msg[r], result[r].readout), "save")
  /\ UNCHANGED <<msg, result, receipts, effects>>

-----------------------------------------------------------------------------
\* Step 7b: one action per attempt to write one output.

\* Seeded bug: every output goes to the first destination.
PutAtFirst(r, spec) ==
  /\ store' = [store EXCEPT ![msg[r].outputs[1].uri] = [run |-> r, role |-> spec.role]]
  /\ written' = [written EXCEPT ![r] = @ \cup {spec.role}]

Put(r, spec) ==
  /\ store' = [store EXCEPT ![spec.uri] = [run |-> r, role |-> spec.role]]
  /\ written' = [written EXCEPT ![r] = @ \cup {spec.role}]

\* Seeded bug: an output the backend omitted is skipped.
SkipOmittedOutput(r) ==
  /\ pc[r] = "save"
  /\ msg[r].outputs[idx[r]].role \notin ProducedRoles(result[r])
  /\ NextSpec(r, Len(msg[r].outputs), "notify")
  /\ UNCHANGED <<msg, result, receipts, effects>>

\* result.by_role[role] is evaluated before storage.write is called.
OmittedOutput(r) ==
  /\ pc[r] = "save"
  /\ msg[r].outputs[idx[r]].role \notin ProducedRoles(result[r])
  /\ Finish(r, "escaped")
  /\ UNCHANGED <<msg, result, receipts, effects>>

SaveOutput(r) ==
  LET specs == msg[r].outputs
      spec == specs[idx[r]]
  IN
  /\ pc[r] = "save"
  /\ spec.role \in ProducedRoles(result[r])
  /\ touched' = [touched EXCEPT ![r] = @ \cup {spec.uri}]
  /\ \/ /\ Put(r, spec)
        /\ receipts' = [receipts EXCEPT ![r] = @ \cup {spec.role}]
        /\ NextSpec(r, Len(specs), "notify")
     \/ /\ \/ Put(r, spec)                   \* uploaded, but the reply was lost
           \/ UNCHANGED <<store, written>>
        /\ \/ RetryOrReraise(r)
           \/ \E how \in {"output_write_failed", "unsupported_scheme", "escaped"} :
                Finish(r, how)
        /\ UNCHANGED receipts
  /\ UNCHANGED <<msg, result, accepted>>

\* Step 8: one action per POST.  The platform may take a POST whose reply is
\* lost, or is an error status.  encode_hs256 raises ValueError for a short
\* signing secret before anything is sent.
Notify(r) ==
  /\ pc[r] = "notify"
  /\ \/ /\ accepted' = [accepted EXCEPT ![r] = @ + 1]
        /\ RetryOrReraise(r) \/ \E how \in {"ok", "webhook_failed", "escaped"} : Finish(r, how)
     \/ /\ UNCHANGED accepted
        /\ RetryOrReraise(r) \/ \E how \in {"webhook_failed", "escaped"} : Finish(r, how)
  /\ UNCHANGED <<msg, result, receipts, store, touched, written>>

\* The container is stopped: task timeout, out of memory, eviction.
Kill(r) ==
  /\ pc[r] \notin {"idle", "done"}
  /\ Finish(r, "killed")
  /\ UNCHANGED <<msg, result, receipts, effects>>

-----------------------------------------------------------------------------
Step(r) ==
  \/ Decode(r) \/ Validate(r) \/ CheckRoleCompatibility(r) \/ Authorize(r)
  \/ ResolveCredentials(r) \/ LoadInput(r) \/ RunCompute(r) \/ ValidateReadout(r)
  \/ OmittedOutput(r) \/ SaveOutput(r) \/ Notify(r)

Next == \E r \in Runs : Start(r) \/ Step(r) \/ Kill(r)

\* Once started, the interpreter runs the pipeline; nobody has to start it.
Fairness == \A r \in Runs : WF_vars(Step(r))

Spec == Init /\ [][Next]_vars /\ Fairness

-----------------------------------------------------------------------------
\* Properties.

TypeOK ==
  /\ pc \in [Runs -> Stages]
  /\ msg \in [Runs -> Contracts \cup {Malformed, NoMessage}]
  /\ idx \in [Runs -> Nat \ {0}]
  /\ attempt \in [Runs -> 1 .. MaxAttempts]
  /\ result \in [Runs -> Results \cup {NoResult}]
  /\ receipts \in [Runs -> SUBSET Roles]
  /\ outcome \in [Runs -> Outcomes]
  /\ store \in [Uris -> Blobs \cup {NoData}]
  /\ touched \in [Runs -> SUBSET Uris]
  /\ written \in [Runs -> SUBSET Roles]
  /\ accepted \in [Runs -> Nat]

AllAuthorized(c) ==
  /\ \A i \in DOMAIN c.inputs : Authorized(c, c.inputs[i].uri)
  /\ \A i \in DOMAIN c.outputs : Authorized(c, c.outputs[i].uri)

\* Nothing in the contract rules forbids two outputs with one destination.
DistinctDestinations(c) ==
  \A i, j \in DOMAIN c.outputs : c.outputs[i].uri = c.outputs[j].uri => i = j

HadEffect(r) == touched[r] # {} \/ written[r] # {} \/ accepted[r] > 0

\* The execution computed a readout that is its own.
Explained(r) == result[r] # NoResult /\ result[r].readout = IdentityOf(msg[r])

\* steps.authorize runs before any I/O.  A contract with one URI that the
\* scheme allowlist or the tenant policy refuses causes no effect at all, not
\* even on its good URIs, and no URI outside the policy is ever touched.
AuthorizedBeforeAnyIo ==
  \A r \in Runs :
    HadEffect(r) => /\ AllAuthorized(msg[r])
                    /\ \A u \in touched[r] : Authorized(msg[r], u)

\* steps.validate_readout runs before save_outputs.  Whatever is in storage
\* was computed by an execution whose readout exists, is valid and describes
\* that very execution's request and service.
StoredOnlyIfExplained == \A u \in Uris : store[u] # NoData => Explained(store[u].run)

\* notify_webhook runs after save_outputs.  The platform hears of success only
\* after every declared output reached storage, and what it hears lists them
\* all; a result with status "ok" means the platform did hear.
AnnouncedOnlyIfComplete ==
  \A r \in Runs :
    /\ accepted[r] > 0 => /\ RolesOf(msg[r].outputs) \subseteq written[r]
                          /\ receipts[r] = RolesOf(msg[r].outputs)
    /\ outcome[r] = "ok" => accepted[r] > 0

\* with_retry around JwtWebhookNotifier.notify.  A lost reply makes it POST
\* again: the platform may see one success several times, but never more
\* often than the retry limit.
AnnouncementsBounded == \A r \in Runs : accepted[r] <= MaxAttempts

\* save_outputs of concurrent executions.  Executions of one request overwrite
\* each other's outputs, so the artifact and the readout found in storage may
\* stem from two executions; but as long as only executions of that same
\* contract use its destinations, and it names none twice, every URI announced
\* keeps holding the announced role, computed for the announced request.
AnnouncedOutputsStay ==
  \A r \in Runs : accepted[r] > 0 =>
    LET outputs == msg[r].outputs
        destinations == {outputs[i].uri : i \in DOMAIN outputs}
        undisturbed == \A s \in Runs : touched[s] \cap destinations # {} => msg[s] = msg[r]
    IN  DistinctDestinations(msg[r]) /\ undisturbed =>
          \A i \in DOMAIN outputs :
            LET blob == store[outputs[i].uri]
            IN  blob # NoData /\ blob.role = outputs[i].role /\ msg[blob.run] = msg[r]

\* with_retry and the loops of steps.py.  Every execution ends, under any
\* pattern of transient failures.
EveryRunFinishes == \A r \in Runs : (pc[r] # "idle") ~> (pc[r] = "done")

-----------------------------------------------------------------------------
\* What the documents say of the pipeline and the code does not do.

\* docs/integration_contract.md, "Errors also notify the webhook": only
\* notify_webhook, the last step of a success, ever calls the webhook.
ErrorsAlsoNotify ==
  \A r \in Runs : outcome[r] \in ErrorCodes \ {"webhook_failed"} => accepted[r] > 0

-----------------------------------------------------------------------------
\* What all this implements: the promise of RunPromise.

PhaseOf(r) ==
  CASE pc[r] = "idle" -> "idle"
    [] pc[r] = "done" -> "finished"
    [] pc[r] \notin {"idle", "done"} /\ Explained(r) -> "explained"
    [] OTHER -> "working"

AnswerOf(r) ==
  CASE pc[r] # "done" -> "none"
    [] pc[r] = "done" /\ outcome[r] = "ok" -> "ok"
    [] OTHER -> "failed"

DeclaredOf(r) == IF Explained(r) THEN RolesOf(msg[r].outputs) ELSE {}

Promise == INSTANCE RunPromise WITH
  phase <- [r \in Runs |-> PhaseOf(r)],
  declared <- [r \in Runs |-> DeclaredOf(r)],
  published <- written,
  announced <- [r \in Runs |-> accepted[r] > 0],
  answer <- [r \in Runs |-> AnswerOf(r)]

\* ServiceRunner.execute as the platform sees it: explained, then published,
\* then announced, then answered, in that order and never without the step
\* before, whatever is retried, interleaved or killed.
KeepsPromise == Promise!Spec

-----------------------------------------------------------------------------
\* The inductive invariant behind the safety properties.

AfterDecode == {"validate", "roles", "authorize"}
IoStages == {"resolve", "load", "compute", "gate", "save", "notify"}
BeforeGate == Stages \ {"gate", "save", "notify", "done"}

\* What the steps taken so far have established about the message.
StageInv ==
  \A r \in Runs :
    /\ pc[r] # "idle" => msg[r] # NoMessage
    /\ pc[r] \in AfterDecode \cup IoStages => msg[r] \in Contracts
    /\ pc[r] \in {"roles", "authorize"} \cup IoStages => WellFormed(msg[r])
    /\ pc[r] \in IoStages => AllAuthorized(msg[r])
    /\ pc[r] \notin IoStages \cup {"done"} => touched[r] = {}

\* Effects belong to admitted, explained contracts.
EffectInv ==
  \A r \in Runs :
    /\ HadEffect(r) => /\ msg[r] \in Contracts
                       /\ AllAuthorized(msg[r])
                       /\ \A u \in touched[r] : Authorized(msg[r], u)
    /\ pc[r] \in {"save", "notify"} \/ written[r] # {} => Explained(r)
    /\ pc[r] \in BeforeGate \cup {"gate"} => written[r] = {} /\ receipts[r] = {}

\* The gate looks at a result.
GateInv == \A r \in Runs : pc[r] = "gate" => result[r] \in Results

\* Receipts follow the loop over the outputs.
SaveInvOf(r) ==
  /\ pc[r] = "load" => idx[r] \in DOMAIN msg[r].inputs
  /\ pc[r] = "save" =>
       /\ idx[r] \in DOMAIN msg[r].outputs
       /\ receipts[r] = {msg[r].outputs[i].role : i \in 1 .. idx[r] - 1}
  /\ pc[r] = "notify" => receipts[r] = RolesOf(msg[r].outputs)
  /\ receipts[r] \subseteq written[r]

SaveInv == \A r \in Runs : SaveInvOf(r)

\* Each POST the platform took used up one attempt.
AnnounceInv ==
  \A r \in Runs :
    /\ pc[r] \notin {"notify", "done"} => accepted[r] = 0
    /\ pc[r] = "notify" => accepted[r] < attempt[r]
    /\ accepted[r] <= MaxAttempts
    /\ accepted[r] > 0 => receipts[r] = RolesOf(msg[r].outputs)
    /\ outcome[r] = "ok" => accepted[r] > 0

StoreInv == \A u \in Uris : store[u] # NoData => store[u].role \in written[store[u].run]

\* Only an admitted contract is computed, by RunCompute.
ResultInv ==
  \A r \in Runs :
    /\ pc[r] \in BeforeGate => result[r] = NoResult
    /\ result[r] # NoResult => msg[r] \in Contracts /\ WellFormed(msg[r])

IsOutput(c, role, u) == \E i \in DOMAIN c.outputs : c.outputs[i].role = role /\ c.outputs[i].uri = u

\* A blob lies where the contract of the execution that wrote it wants it, and
\* a destination with a receipt is never empty again.
LandedInv ==
  /\ \A u \in Uris : store[u] # NoData =>
       LET s == store[u].run
       IN  u \in touched[s] /\ IsOutput(msg[s], store[u].role, u)
  /\ \A r \in Runs : written[r] # {} => written[r] \subseteq RolesOf(msg[r].outputs)
  /\ \A r \in Runs, role \in Roles, u \in Uris :
       role \in receipts[r] /\ IsOutput(msg[r], role, u) => store[u] # NoData

IInv ==
  /\ TypeOK /\ StageInv /\ EffectInv /\ GateInv
  /\ SaveInv /\ AnnounceInv /\ StoreInv /\ ResultInv /\ LandedInv
=============================================================================
