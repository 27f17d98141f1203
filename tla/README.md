# grabatus-service-core: a TLA+ verification development

`grabatus_service_core` is the library every Grabatus computational service is
built on. A platform publishes a *contract* (who asks, which inputs to read,
which outputs to write, which webhook to call) to Pub/Sub; a *receiver* checks
it and launches a Cloud Run job; the job's *worker* reads the inputs, runs the
service's compute backend, checks the explanation it must produce (the
*readout*), writes the outputs and announces them at the webhook.

Paths below are relative to `src/src/grabatus_service_core/` unless they start
with `docs/`, `infra/` or `tests/`.

## Inventory

| Component | State | Operations | Correct when |
|---|---|---|---|
| Worker pipeline: `runner/runner.py`, `runner/steps.py`, `runner/state.py` | the stage of the execution, what each stage produced | `decode`, `validate`, `_check_role_compatibility`, `authorize`, `resolve_credentials`, `load_inputs`, `run_compute`, `validate_readout`, `save_outputs`, `notify_webhook` | no I/O before authorization; nothing stored without an own, valid readout; nothing announced before everything is stored; it ends |
| Receivers: `runner/runner.py` (`_run_receiver`), `receiver/runner.py`, `receiver/registry.py` | none between requests | decide, look up the worker, dispatch | a job is launched only for a contract that passes every check; every request is answered; the answer says which job runs |
| HTTP application: `app/` | per instance: event loop, the request id of each context | `/run_service`, health routes, exception handlers, request-id middleware | every request is answered as by a server of its own; a whole message is executed at most once |
| Entry points: `__main__.py`, `bootstrap/factories.py`, `settings.py`, `receiver/cli.py`, `receiver/registry.py` | environment | `run_worker_once`, the three factories, the registry | the exit status is that of the execution; a process whose variables are refused does not start |
| Contract: `contract/` | none (frozen models) | pydantic validators | inadmissible contracts are refused with the right code |
| Readout: `contract/readout/` | none | validators of the document and of its cross-references | a stored readout explains the stored artifacts of its own run |
| URI authorization: `security/` | settings | scheme allowlist, tenant templates, URI parser, host blocklist | a tenant's request never reaches another tenant's prefix |
| Storage: `adapters/storage_*.py` | the objects | `read`, `write`, through a composite and a compression decorator | what is read is what was written under the same spec |
| Retry: `adapters/retry.py` | attempt number | `with_retry` | at most three attempts, the last error re-raised |
| Webhook: `adapters/webhook.py`, `security/jwt_helpers.py` | none | one signed POST | a success is announced at least once and boundedly often |
| Dispatcher: `adapters/job_dispatcher_cloud_run.py` | none | `run_job` | the returned job exists |
| Secrets: `adapters/secrets_*.py`, `contract/secret_ref.py` | none | `resolve` | the named secret, or a typed error |
| Remote compute: `adapters/http_compute_backend.py`, `ports/compute_context.py` | none here; the remote service works on what it was sent | `make_compute_context`, `run` | the answer is the one to the last question; every attempt asks the same |
| Observability: `observability/`, `adapters/observability*.py` | instrument cache, metric buffers | spans, logs, counters | never affects the result; each instrument is created once |
| Reference service: `examples/forecast_service/` | none | `MovingAverageBackend.run` | its readout passes the gate |
| Test doubles: `testing/` | in-memory fakes | builders | not part of the running system |

How they interact. Pub/Sub pushes a message by HTTP to the receiver's
`/run_service`; the receiver calls the Cloud Run API; Cloud Run starts the
worker with the contract in `GBT_JOB_PAYLOAD`; workers share the object storage
and the platform's webhook and nothing else. Every call to the outside goes
through an adapter wrapped by `with_retry`.

What is hard: Pub/Sub delivers a message again if it is not answered in time,
a retried `run_job` may launch a second job, so several executions of one
request may run at once and interleave their writes; any adapter call may fail
before or after it took effect; a container may be stopped between any two
calls; the receiver answers 200 whatever happened; the requests of one instance
share an event loop and a metrics adapter while their clients come and go; and
a remote backend goes on computing for a client that gave up on it.
`PROJECT.json` lists each of these hazards at its line.

## Modules

| Module | Models | Kind |
|---|---|---|
| `Steps` | `validate`, `_check_role_compatibility`, `authorize`: the decisions both programs take before any I/O | operators |
| `RunPromise` | what an execution promises the platform | abstract specification |
| `ServiceRunner` | `_run_full_pipeline` of any number of concurrent executions over shared storage and webhook | state machine, refines `RunPromise` |
| `Receiver` | the two receivers behind a push subscription | state machine |
| `Deployment` | a receiver and the workers of the jobs it launches | composition: extends `ServiceRunner`, instantiates `Receiver` |
| `Storage` | the storage stack under concurrent calls: routing, codecs, four backends, retries | state machine |
| `SecretRef` | the way of a secret reference from the platform through receiver and worker | state machine |
| `Readout` | the `model_readout`, from the backend that writes it to the gate | state machine |
| `ForecastService` | the reference service as one more backend of `Readout` | extends `Readout` |
| `RemoteCompute` | `HttpComputeBackend`, its retries and the remote service that answers late or never | state machine |
| `ServerPromise` | what an instance owes to each HTTP request | abstract specification |
| `HttpApp` | one instance of the HTTP application: event loop, middleware, routes, exception handlers, clients | state machine, refines `ServerPromise` |
| `UriPolicy` | `parse_uri`, `SchemeAllowlist`, `TenantPrefixPolicy` | operators |
| `Configuration` | what the environment variables of a process become | operators |
| `ServiceRunnerProofs`, `ReceiverProofs`, `DeploymentProofs`, `StorageProofs`, `ReadoutProofs`, `RemoteComputeProofs`, `HttpAppProofs` | the theorems about the modules they are named for, with `ForecastService` in `ReadoutProofs` | proofs |
| `UriProofs` | the theorems about `SecretRef` and `UriPolicy` | proofs |
| `MCContracts`, `MC*` | the small worlds for TLC | |

### Steps

A contract is a record of the fields the decisions look at. URIs, tenants and
services are members of constant sets; `AllowedUris` and `PermittedUris` say
what the scheme allowlist and the tenant policy accept. `fields` stands for
everything pydantic checks inside one field (patterns, lengths, format hints),
`params` for the typed parameters of the service, which the shared receiver's
`OpaqueServiceContract` does not look into. `AuthorizationError` follows the
loop of `authorize` and reports the first refused URI; `Authorized` says what
is promised without the order.

### UriPolicy and Configuration

`UriPolicy` is what the two constant sets of `Steps` stand for: a URI is a
scheme, a host and a path, a name is the sequence of its fragments, so that
`gbt-storage-acme-eu` starts with `gbt-storage-acme` as `str.startswith` sees
it. `Permitted` follows `TenantPrefixPolicy.authorize` (prefix of the bucket,
user segment, project of a BigQuery host, schemes that belong to no tenant).
`Configuration` reads comma-separated variables, the registry of the shared
receiver and the variables a process needs to start. `MCContracts` gives the
URIs of the small world their form and computes `AllowedUris` and
`PermittedUris` with these operators, and the `MC` modules of the receivers
their registry, so the runs of `ServiceRunner`,
`Receiver` and `Deployment` go through them.

### ServiceRunner

One action per step function, and one per adapter call inside its loop:
`pc[r]` is the step function execution `r` is about to run, `idx[r]` the spec
its loop is at, `attempt[r]` the attempt number `with_retry` is at. `Contracts`
enter with `Start` (the worker's `run_worker_once`, or one HTTP request of the
monolith). A call that fails transiently is retried by `RetryOrReraise`; after
the last attempt tenacity re-raises the transport exception, which is no
`GrabatusServiceError`, and the execution ends as "escaped". `SaveOutput` and
`Notify` may fail after their effect took place. `Kill` is the stop of the
container. `OmittedOutput` is the `KeyError` of `save_outputs` for a declared
role the backend did not return. `touched`, `written` and `accepted` are
history variables: what this execution touched, brought to storage, and what
the platform took from it.

### Receiver

`Messages` are publications; `Deliver`, `Expire` and `DeadLetter` are the push
subscription, which is external: `infra/modules/shared_receiver` creates the
Cloud Run service it pushes to, and a module of another repository the
subscription. `rpc` and `answer` follow one POST. `Admit` is the decision, one
step because it reads only the message; `Dispatch` is one call of `run_job`,
which may launch the job and lose the reply, and that may also end in an error
that is not retried. `Reply` acknowledges the message if Pub/Sub still waits for this very
delivery. `Crash` is an instance that goes away. `shared[m]` says whether the
message was published for `SharedReceiverRunner` or for a `ServiceRunner` in
RECEIVER mode; `Publications` are the (payload, shared) pairs a platform may
publish.

### Deployment

Both modules side by side: `ServiceRunner` is extended, `Receiver` is the
instance `R`, and the specification of the whole is `DeploymentSpec`.
`StartJob` starts the worker of a launched job on the payload its message
carried. Jobs are named by message, delivery and dispatch attempt; they are the
`Runs` of `ServiceRunner`.

### Storage

A call of `StoragePort` goes through `CompositeStorage._select` (`Begin`) to
the adapter of its scheme and, around it, through `CompressedStorage`. Each
attempt is one action: `GcsWrite` and `RemoteRead` are one request each,
`LocalOpen` and `LocalFill` are the two halves of `write_bytes`, because
another process may read in between. An attempt that fails, and one whose
process is killed, may have taken effect or not. That effect takes place before
the failure is seen or never: a request that the server carries out after the
client gave up on it is not modelled. Payloads are the call that wrote them,
encodings a codec and how much of the bytes is there; `Decode` says for each
pair of codec asked and codec found whether the read returns data, raises
`InputReadError` or raises something no adapter translates. `Workloads` fixes
what each call will do. `before` is a history variable for the regularity of
reads. `StorageAssumption` says of the beginning that the data of an `inline`
URI is there, being part of the URI, and that only local files may lie there
in part.

`ServiceRunner` does not instantiate this module. Its `LoadInput` and
`SaveOutput` are the summary of it: an attempt answers, fails for good, fails
transiently or escapes, and a write has its effect in each of the cases or not.

### SecretRef

A text is the sequence of its segments between slashes. `urlparse` drops what
comes after a `?` or `#`, removes tabs and line ends, and refuses some netlocs;
which segments have these characters is said by the constants `Ends`, `Kept` and
`BadNetlocs`. `Receive` is the parse
of the object or URI the platform sent, `Dump` the rendering of the contract
for `GBT_JOB_PAYLOAD`, `Load` the parse in the worker. `ToUri`, which escapes
nothing, `ParseUri` and `FirstNamed` follow `contract/secret_ref.py`, with its
treatment of empty segments, of a missing and of an explicit `latest`.

### Readout

The backend writes the parts of the document in a fixed order (they do not
depend on each other), either by constructing the SDK's models, where each
constructor validates (`Write`), or as JSON, where nothing does until the gate.
`CopyGuide`, `CopyArtifact` and `CopyReadout` are `model_copy`, which validates
nothing. `Construct` is `ModelReadout(...)`: it validates the cross-references,
and of its parts only the guide again (`revalidate_instances`). `Emit` is the
JSON of the result: in any JSON a URL object is text (`JsonText`), and the
models' `model_dump_json` also turns NaN into null (`Dump`), while JSON written
by hand or sent by a remote service may spell NaN, as `json.dumps` does, and
`model_validate_json` reads it as a number. How pydantic does all that, and that
it does not revalidate nested instances, is taken from its documentation. A
number is an integer, NaN or null; infinities are left out.
The fields have the sets `Artifacts`, `Findings`, `GuideRecords` and `Readouts`
as types. `Literals` says that some literal strings are strings, which TLC
evaluates and the provers cannot derive. `remote`
is a backend behind `HttpComputeBackend`, which forwards the context without
`output_uris`. `TooLong` are the places longer than the 2,048 characters of an
artifact's URI. `Gate` is `validate_readout`. In `ServiceRunner` all this is the choice of a result whose
readout is missing, invalid, or valid for one (request, service).

`ForecastService` is the backend of `examples/forecast_service`: one step that
builds its whole readout from the `ComputeContext` and leaves it to the same
`Construct` and `Gate`. It runs in the contexts whose outputs are its own, with
the readout (protocol 1.1) or without it (1.0, where the gate judges the readout
as well although no output stores it); the contexts of the run include both.

### RemoteCompute

`MakeComputeContext` stamps the context once; each attempt is `EncodeFails` or
`Post` and then `Receive`, `FailTransiently` or `FailForGood`. `remote` is what
the remote service makes of each question: it may compute on after the client
closed the connection, and `Answer` may come at any time or never. A run reads
only the connection of its current attempt. `Decode` is the status check and
`_decode_response` in their order, with the errors they translate and the two
they do not: a body in no text encoding (`UnicodeDecodeError`) and parameters
JSON cannot express (`TypeError`) leave `run` as they are. In `ServiceRunner`
this is the choice between a result, `compute_failed`, a transient failure and
an escape.

### HttpApp

`pc[q]` is where request `q` is, `loop` the request that holds the event loop.
A coroutine gives the loop back only where it awaits: `/run_service` awaits its
body and then calls `execute`, which is synchronous, so `RunService` takes the
loop and `Render` (or the exception) returns it. Probes run on pool threads.
`Start`, `Close` are the middleware on the way in and out, `Fail` is the
handler of `Exception`, which Starlette puts outside of the middleware. A
client may leave at any time; `request.body()` then raises `ClientDisconnect`.
What `execute` does is the subject of the other modules; here it returns a
result, returns an error (and counts it in `LookUp`, `CreateInstrument`,
`StoreInstrument`, the three parts of `OpenTelemetryObservability.metric`),
raises a `GrabatusServiceError` or raises something else. `ServerPromise` is
the server each request seems to have to itself, which is the one `Receiver`
assumes when it lets deliveries meet only in the jobs they launch.

Some definitions are marked "Seeded bug": they are plausible mistakes of the
code (a dropped loop, an attempt too many) and are used by no specification.
They stand next to the definition they would replace, and each property of a
passing run is violated when one of them does.

## Runs

| Run | Question | Bounds | States |
|---|---|---|---|
| `executions` | Do two interleaving executions keep every safety property, end, and implement `RunPromise`? Is `IInv` invariant? | 10 contracts and a malformed message, among them the same request twice and two requests with the same destinations in reverse order; 2 attempts | 138,834 |
| `receiver` | Are only admitted contracts dispatched, every request answered, and the answers true? | 1 message to either receiver, 9 payloads, 2 deliveries, 3 attempts | 125,087 |
| `deployment` | Receiver and workers agree, refused requests leave no trace, duplicates keep complete outputs, all comes to rest | 1 message to either receiver, 2 deliveries, 1 attempt; what the shared receiver lets through the worker refuses | 504,391 |
| `storage` | What may a reader see of concurrent, retried, lost and killed writes? | two writers and a reader of one object, or two calls of any adapter and codec; 2 attempts | 977,758 |
| `secret_wire` | Does a secret reference mean the same in the worker as in the receiver? | 26,884 references, texts of up to 2 segments, URIs of up to 5, with segments that `urlparse` cuts, empties, alters and refuses | 82,076 |
| `readout` | Is what the gate accepts sound, and does it accept what it should? | up to 3 artifacts and 3 findings where 2 are allowed, 2 base guardrails; each rule broken in some draft, NaN among the numbers; the reference service under protocols 1.0 and 1.1; two outputs; an output with a URI too long for a readout | 4,083,477 |
| `remote_compute` | Whose answer does a retried remote computation return, what was asked, does the call end? | 3 attempts, clock 0..1, 6 answers, a run that can be sent and one that cannot | 66,645 |
| `http_app` | Are overlapping requests served as if each were alone? | 2 requests on either route, with or without a header | 7,657 |
| `dedupe`, `errors_notify`, `worker_panic`, `write_mode` | Statements of documentation and comments the code does not satisfy | as above | violated |

Why the bounds are enough. Executions interact only through storage and each is
symmetric, so two reach every pairwise interleaving of their writes; two or
three attempts distinguish the first, a middle and the last one. Two deliveries
distinguish a late first answer from the current one; what holds for more of
them is proved (`ReceiverProofs`). The contracts contain one of each kind of refusal, both protocol
versions, a spec with a credential, and two outputs with one destination. The
number of outputs is 2: the loops have a first and a last spec. In `storage`,
two writers and one reader are the smallest setting in which a read could
return a payload that was already replaced. In `readout`, 10 is scaled down to
2 allowed artifacts and 50 findings to 2: one pair is enough for a duplicate
and for a dangling step, and one artifact and one finding more than allowed for the bounds. In
`deployment` the shared receiver passes on only contracts whose parameters or
roles the worker refuses: once a job runs its contract, which receiver launched
it makes no difference to the worker, and duplicates that write are launched by
the dedicated one; `DeploymentProofs` has no such restriction. In
`remote_compute`, three attempts give a question with two abandoned
predecessors, and two readings of the clock tell a context stamped once from one
stamped again; runs do not interact, so the second one only needs to differ in
what it can send. In `http_app`, requests interact through the loop, the cache
and the context variable, each of which two of them can contend for; that two
are enough is what `HttpAppProofs` shows for the safety properties. All
these systems come to an end, so deadlock is not checked: what is finished has
no step left.

The retry budget of the code is 3 attempts (`adapters/retry.py`); runs with more
parallelism use a smaller one. How often a message is delivered is decided by
the dead-letter policy of the subscription, which is configured outside of this
repository; `MaxDeliveries` is any positive number, and the progress of
`EveryRequestComesToRest` assumes that there is such a policy.

## Fairness

The worker's steps are weakly fair: a started Python process runs on until it
ends. `Start` and `Kill` are not fair: nobody has to start an execution or stop
it. In `Receiver`, Pub/Sub delivers what it can deliver, stops waiting for an
answer at the deadline, and dead-letters after the last delivery; requests are
served. Publishing and crashes are not fair. In `Deployment` Cloud Run
eventually starts a job it accepted. No fairness is assumed of outcomes: an
adapter may fail every time, and the liveness properties hold because retries
are bounded. In `Storage` the steps of a call are weakly fair once it began;
beginning one and killing it are not. In `RemoteCompute` the steps of the client
are weakly fair, since its POST has a timeout; the remote service owes no
answer. In `HttpApp` the steps of a request are strongly fair: they need the
event loop, which is free again and again but not continuously, and the ready
queue of asyncio is first in, first out. Clients eventually leave, because
Cloud Run ends a request at its deadline; nobody has to arrive or to send a
body. `SecretRef` and `Readout` state no liveness.

## What the checks show

* `AuthorizedBeforeAnyIo`: a contract with one refused URI causes no effect.
* `StoredOnlyIfExplained`: everything in storage was computed by an execution
  with a valid readout of its own request and service.
* `AnnouncedOnlyIfComplete`, `AnnouncementsBounded`: success is heard only with
  every output stored, at most once per attempt.
* `AnnouncedOutputsStay`, `DuplicatesKeepOutputs`: executions of one request
  overwrite each other, so artifact and readout may stem from two executions of
  it, but announced destinations keep complete outputs of that request. Both
  need the contract to name no destination twice, which `BaseServiceContract`
  does not demand, and no job of another request to use the destinations, which
  nobody checks.
* `KeepsPromise`: `ServiceRunner` implements `RunPromise`.
* `JobsAreAdmitted`, `AnswersMatchJobs`, `RefusedRequestsLeaveNoTrace`,
  `WorkerAgreesWithReceiver`: the receivers' decisions and the workers'.
* `ReadsAreWhole`, `AcknowledgedWritesLand`, `ReadsAreFresh`: objects of Cloud
  Storage are whole and their reads regular, across retries and lost replies.
  Local files are not: a reader that comes during a write gets an empty or a
  torn file, and with gzip an empty payload without an error.
* `UriRefsSurvive`, `PlainObjectsSurvive`: a secret reference means the same on
  both sides of the wire, except for objects that a URI cannot express: a slash
  in provider or name, a `?`, `#`, tab or line end anywhere, or a provider that
  `urlparse` takes for no netloc. Such an object is accepted by the receiver and
  means another secret, or none, in the worker.
* `AcceptedReadoutsAreClosed`: whatever way it was written and altered, an
  accepted readout is about this run, each narrative step is exactly one
  finding, no artifact carries data in its URI, and the guardrails come first.
  Its intervals are ordered only if no bound is NaN, which the gate accepts of
  JSON that no model dumped. `GuardrailsSurviveCopies`: the guardrails come first
  already in the backend's process. `BuiltReadoutsPassTheGate`: what the models
  accept there the gate accepts later. `HonestReadoutsPass`: a backend that
  describes the contract's outputs at their destinations is accepted, in the
  cloud and locally, the reference service among them. Honest also means that its
  artifacts are in Cloud Storage or local files, which is where the adapters
  write, and its numbers no NaN; and the contract must stay inside two bounds of
  the readout that are narrower than its own (see below).
* `ResultsAnswerTheLastPost`, `OneQuestionPerRun`, `AnswersAreFinal`: of several
  overlapping remote computations of a run, the result is that of the last one,
  complete; all of them were asked the same question; and once an answer was
  read, good or bad, no other computation is started.
* `InstrumentsCreatedOnce`: the metrics adapter fills its cache without a lock,
  and only because `execute` never yields the event loop is an instrument
  created once; with `execute` on a thread it would not be.
* `IdsStayApart`: a request sees its own id and no other, across awaits and on
  pool threads. `HttpApp!KeepsPromise`: a partly received message is never
  executed, a whole one at most once, whoever leaves and whatever fails after it.
* `EveryRunFinishes`, `EveryCallEnds`, `EveryRequestIsAnswered`, `EveryRequestComesToRest`:
  everything ends, a request whose client left and a question nobody answers too. A request comes to rest even when no job was launched for
  it: a dispatch whose retries are exhausted is answered with a 200 and Pub/Sub
  never delivers it again.

### Where documentation and code differ

| Run | Statement | Code |
|---|---|---|
| `dedupe` | `docs/integration_contract.md:115`: the receiver de-dupes on `request_id` | receivers remember nothing |
| `errors_notify` | `docs/integration_contract.md:236`: errors also notify the webhook | only success reaches `notify_webhook` |
| `worker_panic` | `docs/architecture.rst:30`: no unexpected exception leaves the pipeline | nothing catches it in a worker |
| `write_mode` | `contract/io_spec.py:65`: adapters honor the write mode | no adapter reads it; `fail_if_exists` overwrites |

Further differences that were met while modelling and have no run of their own:

* `docs/integration_contract.md:237`: if the webhook itself fails, the worker
  still considers the job done. In `Notify` it ends with status `error`, and
  `run_worker_once` exits with 1.
* `docs/superpowers/specs/2026-04-25-grabatus-service-core-design.md:370`:
  compute is never retried. `HttpComputeBackend.run` is, see `ComputeFails`.
* `contract/references.py:9`: references are echoed in the webhook; the payload
  of `notify_webhook` does not contain them.
* `docs/security.rst:62`: the token has a `jti` claim; the notifier signs the
  bare payload.
* `ComputeTimeoutError` is documented and never raised.
* `contract/secret_ref.py:70`: the JSON form of a `SecretRef` collapses to the
  URI so that the contract round-trips. An object named `team/key` is read back
  as name `team`, version `key`, and one named `a#b` as name `a`, version
  `latest`: `PlainObjectsSurvive` therefore asks for objects a URI can express.
* `contract/readout/findings.py:62`: the validator of `interval` demands ordered
  bounds. A NaN bound passes it, since every comparison with NaN is false. From
  the models it reaches the gate as null, which is refused; JSON that has `NaN`
  itself is accepted and stored.
* `contract/readout/root.py:69`: the bound of artifacts follows the outputs a
  contract may declare. A contract of protocol 1.0 may declare 11 outputs, none
  of them the readout, and a readout at most 10 artifacts. And an artifact's URI
  has at most 2,048 characters, which `OutputSpec.destination_uri` does not demand.
* `runner/runner.py:224`: a service without `OUTPUT_ROLES` is accepted with the
  readout as its only output, while a readout has at least one artifact
  (`contract/readout/root.py:117`). Such a service has nothing to describe, so
  it passes the role checks but the gate only with an untrue readout.
* `ports/compute_context.py:44`: `artifacts[].uri` must name the real
  destination; `docs/integration_contract.md:499`: roles match declared outputs.
  `validate_readout` compares neither, and `_encode_context`
  (`adapters/http_compute_backend.py:45`) does not tell a remote backend the
  destinations.
* `docs/observability.rst:28`: `request_id` is bound from a context variable, so
  that every log line has it. No code under `src/` reads `request_id_var`.
* `app/middleware.py:4`: the request id is echoed to the caller. The answer
  `internal_error` is made outside of the middleware and has no such header
  (see `Fail`).
* `adapters/observability_otel.py:9`: a metric of any other name becomes an
  ObservableGauge; `metric` makes it a histogram.

## Proofs

Every invariant and every action property of the passing runs is a theorem, for
all values of the constants that satisfy the named assumptions. In each module
the argument is an inductive invariant: initially true, kept by every action,
and at least as strong as the properties, few of which are inductive as they
stand. The runs of `ServiceRunner`,
`Receiver`, `RemoteCompute` and `HttpApp` list it as an invariant; TLC agrees
with those of `Deployment`, `Storage` and `Readout` on the instances of their
runs as well.

### ServiceRunner

For every set of executions, every set of contracts and every retry limit:

    Inductive                 Spec => []IInv
    TypeCorrect               Spec => []TypeOK
    AuthorizationPrecedesIo   Spec => []AuthorizedBeforeAnyIo
    StorageIsExplained        Spec => []StoredOnlyIfExplained
    AnnouncementsAreComplete  Spec => []AnnouncedOnlyIfComplete
    AnnouncementsAreBounded   Spec => []AnnouncementsBounded
    AnnouncedOutputsRemain    Spec => []AnnouncedOutputsStay
    Refinement                Spec => Promise!Safe

from `StepsAssumption` and `ServiceRunnerAssumption`, which say only that the
role sets are roles, that the retry limit is at least one and that the special
values are distinct.

Not even `TypeOK` is inductive: that `idx` stays inside the specs needs the
contract to be well-formed, and that needs the stage. `IInv` is the
strengthening, in parts that say what each stage may rely on:

* `StageInv`: from its stage on, a check has established its fact about the
  message (decoded, well-formed, authorized), and nothing was touched before;
* `EffectInv`: effects belong to authorized contracts, writes to explained runs;
* `GateInv`: the gate looks at a result;
* `SaveInv`: the receipts are the roles before `idx` in the loop over outputs,
  and all of them were written;
* `AnnounceInv`: each POST the platform took used up an attempt;
* `StoreInv`: what is in storage was written by the run it names;
* `ResultInv`: results come from well-formed contracts, and not before their
  stage;
* `LandedInv`: a blob lies where the contract of its writer wants it, and a
  destination with a receipt is never empty again.

One lemma per part shows that each action keeps it (`TypeStep`, `StageStep`,
...), `Inductive` combines them. `AnnouncedOutputsRemain` then needs no further
induction: who announced has a receipt for every output, so each destination
holds a blob; its writer touched it, so by the premise it has the same
contract; and that contract, naming each destination once, gives the blob its
role. `Refinement` is the safety part of `KeepsPromise`: each action is a step
of `RunPromise` or a stutter, the abstract state being computed from the stage
and the history variables.

`AuthorizationCoversAllSpecs` stands in this module and in `ReceiverProofs`,
which cannot extend one another: no first refused spec means that none is
refused, which rests on `LeastElement`.

### Receiver

For every set of messages and contracts, every registry, every number of
deliveries and attempts:

    Inductive                 Spec => []IInv
    Admitted                  Spec => []JobsAreAdmitted
    Answered                  Spec => []AnswersMatchJobs

`IInv` adds to the types what is settled at each stage of a delivery
(`FlowInv`: a delivery that was not made yet has done nothing; a refusal is the
decision about its message; an "ok" names a launched job) and where jobs come
from (`JobInv`: from a delivery that got to its dispatch, no later attempt than
it is at, of a message whose decision was to admit). The argument is that the
decision depends on the publication alone, which never changes once it is made
(`DecisionsStand`), so redelivery, retries and crashes cannot turn a refusal
into a job; and that no refusing check means `Dispatchable`
(`AdmittedIsDispatchable`).

### Deployment

    Composition               DeploymentSpec => /\ Init /\ [][Next]_vars
                                                /\ R!Init /\ [][R!Next]_receiverVars
    DeploymentInductive       DeploymentSpec => []DeploymentInv
    WorkersAgree              DeploymentSpec => []WorkerAgreesWithReceiver
    RefusalsLeaveNoTrace      DeploymentSpec => []RefusedRequestsLeaveNoTrace
    DuplicatesAgree           DeploymentSpec => []DuplicatesKeepOutputs

`Composition` says that the workers of a deployment behave as `ServiceRunner`
and its receivers as `Receiver`, so the step lemma of `ServiceRunner` keeps its
`IInv` here too without being proved again. A theorem cannot be
cited through an instance, so of the receiver the facts needed here are proved
on `R`: `AdmissionInv`, that once a message is published every delivery
of it has the same decision and jobs exist only if it was to admit. `WorkerInv`
joins the two: a worker runs a launched job on the payload of its message, and
what it refuses without having touched anything the shared receiver had not
looked at. The crucial step is `RepeatedChecks`: the worker repeats the very
checks of `Decision` (`SameChecks`, the same operators in both instances) on
the same contract, so they come to the same result, except for typed
parameters and roles.

`DeploymentAssumption` says that the executions are the jobs Cloud Run may
launch and that what the receivers may dispatch is what workers may be handed.

### Storage

For any number of interleaving calls, any workloads, codecs and URIs, and any
retry limit:

    Inductive                 Spec => []IInv
    TypeCorrect               Spec => []TypeOK
    WholeReads                Spec => []ReadsAreWhole
    AcknowledgedWritesRemain  Spec => []AcknowledgedWritesLand
    FreshReads                Spec => []ReadsAreFresh

Adapters and failures make many actions, but they do few things. `Move(c)` is
what they have in common: the call did not end yet; it replaces the object at
its own URI by its own payload or no object at all; it takes what is there or
nothing; and it is acknowledged only when its payload lies there, or, for a
local file, when another write was under way. One lemma per action shows that
it is a `Move` (`GcsWriteMoves`, `LocalFillMoves`, ...), one lemma per conjunct
of `IInv` that a `Move` keeps it. The three properties are inductive together
with `CallInv` (what a call knows to have ended has ended), `ObjectInv` (only
local files are ever there in part) and `LatestInv`: an object of Cloud Storage
is never older than an acknowledged write to it. The last one is what makes
reads fresh across retries: whoever replaces an object has not ended yet, so it
is in no call's `before`, and a retry that comes late brings nothing that was
already over.

### Readout and ForecastService

For any contexts, drafts, guides, base guardrails and bounds, with the
reference service as one of the backends:

    Inductive                 SpecWithForecast => []IInv
    TypeCorrect               SpecWithForecast => []TypeOK
    AcceptedAreClosed         SpecWithForecast => []AcceptedReadoutsAreClosed
    BuiltReadoutsPass         SpecWithForecast => []BuiltReadoutsPassTheGate
    HonestPass                SpecWithForecast => []HonestReadoutsPass
    GuardrailsSurvive         SpecWithForecast => GuardrailsSurviveCopies

Most of it is about the validators. `DumpStaysValid`: they look only at what
`model_dump_json` keeps, as long as no number is NaN, so the gate repeats the
judgement of the models. `SerializedShape`: any other JSON keeps the numbers too,
and with them a NaN the comparison of the bounds lets pass. `ValidIsClosed`: that no id is `duplicated`
(`NoDuplicates`) and the guide refers to findings only makes each narrative
step exactly one finding. `HonestIsValid`: an honest document satisfies every
validator; that it never has too many artifacts is a counting argument
(`FewArtifacts`), distinct roles being outputs of the contract other than the
readout. The invariant says what each place of the backend has settled:
`FlowInv`, that the payload is the dump of what was written and the verdict the
judgement of it; `ModelInv`, that what models accepted satisfies their
validators unless `model_copy` changed it; `FailedInv`, that no honest
document met a `ValidationError`. Each constructor is a `Write` of one more
part, so one lemma (`WriteKeeps`) serves all of them.

### HttpApp

For any number of requests:

    Inductive                 Spec => []IInv
    OneInstrument             Spec => []InstrumentsCreatedOnce
    OwnIds                    Spec => []IdsStayApart
    Refinement                Spec => Promise!Init /\ [][Promise!Next]_(Promise!pvars)

`LoopInv` says that who is between two awaits holds the loop, so there is one
such request; `MetricInv` says what the cache and the meter know at each of the
three steps of `metric`, and is preserved only because of `LoopInv`;
`AnswerInv` how far the answer of a request is determined, which the refinement
needs to see that success is claimed of executed requests only. `Refinement` is
the safety part of `KeepsPromise`: each action is a step of the server of its
own request or a stutter. The assumption is that ids made by the middleware
differ from those clients send.

### RemoteCompute

For every set of runs and answers, every retry limit and clock:

    Inductive                 Spec => []IInv
    LastPost                  Spec => []ResultsAnswerTheLastPost
    OneQuestion               Spec => []OneQuestionPerRun
    Final                     Spec => []AnswersAreFinal

`PostInv` ties every question that was sent to the context of its run and to an
attempt that was made, and everything the remote service knows to a question;
`OutcomeInv` says what an outcome stands for. The last two properties are
inductive with them.

### UriPolicy and SecretRef

`UriProofs` proves of the policy, for every bucket prefix, identities and
URI: `TenantsAreApart`, that no bucket and no dataset is open to two tenants,
and `UsersAreApart`, that with `require_user_path_segment` no object of a bucket
is open to two users. The policy compares prefixes, so the first theorem assumes
that neither tenant_id starts with the other, which nothing in this repository
enforces; it is a duty of the platform that hands them out.

It proves of `SecretRef`, for every set of segments, and so for texts and URIs
of any length:

    TypeCorrect               Spec => []TypeOK
    UrisMeanTheSame           Spec => []UriRefsSurvive
    PlainObjectsMeanTheSame   Spec => []PlainObjectsSurvive

The argument: the parser returns only plain references, whose provider and name
are one segment each, neither of them empty, whose version is not empty, and
which have nothing left for `urlparse` to cut off or remove (`UrlIsClean`);
rendering a plain reference and parsing it again gives that reference back. Its
invariant says of each stage how `received`, `payload` and `worker` follow from
what was sent. `SecretRefAssumption` says that the constants are texts
over the segments, and of `urlparse` that what it keeps of a segment it keeps of
that again, and has no more `?` or `#`.

### Only model-checked

Liveness is out of the prover's reach: `EveryRunFinishes`,
`EveryRequestIsAnswered`, `EveryRequestComesToRest`, `EveryCallEnds` (each where
a run lists it) and the fairness part of both `KeepsPromise` are shown on the instances of the runs
only. The four violated statements are refuted by a run and need no proof.
`Configuration` has no theorem: it is evaluated on the small worlds only.

## Not modelled

* Contents: payload bytes, JSON syntax, prose and the parts of a readout that
  have only lengths and patterns.
* `host_blocklist`: the address ranges it refuses. `authorize` does not ask it;
  the remote storage adapter does, and `Storage` has both outcomes.
* The characters of a URI: `UriPolicy` starts from the scheme, host and path
  `urlparse` returns, with the scheme in lower case.
* Waiting times of `with_retry`; nothing depends on them.
* The choice of adapters by `GBT_ENV`, defaults of optional variables, the
  wiring of applications. They run once, before there is any state.
* Spans, log lines and exporters; test doubles; infrastructure (the subscription
  that pushes to it is the external part of `Receiver`).
* The moving average of the reference service: numbers no other part looks at.
* A signed webhook token: `Notify` has only the possibility of a signing error.

## Plan

The order is by importance for the platform: what a request may do (1), what
it does it to (2, 3), what the decisions are made of (4), the processes it runs
in (5), and proofs (6).

1. `Steps`, `ServiceRunner`, `RunPromise`, `Receiver`, `Deployment`, with the
   proofs about `ServiceRunner` and `Receiver`: done.
2. `Storage`: done. `SecretRef` with its proofs: done.
3. `Readout`, `ForecastService`: done.
4. `UriPolicy` with its proofs, `Configuration`: done.
5. `RemoteCompute`, `HttpApp`, `ServerPromise`, with their proofs: done.
6. Every invariant and action property of the passing runs as a theorem, the
   safety part of both refinements, the composition of `Deployment` from the
   theorems of its parts: done.
7. To come: that `Storage` implements the summary `ServiceRunner` uses of it,
   and theorems about `Configuration`.
