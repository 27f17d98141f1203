-------------------------------- MODULE Steps --------------------------------
(***************************************************************************)
(* The decisions every pipeline takes before it performs any I/O: what     *)
(* `validate', `_check_role_compatibility' and `authorize' of the runner   *)
(* package answer for a decoded contract.  They are pure, so they are      *)
(* operators here; the modules Receiver and ServiceRunner take the steps.  *)
(*                                                                         *)
(* A contract is a record.  Its URIs, tenants, requests and services are   *)
(* members of constant sets; the fields whose contents no property tells   *)
(* apart (format hints, origin, references, timestamps) are summarised by  *)
(* "fields", whether pydantic accepts them, and the service's own          *)
(* parameters by "params", whether the typed schema of the service does.   *)
(***************************************************************************)
EXTENDS Integers, Sequences

CONSTANTS
  Requests,             \* envelope.request_id
  Tenants,              \* identity.tenant_id
  Services,             \* service.name
  Uris,                 \* source_uri and destination_uri
  Roles,                \* role names of inputs and outputs
  REQUIRED_INPUT_ROLES, \* the three role sets of the compute backend
  OPTIONAL_INPUT_ROLES,
  OUTPUT_ROLES,
  AllowedUris,          \* URIs whose scheme the SchemeAllowlist accepts
  PermittedUris         \* <<tenant, uri>> pairs the authorizer accepts

READOUT_OUTPUT_ROLE == "model_readout"

ASSUME StepsAssumption ==
  /\ REQUIRED_INPUT_ROLES \subseteq Roles
  /\ OPTIONAL_INPUT_ROLES \subseteq Roles
  /\ OUTPUT_ROLES \subseteq Roles
  /\ READOUT_OUTPUT_ROLE \in Roles \ OUTPUT_ROLES
  /\ AllowedUris \subseteq Uris
  /\ PermittedUris \subseteq Tenants \X Uris

SUPPORTED_PROTOCOL_VERSIONS == {"1.0", "1.1"}
READOUT_PROTOCOL_VERSION == "1.1"
MAX_INPUTS == 10
MAX_OUTPUTS == 11

\* An InputSpec or OutputSpec: "secret" says whether it has a credential_ref.
Specs == [role : Roles, uri : Uris, secret : BOOLEAN]

ContractRecords ==
  [request : Requests, tenant : Tenants, service : Services,
   version : STRING, fields : BOOLEAN, params : BOOLEAN,
   inputs : Seq(Specs), outputs : Seq(Specs)]

NoError == "none"

\* The error codes by family.  The code of a base class stands for those of
\* its subclasses where no property tells them apart: input_read_failed for
\* every storage error of a read, compute_failed for a compute timeout,
\* webhook_failed for a rejected token.
ContractErrors ==
  {"malformed_message", "unsupported_protocol_version", "invalid_contract", "unknown_service"}
SecurityErrors ==
  {"unsupported_scheme", "unauthorized_uri", "blocked_host", "credential_resolution_failed"}
ComputeErrors ==
  {"compute_failed", "missing_model_readout", "invalid_model_readout",
   "readout_identity_mismatch"}
StorageErrors == {"input_read_failed", "output_write_failed"}
WebhookErrors == {"webhook_failed"}

ErrorCodes ==
  ContractErrors \cup SecurityErrors \cup ComputeErrors \cup StorageErrors \cup WebhookErrors

RolesOf(specs) == {specs[i].role : i \in DOMAIN specs}

UniqueRoles(specs) ==
  \A i, j \in DOMAIN specs : specs[i].role = specs[j].role => i = j

\* BaseServiceContract: cardinalities and the two role validators.
WellFormed(c) ==
  /\ c.fields
  /\ Len(c.inputs) \in 1 .. MAX_INPUTS
  /\ Len(c.outputs) \in 1 .. MAX_OUTPUTS
  /\ UniqueRoles(c.inputs)
  /\ UniqueRoles(c.outputs)

\* The version is looked at first, so a bad version is never reported as an
\* invalid contract.  "typed" is FALSE for the shared receiver, whose
\* OpaqueServiceContract takes any parameters.
ValidationError(c, typed) ==
  CASE c.version \notin SUPPORTED_PROTOCOL_VERSIONS
         -> "unsupported_protocol_version"
    [] c.version \in SUPPORTED_PROTOCOL_VERSIONS /\ ~(WellFormed(c) /\ (typed => c.params))
         -> "invalid_contract"
    [] OTHER -> NoError

ExpectedOutputRoles(c) ==
  IF c.version = READOUT_PROTOCOL_VERSION
  THEN OUTPUT_ROLES \cup {READOUT_OUTPUT_ROLE}
  ELSE OUTPUT_ROLES

RolesCompatible(c) ==
  /\ REQUIRED_INPUT_ROLES \subseteq RolesOf(c.inputs)
  /\ RolesOf(c.inputs) \subseteq REQUIRED_INPUT_ROLES \cup OPTIONAL_INPUT_ROLES
  /\ RolesOf(c.outputs) = ExpectedOutputRoles(c)

\* Seeded bug: the loop over the outputs is forgotten.
InputSpecsOnly(c) == c.inputs

\* Every spec in the order `authorize' visits them: inputs, then outputs.
AllSpecs(c) == c.inputs \o c.outputs

UriError(c, uri) ==
  CASE uri \notin AllowedUris -> "unsupported_scheme"
    [] uri \in AllowedUris /\ <<c.tenant, uri>> \notin PermittedUris -> "unauthorized_uri"
    [] OTHER -> NoError

\* The first refused spec decides the error.
AuthorizationError(c) ==
  LET refused == {i \in DOMAIN AllSpecs(c) : UriError(c, AllSpecs(c)[i].uri) # NoError}
  IN  IF refused = {} THEN NoError
      ELSE LET first == CHOOSE i \in refused : \A j \in refused : i <= j
           IN  UriError(c, AllSpecs(c)[first].uri)

\* What authorization promises, stated without the order of the checks.
Authorized(c, uri) == uri \in AllowedUris /\ <<c.tenant, uri>> \in PermittedUris

\* The (request, service) pair a readout must carry; references, tenant and
\* origin are functions of the request.
IdentityOf(c) == <<c.request, c.service>>
=============================================================================
