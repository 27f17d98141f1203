------------------------------- MODULE Readout -------------------------------
(***************************************************************************)
(* The model_readout of one run, from the backend that writes it to the    *)
(* gate that judges it.  A backend either builds ModelReadout from the     *)
(* parts of the SDK, each validated when it is constructed, or writes JSON *)
(* by hand.  model_copy changes what was built without validating again.   *)
(* A backend behind HttpComputeBackend is told the run, but not where its  *)
(* outputs go.  The gate parses the JSON and compares it with the run.     *)
(*                                                                         *)
(* A part that only has lengths and patterns (model, data, diagnostics,    *)
(* caveats, prose) is left out.  The parts are written in one order; they  *)
(* do not depend on each other before they are put together.               *)
(***************************************************************************)
EXTENDS Integers, Sequences, FiniteSets

CONSTANTS
  Contexts,             \* ComputeContexts: [run, output_uris]
  Frames,               \* [about, aware, workflow, digests, period]; about None: this run
  ArtifactDrafts,       \* [role, uri]; uri None: the one of the context
  FindingDrafts,        \* [id, value, kind, level, lower, upper]
  Guides,               \* [recommended_narrative_order, guardrails]
  BASE_GUARDRAILS,
  MAX_SERVICE_OUTPUTS, MAX_FINDINGS,
  TooLong,              \* paths that make a URI longer than _MAX_URI_LENGTH
  NaN, None

ReadoutRole == "model_readout"

Uris == [scheme : STRING, path : STRING, prebuilt : BOOLEAN]
Numerals == Int \cup {NaN, None}
Artifacts == [role : STRING, uri : Uris \cup {None}]
Findings == [id : STRING, value : Numerals, kind : STRING, level : BOOLEAN,
             lower : Numerals, upper : Numerals]
GuideRecords == [recommended_narrative_order : Seq(STRING), guardrails : Seq(STRING)]
Readouts ==
  [about : STRING, aware : BOOLEAN, workflow : Seq(Int), digests : Seq(STRING),
   period : Int \X Int, artifacts : Seq(Artifacts), findings : Seq(Findings),
   guide : GuideRecords]
Verdicts == {"missing_readout", "invalid_readout", "readout_mismatch", "accepted"}

\* A contract has at most _MAX_OUTPUTS outputs: one more than an artifact each
\* would take, for the readout.
ASSUME ReadoutAssumption ==
  /\ MAX_SERVICE_OUTPUTS \in Nat \ {0} /\ MAX_FINDINGS \in Nat /\ TooLong \subseteq STRING
  /\ BASE_GUARDRAILS \in Seq(STRING) /\ BASE_GUARDRAILS # <<>>
  /\ \A c \in Contexts :
       /\ c.run \in STRING
       /\ c.output_uris \in [DOMAIN c.output_uris -> Uris]
       /\ IsFiniteSet(DOMAIN c.output_uris)
       /\ Cardinality(DOMAIN c.output_uris) <= MAX_SERVICE_OUTPUTS + 1
  /\ Frames \subseteq [about : STRING \cup {None}, aware : BOOLEAN, workflow : Seq(Int),
                       digests : Seq(STRING), period : Int \X Int]
  /\ ArtifactDrafts \subseteq Artifacts
  /\ FindingDrafts \subseteq Findings
  /\ Guides \subseteq GuideRecords
  /\ NaN # None /\ None \notin Uris /\ None \notin Readouts /\ None \notin Verdicts

\* True of all strings; the provers have no rule for it.
ASSUME Literals ==
  {"input", "own", "timeseries", "level_001", "none", "result_json"} \subseteq STRING

VARIABLES
  context,  \* the ComputeContext of the run
  remote,   \* the backend is behind HttpComputeBackend
  by,       \* "models" or "json"
  stage,    \* what the backend writes next
  draft,    \* the readout as far as it is written
  copied,   \* model_copy was used
  payload,  \* the JSON in the compute result
  verdict   \* of the gate

vars == <<context, remote, by, stage, draft, copied, payload, verdict>>

-----------------------------------------------------------------------------
\* The validators.

duplicated(values) ==
  {values[i] : i \in {j \in DOMAIN values : \E k \in 1 .. j - 1 : values[k] = values[j]}}

Elements(s) == {s[i] : i \in DOMAIN s}
Ids(findings) == [i \in DOMAIN findings |-> findings[i].id]
RolesOf(artifacts) == [i \in DOMAIN artifacts |-> artifacts[i].role]

\* Python's comparison of floats.
Precedes(x, y) == NaN \notin {x, y} /\ x < y

UncertaintyOk(f) ==
  \/ /\ f.kind = "interval" /\ f.level
     /\ None \notin {f.lower, f.upper}
     /\ ~Precedes(f.upper, f.lower)
  \/ f.kind = "none" /\ {f.lower, f.upper} = {None}
  \/ f.kind \notin {"interval", "none"}

FindingOk(f) == f.value # None /\ UncertaintyOk(f)

\* Seeded bug: local runs are forgotten (issue 18).
AllowedSchemesRemote == {"gs", "bigquery", "secret"}

AllowedSchemes == {"gs", "bigquery", "secret", "file"}

\* Seeded bug: a finished AnyUrl is taken as it is.
UriAsGiven(uri) == uri

\* An AnyUrl becomes text again; the scheme is only checked while parsing.
UriAsText(uri) == [uri EXCEPT !.prebuilt = FALSE]

ArtifactOk(a) ==
  LET uri == UriAsText(a.uri) IN
  uri.prebuilt \/ (uri.scheme \in AllowedSchemes /\ uri.path \notin TooLong)

\* Seeded bug: membership in place of a prefix.
ContainsTheBase(rules) == Elements(BASE_GUARDRAILS) \subseteq Elements(rules)

StartsWithTheBase(rules) ==
  /\ Len(rules) >= Len(BASE_GUARDRAILS)
  /\ SubSeq(rules, 1, Len(BASE_GUARDRAILS)) = BASE_GUARDRAILS

\* Seeded bug: revalidate_instances="never".
NestedGuideUnchecked(guide) == TRUE

\* revalidate_instances="always".
NestedGuideOk(guide) == StartsWithTheBase(guide.guardrails)

KnowledgeOk(workflow) == workflow # <<>> /\ workflow = [i \in 1 .. Len(workflow) |-> i]
PeriodOk(period) == period[1] <= period[2]
DigestsOk(digests) == digests # <<>> /\ duplicated(digests) = {}

CountOk(artifacts) == Len(artifacts) \in 1 .. MAX_SERVICE_OUTPUTS

RootOk(r) ==
  /\ r.aware
  /\ CountOk(r.artifacts) /\ Len(r.findings) <= MAX_FINDINGS
  /\ duplicated(Ids(r.findings)) = {}
  /\ duplicated(RolesOf(r.artifacts)) = {}
  /\ Elements(r.guide.recommended_narrative_order) \subseteq Elements(Ids(r.findings))

\* The validators of the parts, each run when its part is constructed.
PartsOk(r) ==
  /\ KnowledgeOk(r.workflow) /\ DigestsOk(r.digests) /\ PeriodOk(r.period)
  /\ \A i \in DOMAIN r.artifacts : ArtifactOk(r.artifacts[i])
  /\ \A i \in DOMAIN r.findings : FindingOk(r.findings[i])
  /\ StartsWithTheBase(r.guide.guardrails)

\* model_validate_json: every validator, of every part.
SchemaOk(r) == PartsOk(r) /\ RootOk(r)

\* In any JSON a URL is text; model_dump_json also turns NaN into null, while
\* JSON from elsewhere may spell it NaN, as json.dumps does.
JsonNumber(x) == IF x = NaN THEN None ELSE x
JsonFinding(f) ==
  [f EXCEPT !.value = JsonNumber(@), !.lower = JsonNumber(@), !.upper = JsonNumber(@)]
JsonArtifact(a) == [a EXCEPT !.uri.prebuilt = FALSE]

JsonText(r) ==
  [r EXCEPT !.artifacts = [i \in DOMAIN r.artifacts |-> JsonArtifact(r.artifacts[i])]]

\* Seeded bug: the numbers are passed on as they are.
DumpKeepingNaN(r) == JsonText(r)

Dump(r) ==
  [JsonText(r) EXCEPT !.findings = [i \in DOMAIN r.findings |-> JsonFinding(r.findings[i])]]

Serialized(r, how) == IF how = "models" THEN Dump(r) ELSE JsonText(r)

-----------------------------------------------------------------------------
\* The backend.

Blank(c) ==
  [about |-> c.run, aware |-> TRUE, workflow |-> <<1>>, digests |-> <<"input">>,
   period |-> <<1, 1>>, artifacts |-> <<>>, findings |-> <<>>,
   guide |-> [recommended_narrative_order |-> <<>>, guardrails |-> BASE_GUARDRAILS]]

Init ==
  /\ context \in Contexts
  /\ remote \in BOOLEAN /\ by \in {"models", "json"}
  /\ stage = "frame" /\ draft = Blank(context) /\ copied = FALSE
  /\ payload = None /\ verdict = None

\* A constructor refuses its arguments with a ValidationError; JSON written by
\* hand meets no constructor.
Write(r, valid, next) ==
  /\ draft' = r
  /\ stage' = IF by = "json" \/ valid THEN next ELSE "failed"
  /\ UNCHANGED <<context, remote, by, copied, payload, verdict>>

\* The identity (readout_request, readout_service, or a cached readout), the
\* static knowledge, the digests and the period covered.
WriteFrame == \E f \in Frames :
  /\ stage = "frame"
  /\ Write([draft EXCEPT !.about = IF f.about = None THEN context.run ELSE f.about,
                         !.aware = f.aware, !.workflow = f.workflow, !.digests = f.digests,
                         !.period = f.period],
           KnowledgeOk(f.workflow) /\ DigestsOk(f.digests) /\ PeriodOk(f.period), "artifacts")

\* What the backend is told: _encode_context leaves output_uris out.
KnownUris == IF remote THEN <<>> ELSE context.output_uris

Described(a) == IF a.uri # None THEN a ELSE [a EXCEPT !.uri = KnownUris[a.role]]

DescribeArtifact == \E a \in ArtifactDrafts :
  /\ stage = "artifacts" /\ Len(draft.artifacts) <= MAX_SERVICE_OUTPUTS
  /\ a.uri # None \/ a.role \in DOMAIN KnownUris
  /\ Write([draft EXCEPT !.artifacts = Append(@, Described(a))],
           ArtifactOk(Described(a)), "artifacts")

\* artifact_uri of a role the contract does not declare.
UnknownOutputRole == \E a \in ArtifactDrafts :
  /\ stage = "artifacts"
  /\ a.uri = None /\ a.role \notin DOMAIN KnownUris
  /\ stage' = "failed" /\ draft' = [draft EXCEPT !.artifacts = Append(@, a)]
  /\ UNCHANGED <<context, remote, by, copied, payload, verdict>>

ArtifactsDone == stage = "artifacts" /\ Write(draft, TRUE, "findings")

AddFinding == \E f \in FindingDrafts :
  /\ stage = "findings" /\ Len(draft.findings) <= MAX_FINDINGS
  /\ Write([draft EXCEPT !.findings = Append(@, f)], FindingOk(f), "findings")

FindingsDone == stage = "findings" /\ Write(draft, TRUE, "guide")

WriteGuide == \E g \in Guides :
  /\ stage = "guide"
  /\ Write([draft EXCEPT !.guide = g], StartsWithTheBase(g.guardrails), "root")

\* ModelReadout(...): of the parts only the guide is validated again.
Construct == stage = "root" /\ Write(draft, RootOk(draft) /\ NestedGuideOk(draft.guide), "built")

\* model_copy of a part before, or of the readout after, it was put together.
Copy(r) ==
  /\ by = "models" /\ ~copied
  /\ draft' = r /\ copied' = TRUE
  /\ UNCHANGED <<context, remote, by, stage, payload, verdict>>

CopyGuide == \E g \in Guides :
  stage \in {"root", "built"} /\ Copy([draft EXCEPT !.guide.guardrails = g.guardrails])

CopyArtifact == \E a \in ArtifactDrafts, i \in DOMAIN draft.artifacts :
  stage \in {"root", "built"} /\ a.uri # None /\ Copy([draft EXCEPT !.artifacts[i].uri = a.uri])

CopyReadout ==
  /\ stage = "built"
  /\ \/ Copy([draft EXCEPT !.findings = <<>>])
     \/ \E c \in Contexts : Copy([draft EXCEPT !.about = c.run])

Emit ==
  /\ stage = "built" /\ stage' = "emitted"
  /\ payload' = Serialized(draft, by)
  /\ UNCHANGED <<context, remote, by, draft, copied, verdict>>

\* The result has no output model_readout.
EmitNone ==
  /\ stage = "frame" /\ stage' = "emitted"
  /\ UNCHANGED <<context, remote, by, draft, copied, payload, verdict>>

-----------------------------------------------------------------------------
\* The gate.

Judge(json) ==
  IF json = None THEN "missing_readout"
  ELSE IF ~SchemaOk(json) THEN "invalid_readout"
  ELSE IF json.about # context.run THEN "readout_mismatch" ELSE "accepted"

Gate ==
  /\ stage = "emitted" /\ stage' = "judged"
  /\ verdict' = Judge(payload)
  /\ UNCHANGED <<context, remote, by, draft, copied, payload>>

Next ==
  \/ WriteFrame \/ DescribeArtifact \/ UnknownOutputRole \/ ArtifactsDone
  \/ AddFinding \/ FindingsDone \/ WriteGuide \/ Construct
  \/ CopyGuide \/ CopyArtifact \/ CopyReadout
  \/ Emit \/ EmitNone \/ Gate

Spec == Init /\ [][Next]_vars

-----------------------------------------------------------------------------
\* What a reader of the readout relies on.

Numbers(r) == UNION {{f.value, f.lower, f.upper} : f \in Elements(r.findings)}

\* Type correctness; JSON has no URL objects, that of the models no NaN, and
\* every run of the backend is at one known place.
TypeOK ==
  /\ context \in Contexts /\ remote \in BOOLEAN /\ by \in {"models", "json"} /\ copied \in BOOLEAN
  /\ stage \in {"frame", "artifacts", "findings", "guide", "root", "built", "emitted",
                "judged", "failed"}
  /\ draft \in Readouts /\ payload \in Readouts \cup {None}
  /\ verdict \in Verdicts \cup {None}
  /\ payload # None =>
       /\ by = "models" => NaN \notin Numbers(payload)
       /\ \A a \in Elements(payload.artifacts) : ~a.uri.prebuilt

Truthful(a) == a.role \in DOMAIN context.output_uris \ {ReadoutRole}

\* What the gate accepts is about this run and closed in itself, however it was
\* written: every step of the narrative is exactly one finding, every role one
\* artifact that carries no data in its URI, and the SDK's guardrails come
\* first, in their order.  Every interval has two ordered bounds, except that
\* JSON no model dumped may give a bound as NaN, which nothing refuses.
AcceptedReadoutsAreClosed == verdict = "accepted" =>
  /\ payload.about = context.run
  /\ \A id \in Elements(payload.guide.recommended_narrative_order) :
       \E i \in DOMAIN payload.findings :
         \A j \in DOMAIN payload.findings : payload.findings[j].id = id <=> j = i
  /\ \A i, j \in DOMAIN payload.artifacts :
       payload.artifacts[i].role = payload.artifacts[j].role => i = j
  /\ \A a \in Elements(payload.artifacts) : a.uri.scheme \notin {"data", "inline"}
  /\ \A f \in Elements(payload.findings) : f.kind = "interval" =>
       (by = "json" /\ NaN \in {f.lower, f.upper}) \/ f.lower <= f.upper
  /\ \A i \in DOMAIN BASE_GUARDRAILS : payload.guide.guardrails[i] = BASE_GUARDRAILS[i]

\* A guide altered with model_copy cannot enter a ModelReadout: whatever was
\* constructed, and not altered afterwards, starts with the SDK's guardrails
\* already in the backend's process, before any gate.
GuardrailsSurviveCopies ==
  [][stage' = "built" /\ stage # "built" /\ by = "models" =>
       SubSeq(draft'.guide.guardrails, 1, Len(BASE_GUARDRAILS)) = BASE_GUARDRAILS]_vars

\* What the models accept in the backend's process the gate accepts in the
\* runner's: a readout of this run that was constructed and never copied, with
\* numbers that JSON has, is not refused after a whole computation.
BuiltReadoutsPassTheGate ==
  stage = "judged" /\ payload # None /\ by = "models" /\ ~copied
    /\ NaN \notin Numbers(draft) /\ draft.about = context.run
  => verdict = "accepted"

\* A contract of protocol 1.0 may declare one output more than there may be
\* artifacts, in the place of the readout.
RoomForAll ==
  ReadoutRole \in DOMAIN context.output_uris
    \/ Cardinality(DOMAIN context.output_uris) <= MAX_SERVICE_OUTPUTS

HonestParts(r) ==
  /\ RoomForAll
  /\ r.about = context.run /\ r.aware /\ r.artifacts # <<>>
  /\ r.workflow # <<>> /\ \A i \in DOMAIN r.workflow : r.workflow[i] = i
  /\ r.digests # <<>> /\ duplicated(r.digests) = {} /\ r.period[1] <= r.period[2]
  /\ \A i, j \in DOMAIN r.artifacts : r.artifacts[i].role = r.artifacts[j].role => i = j
  /\ \A a \in Elements(r.artifacts) :
       /\ Truthful(a)
       /\ a.uri # None /\ [a.uri EXCEPT !.prebuilt = FALSE] = context.output_uris[a.role]
       /\ a.uri.scheme \in {"gs", "file"} /\ a.uri.path \notin TooLong
  /\ Len(r.findings) <= MAX_FINDINGS /\ NaN \notin Numbers(r)
  /\ \A f \in Elements(r.findings) : FindingOk(f)
  /\ \A i, j \in DOMAIN r.findings : r.findings[i].id = r.findings[j].id => i = j
  /\ \E extra \in {<<>>, <<"own">>} : r.guide.guardrails = BASE_GUARDRAILS \o extra

Narrated(r) ==
  Elements(r.guide.recommended_narrative_order) \subseteq Elements(Ids(r.findings))

Honest(r) ==
  /\ HonestParts(r)
  /\ stage \notin {"frame", "artifacts", "findings", "guide"} => Narrated(r)

\* The gate can be satisfied: a backend that describes outputs of the contract
\* at the places the context names, under the rules of the SDK, meets no
\* ValidationError and is accepted, on Cloud Storage and in a local run.  Two
\* bounds of the contract are wider than the readout's, and the premises leave
\* out what exceeds the latter: the length of a URI, and the number of outputs.
HonestReadoutsPass ==
  Honest(draft) /\ ~copied => stage # "failed" /\ verdict \in {None, "accepted"}
=============================================================================
