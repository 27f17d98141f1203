---------------------------- MODULE ReadoutProofs ----------------------------
(***************************************************************************)
(* Theorems about Readout and the reference service, for any contexts, any *)
(* parts a backend may write, any base guardrails and any bounds.  The     *)
(* argument: but for NaN, the validators only look at what model_dump_json *)
(* keeps, so the gate repeats the judgement of the models, and an honest   *)
(* document satisfies all of them.                                         *)
(***************************************************************************)
EXTENDS ForecastService, FiniteSetTheorems, SequenceTheorems, TLAPS

-----------------------------------------------------------------------------
\* The inductive invariant.

\* Every artifact has got its URI.
Placed(r) == \A i \in DOMAIN r.artifacts : r.artifacts[i].uri # None

\* What is emitted is the JSON of what was written, and is judged as it is.
FlowInv ==
  /\ payload # None => stage \in {"emitted", "judged"} /\ payload = Serialized(draft, by)
  /\ stage \in {"emitted", "judged"} /\ payload = None => draft.artifacts = <<>>
  /\ verdict = IF stage = "judged" THEN Judge(payload) ELSE None
  /\ stage = "frame" => draft = Blank(context)
  /\ stage # "failed" => Placed(draft)

\* What the models accepted satisfies their validators, unless it was altered
\* with model_copy.
ModelInv ==
  by = "models" /\ ~copied /\ stage # "failed" =>
    /\ PartsOk(draft)
    /\ stage = "built" \/ payload # None => RootOk(draft)

\* No honest document failed.
FailedInv == stage = "failed" /\ ~copied => ~Honest(draft)

IInv == TypeOK /\ FlowInv /\ ModelInv /\ FailedInv

-----------------------------------------------------------------------------
\* The validators.

\* A list starts with the base guardrails if and only if it agrees with them
\* position by position.
LEMMA BaseComesFirst ==
  ASSUME NEW rules \in Seq(STRING)
  PROVE  StartsWithTheBase(rules) <=>
           /\ Len(rules) >= Len(BASE_GUARDRAILS)
           /\ \A i \in DOMAIN BASE_GUARDRAILS : rules[i] = BASE_GUARDRAILS[i]
<1> DEFINE n == Len(BASE_GUARDRAILS)
<1>1. BASE_GUARDRAILS \in Seq(STRING) /\ n \in Nat /\ DOMAIN BASE_GUARDRAILS = 1 .. n
  BY ReadoutAssumption, LenProperties
<1>2. ASSUME Len(rules) >= n
      PROVE  SubSeq(rules, 1, n) = BASE_GUARDRAILS <=> \A i \in 1 .. n : rules[i] = BASE_GUARDRAILS[i]
  <2>1. \A i \in 1 .. n : rules[i] \in STRING
    BY <1>1, <1>2
  <2>2. /\ SubSeq(rules, 1, n) \in Seq(STRING) /\ Len(SubSeq(rules, 1, n)) = n
        /\ \A i \in 1 .. n : SubSeq(rules, 1, n)[i] = rules[i]
    <3>1. 1 \in Int /\ n \in Int /\ (n = 0 \/ 1 <= n)
      BY <1>1
    <3> QED BY <2>1, <3>1, SubSeqProperties
  <2>3. SubSeq(rules, 1, n) = BASE_GUARDRAILS
          <=> \A i \in 1 .. n : SubSeq(rules, 1, n)[i] = BASE_GUARDRAILS[i]
    BY <1>1, <2>2
  <2> QED BY <2>2, <2>3
<1> QED BY <1>1, <1>2 DEF StartsWithTheBase

\* duplicated: nothing is listed twice if and only if equal values stand at
\* equal positions.
LEMMA NoDuplicates ==
  ASSUME NEW S, NEW values \in Seq(S)
  PROVE  duplicated(values) = {} <=> \A i, j \in DOMAIN values : values[i] = values[j] => i = j
<1>1. DOMAIN values = 1 .. Len(values) /\ Len(values) \in Nat
  BY LenProperties
<1>2. ASSUME duplicated(values) = {}, NEW i \in DOMAIN values, NEW j \in DOMAIN values,
             values[i] = values[j]
      PROVE  i = j
  <2>1. ASSUME NEW k \in DOMAIN values, NEW l \in DOMAIN values, k < l, values[k] = values[l]
        PROVE  FALSE
    <3>1. k \in 1 .. l - 1
      BY <1>1, <2>1
    <3>2. values[l] \in duplicated(values)
      BY <2>1, <3>1 DEF duplicated
    <3> QED BY <1>2, <3>2
  <2> QED BY <1>1, <1>2, <2>1
<1>3. ASSUME \A i, j \in DOMAIN values : values[i] = values[j] => i = j
      PROVE  duplicated(values) = {}
  <2>1. ASSUME NEW i \in DOMAIN values, NEW k \in 1 .. i - 1, values[k] = values[i] PROVE FALSE
    BY <1>1, <1>3, <2>1
  <2> QED BY <2>1 DEF duplicated
<1> QED BY <1>2, <1>3

\* What stands at the positions of a readout.
LEMMA PartTypes ==
  ASSUME NEW r \in Readouts
  PROVE  /\ DOMAIN r.artifacts = 1 .. Len(r.artifacts) /\ Len(r.artifacts) \in Nat
         /\ DOMAIN r.findings = 1 .. Len(r.findings) /\ Len(r.findings) \in Nat
         /\ \A i \in DOMAIN r.artifacts : r.artifacts[i] \in Artifacts
         /\ \A i \in DOMAIN r.findings : r.findings[i] \in Findings
         /\ Ids(r.findings) \in Seq(STRING) /\ RolesOf(r.artifacts) \in Seq(STRING)
         /\ DOMAIN Ids(r.findings) = DOMAIN r.findings
         /\ DOMAIN RolesOf(r.artifacts) = DOMAIN r.artifacts
         /\ r.guide.guardrails \in Seq(STRING)
<1>1. r.artifacts \in Seq(Artifacts) /\ r.findings \in Seq(Findings) /\ r.guide \in GuideRecords
  BY DEF Readouts
<1>2. /\ DOMAIN r.artifacts = 1 .. Len(r.artifacts) /\ Len(r.artifacts) \in Nat
      /\ DOMAIN r.findings = 1 .. Len(r.findings) /\ Len(r.findings) \in Nat
      /\ \A i \in DOMAIN r.artifacts : r.artifacts[i] \in Artifacts
      /\ \A i \in DOMAIN r.findings : r.findings[i] \in Findings
  BY <1>1, LenProperties, ElementOfSeq
<1>3. Ids(r.findings) \in [1 .. Len(r.findings) -> STRING]
  BY <1>2 DEF Ids, Findings
<1>4. RolesOf(r.artifacts) \in [1 .. Len(r.artifacts) -> STRING]
  BY <1>2 DEF RolesOf, Artifacts
<1>5. Ids(r.findings) \in Seq(STRING) /\ RolesOf(r.artifacts) \in Seq(STRING)
  BY <1>2, <1>3, <1>4
<1>6. DOMAIN Ids(r.findings) = DOMAIN r.findings /\ DOMAIN RolesOf(r.artifacts) = DOMAIN r.artifacts
  BY DEF Ids, RolesOf
<1> QED BY <1>1, <1>2, <1>5, <1>6 DEF GuideRecords

-----------------------------------------------------------------------------
\* model_dump_json.

\* It keeps everything but NaN and the kind of object a URI is.
LEMMA DumpShape ==
  ASSUME NEW r \in Readouts, Placed(r)
  PROVE  /\ Dump(r) \in Readouts
         /\ Dump(r).about = r.about /\ Dump(r).aware = r.aware /\ Dump(r).workflow = r.workflow
         /\ Dump(r).digests = r.digests /\ Dump(r).period = r.period /\ Dump(r).guide = r.guide
         /\ DOMAIN Dump(r).artifacts = DOMAIN r.artifacts
         /\ DOMAIN Dump(r).findings = DOMAIN r.findings
         /\ Len(Dump(r).artifacts) = Len(r.artifacts)
         /\ \A i \in DOMAIN r.artifacts :
              /\ Dump(r).artifacts[i].role = r.artifacts[i].role
              /\ Dump(r).artifacts[i].uri = UriAsText(r.artifacts[i].uri)
              /\ Dump(r).artifacts[i].uri \in Uris /\ ~Dump(r).artifacts[i].uri.prebuilt
         /\ \A i \in DOMAIN r.findings :
              LET f == r.findings[i]
                  g == Dump(r).findings[i]
              IN  /\ g.id = f.id /\ g.kind = f.kind /\ g.level = f.level
                  /\ NaN \notin {g.value, g.lower, g.upper}
                  /\ NaN \notin {f.value, f.lower, f.upper} => g = f
<1> DEFINE A == [i \in DOMAIN r.artifacts |-> JsonArtifact(r.artifacts[i])]
           F == [i \in DOMAIN r.findings |-> JsonFinding(r.findings[i])]
<1>1. Dump(r) = [r EXCEPT !.artifacts = A, !.findings = F]
  BY DEF Dump, JsonText, Readouts
<1>2. ASSUME NEW i \in DOMAIN r.artifacts
      PROVE  /\ A[i] \in Artifacts /\ A[i].role = r.artifacts[i].role
             /\ A[i].uri = UriAsText(r.artifacts[i].uri) /\ A[i].uri \in Uris /\ ~A[i].uri.prebuilt
  <2>1. r.artifacts[i] \in Artifacts /\ r.artifacts[i].uri \in Uris
    BY PartTypes DEF Placed, Artifacts
  <2>2. UriAsText(r.artifacts[i].uri) \in Uris /\ ~UriAsText(r.artifacts[i].uri).prebuilt
    BY <2>1 DEF Uris, UriAsText
  <2>3. A[i] = [r.artifacts[i] EXCEPT !.uri = UriAsText(r.artifacts[i].uri)]
    BY <2>1 DEF JsonArtifact, UriAsText
  <2> QED BY <2>1, <2>2, <2>3 DEF Artifacts
<1>3. ASSUME NEW i \in DOMAIN r.findings
      PROVE  /\ F[i] \in Findings
             /\ F[i].id = r.findings[i].id /\ F[i].kind = r.findings[i].kind
             /\ F[i].level = r.findings[i].level
             /\ NaN \notin {F[i].value, F[i].lower, F[i].upper}
             /\ NaN \notin {r.findings[i].value, r.findings[i].lower, r.findings[i].upper}
                  => F[i] = r.findings[i]
  <2> DEFINE f == r.findings[i]
  <2>1. f \in Findings
    BY PartTypes
  <2>2. \A x \in Numerals : JsonNumber(x) \in Numerals /\ JsonNumber(x) # NaN
    BY ReadoutAssumption DEF Numerals, JsonNumber
  <2>3. /\ F[i] \in Findings
        /\ F[i].id = f.id /\ F[i].kind = f.kind /\ F[i].level = f.level
        /\ F[i].value = JsonNumber(f.value) /\ F[i].lower = JsonNumber(f.lower)
        /\ F[i].upper = JsonNumber(f.upper)
    BY <2>1, <2>2 DEF Findings, JsonFinding
  <2>4. ASSUME NaN \notin {f.value, f.lower, f.upper}
        PROVE  F[i] = f
    <3>1. JsonNumber(f.value) = f.value /\ JsonNumber(f.lower) = f.lower /\ JsonNumber(f.upper) = f.upper
      BY <2>4 DEF JsonNumber
    <3> QED BY <2>1, <2>3, <3>1 DEF Findings
  <2>5. NaN \notin {F[i].value, F[i].lower, F[i].upper}
    BY <2>1, <2>2, <2>3 DEF Findings
  <2> QED BY <2>3, <2>4, <2>5
<1>4. A \in Seq(Artifacts) /\ F \in Seq(Findings) /\ Len(A) = Len(r.artifacts)
  <2>1. A \in [1 .. Len(r.artifacts) -> Artifacts] /\ F \in [1 .. Len(r.findings) -> Findings]
    BY <1>2, <1>3, PartTypes
  <2>2. Len(r.artifacts) \in Nat /\ Len(r.findings) \in Nat
    BY PartTypes
  <2> HIDE DEF A, F
  <2> QED BY <2>1, <2>2
<1>5. DOMAIN A = DOMAIN r.artifacts /\ DOMAIN F = DOMAIN r.findings
  OBVIOUS
<1> HIDE DEF A, F
<1>6. /\ Dump(r) \in Readouts
      /\ Dump(r).about = r.about /\ Dump(r).aware = r.aware /\ Dump(r).workflow = r.workflow
      /\ Dump(r).digests = r.digests /\ Dump(r).period = r.period /\ Dump(r).guide = r.guide
      /\ Dump(r).artifacts = A /\ Dump(r).findings = F
  BY <1>1, <1>4 DEF Readouts
<1> QED BY <1>2, <1>3, <1>4, <1>5, <1>6

\* Numbers(r) has the numbers of every finding.
LEMMA FindingNumbers ==
  ASSUME NEW r \in Readouts, NaN \notin Numbers(r), NEW i \in DOMAIN r.findings
  PROVE  NaN \notin {r.findings[i].value, r.findings[i].lower, r.findings[i].upper}
<1>1. r.findings[i] \in Elements(r.findings)
  BY DEF Elements
<1> QED BY <1>1 DEF Numbers

\* Neither has the JSON of the models any NaN.
LEMMA DumpHasNoNaN ==
  ASSUME NEW r \in Readouts, Placed(r)
  PROVE  NaN \notin Numbers(Dump(r))
<1>1. ASSUME NEW f \in Elements(Dump(r).findings)
      PROVE  NaN \notin {f.value, f.lower, f.upper}
  <2>1. PICK i \in DOMAIN Dump(r).findings : f = Dump(r).findings[i]
    BY DEF Elements
  <2> QED BY <2>1, DumpShape
<1> QED BY <1>1 DEF Numbers

\* JSON from elsewhere keeps its numbers; without a NaN it is what the models
\* would have dumped.
LEMMA SerializedShape ==
  ASSUME NEW r \in Readouts, Placed(r), NEW how \in {"models", "json"}
  PROVE  /\ Serialized(r, how) \in Readouts
         /\ how = "models" => NaN \notin Numbers(Serialized(r, how))
         /\ \A i \in DOMAIN Serialized(r, how).artifacts :
              LET uri == Serialized(r, how).artifacts[i].uri IN uri \in Uris /\ ~uri.prebuilt
         /\ NaN \notin Numbers(r) => Serialized(r, how) = Dump(r)
<1> DEFINE F == [i \in DOMAIN r.findings |-> JsonFinding(r.findings[i])]
           text == JsonText(r)
<1>1. text = [r EXCEPT !.artifacts = Dump(r).artifacts]
  BY DEF JsonText, Dump, Readouts
<1>2. Dump(r).artifacts \in Seq(Artifacts) /\ Dump(r).findings = F
  BY DumpShape DEF Dump, JsonText, Readouts
<1>3. /\ text \in Readouts /\ text.artifacts = Dump(r).artifacts
      /\ Dump(r) = [text EXCEPT !.findings = F] /\ text.findings = r.findings
  BY <1>1, <1>2 DEF Dump, Readouts
<1>4. \A i \in DOMAIN Dump(r).artifacts :
        Dump(r).artifacts[i].uri \in Uris /\ ~Dump(r).artifacts[i].uri.prebuilt
  BY DumpShape
<1>5. ASSUME NaN \notin Numbers(r) PROVE text = Dump(r)
  <2>1. \A i \in DOMAIN r.findings : F[i] = r.findings[i]
    BY <1>2, <1>5, FindingNumbers, DumpShape
  <2>2. DOMAIN r.findings = 1 .. Len(r.findings) /\ r.findings \in Seq(Findings)
    BY PartTypes DEF Readouts
  <2>3. r.findings = [i \in DOMAIN r.findings |-> r.findings[i]]
    BY <2>2
  <2>4. F = r.findings
    BY <2>1, <2>3
  <2> HIDE DEF F, text
  <2> QED BY <1>3, <2>4 DEF Readouts
<1> HIDE DEF F, text
<1>6. CASE how = "models"
  BY <1>4, <1>6, DumpShape, DumpHasNoNaN DEF Serialized
<1>7. CASE how = "json"
  <2>1. Serialized(r, how) = text
    BY <1>7 DEF Serialized, text
  <2> QED BY <1>3, <1>4, <1>5, <1>7, <2>1
<1> QED BY <1>6, <1>7

\* The models and the gate agree: what model_dump_json keeps is all the
\* validators look at, if no number is NaN.
LEMMA DumpStaysValid ==
  ASSUME NEW r \in Readouts, Placed(r), NaN \notin Numbers(r), PartsOk(r), RootOk(r)
  PROVE  SchemaOk(Dump(r))
<1>1. ASSUME NEW i \in DOMAIN r.artifacts PROVE ArtifactOk(Dump(r).artifacts[i])
  <2>1. r.artifacts[i].uri \in Uris
    BY PartTypes DEF Placed, Artifacts
  <2>2. UriAsText(UriAsText(r.artifacts[i].uri)) = UriAsText(r.artifacts[i].uri)
    BY <2>1 DEF UriAsText, Uris
  <2>3. ArtifactOk(r.artifacts[i]) /\ Dump(r).artifacts[i].uri = UriAsText(r.artifacts[i].uri)
    BY DumpShape DEF PartsOk
  <2> QED BY <2>2, <2>3 DEF ArtifactOk
<1>2. ASSUME NEW i \in DOMAIN r.findings
      PROVE  Dump(r).findings[i] = r.findings[i] /\ FindingOk(Dump(r).findings[i])
  BY FindingNumbers, DumpShape DEF PartsOk
<1>3. PartsOk(Dump(r))
  BY <1>1, <1>2, DumpShape DEF PartsOk
<1>4. Ids(Dump(r).findings) = Ids(r.findings)
  BY <1>2, DumpShape DEF Ids
<1>5. RolesOf(Dump(r).artifacts) = RolesOf(r.artifacts)
  BY DumpShape DEF RolesOf
<1>6. RootOk(Dump(r))
  BY <1>4, <1>5, DumpShape DEF RootOk, CountOk
<1> QED BY <1>3, <1>6 DEF SchemaOk

\* What the validators of a document that came as JSON imply for its reader.
LEMMA ValidIsClosed ==
  ASSUME NEW json \in Readouts, SchemaOk(json),
         \A i \in DOMAIN json.artifacts : json.artifacts[i].uri \in Uris /\ ~json.artifacts[i].uri.prebuilt
  PROVE  /\ \A id \in Elements(json.guide.recommended_narrative_order) :
              \E i \in DOMAIN json.findings :
                \A j \in DOMAIN json.findings : json.findings[j].id = id <=> j = i
         /\ \A i, j \in DOMAIN json.artifacts :
              json.artifacts[i].role = json.artifacts[j].role => i = j
         /\ \A a \in Elements(json.artifacts) : a.uri.scheme \notin {"data", "inline"}
         /\ \A f \in Elements(json.findings) :
              f.kind = "interval" => NaN \in {f.lower, f.upper} \/ f.lower <= f.upper
         /\ \A i \in DOMAIN BASE_GUARDRAILS : json.guide.guardrails[i] = BASE_GUARDRAILS[i]
<1>1. PartsOk(json) /\ RootOk(json)
  BY DEF SchemaOk
<1>2. ASSUME NEW id \in Elements(json.guide.recommended_narrative_order)
      PROVE  \E i \in DOMAIN json.findings :
               \A j \in DOMAIN json.findings : json.findings[j].id = id <=> j = i
  <2> DEFINE ids == Ids(json.findings)
  <2>1. \A i \in DOMAIN json.findings : ids[i] = json.findings[i].id
    BY DEF Ids
  <2>2. PICK i \in DOMAIN json.findings : ids[i] = id
    BY <1>1, PartTypes DEF RootOk, Elements
  <2>3. \A k, l \in DOMAIN ids : ids[k] = ids[l] => k = l
    BY <1>1, PartTypes, NoDuplicates DEF RootOk
  <2> HIDE DEF ids
  <2>4. \A j \in DOMAIN json.findings : json.findings[j].id = id <=> j = i
    <3>1. DOMAIN ids = DOMAIN json.findings
      BY PartTypes DEF ids
    <3> QED BY <2>1, <2>2, <2>3, <3>1
  <2> QED BY <2>4
<1>3. ASSUME NEW i \in DOMAIN json.artifacts, NEW j \in DOMAIN json.artifacts,
             json.artifacts[i].role = json.artifacts[j].role
      PROVE  i = j
  <2> DEFINE roles == RolesOf(json.artifacts)
  <2>1. roles[i] = roles[j]
    BY <1>3 DEF RolesOf
  <2>2. i \in DOMAIN roles /\ j \in DOMAIN roles /\ roles \in Seq(STRING) /\ duplicated(roles) = {}
    BY <1>1, PartTypes DEF RootOk
  <2> HIDE DEF roles
  <2> QED BY <2>1, <2>2, NoDuplicates
<1>4. ASSUME NEW a \in Elements(json.artifacts) PROVE a.uri.scheme \notin {"data", "inline"}
  <2>1. PICK i \in DOMAIN json.artifacts : a = json.artifacts[i]
    BY DEF Elements
  <2>2. ArtifactOk(a) /\ a.uri \in Uris /\ ~a.uri.prebuilt
    BY <1>1, <2>1 DEF PartsOk
  <2>3. UriAsText(a.uri).scheme = a.uri.scheme /\ ~UriAsText(a.uri).prebuilt
    BY <2>2 DEF UriAsText, Uris
  <2> QED BY <2>2, <2>3 DEF ArtifactOk, AllowedSchemes
<1>5. ASSUME NEW f \in Elements(json.findings), f.kind = "interval", NaN \notin {f.lower, f.upper}
      PROVE  f.lower <= f.upper
  <2>1. PICK i \in DOMAIN json.findings : f = json.findings[i]
    BY DEF Elements
  <2>2. FindingOk(f) /\ f \in Findings
    BY <1>1, <2>1, PartTypes DEF PartsOk
  <2>3. None \notin {f.lower, f.upper} /\ ~Precedes(f.upper, f.lower)
    BY <1>5, <2>2 DEF FindingOk, UncertaintyOk
  <2>4. f.lower \in Int /\ f.upper \in Int
    BY <1>5, <2>2, <2>3 DEF Findings, Numerals
  <2> QED BY <1>5, <2>3, <2>4 DEF Precedes
<1>6. \A i \in DOMAIN BASE_GUARDRAILS : json.guide.guardrails[i] = BASE_GUARDRAILS[i]
  BY <1>1, PartTypes, BaseComesFirst DEF PartsOk
<1> QED BY <1>2, <1>3, <1>4, <1>5, <1>6

\* A document with one artifact per declared output has few enough.
LEMMA FewArtifacts ==
  ASSUME NEW r \in Readouts, context \in Contexts,
         \A i, j \in DOMAIN r.artifacts : r.artifacts[i].role = r.artifacts[j].role => i = j,
         \A i \in DOMAIN r.artifacts : Truthful(r.artifacts[i]), RoomForAll
  PROVE  Len(r.artifacts) <= MAX_SERVICE_OUTPUTS
<1> DEFINE n == Len(r.artifacts)
           declared == DOMAIN context.output_uris \ {ReadoutRole}
           roles == [i \in 1 .. n |-> r.artifacts[i].role]
<1>1. IsFiniteSet(declared) /\ Cardinality(declared) <= MAX_SERVICE_OUTPUTS
  <2> DEFINE outputs == DOMAIN context.output_uris
  <2>1. IsFiniteSet(outputs) /\ Cardinality(outputs) <= MAX_SERVICE_OUTPUTS + 1
    BY ReadoutAssumption
  <2>2. ReadoutRole \in outputs \/ Cardinality(outputs) <= MAX_SERVICE_OUTPUTS
    BY DEF RoomForAll
  <2> HIDE DEF outputs
  <2>3. CASE ReadoutRole \in outputs
    <3>1. IsFiniteSet(outputs \ {ReadoutRole})
            /\ Cardinality(outputs \ {ReadoutRole}) = Cardinality(outputs) - 1
      BY <2>1, <2>3, FS_RemoveElement
    <3>2. Cardinality(outputs) \in Nat
      BY <2>1, FS_CardinalityType
    <3> QED BY <2>1, <3>1, <3>2, ReadoutAssumption DEF outputs
  <2>4. CASE ReadoutRole \notin outputs
    <3>1. outputs \ {ReadoutRole} = outputs
      BY <2>4
    <3> QED BY <2>1, <2>2, <2>4, <3>1 DEF outputs
  <2> QED BY <2>3, <2>4
<1>2. n \in Nat /\ DOMAIN r.artifacts = 1 .. n
  BY PartTypes
<1>3. roles \in Injection(1 .. n, declared)
  <2>1. roles \in [1 .. n -> declared]
    BY <1>2 DEF Truthful
  <2>2. \A i, j \in 1 .. n : roles[i] = roles[j] => i = j
    BY <1>2
  <2> QED BY <2>1, <2>2 DEF Injection, IsInjective
<1>4. Cardinality(1 .. n) = n
  <2>1. 1 \in Int /\ n \in Int
    BY <1>2
  <2>2. Cardinality(1 .. n) = IF 1 > n THEN 0 ELSE n - 1 + 1
    BY <2>1, FS_Interval
  <2> QED BY <1>2, <2>2
<1>5. Cardinality(1 .. n) <= Cardinality(declared) /\ Cardinality(declared) \in Nat
  BY <1>1, <1>3, FS_Injection, FS_CardinalityType
<1> HIDE DEF n, declared
<1> QED BY <1>1, <1>2, <1>4, <1>5, ReadoutAssumption DEF n

\* An honest document satisfies every validator, of the models and of the gate.
LEMMA HonestIsValid ==
  ASSUME NEW r \in Readouts, context \in Contexts, HonestParts(r)
  PROVE  PartsOk(r) /\ Placed(r) /\ (Narrated(r) => RootOk(r))
<1>1. /\ r.workflow \in Seq(Int) /\ r.digests \in Seq(STRING) /\ r.artifacts \in Seq(Artifacts)
      /\ r.findings \in Seq(Findings) /\ r.guide.guardrails \in Seq(STRING)
  BY PartTypes DEF Readouts
<1>2. KnowledgeOk(r.workflow)
  <2>1. r.workflow # <<>> /\ \A i \in DOMAIN r.workflow : r.workflow[i] = i
    BY DEF HonestParts
  <2>2. r.workflow \in [1 .. Len(r.workflow) -> Int] /\ DOMAIN r.workflow = 1 .. Len(r.workflow)
    BY <1>1
  <2>3. r.workflow = [i \in 1 .. Len(r.workflow) |-> i]
    BY <2>1, <2>2
  <2> QED BY <2>1, <2>3 DEF KnowledgeOk
<1>3. DigestsOk(r.digests) /\ PeriodOk(r.period)
  BY DEF HonestParts, DigestsOk, PeriodOk
<1>4. ASSUME NEW i \in DOMAIN r.artifacts
      PROVE  /\ r.artifacts[i].uri # None /\ Truthful(r.artifacts[i])
             /\ ArtifactOk(r.artifacts[i])
  <2>1. r.artifacts[i] \in Elements(r.artifacts)
    BY DEF Elements
  <2>2. /\ r.artifacts[i].uri # None /\ Truthful(r.artifacts[i])
        /\ r.artifacts[i].uri.scheme \in {"gs", "file"} /\ r.artifacts[i].uri.path \notin TooLong
    BY <2>1 DEF HonestParts
  <2>3. r.artifacts[i].uri \in Uris
    BY <2>2, PartTypes DEF Artifacts
  <2>4. /\ UriAsText(r.artifacts[i].uri).scheme = r.artifacts[i].uri.scheme
        /\ UriAsText(r.artifacts[i].uri).path = r.artifacts[i].uri.path
    BY <2>3 DEF UriAsText, Uris
  <2> QED BY <2>2, <2>4 DEF ArtifactOk, AllowedSchemes
<1>5. ASSUME NEW i \in DOMAIN r.findings PROVE FindingOk(r.findings[i])
  <2>1. r.findings[i] \in Elements(r.findings)
    BY DEF Elements
  <2> QED BY <2>1 DEF HonestParts
<1>6. StartsWithTheBase(r.guide.guardrails)
  <2>1. PICK extra \in {<<>>, <<"own">>} : r.guide.guardrails = BASE_GUARDRAILS \o extra
    BY DEF HonestParts
  <2>2. BASE_GUARDRAILS \in Seq(STRING) /\ extra \in Seq(STRING)
    <3>1. <<>> \in Seq(STRING) /\ <<"own">> \in Seq(STRING)
      BY Literals
    <3> QED BY <3>1, ReadoutAssumption
  <2>3. /\ Len(BASE_GUARDRAILS \o extra) >= Len(BASE_GUARDRAILS)
        /\ \A i \in DOMAIN BASE_GUARDRAILS : (BASE_GUARDRAILS \o extra)[i] = BASE_GUARDRAILS[i]
    BY <2>2
  <2> QED BY <1>1, <2>1, <2>3, BaseComesFirst
<1>7. PartsOk(r)
  BY <1>2, <1>3, <1>4, <1>5, <1>6 DEF PartsOk
<1>8. CountOk(r.artifacts)
  <2>1. Len(r.artifacts) <= MAX_SERVICE_OUTPUTS
    BY <1>4, FewArtifacts DEF HonestParts
  <2>2. r.artifacts # <<>> /\ Len(r.artifacts) \in Nat
    BY <1>1 DEF HonestParts
  <2> QED BY <1>1, <2>1, <2>2, ReadoutAssumption DEF CountOk
<1>9. duplicated(Ids(r.findings)) = {}
  <2> DEFINE ids == Ids(r.findings)
  <2>1. \A i \in DOMAIN r.findings : ids[i] = r.findings[i].id
    BY DEF Ids
  <2>2. ids \in Seq(STRING) /\ DOMAIN ids = DOMAIN r.findings
    BY PartTypes
  <2> HIDE DEF ids
  <2>3. \A i, j \in DOMAIN ids : ids[i] = ids[j] => i = j
    BY <2>1, <2>2 DEF HonestParts
  <2> QED BY <2>2, <2>3, NoDuplicates DEF ids
<1>10. duplicated(RolesOf(r.artifacts)) = {}
  <2> DEFINE roles == RolesOf(r.artifacts)
  <2>1. \A i \in DOMAIN r.artifacts : roles[i] = r.artifacts[i].role
    BY DEF RolesOf
  <2>2. roles \in Seq(STRING) /\ DOMAIN roles = DOMAIN r.artifacts
    BY PartTypes
  <2> HIDE DEF roles
  <2>3. \A i, j \in DOMAIN roles : roles[i] = roles[j] => i = j
    BY <2>1, <2>2 DEF HonestParts
  <2> QED BY <2>2, <2>3, NoDuplicates DEF roles
<1>11. Narrated(r) => RootOk(r)
  BY <1>8, <1>9, <1>10 DEF RootOk, Narrated, HonestParts
<1> QED BY <1>4, <1>7, <1>11 DEF Placed

\* The document the backend starts from.
LEMMA BlankIsFine ==
  ASSUME NEW c \in Contexts
  PROVE  Blank(c) \in Readouts /\ PartsOk(Blank(c)) /\ Blank(c).artifacts = <<>>
<1>1. Blank(c) \in Readouts
  <2>1. <<"input">> \in Seq(STRING) /\ <<1>> \in Seq(Int) /\ <<1, 1>> \in Int \X Int
    <3>1. "input" \in STRING
      BY Literals
    <3> QED BY <3>1
  <2>2. c.run \in STRING /\ BASE_GUARDRAILS \in Seq(STRING)
    BY ReadoutAssumption
  <2>3. [recommended_narrative_order |-> <<>>, guardrails |-> BASE_GUARDRAILS] \in GuideRecords
    BY <2>2 DEF GuideRecords
  <2> QED BY <2>1, <2>2, <2>3 DEF Blank, Readouts
<1>2. KnowledgeOk(<<1>>)
  <2>1. <<1>> = [i \in 1 .. Len(<<1>>) |-> i]
    OBVIOUS
  <2> QED BY <2>1 DEF KnowledgeOk
<1>3. DigestsOk(<<"input">>)
  <2>1. "input" \in STRING
    BY Literals
  <2>2. <<"input">> \in Seq(STRING) /\ \A i, j \in DOMAIN <<"input">> : i = j
    BY <2>1
  <2> QED BY <2>2, NoDuplicates DEF DigestsOk
<1>4. StartsWithTheBase(BASE_GUARDRAILS)
  BY BaseComesFirst, ReadoutAssumption
<1> QED BY <1>1, <1>2, <1>3, <1>4 DEF Blank, PartsOk, PeriodOk

-----------------------------------------------------------------------------
\* The inductive invariant holds at the start, and every action keeps it.

LEMMA Initially == Init => IInv
<1> SUFFICES ASSUME Init PROVE IInv
  OBVIOUS
<1>1. draft \in Readouts /\ PartsOk(draft) /\ draft.artifacts = <<>>
  BY BlankIsFine DEF Init
<1>2. TypeOK
  BY <1>1 DEF Init, TypeOK
<1>3. FlowInv
  BY <1>1 DEF Init, FlowInv, Placed
<1>4. ModelInv /\ FailedInv
  BY <1>1 DEF Init, ModelInv, FailedInv
<1> QED BY <1>2, <1>3, <1>4 DEF IInv

\* While a backend writes nothing was emitted or judged.
Writing == {"frame", "artifacts", "findings", "guide", "root"}

\* A constructor that refuses exactly what its validators refuse, and leaves a
\* document whose parts are fine, keeps the invariant.
LEMMA WriteKeeps ==
  ASSUME IInv, stage \in Writing, NEW r \in Readouts, NEW valid \in BOOLEAN,
         NEW next \in (Writing \ {"frame"}) \cup {"built"}, Write(r, valid, next), Placed(r),
         by = "models" /\ ~copied /\ valid => PartsOk(r) /\ (next = "built" => RootOk(r)),
         by = "models" /\ PartsOk(r) /\ (next = "built" => RootOk(r)) => valid
  PROVE  IInv'
<1>1. payload = None /\ payload' = None /\ verdict' = None /\ draft' = r
  BY DEF Write, IInv, FlowInv, Writing
<1>2. UNCHANGED <<context, remote, by, copied>> /\ context \in Contexts
  BY DEF Write, IInv, TypeOK
<1>3. stage' \in {next, "failed"} /\ (stage' = "failed" => by = "models" /\ ~valid)
  BY DEF Write, IInv, TypeOK, Writing
<1>4. TypeOK'
  BY <1>1, <1>2, <1>3 DEF IInv, TypeOK, Writing
<1>5. FlowInv'
  BY <1>1, <1>3 DEF FlowInv, Writing
<1>6. ModelInv'
  <2>1. SUFFICES ASSUME by = "models", ~copied, stage' # "failed"
                 PROVE  PartsOk(r) /\ (stage' = "built" => RootOk(r))
    BY <1>1, <1>2 DEF ModelInv
  <2>2. valid /\ stage' = next
    BY <2>1, <1>3 DEF Write
  <2> QED BY <2>1, <2>2
<1>7. FailedInv'
  <2>1. SUFFICES ASSUME stage' = "failed", HonestParts(draft)', Narrated(draft)'
                 PROVE  FALSE
    BY DEF FailedInv, Honest
  <2>2. HonestParts(r) /\ Narrated(r)
    BY <2>1, <1>1, <1>2 DEF HonestParts, Narrated, Truthful, RoomForAll
  <2>3. PartsOk(r) /\ RootOk(r)
    BY <2>2, <1>2, HonestIsValid
  <2> QED BY <2>1, <2>3, <1>3
<1> QED BY <1>4, <1>5, <1>6, <1>7 DEF IInv

\* The first part says which run the document is about.
LEMMA FrameStep == IInv /\ WriteFrame => IInv'
<1> SUFFICES ASSUME IInv, WriteFrame PROVE IInv'
  OBVIOUS
<1>1. PICK f \in Frames :
        /\ stage = "frame"
        /\ Write([draft EXCEPT !.about = IF f.about = None THEN context.run ELSE f.about,
                               !.aware = f.aware, !.workflow = f.workflow, !.digests = f.digests,
                               !.period = f.period],
                 KnowledgeOk(f.workflow) /\ DigestsOk(f.digests) /\ PeriodOk(f.period), "artifacts")
  BY DEF WriteFrame
<1> DEFINE about == IF f.about = None THEN context.run ELSE f.about
           r == [draft EXCEPT !.about = about,
                              !.aware = f.aware, !.workflow = f.workflow, !.digests = f.digests,
                              !.period = f.period]
           valid == KnowledgeOk(f.workflow) /\ DigestsOk(f.digests) /\ PeriodOk(f.period)
<1>2. /\ draft = Blank(context) /\ context \in Contexts /\ draft \in Readouts
      /\ PartsOk(draft) /\ draft.artifacts = <<>>
  BY <1>1, BlankIsFine DEF IInv, TypeOK, FlowInv
<1>3. /\ f \in [about : STRING \cup {None}, aware : BOOLEAN, workflow : Seq(Int),
                digests : Seq(STRING), period : Int \X Int]
      /\ about \in STRING
  BY <1>2, ReadoutAssumption
<1> HIDE DEF about
<1>4. /\ r \in Readouts /\ r.workflow = f.workflow /\ r.digests = f.digests /\ r.period = f.period
      /\ r.artifacts = draft.artifacts /\ r.findings = draft.findings /\ r.guide = draft.guide
  BY <1>2, <1>3 DEF Readouts
<1>5. Write(r, valid, "artifacts") /\ valid \in BOOLEAN
  BY <1>1 DEF about, KnowledgeOk, DigestsOk, PeriodOk
<1>6. Placed(r) /\ (valid <=> PartsOk(r))
  BY <1>2, <1>4 DEF PartsOk, Placed
<1> HIDE DEF r, valid
<1> QED BY <1>1, <1>4, <1>5, <1>6, WriteKeeps DEF Writing

\* One more artifact.
LEMMA AppendArtifact ==
  ASSUME NEW r \in Readouts, NEW a \in Artifacts
  PROVE  LET s == [r EXCEPT !.artifacts = Append(@, a)]
         IN  /\ s \in Readouts
             /\ Placed(s) <=> Placed(r) /\ a.uri # None
             /\ PartsOk(s) <=> PartsOk(r) /\ ArtifactOk(a)
<1> DEFINE s == [r EXCEPT !.artifacts = Append(r.artifacts, a)]
           n == Len(r.artifacts)
<1>1. s \in Readouts /\ s.artifacts = Append(r.artifacts, a)
  <2>1. Append(r.artifacts, a) \in Seq(Artifacts)
    BY DEF Readouts
  <2> QED BY <2>1 DEF Readouts
<1>2. /\ s.workflow = r.workflow /\ s.digests = r.digests /\ s.period = r.period
      /\ s.findings = r.findings /\ s.guide = r.guide
  BY DEF Readouts
<1>3. /\ n \in Nat /\ DOMAIN r.artifacts = 1 .. n /\ DOMAIN s.artifacts = 1 .. n + 1
      /\ \A i \in 1 .. n : s.artifacts[i] = r.artifacts[i]
      /\ s.artifacts[n + 1] = a
  BY <1>1, PartTypes DEF Readouts
<1> HIDE DEF s, n
<1>4. Placed(s) <=> Placed(r) /\ a.uri # None
  <2>1. 1 .. n + 1 = 1 .. n \cup {n + 1}
    BY <1>3
  <2>2. (\A i \in 1 .. n : s.artifacts[i].uri # None) <=> \A i \in 1 .. n : r.artifacts[i].uri # None
    BY <1>3, Zenon
  <2>3. s.artifacts[n + 1].uri = a.uri
    BY <1>3, Zenon
  <2> QED BY <1>3, <2>1, <2>2, <2>3, Zenon DEF Placed
<1>5. (\A i \in DOMAIN s.artifacts : ArtifactOk(s.artifacts[i]))
        <=> (\A i \in DOMAIN r.artifacts : ArtifactOk(r.artifacts[i])) /\ ArtifactOk(a)
  <2>1. 1 .. n + 1 = 1 .. n \cup {n + 1}
    BY <1>3
  <2>2. \A i \in 1 .. n : ArtifactOk(s.artifacts[i]) <=> ArtifactOk(r.artifacts[i])
    BY <1>3, Zenon
  <2>3. ArtifactOk(s.artifacts[n + 1]) <=> ArtifactOk(a)
    BY <1>3, Zenon
  <2> QED BY <1>3, <2>1, <2>2, <2>3, Zenon
<1>6. PartsOk(s) <=> PartsOk(r) /\ ArtifactOk(a)
  BY <1>2, <1>5 DEF PartsOk
<1> QED BY <1>1, <1>4, <1>6 DEF s

\* One more finding.
LEMMA AppendFinding ==
  ASSUME NEW r \in Readouts, NEW f \in Findings
  PROVE  LET s == [r EXCEPT !.findings = Append(@, f)]
         IN  /\ s \in Readouts
             /\ Placed(s) <=> Placed(r)
             /\ PartsOk(s) <=> PartsOk(r) /\ FindingOk(f)
<1> DEFINE s == [r EXCEPT !.findings = Append(r.findings, f)]
           n == Len(r.findings)
<1>1. s \in Readouts /\ s.findings = Append(r.findings, f)
  <2>1. Append(r.findings, f) \in Seq(Findings)
    BY DEF Readouts
  <2> QED BY <2>1 DEF Readouts
<1>2. /\ s.workflow = r.workflow /\ s.digests = r.digests /\ s.period = r.period
      /\ s.artifacts = r.artifacts /\ s.guide = r.guide
  BY DEF Readouts
<1>3. /\ n \in Nat /\ DOMAIN r.findings = 1 .. n /\ DOMAIN s.findings = 1 .. n + 1
      /\ \A i \in 1 .. n : s.findings[i] = r.findings[i]
      /\ s.findings[n + 1] = f
  BY <1>1, PartTypes DEF Readouts
<1> HIDE DEF s, n
<1>4. Placed(s) <=> Placed(r)
  BY <1>2 DEF Placed
<1>5. (\A i \in DOMAIN s.findings : FindingOk(s.findings[i]))
        <=> (\A i \in DOMAIN r.findings : FindingOk(r.findings[i])) /\ FindingOk(f)
  <2>1. 1 .. n + 1 = 1 .. n \cup {n + 1}
    BY <1>3
  <2>2. \A i \in 1 .. n : FindingOk(s.findings[i]) <=> FindingOk(r.findings[i])
    BY <1>3, Zenon
  <2>3. FindingOk(s.findings[n + 1]) <=> FindingOk(f)
    BY <1>3, Zenon
  <2> QED BY <1>3, <2>1, <2>2, <2>3, Zenon
<1>6. PartsOk(s) <=> PartsOk(r) /\ FindingOk(f)
  BY <1>2, <1>5 DEF PartsOk
<1> QED BY <1>1, <1>4, <1>6 DEF s

LEMMA DescribeStep == IInv /\ DescribeArtifact => IInv'
<1> SUFFICES ASSUME IInv, DescribeArtifact PROVE IInv'
  OBVIOUS
<1>1. PICK d \in ArtifactDrafts :
        /\ stage = "artifacts"
        /\ d.uri # None \/ d.role \in DOMAIN KnownUris
        /\ Write([draft EXCEPT !.artifacts = Append(@, Described(d))],
                 ArtifactOk(Described(d)), "artifacts")
  BY DEF DescribeArtifact
<1> DEFINE a == Described(d)
           r == [draft EXCEPT !.artifacts = Append(draft.artifacts, a)]
<1>2. a \in Artifacts /\ a.uri # None
  <2>1. d \in Artifacts
    BY ReadoutAssumption
  <2>2. CASE d.uri # None
    BY <2>1, <2>2 DEF Described
  <2>3. CASE d.uri = None
    <3>1. d.role \in DOMAIN context.output_uris /\ KnownUris = context.output_uris
      BY <1>1, <2>3 DEF KnownUris
    <3>2. KnownUris[d.role] \in Uris
      BY <3>1, ReadoutAssumption DEF IInv, TypeOK
    <3>3. a = [d EXCEPT !.uri = KnownUris[d.role]]
      BY <2>3 DEF Described
    <3> QED BY <2>1, <3>2, <3>3, ReadoutAssumption DEF Artifacts
  <2> QED BY <2>2, <2>3
<1>3. draft \in Readouts /\ Placed(draft) /\ (by = "models" /\ ~copied => PartsOk(draft))
  BY <1>1 DEF IInv, TypeOK, FlowInv, ModelInv
<1> HIDE DEF a
<1>4. r \in Readouts /\ Placed(r) /\ (PartsOk(r) <=> PartsOk(draft) /\ ArtifactOk(a))
  BY <1>2, <1>3, AppendArtifact
<1>5. Write(r, ArtifactOk(a), "artifacts") /\ stage \in Writing /\ ArtifactOk(a) \in BOOLEAN
  BY <1>1 DEF a, Writing, ArtifactOk
<1> HIDE DEF r
<1> QED BY <1>3, <1>4, <1>5, WriteKeeps DEF Writing

LEMMA FindingStep == IInv /\ AddFinding => IInv'
<1> SUFFICES ASSUME IInv, AddFinding PROVE IInv'
  OBVIOUS
<1>1. PICK f \in FindingDrafts :
        /\ stage = "findings"
        /\ Write([draft EXCEPT !.findings = Append(@, f)], FindingOk(f), "findings")
  BY DEF AddFinding
<1> DEFINE r == [draft EXCEPT !.findings = Append(draft.findings, f)]
<1>2. draft \in Readouts /\ Placed(draft) /\ (by = "models" /\ ~copied => PartsOk(draft))
  BY <1>1 DEF IInv, TypeOK, FlowInv, ModelInv
<1>3. r \in Readouts /\ Placed(r) /\ (PartsOk(r) <=> PartsOk(draft) /\ FindingOk(f))
  BY <1>2, AppendFinding, ReadoutAssumption
<1>4. Write(r, FindingOk(f), "findings") /\ stage \in Writing /\ FindingOk(f) \in BOOLEAN
  BY <1>1 DEF Writing, FindingOk
<1> HIDE DEF r
<1> QED BY <1>2, <1>3, <1>4, WriteKeeps DEF Writing

LEMMA GuideStep == IInv /\ WriteGuide => IInv'
<1> SUFFICES ASSUME IInv, WriteGuide PROVE IInv'
  OBVIOUS
<1>1. PICK g \in Guides :
        stage = "guide" /\ Write([draft EXCEPT !.guide = g], StartsWithTheBase(g.guardrails), "root")
  BY DEF WriteGuide
<1> DEFINE r == [draft EXCEPT !.guide = g]
<1>2. draft \in Readouts /\ Placed(draft) /\ (by = "models" /\ ~copied => PartsOk(draft))
  BY <1>1 DEF IInv, TypeOK, FlowInv, ModelInv
<1>3. /\ r \in Readouts /\ r.guide = g /\ r.artifacts = draft.artifacts
      /\ r.findings = draft.findings /\ r.workflow = draft.workflow /\ r.digests = draft.digests
      /\ r.period = draft.period
  BY <1>2, ReadoutAssumption DEF Readouts
<1>4. Placed(r) /\ (PartsOk(r) => StartsWithTheBase(g.guardrails))
      /\ (PartsOk(draft) /\ StartsWithTheBase(g.guardrails) => PartsOk(r))
  BY <1>2, <1>3 DEF PartsOk, Placed
<1>5. /\ Write(r, StartsWithTheBase(g.guardrails), "root") /\ stage \in Writing
      /\ StartsWithTheBase(g.guardrails) \in BOOLEAN
  BY <1>1 DEF Writing, StartsWithTheBase
<1> HIDE DEF r
<1> QED BY <1>2, <1>3, <1>4, <1>5, WriteKeeps DEF Writing

\* Nothing is written: the backend goes on, or puts the parts together.
LEMMA OnwardStep == IInv /\ (ArtifactsDone \/ FindingsDone \/ Construct) => IInv'
<1> SUFFICES ASSUME IInv, ArtifactsDone \/ FindingsDone \/ Construct PROVE IInv'
  OBVIOUS
<1>1. stage \in Writing \ {"frame"} /\ draft \in Readouts /\ Placed(draft)
  BY DEF ArtifactsDone, FindingsDone, Construct, Writing, IInv, TypeOK, FlowInv
<1>2. by = "models" /\ ~copied => PartsOk(draft)
  BY <1>1 DEF IInv, ModelInv, Writing
<1>3. ASSUME NEW next \in {"findings", "guide"}, Write(draft, TRUE, next) PROVE IInv'
  BY <1>1, <1>2, <1>3, WriteKeeps DEF Writing
<1>4. CASE Construct
  <2> DEFINE valid == RootOk(draft) /\ NestedGuideOk(draft.guide)
  <2>1. Write(draft, valid, "built") /\ valid \in BOOLEAN
    BY <1>4 DEF Construct, RootOk, NestedGuideOk
  <2>2. PartsOk(draft) => StartsWithTheBase(draft.guide.guardrails)
    BY DEF PartsOk
  <2>3. PartsOk(draft) /\ RootOk(draft) => valid
    BY <2>2 DEF NestedGuideOk
  <2>4. valid => RootOk(draft)
    OBVIOUS
  <2> HIDE DEF valid
  <2> QED BY <1>1, <1>2, <2>1, <2>3, <2>4, WriteKeeps
<1> QED BY <1>3, <1>4 DEF ArtifactsDone, FindingsDone

\* The reference service writes all parts at once, with findings of its own.
LEMMA ForecastStep == IInv /\ RunForecast => IInv'
<1> SUFFICES ASSUME IInv, RunForecast PROVE IInv'
  OBVIOUS
<1> DEFINE r == ForecastReadout
<1>1. /\ stage = "frame" /\ Write(r, PartsOk(r), "root") /\ context \in Contexts
      /\ RESULT_ROLE \in DOMAIN context.output_uris
  BY DEF RunForecast, FORECAST_OUTPUT_ROLES, IInv, TypeOK
<1>2. ForecastArtifacts \in Seq(Artifacts) /\ ForecastArtifacts[1].uri # None
      /\ DOMAIN ForecastArtifacts = {1}
  <2> DEFINE u == [context.output_uris[RESULT_ROLE] EXCEPT !.prebuilt = TRUE]
             a == [role |-> RESULT_ROLE, uri |-> u]
  <2>1. context.output_uris[RESULT_ROLE] \in Uris
    BY <1>1, ReadoutAssumption
  <2>2. u \in Uris
    BY <2>1 DEF Uris
  <2> HIDE DEF u
  <2>3. a \in Artifacts /\ a.uri # None
    BY <2>2, Literals, ReadoutAssumption DEF Artifacts, RESULT_ROLE
  <2>4. ForecastArtifacts = <<a>>
    BY DEF ForecastArtifacts, u
  <2> HIDE DEF a
  <2> QED BY <2>3, <2>4
<1>3. ForecastFindings \in Seq(Findings)
  <2> DEFINE f == [id |-> "level_001", value |-> 120, kind |-> "none", level |-> FALSE,
                   lower |-> None, upper |-> None]
  <2>1. f \in Findings
    BY Literals DEF Findings, Numerals
  <2>2. ForecastFindings = <<f>>
    BY DEF ForecastFindings
  <2> HIDE DEF f
  <2> QED BY <2>1, <2>2
<1>4. ForecastGuide \in GuideRecords
  <2>1. <<"level_001">> \in Seq(STRING) /\ BASE_GUARDRAILS \in Seq(STRING)
    BY Literals, ReadoutAssumption
  <2> QED BY <2>1 DEF ForecastGuide, GuideRecords
<1>5. r \in Readouts
  <2>1. ForecastWorkflow \in Seq(Int) /\ ForecastPeriod \in Int \X Int
    BY DEF ForecastWorkflow, ForecastPeriod
  <2>2. ForecastDigests \in Seq(STRING)
    BY Literals DEF ForecastDigests
  <2>3. context.run \in STRING
    BY <1>1, ReadoutAssumption
  <2> QED BY <1>2, <1>3, <1>4, <2>1, <2>2, <2>3 DEF ForecastReadout, Readouts
<1>6. r.artifacts = ForecastArtifacts
  BY DEF ForecastReadout
<1>7. Placed(r) /\ PartsOk(r) \in BOOLEAN
  BY <1>2, <1>6 DEF Placed, PartsOk
<1> HIDE DEF r
<1> QED BY <1>1, <1>5, <1>7, WriteKeeps DEF Writing

\* model_copy: whatever it changes, the document is no longer vouched for.
LEMMA CopyKeeps ==
  ASSUME IInv, stage \in {"root", "built"}, NEW r \in Readouts, Placed(r), Copy(r)
  PROVE  IInv'
<1>1. payload = None /\ payload' = None /\ verdict' = None /\ draft' = r /\ stage' = stage /\ copied'
  BY DEF Copy, IInv, FlowInv
<1>2. UNCHANGED <<context, remote, by>>
  BY DEF Copy
<1>3. TypeOK'
  BY <1>1, <1>2 DEF IInv, TypeOK
<1>4. FlowInv'
  BY <1>1 DEF FlowInv
<1> QED BY <1>1, <1>3, <1>4 DEF IInv, ModelInv, FailedInv

\* model_copy voids what the models promised, but keeps the types.
LEMMA CopyStep == IInv /\ (CopyGuide \/ CopyArtifact \/ CopyReadout) => IInv'
<1> SUFFICES ASSUME IInv, CopyGuide \/ CopyArtifact \/ CopyReadout PROVE IInv'
  OBVIOUS
<1>1. draft \in Readouts /\ Placed(draft) /\ stage \in {"root", "built"}
  BY DEF CopyGuide, CopyArtifact, CopyReadout, IInv, TypeOK, FlowInv
<1>2. CASE CopyGuide
  <2>1. PICK g \in Guides : Copy([draft EXCEPT !.guide.guardrails = g.guardrails])
    BY <1>2 DEF CopyGuide
  <2> DEFINE guide == [draft.guide EXCEPT !.guardrails = g.guardrails]
             r == [draft EXCEPT !.guide = guide]
  <2>2. draft.guide \in GuideRecords /\ g \in GuideRecords
    BY <1>1, ReadoutAssumption DEF Readouts
  <2>3. guide \in GuideRecords
    BY <2>2 DEF GuideRecords
  <2>4. Copy(r)
    BY <2>1
  <2> HIDE DEF guide
  <2>5. r \in Readouts /\ r.artifacts = draft.artifacts
    BY <1>1, <2>3 DEF Readouts
  <2> HIDE DEF r
  <2> QED BY <1>1, <2>4, <2>5, CopyKeeps DEF Placed
<1>3. CASE CopyArtifact
  <2>1. PICK a \in ArtifactDrafts, i \in DOMAIN draft.artifacts :
          a.uri # None /\ Copy([draft EXCEPT !.artifacts[i].uri = a.uri])
    BY <1>3 DEF CopyArtifact
  <2> DEFINE artifact == [draft.artifacts[i] EXCEPT !.uri = a.uri]
             artifacts == [draft.artifacts EXCEPT ![i] = artifact]
             r == [draft EXCEPT !.artifacts = artifacts]
  <2>2. draft.artifacts[i] \in Artifacts /\ a \in Artifacts
    BY <1>1, <2>1, PartTypes, ReadoutAssumption
  <2>3. artifact \in Artifacts /\ artifact.uri # None
    BY <2>1, <2>2 DEF Artifacts
  <2>4. Copy(r)
    BY <2>1
  <2> HIDE DEF artifact
  <2>5. artifacts \in Seq(Artifacts) /\ DOMAIN artifacts = DOMAIN draft.artifacts
        /\ \A j \in DOMAIN artifacts : artifacts[j] = IF j = i THEN artifact ELSE draft.artifacts[j]
    BY <1>1, <2>3 DEF Readouts
  <2> HIDE DEF artifacts
  <2>6. r \in Readouts /\ r.artifacts = artifacts
    BY <1>1, <2>5 DEF Readouts
  <2>7. Placed(r)
    BY <1>1, <2>3, <2>5, <2>6 DEF Placed
  <2> HIDE DEF r
  <2> QED BY <1>1, <2>4, <2>6, <2>7, CopyKeeps
<1>4. CASE CopyReadout
  <2>1. CASE Copy([draft EXCEPT !.findings = <<>>])
    <3> DEFINE r == [draft EXCEPT !.findings = <<>>]
    <3>1. r \in Readouts /\ r.artifacts = draft.artifacts
      <4>1. <<>> \in Seq(Findings)
        OBVIOUS
      <4> QED BY <1>1, <4>1 DEF Readouts
    <3> QED BY <1>1, <2>1, <3>1, CopyKeeps DEF Placed
  <2>2. CASE \E c \in Contexts : Copy([draft EXCEPT !.about = c.run])
    <3>1. PICK c \in Contexts : Copy([draft EXCEPT !.about = c.run])
      BY <2>2
    <3> DEFINE r == [draft EXCEPT !.about = c.run]
    <3>2. r \in Readouts /\ r.artifacts = draft.artifacts
      BY <1>1, ReadoutAssumption DEF Readouts
    <3> QED BY <1>1, <3>1, <3>2, CopyKeeps DEF Placed
  <2> QED BY <1>4, <2>1, <2>2 DEF CopyReadout
<1> QED BY <1>2, <1>3, <1>4

LEMMA UnknownRoleStep == IInv /\ UnknownOutputRole => IInv'
<1> SUFFICES ASSUME IInv, UnknownOutputRole PROVE IInv'
  OBVIOUS
<1>1. PICK a \in ArtifactDrafts :
        a.uri = None /\ draft' = [draft EXCEPT !.artifacts = Append(@, a)]
  BY DEF UnknownOutputRole
<1>2. /\ stage = "artifacts" /\ stage' = "failed"
      /\ UNCHANGED <<context, remote, by, copied, payload, verdict>>
  BY DEF UnknownOutputRole
<1>3. draft' \in Readouts /\ ~Placed(draft')
  BY <1>1, AppendArtifact, ReadoutAssumption DEF IInv, TypeOK
<1>4. TypeOK' /\ FlowInv' /\ ModelInv'
  BY <1>2, <1>3 DEF IInv, TypeOK, FlowInv, ModelInv
<1>5. FailedInv'
  <2>1. SUFFICES ASSUME HonestParts(draft)' PROVE FALSE
    BY DEF FailedInv, Honest
  <2>2. PICK i \in DOMAIN draft'.artifacts : draft'.artifacts[i].uri = None
    BY <1>3 DEF Placed
  <2>3. draft'.artifacts[i] \in Elements(draft'.artifacts)
    BY <2>2 DEF Elements
  <2> QED BY <2>1, <2>2, <2>3 DEF HonestParts
<1> QED BY <1>4, <1>5 DEF IInv

\* What is emitted is the JSON of what was written.
LEMMA EmitStep == IInv /\ (Emit \/ EmitNone) => IInv'
<1> SUFFICES ASSUME IInv, Emit \/ EmitNone PROVE IInv'
  OBVIOUS
<1>1. /\ stage \in {"built", "frame"} /\ stage' = "emitted" /\ verdict = None /\ payload = None
      /\ UNCHANGED <<context, remote, by, draft, copied, verdict>>
  BY DEF Emit, EmitNone, IInv, FlowInv
<1>2. draft \in Readouts /\ Placed(draft)
  BY <1>1 DEF IInv, TypeOK, FlowInv
<1>3. FailedInv'
  BY <1>1 DEF FailedInv
<1>4. CASE Emit
  <2> DEFINE json == Serialized(draft, by)
  <2>1. stage = "built" /\ payload' = json /\ by \in {"models", "json"}
    BY <1>4 DEF Emit, IInv, TypeOK
  <2>2. /\ json \in Readouts /\ (by = "models" => NaN \notin Numbers(json))
        /\ \A i \in DOMAIN json.artifacts : ~json.artifacts[i].uri.prebuilt
    BY <1>2, <2>1, SerializedShape
  <2> HIDE DEF json
  <2>3. /\ payload' \in Readouts /\ payload' # None
        /\ by' = "models" => NaN \notin Numbers(payload)'
        /\ \A a \in Elements(payload.artifacts)' : ~a.uri.prebuilt
    BY <1>1, <2>1, <2>2, ReadoutAssumption DEF Numbers, Elements
  <2>4. TypeOK'
    BY <1>1, <2>3 DEF IInv, TypeOK
  <2>5. FlowInv'
    BY <1>1, <1>2, <2>1, <2>3 DEF FlowInv, Placed, json
  <2>6. ModelInv'
    BY <1>1, <2>1 DEF IInv, ModelInv
  <2> QED BY <1>3, <2>4, <2>5, <2>6 DEF IInv
<1>5. CASE EmitNone
  <2>1. stage = "frame" /\ payload' = None
    BY <1>1, <1>5 DEF EmitNone
  <2>2. draft.artifacts = <<>>
    BY <2>1, BlankIsFine DEF IInv, TypeOK, FlowInv
  <2>3. TypeOK' /\ FlowInv' /\ ModelInv'
    BY <1>1, <1>2, <2>1, <2>2 DEF IInv, TypeOK, FlowInv, ModelInv, Placed
  <2> QED BY <1>3, <2>3 DEF IInv
<1> QED BY <1>4, <1>5

\* The gate judges what was emitted.
LEMMA GateStep == IInv /\ Gate => IInv'
<1> SUFFICES ASSUME IInv, Gate PROVE IInv'
  OBVIOUS
<1>1. /\ stage = "emitted" /\ stage' = "judged" /\ verdict' = Judge(payload)
      /\ UNCHANGED <<context, remote, by, draft, copied, payload>>
  BY DEF Gate
<1>2. verdict' \in {"missing_readout", "invalid_readout", "readout_mismatch", "accepted"}
      /\ Judge(payload)' = Judge(payload)
  BY <1>1 DEF Judge
<1>3. TypeOK'
  BY <1>1, <1>2 DEF IInv, TypeOK, Verdicts
<1>4. FlowInv'
  BY <1>1, <1>2 DEF IInv, FlowInv, Placed
<1> QED BY <1>1, <1>3, <1>4 DEF IInv, ModelInv, FailedInv

LEMMA InvariantStep == IInv /\ [NextWithForecast]_vars => IInv'
<1>1. IInv /\ UNCHANGED vars => IInv'
  BY DEF vars, IInv, TypeOK, FlowInv, ModelInv, FailedInv, Placed, Judge, Honest, HonestParts,
         Narrated, Truthful, Numbers, RoomForAll
<1> QED
  BY <1>1, FrameStep, DescribeStep, FindingStep, GuideStep, OnwardStep, ForecastStep, CopyStep,
     UnknownRoleStep, EmitStep, GateStep
  DEF NextWithForecast, Next

-----------------------------------------------------------------------------
\* Theorems.

\* Every reachable state satisfies the inductive invariant, whatever backends
\* write, copy and emit.
THEOREM Inductive == SpecWithForecast => []IInv
<1> QED BY Initially, InvariantStep, PTL DEF SpecWithForecast

\* model_dump_json: every variable keeps its type, the JSON of a readout has no
\* URL object, and that of the models no NaN.
THEOREM TypeCorrect == SpecWithForecast => []TypeOK
<1>1. IInv => TypeOK
  BY DEF IInv
<1> QED BY <1>1, Inductive, PTL

\* What was accepted is a valid document about the run.
LEMMA AcceptedIsValid ==
  ASSUME IInv, verdict = "accepted"
  PROVE  /\ payload \in Readouts /\ payload = Serialized(draft, by) /\ by \in {"models", "json"}
         /\ draft \in Readouts /\ Placed(draft)
         /\ SchemaOk(payload) /\ payload.about = context.run /\ context \in Contexts
<1>1. stage = "judged" /\ Judge(payload) = "accepted"
  BY ReadoutAssumption DEF IInv, FlowInv, Verdicts
<1>2. payload # None /\ SchemaOk(payload) /\ payload.about = context.run
  BY <1>1 DEF Judge
<1> QED BY <1>1, <1>2 DEF IInv, TypeOK, FlowInv

\* validate_readout: an accepted readout is about this run and closed in
\* itself, whether the models built it or it was written as JSON; only the
\* bounds of an interval are not ordered if JSON gives one of them as NaN.
THEOREM AcceptedAreClosed == SpecWithForecast => []AcceptedReadoutsAreClosed
<1>1. ASSUME IInv, verdict = "accepted"
      PROVE  AcceptedReadoutsAreClosed
  <2>1. /\ payload \in Readouts /\ SchemaOk(payload) /\ payload.about = context.run
        /\ draft \in Readouts /\ Placed(draft) /\ payload = Serialized(draft, by)
        /\ by \in {"models", "json"}
    BY <1>1, AcceptedIsValid
  <2>2. \A i \in DOMAIN payload.artifacts :
          payload.artifacts[i].uri \in Uris /\ ~payload.artifacts[i].uri.prebuilt
    BY <2>1, SerializedShape
  <2>3. ASSUME NEW f \in Elements(payload.findings), f.kind = "interval"
        PROVE  (by = "json" /\ NaN \in {f.lower, f.upper}) \/ f.lower <= f.upper
    <3>1. NaN \in {f.lower, f.upper} \/ f.lower <= f.upper
      BY <2>1, <2>2, <2>3, ValidIsClosed
    <3>2. by = "models" => NaN \notin {f.lower, f.upper}
      BY <2>1, <2>3, SerializedShape DEF Numbers
    <3> QED BY <2>1, <3>1, <3>2
  <2> QED BY <2>1, <2>2, <2>3, ValidIsClosed DEF AcceptedReadoutsAreClosed
<1>2. IInv => AcceptedReadoutsAreClosed
  BY <1>1 DEF AcceptedReadoutsAreClosed
<1> QED BY <1>2, Inductive, PTL

\* The validators of the models and of the gate agree: what was constructed,
\* not copied, about this run and free of NaN is accepted.
THEOREM BuiltReadoutsPass == SpecWithForecast => []BuiltReadoutsPassTheGate
<1>1. ASSUME IInv, stage = "judged", payload # None, by = "models", ~copied,
             NaN \notin Numbers(draft), draft.about = context.run
      PROVE  verdict = "accepted"
  <2>1. draft \in Readouts /\ Placed(draft) /\ payload = Dump(draft) /\ verdict = Judge(payload)
    BY <1>1 DEF IInv, TypeOK, FlowInv, Serialized
  <2>2. PartsOk(draft) /\ RootOk(draft)
    BY <1>1 DEF IInv, ModelInv
  <2>3. SchemaOk(payload) /\ payload.about = context.run
    BY <1>1, <2>1, <2>2, DumpStaysValid, DumpShape
  <2> QED BY <1>1, <2>1, <2>3 DEF Judge
<1>2. IInv => BuiltReadoutsPassTheGate
  BY <1>1 DEF BuiltReadoutsPassTheGate
<1> QED BY <1>2, Inductive, PTL

\* The gate can be satisfied, for any contract whose outputs are on Cloud
\* Storage or local: an honest backend meets no ValidationError and is accepted.
THEOREM HonestPass == SpecWithForecast => []HonestReadoutsPass
<1>1. ASSUME IInv, Honest(draft), ~copied
      PROVE  stage # "failed" /\ verdict \in {None, "accepted"}
  <2>1. stage # "failed"
    BY <1>1 DEF IInv, FailedInv
  <2>2. CASE stage # "judged"
    BY <1>1, <2>1, <2>2 DEF IInv, FlowInv
  <2>3. CASE stage = "judged"
    <3>1. /\ HonestParts(draft) /\ Narrated(draft) /\ draft \in Readouts /\ Placed(draft)
          /\ context \in Contexts /\ verdict = Judge(payload)
      BY <1>1, <2>3 DEF Honest, IInv, TypeOK, FlowInv
    <3>2. PartsOk(draft) /\ RootOk(draft) /\ NaN \notin Numbers(draft) /\ draft.about = context.run
          /\ draft.artifacts # <<>>
      BY <3>1, HonestIsValid DEF HonestParts
    <3>3. payload = Dump(draft) /\ payload # None
      <4>1. payload # None /\ payload = Serialized(draft, by) /\ by \in {"models", "json"}
        BY <1>1, <2>3, <3>2 DEF IInv, TypeOK, FlowInv
      <4> QED BY <3>1, <3>2, <4>1, SerializedShape
    <3>4. SchemaOk(payload) /\ payload.about = context.run
      BY <3>1, <3>2, <3>3, DumpStaysValid, DumpShape
    <3> QED BY <2>1, <3>1, <3>3, <3>4 DEF Judge
  <2> QED BY <2>2, <2>3
<1>2. IInv => HonestReadoutsPass
  BY <1>1 DEF HonestReadoutsPass
<1> QED BY <1>2, Inductive, PTL

\* ExplanationGuide.model_config, revalidate_instances: no ModelReadout is
\* constructed from a guide whose base guardrails a model_copy replaced.
THEOREM GuardrailsSurvive == SpecWithForecast => GuardrailsSurviveCopies
<1> DEFINE Built == stage' = "built" /\ stage # "built" /\ by = "models"
           Kept == SubSeq(draft'.guide.guardrails, 1, Len(BASE_GUARDRAILS)) = BASE_GUARDRAILS
<1>1. ASSUME [NextWithForecast]_vars, Built PROVE Kept
  <2>1. ASSUME NEW r, NEW valid, NEW next \in Writing, Write(r, valid, next) PROVE FALSE
    BY <1>1, <2>1 DEF Write, Writing
  <2>2. CASE Construct
    <3>1. NestedGuideOk(draft.guide) /\ draft' = draft
      BY <1>1, <2>2 DEF Construct, Write
    <3> QED BY <3>1 DEF NestedGuideOk, StartsWithTheBase
  <2>3. ~(WriteFrame \/ DescribeArtifact \/ ArtifactsDone \/ AddFinding \/ FindingsDone \/ WriteGuide
          \/ RunForecast)
    BY <2>1 DEF WriteFrame, DescribeArtifact, ArtifactsDone, AddFinding, FindingsDone, WriteGuide,
                RunForecast, Writing
  <2>4. ~(CopyGuide \/ CopyArtifact \/ CopyReadout)
    BY <1>1 DEF CopyGuide, CopyArtifact, CopyReadout, Copy
  <2>5. ~(UnknownOutputRole \/ Emit \/ EmitNone \/ Gate \/ UNCHANGED vars)
    BY <1>1 DEF UnknownOutputRole, Emit, EmitNone, Gate, vars
  <2> QED BY <1>1, <2>2, <2>3, <2>4, <2>5 DEF NextWithForecast, Next
<1>2. [NextWithForecast]_vars => [Built => Kept]_vars
  BY <1>1
<1> HIDE DEF Built, Kept
<1>3. [][NextWithForecast]_vars => [][Built => Kept]_vars
  BY <1>2, PTL
<1>4. GuardrailsSurviveCopies <=> [][Built => Kept]_vars
  BY DEF GuardrailsSurviveCopies, Built, Kept
<1> QED BY <1>3, <1>4 DEF SpecWithForecast
=============================================================================
