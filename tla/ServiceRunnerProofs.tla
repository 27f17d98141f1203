-------------------------- MODULE ServiceRunnerProofs --------------------------
(***************************************************************************)
(* Machine-checked proofs about ServiceRunner, for every set of runs, any  *)
(* contracts and any retry limit.                                          *)
(***************************************************************************)
EXTENDS ServiceRunner, SequenceTheorems, WellFoundedInduction, TLAPS

\* A nonempty set of naturals has a least element: what makes "the first
\* refused spec" of `authorize' well defined.
LEMMA LeastElement ==
  ASSUME NEW T, T \subseteq Nat, T # {}
  PROVE  \E m \in T : \A k \in T : m <= k
<1> DEFINE below == {pair \in Nat \X Nat : pair[1] < pair[2]}
<1>1. IsWellFoundedOn(below, Nat)
  BY NatLessThanWellFounded DEF OpToRel
<1>2. PICK m \in T : \A k \in T : <<k, m>> \notin below
  BY <1>1, WFMin, Zenon
<1>3. ASSUME NEW k \in T PROVE m <= k
  <2>1. k \in Nat /\ m \in Nat
    OBVIOUS
  <2>2. k < m => <<k, m>> \in below
    BY <2>1
  <2> QED BY <1>2, <2>1, <2>2
<1> QED BY <1>3

\* steps.authorize: when no spec is refused, the scheme allowlist and the
\* tenant policy accept every URI of the contract.
LEMMA AuthorizationCoversAllSpecs ==
  ASSUME NEW c \in ContractRecords, AuthorizationError(c) = NoError
  PROVE  \A i \in DOMAIN AllSpecs(c) : Authorized(c, AllSpecs(c)[i].uri)
<1> DEFINE refused == {i \in DOMAIN AllSpecs(c) : UriError(c, AllSpecs(c)[i].uri) # NoError}
           first == CHOOSE i \in refused : \A j \in refused : i <= j
<1>1. DOMAIN AllSpecs(c) \subseteq Nat
  <2>1. c.inputs \in Seq(Specs) /\ c.outputs \in Seq(Specs)
    BY DEF ContractRecords
  <2>2. c.inputs \o c.outputs \in Seq(Specs)
    BY <2>1, ConcatProperties, Zenon
  <2>3. /\ DOMAIN (c.inputs \o c.outputs) = 1 .. Len(c.inputs \o c.outputs)
        /\ Len(c.inputs \o c.outputs) \in Nat
    BY <2>2, LenProperties, Zenon
  <2>4. \A n \in Nat : 1 .. n \subseteq Nat
    OBVIOUS
  <2> QED BY <2>3, <2>4, Zenon DEF AllSpecs
<1>2. refused = {}
  <2> SUFFICES ASSUME refused # {} PROVE FALSE
    OBVIOUS
  <2>1. refused \subseteq Nat
    BY <1>1
  <2>2. first \in refused
    BY <2>1, LeastElement
  <2>3. AuthorizationError(c) = UriError(c, AllSpecs(c)[first].uri)
    BY DEF AuthorizationError
  <2> QED BY <2>2, <2>3, Zenon
<1>3. ASSUME NEW u, UriError(c, u) = NoError PROVE Authorized(c, u)
  BY <1>3 DEF UriError, Authorized, NoError
<1> QED BY <1>2, <1>3

\* steps.authorize, spec by spec: the inputs come first, then the outputs.
LEMMA AuthorizationCoversEverySpec ==
  ASSUME NEW c \in ContractRecords, AuthorizationError(c) = NoError
  PROVE  AllAuthorized(c)
<1>1. /\ c.inputs \in Seq(Specs)
      /\ c.outputs \in Seq(Specs)
  BY DEF ContractRecords
<1> DEFINE m == Len(c.inputs)
           n == Len(c.outputs)
<1>2. /\ m \in Nat /\ DOMAIN c.inputs = 1 .. m
      /\ n \in Nat /\ DOMAIN c.outputs = 1 .. n
  BY <1>1, LenProperties
<1>3. /\ DOMAIN AllSpecs(c) = 1 .. m + n
      /\ \A i \in 1 .. m + n :
           AllSpecs(c)[i] = IF i <= m THEN c.inputs[i] ELSE c.outputs[i - m]
  <2>1. /\ c.inputs \o c.outputs \in Seq(Specs)
        /\ Len(c.inputs \o c.outputs) = m + n
        /\ \A i \in 1 .. m + n :
             (c.inputs \o c.outputs)[i] = IF i <= m THEN c.inputs[i] ELSE c.outputs[i - m]
    BY <1>1, ConcatProperties, Zenon
  <2>2. DOMAIN (c.inputs \o c.outputs) = 1 .. m + n
    BY <2>1, LenProperties
  <2> QED BY <2>1, <2>2, Zenon DEF AllSpecs
<1> HIDE DEF m, n
<1>4. ASSUME NEW i \in 1 .. m PROVE Authorized(c, c.inputs[i].uri)
  <2>1. i \in DOMAIN AllSpecs(c) /\ AllSpecs(c)[i] = c.inputs[i]
    BY <1>2, <1>3
  <2> QED BY <2>1, AuthorizationCoversAllSpecs
<1>5. ASSUME NEW i \in 1 .. n PROVE Authorized(c, c.outputs[i].uri)
  <2>1. m + i \in DOMAIN AllSpecs(c) /\ AllSpecs(c)[m + i] = c.outputs[i]
    BY <1>2, <1>3
  <2> QED BY <2>1, AuthorizationCoversAllSpecs
<1> QED BY <1>2, <1>4, <1>5 DEF AllAuthorized

\* What the other proofs need of a contract.
LEMMA ContractShape ==
  ASSUME NEW c \in Contracts
  PROVE  /\ c \in ContractRecords
         /\ c # Malformed /\ c # NoMessage
         /\ \A i \in DOMAIN c.inputs : c.inputs[i].uri \in Uris /\ c.inputs[i].role \in Roles
         /\ \A i \in DOMAIN c.outputs : c.outputs[i].uri \in Uris /\ c.outputs[i].role \in Roles
         /\ Len(c.inputs) \in Nat /\ DOMAIN c.inputs = 1 .. Len(c.inputs)
         /\ Len(c.outputs) \in Nat /\ DOMAIN c.outputs = 1 .. Len(c.outputs)
         /\ WellFormed(c) => 1 \in DOMAIN c.inputs /\ 1 \in DOMAIN c.outputs
<1>1. c \in ContractRecords /\ c # Malformed /\ c # NoMessage
  BY ServiceRunnerAssumption
<1>2. c.inputs \in Seq(Specs) /\ c.outputs \in Seq(Specs)
  BY <1>1 DEF ContractRecords
<1>3. ASSUME NEW seq \in Seq(Specs)
      PROVE  /\ Len(seq) \in Nat /\ DOMAIN seq = 1 .. Len(seq)
             /\ \A i \in DOMAIN seq : seq[i].uri \in Uris /\ seq[i].role \in Roles
  <2>1. \A i \in DOMAIN seq : seq[i] \in Specs
    OBVIOUS
  <2> QED BY <2>1, LenProperties DEF Specs
<1> QED BY <1>1, <1>2, <1>3 DEF WellFormed

\* Every error the admission steps report is an error code, never "ok".
LEMMA ErrorsAreCodes ==
  ASSUME NEW c
  PROVE  /\ ValidationError(c, TRUE) \in ErrorCodes \cup {NoError}
         /\ AuthorizationError(c) \in ErrorCodes \cup {NoError}
         /\ \A readout : ReadoutError(c, readout) \in ErrorCodes \cup {NoError}
<1>1. \A u : UriError(c, u) \in ErrorCodes \cup {NoError}
  BY DEF UriError, ErrorCodes,
      ContractErrors, SecurityErrors, ComputeErrors, StorageErrors, WebhookErrors
<1>2. AuthorizationError(c) \in ErrorCodes \cup {NoError}
  BY <1>1 DEF AuthorizationError
<1>3. ValidationError(c, TRUE) \in ErrorCodes \cup {NoError}
  BY DEF ValidationError, ErrorCodes,
      ContractErrors, SecurityErrors, ComputeErrors, StorageErrors, WebhookErrors
<1>4. \A readout : ReadoutError(c, readout) \in ErrorCodes \cup {NoError}
  BY DEF ReadoutError, ErrorCodes,
      ContractErrors, SecurityErrors, ComputeErrors, StorageErrors, WebhookErrors
<1> QED BY <1>2, <1>3, <1>4

\* steps.validate_readout and _check_readout_identity let only a readout
\* pass that describes the execution's own request and service.
LEMMA ReadoutGate ==
  ASSUME NEW c, NEW res \in Results, ReadoutError(c, res.readout) = NoError
  PROVE  res.readout = IdentityOf(c)
<1>1. res.readout \in Identities \cup {Missing, Invalid}
  BY DEF Results
<1> QED BY <1>1 DEF ReadoutError, NoError

LEMMA Initially == Init => IInv
BY ServiceRunnerAssumption
   DEF Init, IInv, TypeOK, StageInv, EffectInv, GateInv, SaveInv, SaveInvOf, AnnounceInv, StoreInv,
       ResultInv, LandedInv, IsOutput, HadEffect,
       Stages, Outcomes, NoError, AfterDecode, IoStages, BeforeGate

ControlOK ==
  /\ pc \in [Runs -> Stages]
  /\ idx \in [Runs -> Nat \ {0}]
  /\ attempt \in [Runs -> 1 .. MaxAttempts]
  /\ outcome \in [Runs -> Outcomes]

\* Whatever a step does, it leaves the control variables well typed.
LEMMA ControlStep ==
  ASSUME TypeOK, NEW r \in Runs, NEW stage \in Stages, NEW count,
         \/ NextSpec(r, count, stage)
         \/ RetryOrReraise(r)
         \/ Goto(r, stage)
         \/ \E how \in Outcomes : Finish(r, how)
  PROVE  ControlOK'
<1> USE ServiceRunnerAssumption DEF TypeOK, ControlOK
<1>1. ASSUME NEW how \in Outcomes, Finish(r, how) PROVE ControlOK'
  BY <1>1 DEF Finish, Stages
<1>2. CASE Goto(r, stage)
  BY <1>2 DEF Goto
<1>3. CASE NextSpec(r, count, stage)
  BY <1>2, <1>3 DEF NextSpec
<1>4. CASE RetryOrReraise(r)
  <2>1. "escaped" \in Outcomes
    BY DEF Outcomes
  <2> QED BY <1>1, <1>4, <2>1 DEF RetryOrReraise
<1> QED BY <1>1, <1>2, <1>3, <1>4

LEMMA TypeStep == IInv /\ [Next]_vars => TypeOK'
<1> SUFFICES ASSUME IInv, [Next]_vars PROVE TypeOK'
  OBVIOUS
<1> USE ServiceRunnerAssumption, StepsAssumption
    DEF IInv, TypeOK, Stages, Outcomes, ErrorCodes,
      ContractErrors, SecurityErrors, ComputeErrors, StorageErrors, WebhookErrors,
      NoError, control, effects
<1>1. ASSUME NEW r \in Runs, Start(r) PROVE TypeOK'
  BY <1>1 DEF Start, Goto
<1>2. ASSUME NEW r \in Runs, Decode(r) PROVE TypeOK'
  BY <1>2 DEF Decode, Check, Goto, Finish
<1>3. ASSUME NEW r \in Runs, Validate(r) PROVE TypeOK'
  BY <1>3, ErrorsAreCodes DEF Validate, Check, Goto, Finish, ValidationError
<1>4. ASSUME NEW r \in Runs, CheckRoleCompatibility(r) PROVE TypeOK'
  BY <1>4 DEF CheckRoleCompatibility, Check, Goto, Finish
<1>5. ASSUME NEW r \in Runs, Authorize(r) PROVE TypeOK'
  <2>1. AuthorizationError(msg[r]) \in ErrorCodes \cup {NoError}
    BY ErrorsAreCodes
  <2> QED BY <1>5, <2>1 DEF Authorize, Check, Goto, Finish
<1>6. ASSUME NEW r \in Runs, ResolveCredentials(r) PROVE TypeOK'
  <2>1. {"load"} \subseteq Stages /\ {"credential_resolution_failed", "escaped"} \subseteq Outcomes
    OBVIOUS
  <2>2. ControlOK'
    BY <1>6, <2>1, ControlStep DEF ResolveCredentials, ResolutionFails
  <2> QED BY <1>6, <2>2 DEF ResolveCredentials, ResolutionFails, ControlOK
<1>7. ASSUME NEW r \in Runs, LoadInput(r) PROVE TypeOK'
  <2>1. /\ "compute" \in Stages
        /\ {"input_read_failed", "unsupported_scheme", "escaped"} \subseteq Outcomes
    OBVIOUS
  <2>2. ControlOK'
    BY <1>7, <2>1, ControlStep DEF LoadInput
  <2>3. msg[r].inputs[idx[r]].uri \in Uris
    BY <1>7, ContractShape DEF LoadInput, StageInv, SaveInv, SaveInvOf, IoStages, Specs
  <2> QED BY <1>7, <2>2, <2>3 DEF LoadInput, ControlOK
<1>8. ASSUME NEW r \in Runs, RunCompute(r) PROVE TypeOK'
  BY <1>8 DEF RunCompute, ComputeFails, RetryOrReraise, Goto, Finish
<1>9. ASSUME NEW r \in Runs, ValidateReadout(r) PROVE TypeOK'
  BY <1>9, ErrorsAreCodes DEF ValidateReadout, Check, Goto, Finish, ReadoutError
<1>10. ASSUME NEW r \in Runs, OmittedOutput(r) PROVE TypeOK'
  BY <1>10 DEF OmittedOutput, Finish
<1>11. ASSUME NEW r \in Runs, SaveOutput(r) PROVE TypeOK'
  <2> DEFINE spec == msg[r].outputs[idx[r]]
  <2>1. "notify" \in Stages /\ {"output_write_failed", "unsupported_scheme", "escaped"} \subseteq Outcomes
    OBVIOUS
  <2>2. ControlOK'
    BY <1>11, <2>1, ControlStep DEF SaveOutput
  <2>3. spec.uri \in Uris /\ spec.role \in Roles
    BY <1>11, ContractShape DEF SaveOutput, StageInv, SaveInv, SaveInvOf, IoStages, Specs
  <2>4. [run |-> r, role |-> spec.role] \in Blobs
    BY <2>3 DEF Blobs
  <2> HIDE DEF spec
  <2>5. Put(r, spec) => /\ store' \in [Uris -> Blobs \cup {NoData}]
                        /\ written' \in [Runs -> SUBSET Roles]
    BY <2>3, <2>4 DEF Put
  <2>6. /\ store' \in [Uris -> Blobs \cup {NoData}]
        /\ written' \in [Runs -> SUBSET Roles]
        /\ receipts' \in [Runs -> SUBSET Roles]
        /\ touched' \in [Runs -> SUBSET Uris]
    <3>1. /\ touched' = [touched EXCEPT ![r] = @ \cup {spec.uri}]
          /\ receipts' = [receipts EXCEPT ![r] = @ \cup {spec.role}] \/ UNCHANGED receipts
          /\ Put(r, spec) \/ UNCHANGED <<store, written>>
      BY <1>11 DEF SaveOutput, spec
    <3> QED BY <2>3, <2>5, <3>1
  <2> QED BY <1>11, <2>2, <2>6 DEF SaveOutput, ControlOK
<1>12. ASSUME NEW r \in Runs, Notify(r) PROVE TypeOK'
  BY <1>12, SMTT(60) DEF Notify, RetryOrReraise, Finish
<1>13. ASSUME NEW r \in Runs, Kill(r) PROVE TypeOK'
  BY <1>13 DEF Kill, Finish
<1>14. CASE UNCHANGED vars
  BY <1>14 DEF vars
<1> QED
  BY <1>1, <1>2, <1>3, <1>4, <1>5, <1>6, <1>7, <1>8, <1>9, <1>10, <1>11, <1>12, <1>13, <1>14 DEF Next, Step

\* An action of r leaves the other executions where they are.
SameElsewhere(r) ==
  \A s \in Runs \ {r} : /\ pc'[s] = pc[s] /\ msg'[s] = msg[s] /\ idx'[s] = idx[s]
                        /\ receipts'[s] = receipts[s] /\ written'[s] = written[s]

\* The loop over the specs goes on, retries, ends, or goes to the next step; it
\* concerns its own execution.
LEMMA LoopMoves ==
  ASSUME TypeOK, NEW r \in Runs, NEW count, NEW stage,
         \/ NextSpec(r, count, stage) \/ RetryOrReraise(r)
         \/ \E how \in Outcomes : Finish(r, how)
  PROVE  /\ pc'[r] \in {pc[r], stage, "done"}
         /\ \A s \in Runs \ {r} : pc'[s] = pc[s] /\ idx'[s] = idx[s]
<1>1. pc \in [Runs -> Stages] /\ DOMAIN idx = Runs
  BY DEF TypeOK
<1>2. CASE NextSpec(r, count, stage)
  BY <1>1, <1>2 DEF NextSpec, Goto
<1>3. CASE RetryOrReraise(r)
  BY <1>1, <1>3 DEF RetryOrReraise, Finish
<1>4. CASE \E how \in Outcomes : Finish(r, how)
  BY <1>1, <1>4 DEF Finish
<1> QED
  BY <1>2, <1>3, <1>4

\* save_outputs: a write concerns its own execution and the storage.
LEMMA SaveOutputFrame ==
  ASSUME TypeOK, NEW r \in Runs, SaveOutput(r)
  PROVE  /\ pc[r] = "save" /\ pc'[r] \in {"save", "notify", "done"}
         /\ touched' = [touched EXCEPT ![r] = @ \cup {msg[r].outputs[idx[r]].uri}]
         /\ UNCHANGED <<msg, result, accepted>>
         /\ SameElsewhere(r)
<1> DEFINE spec == msg[r].outputs[idx[r]]
<1>1. /\ pc[r] = "save"
      /\ touched' = [touched EXCEPT ![r] = @ \cup {spec.uri}]
      /\ Put(r, spec) \/ UNCHANGED <<store, written>>
      /\ receipts' = [receipts EXCEPT ![r] = @ \cup {spec.role}] \/ UNCHANGED receipts
      /\ UNCHANGED <<msg, result, accepted>>
  BY DEF SaveOutput
<1>2. \/ NextSpec(r, Len(msg[r].outputs), "notify") \/ RetryOrReraise(r)
      \/ \E how \in Outcomes : Finish(r, how)
  <2>1. {"output_write_failed", "unsupported_scheme", "escaped"} \subseteq Outcomes
    BY DEF Outcomes, ErrorCodes,
      ContractErrors, SecurityErrors, ComputeErrors, StorageErrors, WebhookErrors
  <2> QED
    BY <2>1 DEF SaveOutput
<1>3. /\ pc'[r] \in {pc[r], "notify", "done"}
      /\ \A s \in Runs \ {r} : pc'[s] = pc[s] /\ idx'[s] = idx[s]
  BY <1>2, LoopMoves
<1> HIDE DEF spec
<1>4. \A s \in Runs \ {r} : written'[s] = written[s]
  BY <1>1 DEF Put, TypeOK
<1>5. \A s \in Runs \ {r} : receipts'[s] = receipts[s]
  BY <1>1 DEF TypeOK
<1> QED
  BY <1>1, <1>3, <1>4, <1>5 DEF SameElsewhere, spec

LEMMA StageStep == IInv /\ [Next]_vars => StageInv'
<1> SUFFICES ASSUME IInv, [Next]_vars PROVE StageInv'
  OBVIOUS
<1> USE ServiceRunnerAssumption, ContractShape
    DEF IInv, TypeOK, StageInv, control, effects, AfterDecode, IoStages, NoError
<1>1. ASSUME NEW r \in Runs, Start(r) PROVE StageInv'
  BY <1>1 DEF Start, Goto
<1>2. ASSUME NEW r \in Runs, Decode(r) PROVE StageInv'
  BY <1>2 DEF Decode, Check, Goto, Finish
<1>3. ASSUME NEW r \in Runs, Validate(r) PROVE StageInv'
  BY <1>3 DEF Validate, Check, Goto, Finish, ValidationError
<1>4. ASSUME NEW r \in Runs, CheckRoleCompatibility(r) PROVE StageInv'
  <2>1. /\ pc[r] = "roles" /\ pc'[r] \in {"authorize", "done"}
        /\ UNCHANGED <<msg, touched>> /\ \A s \in Runs \ {r} : pc'[s] = pc[s]
    BY <1>4 DEF CheckRoleCompatibility, Check, Goto, Finish
  <2> QED BY <2>1
<1>5. ASSUME NEW r \in Runs, Authorize(r) PROVE StageInv'
  <2>1. AuthorizationError(msg[r]) = NoError => AllAuthorized(msg[r])
    BY <1>5, AuthorizationCoversEverySpec DEF Authorize
  <2> HIDE DEF NoError
  <2> QED BY <1>5, <2>1 DEF Authorize, Check, Goto, Finish
<1>6. ASSUME NEW r \in Runs, ResolveCredentials(r) PROVE StageInv'
  BY <1>6, SMTT(60) DEF ResolveCredentials, ResolutionFails, NextSpec, RetryOrReraise, Goto, Finish
<1>7. ASSUME NEW r \in Runs, LoadInput(r) PROVE StageInv'
  BY <1>7 DEF LoadInput, NextSpec, RetryOrReraise, Goto, Finish
<1>8. ASSUME NEW r \in Runs, RunCompute(r) PROVE StageInv'
  BY <1>8 DEF RunCompute, ComputeFails, RetryOrReraise, Goto, Finish
<1>9. ASSUME NEW r \in Runs, ValidateReadout(r) PROVE StageInv'
  BY <1>9 DEF ValidateReadout, Check, Goto, Finish, ReadoutError
<1>10. ASSUME NEW r \in Runs, OmittedOutput(r) PROVE StageInv'
  <2>1. /\ pc[r] = "save" /\ pc'[r] = "done"
        /\ UNCHANGED <<msg, touched>> /\ \A s \in Runs \ {r} : pc'[s] = pc[s]
    BY <1>10, SMTT(60) DEF OmittedOutput, Finish
  <2> QED BY <2>1
<1>11. ASSUME NEW r \in Runs, SaveOutput(r) PROVE StageInv'
  <2>1. /\ pc[r] = "save" /\ pc'[r] \in {"save", "notify", "done"}
        /\ touched' = [touched EXCEPT ![r] = @ \cup {msg[r].outputs[idx[r]].uri}]
        /\ UNCHANGED msg /\ SameElsewhere(r)
    BY <1>11, SaveOutputFrame
  <2> QED BY <2>1 DEF SameElsewhere
<1>12. ASSUME NEW r \in Runs, Notify(r) PROVE StageInv'
  BY <1>12, SMTT(60) DEF Notify, RetryOrReraise, Finish
<1>13. ASSUME NEW r \in Runs, Kill(r) PROVE StageInv'
  BY <1>13 DEF Kill, Finish
<1>14. CASE UNCHANGED vars
  BY <1>14 DEF vars
<1> QED
  BY <1>1, <1>2, <1>3, <1>4, <1>5, <1>6, <1>7, <1>8, <1>9, <1>10, <1>11, <1>12, <1>13, <1>14 DEF Next, Step

\* What a step that calls no adapter does: it goes on or ends with its error.
LEMMA CheckStep ==
  ASSUME TypeOK, NEW r \in Runs, NEW stage \in Stages,
         NEW error \in ErrorCodes \cup {NoError}, Check(r, error, stage)
  PROVE  /\ pc'[r] \in {stage, "done"}
         /\ pc'[r] = "done" \/ error = NoError
         /\ outcome'[r] # "ok" \/ outcome'[r] = outcome[r]
         /\ \A s \in Runs \ {r} : /\ pc'[s] = pc[s]
                                  /\ attempt'[s] = attempt[s]
                                  /\ outcome'[s] = outcome[s]
<1>1. error # "ok"
  BY DEF ErrorCodes, NoError,
     ContractErrors, SecurityErrors, ComputeErrors, StorageErrors, WebhookErrors
<1>2. CASE error = NoError /\ Goto(r, stage)
  BY <1>2 DEF Goto, TypeOK
<1>3. CASE error # NoError /\ Finish(r, error)
  BY <1>1, <1>3 DEF Finish, TypeOK
<1> QED BY <1>2, <1>3 DEF Check

\* The steps from decode to authorize call no adapter.
LEMMA AdmissionStep ==
  ASSUME TypeOK, NEW r \in Runs,
         Decode(r) \/ Validate(r) \/ CheckRoleCompatibility(r) \/ Authorize(r)
  PROVE  /\ pc[r] \in {"decode", "validate", "roles", "authorize"}
         /\ pc'[r] \in {"validate", "roles", "authorize", "resolve", "done"}
         /\ UNCHANGED <<msg, result, receipts, effects>>
         /\ outcome'[r] # "ok" \/ outcome'[r] = outcome[r]
         /\ \A s \in Runs \ {r} : /\ pc'[s] = pc[s]
                                  /\ attempt'[s] = attempt[s]
                                  /\ outcome'[s] = outcome[s]
<1> DEFINE Codes == ErrorCodes \cup {NoError}
<1>1. {"validate", "roles", "authorize", "resolve"} \subseteq Stages
  BY DEF Stages
<1>2. /\ {"malformed_message", "invalid_contract", NoError} \subseteq Codes
      /\ ValidationError(msg[r], TRUE) \in Codes /\ AuthorizationError(msg[r]) \in Codes
  BY ErrorsAreCodes DEF ErrorCodes, ContractErrors
<1>3. (IF msg[r] = Malformed THEN "malformed_message" ELSE NoError) \in Codes
  BY <1>2
<1>4. (IF RolesCompatible(msg[r]) THEN NoError ELSE "invalid_contract") \in Codes
  BY <1>2
<1> HIDE DEF Codes
<1>5. /\ pc[r] \in {"decode", "validate", "roles", "authorize"}
      /\ UNCHANGED <<msg, result, receipts, effects>>
      /\ \E stage \in {"validate", "roles", "authorize", "resolve"}, error \in Codes :
           Check(r, error, stage)
  <2>1. CASE Decode(r)
    BY <2>1, <1>3 DEF Decode
  <2>2. CASE Validate(r)
    BY <2>2, <1>2 DEF Validate
  <2>3. CASE CheckRoleCompatibility(r)
    BY <2>3, <1>4 DEF CheckRoleCompatibility
  <2>4. CASE Authorize(r)
    BY <2>4, <1>2 DEF Authorize
  <2> QED BY <2>1, <2>2, <2>3, <2>4
<1>6. PICK stage \in {"validate", "roles", "authorize", "resolve"}, error \in Codes :
        Check(r, error, stage)
  BY <1>5
<1>7. stage \in Stages /\ error \in ErrorCodes \cup {NoError}
  BY <1>1, <1>6 DEF Codes
<1> QED BY <1>5, <1>6, <1>7, CheckStep

\* A step that ends an execution here answers with an error code.
LEMMA CheckEnds ==
  ASSUME TypeOK, NEW r \in Runs, NEW stage \in Stages \ {"idle", "done"},
         NEW error \in ErrorCodes \cup {NoError}, Check(r, error, stage)
  PROVE  pc'[r] # "idle" /\ (pc'[r] = "done" => outcome'[r] # "ok")
<1>1. error # "ok"
  BY DEF ErrorCodes, NoError,
     ContractErrors, SecurityErrors, ComputeErrors, StorageErrors, WebhookErrors
<1> QED BY <1>1 DEF Check, Goto, Finish, TypeOK

\* An execution that touches nothing and does not pass the gate.
LEMMA EffectFrame ==
  ASSUME EffectInv, NEW r \in Runs,
         UNCHANGED <<msg, result, receipts, effects>>,
         \A s \in Runs \ {r} : pc'[s] = pc[s],
         \/ pc'[r] = "done"
         \/ pc[r] \in BeforeGate \cup {"gate"} /\ pc'[r] \notin {"save", "notify"}
  PROVE  EffectInv'
<1>1. ASSUME NEW s \in Runs
      PROVE  /\ (HadEffect(s) <=> HadEffect(s)') /\ (Explained(s) <=> Explained(s)')
             /\ msg'[s] = msg[s] /\ touched'[s] = touched[s]
             /\ written'[s] = written[s] /\ receipts'[s] = receipts[s]
  BY DEF HadEffect, Explained, effects
<1>2. "done" \notin BeforeGate \cup {"gate"}
  BY DEF BeforeGate
<1>3. ASSUME NEW s \in Runs
      PROVE  /\ pc'[s] \in {"save", "notify"} \/ written'[s] # {} => Explained(s)'
             /\ pc'[s] \in BeforeGate \cup {"gate"} => written'[s] = {} /\ receipts'[s] = {}
  <2>1. CASE s = r
    BY <2>1, <1>1, <1>2 DEF EffectInv
  <2>2. CASE s # r
    BY <2>2, <1>1 DEF EffectInv
  <2> QED BY <2>1, <2>2
<1>4. ASSUME NEW s \in Runs, HadEffect(s)'
      PROVE  /\ msg'[s] \in Contracts /\ AllAuthorized(msg'[s])
             /\ \A u \in touched'[s] : Authorized(msg'[s], u)
  BY <1>1, <1>4 DEF EffectInv
<1> QED BY <1>3, <1>4 DEF EffectInv

LEMMA EffectStep == IInv /\ [Next]_vars => EffectInv'
<1> SUFFICES ASSUME IInv, [Next]_vars PROVE EffectInv'
  OBVIOUS
<1>2. ASSUME NEW r \in Runs,
             Decode(r) \/ Validate(r) \/ CheckRoleCompatibility(r) \/ Authorize(r)
      PROVE  EffectInv'
  <2>1. TypeOK /\ EffectInv
    BY DEF IInv
  <2>2. /\ pc[r] \in BeforeGate /\ pc'[r] \notin {"save", "notify"}
        /\ UNCHANGED <<msg, result, receipts, effects>>
        /\ \A s \in Runs \ {r} : pc'[s] = pc[s]
    BY <1>2, <2>1, AdmissionStep DEF BeforeGate, Stages
  <2> QED BY <2>1, <2>2, EffectFrame
<1>6. ASSUME NEW r \in Runs, ResolveCredentials(r) PROVE EffectInv'
  <2>1. /\ pc[r] = "resolve" /\ pc'[r] \in {"resolve", "load", "done"}
        /\ UNCHANGED <<msg, result, receipts, effects>>
        /\ \A s \in Runs \ {r} : pc'[s] = pc[s]
    BY <1>6 DEF IInv, TypeOK, ResolveCredentials, ResolutionFails, NextSpec, RetryOrReraise, Goto, Finish
  <2> QED BY <2>1, EffectFrame DEF IInv, BeforeGate, Stages
<1>10. ASSUME NEW r \in Runs, OmittedOutput(r) PROVE EffectInv'
  <2>1. /\ pc'[r] = "done" /\ UNCHANGED <<msg, result, receipts, effects>>
        /\ \A s \in Runs \ {r} : pc'[s] = pc[s]
    BY <1>10 DEF IInv, TypeOK, OmittedOutput, Finish
  <2> QED BY <2>1, EffectFrame DEF IInv
<1>13. ASSUME NEW r \in Runs, Kill(r) PROVE EffectInv'
  <2>1. /\ pc'[r] = "done" /\ UNCHANGED <<msg, result, receipts, effects>>
        /\ \A s \in Runs \ {r} : pc'[s] = pc[s]
    BY <1>13 DEF IInv, TypeOK, Kill, Finish
  <2> QED BY <2>1, EffectFrame DEF IInv
<1> USE ServiceRunnerAssumption, ContractShape
    DEF IInv, TypeOK, StageInv, EffectInv, AnnounceInv, HadEffect, Explained, control, effects, AfterDecode, IoStages, BeforeGate, NoError, Stages
<1>1. ASSUME NEW r \in Runs, Start(r) PROVE EffectInv'
  BY <1>1 DEF Start, Goto
<1>7. ASSUME NEW r \in Runs, LoadInput(r) PROVE EffectInv'
  <2> DEFINE uri == msg[r].inputs[idx[r]].uri
  <2>1. /\ pc[r] = "load" /\ touched' = [touched EXCEPT ![r] = @ \cup {uri}]
        /\ UNCHANGED <<msg, result, receipts, store, written, accepted>>
        /\ pc'[r] \in {"load", "compute", "done"}
        /\ \A s \in Runs \ {r} : pc'[s] = pc[s]
    BY <1>7 DEF LoadInput, NextSpec, RetryOrReraise, Goto, Finish
  <2>2. msg[r] \in Contracts /\ AllAuthorized(msg[r]) /\ Authorized(msg[r], uri)
    BY <2>1 DEF SaveInv, SaveInvOf, AllAuthorized
  <2> HIDE DEF uri
  <2> QED BY <2>1, <2>2
<1>8. ASSUME NEW r \in Runs, RunCompute(r) PROVE EffectInv'
  BY <1>8 DEF RunCompute, ComputeFails, RetryOrReraise, Goto, Finish
<1>9. ASSUME NEW r \in Runs, ValidateReadout(r) PROVE EffectInv'
  <2>1. /\ pc[r] = "gate"
        /\ UNCHANGED <<msg, result, receipts, effects>>
        /\ pc'[r] \in {"save", "done"}
        /\ pc'[r] = "save" => ReadoutError(msg[r], result[r].readout) = NoError
        /\ \A s \in Runs \ {r} : pc'[s] = pc[s]
    BY <1>9 DEF ValidateReadout, Check, Goto, Finish
  <2>2. result[r] \in Results /\ result[r] # NoResult
    BY <2>1 DEF GateInv
  <2>3. pc'[r] = "save" => Explained(r)
    BY <2>1, <2>2, ReadoutGate
  <2> QED BY <2>1, <2>3
<1>11. ASSUME NEW r \in Runs, SaveOutput(r) PROVE EffectInv'
  <2> DEFINE spec == msg[r].outputs[idx[r]]
  <2>1. /\ pc[r] = "save" /\ touched' = [touched EXCEPT ![r] = @ \cup {spec.uri}]
        /\ UNCHANGED <<msg, result, accepted>>
        /\ pc'[r] \in {"save", "notify", "done"}
        /\ \A s \in Runs \ {r} : /\ pc'[s] = pc[s]
                                 /\ written'[s] = written[s]
                                 /\ receipts'[s] = receipts[s]
    BY <1>11, SaveOutputFrame DEF SameElsewhere
  <2>2. /\ msg[r] \in Contracts /\ AllAuthorized(msg[r]) /\ Authorized(msg[r], spec.uri)
        /\ Explained(r)
    BY <2>1 DEF SaveInv, SaveInvOf, AllAuthorized
  <2> HIDE DEF spec
  <2> QED BY <2>1, <2>2, SMTT(60)
<1>12. ASSUME NEW r \in Runs, Notify(r) PROVE EffectInv'
  <2>1. /\ pc[r] = "notify" /\ pc'[r] \in {"notify", "done"}
        /\ UNCHANGED <<msg, result, receipts, touched, written>>
        /\ \A s \in Runs \ {r} : pc'[s] = pc[s] /\ accepted'[s] = accepted[s]
    BY <1>12 DEF Notify, RetryOrReraise, Finish
  <2>2. /\ msg[r] \in Contracts /\ AllAuthorized(msg[r])
        /\ \A u \in touched[r] : Authorized(msg[r], u)
    BY <2>1
  <2> QED BY <2>1, <2>2
<1>14. CASE UNCHANGED vars
  BY <1>14 DEF vars
<1> QED
  BY <1>1, <1>2, <1>6, <1>7, <1>8, <1>9, <1>10, <1>11, <1>12, <1>13, <1>14 DEF Next, Step

\* An execution that nothing happened to keeps its part of SaveInv.
LEMMA SaveFrame ==
  ASSUME SaveInv, NEW r \in Runs, SameElsewhere(r), SaveInvOf(r)'
  PROVE  SaveInv'
<1>1. ASSUME NEW s \in Runs, s # r PROVE SaveInvOf(s)'
  <2>1. SaveInvOf(s) /\ pc'[s] = pc[s] /\ msg'[s] = msg[s] /\ idx'[s] = idx[s]
    BY <1>1 DEF SaveInv, SameElsewhere
  <2>2. receipts'[s] = receipts[s] /\ written'[s] = written[s]
    BY <1>1 DEF SameElsewhere
  <2> QED BY <2>1, <2>2 DEF SaveInvOf
<1> QED BY <1>1 DEF SaveInv

LEMMA SaveStep == IInv /\ [Next]_vars => SaveInv'
<1> SUFFICES ASSUME IInv, [Next]_vars PROVE SaveInv'
  OBVIOUS
<1> USE ServiceRunnerAssumption DEF IInv, TypeOK, control, effects
<1>0. \A r \in Runs : SaveInvOf(r) /\ receipts[r] \subseteq written[r]
  BY DEF SaveInv, SaveInvOf
<1> USE <1>0
<1>1. ASSUME NEW r \in Runs, Start(r) PROVE SaveInv'
  <2>1. /\ pc'[r] \in {"decode"} /\ UNCHANGED <<receipts, written>> /\ SameElsewhere(r)
    BY <1>1 DEF Start, SameElsewhere, Goto
  <2>2. SaveInvOf(r)'
    BY <2>1 DEF SaveInvOf
  <2> QED BY <2>1, <2>2, SaveFrame
<1>2. ASSUME NEW r \in Runs, Decode(r) PROVE SaveInv'
  <2>1. /\ pc'[r] \in {"validate", "done"} /\ UNCHANGED <<receipts, written>> /\ SameElsewhere(r)
    BY <1>2 DEF Decode, SameElsewhere, Check, Goto, Finish
  <2>2. SaveInvOf(r)'
    BY <2>1 DEF SaveInvOf
  <2> QED BY <2>1, <2>2, SaveFrame
<1>3. ASSUME NEW r \in Runs, Validate(r) PROVE SaveInv'
  <2>1. /\ pc'[r] \in {"roles", "done"} /\ UNCHANGED <<receipts, written>> /\ SameElsewhere(r)
    BY <1>3 DEF Validate, SameElsewhere, Check, Goto, Finish
  <2>2. SaveInvOf(r)'
    BY <2>1 DEF SaveInvOf
  <2> QED BY <2>1, <2>2, SaveFrame
<1>4. ASSUME NEW r \in Runs, CheckRoleCompatibility(r) PROVE SaveInv'
  <2>1. /\ pc'[r] \in {"authorize", "done"} /\ UNCHANGED <<receipts, written>> /\ SameElsewhere(r)
    BY <1>4 DEF CheckRoleCompatibility, SameElsewhere, Check, Goto, Finish
  <2>2. SaveInvOf(r)'
    BY <2>1 DEF SaveInvOf
  <2> QED BY <2>1, <2>2, SaveFrame
<1>5. ASSUME NEW r \in Runs, Authorize(r) PROVE SaveInv'
  <2>1. /\ pc'[r] \in {"resolve", "done"} /\ UNCHANGED <<receipts, written>> /\ SameElsewhere(r)
    BY <1>5 DEF Authorize, SameElsewhere, Check, Goto, Finish
  <2>2. SaveInvOf(r)'
    BY <2>1 DEF SaveInvOf
  <2> QED BY <2>1, <2>2, SaveFrame
<1>6. ASSUME NEW r \in Runs, ResolveCredentials(r) PROVE SaveInv'
  <2>1. /\ pc[r] = "resolve" /\ pc'[r] \in {"resolve", "load", "done"}
        /\ pc'[r] = "load" => idx'[r] = 1
        /\ UNCHANGED <<msg, receipts, written>> /\ SameElsewhere(r)
    BY <1>6 DEF ResolveCredentials, ResolutionFails, SameElsewhere, effects, NextSpec, RetryOrReraise, Goto, Finish
  <2>2. 1 \in DOMAIN msg[r].inputs
    BY <2>1, ContractShape DEF StageInv, IoStages
  <2>3. SaveInvOf(r)'
    BY <2>1, <2>2 DEF SaveInvOf
  <2> QED BY <2>1, <2>3, SaveFrame
<1>7. ASSUME NEW r \in Runs, LoadInput(r) PROVE SaveInv'
  <2> DEFINE count == Len(msg[r].inputs)
  <2>1. /\ pc[r] = "load" /\ pc'[r] \in {"load", "compute", "done"}
        /\ pc'[r] = "load" => idx'[r] = idx[r] \/ (idx[r] < count /\ idx'[r] = idx[r] + 1)
        /\ UNCHANGED <<msg, receipts, written>> /\ SameElsewhere(r)
    BY <1>7 DEF LoadInput, SameElsewhere, NextSpec, RetryOrReraise, Goto, Finish
  <2>2. count \in Nat /\ DOMAIN msg[r].inputs = 1 .. count
    BY <2>1, ContractShape DEF StageInv, IoStages
  <2>3. idx[r] \in 1 .. count
    BY <2>1, <2>2 DEF SaveInvOf
  <2>4. SaveInvOf(r)'
    BY <2>1, <2>2, <2>3 DEF SaveInvOf
  <2> QED BY <2>1, <2>4, SaveFrame
<1>8. ASSUME NEW r \in Runs, RunCompute(r) PROVE SaveInv'
  <2>1. /\ pc'[r] \in {"gate", "compute", "done"} /\ UNCHANGED <<receipts, written>> /\ SameElsewhere(r)
    BY <1>8 DEF RunCompute, ComputeFails, SameElsewhere, RetryOrReraise, Goto, Finish
  <2>2. SaveInvOf(r)'
    BY <2>1 DEF SaveInvOf
  <2> QED BY <2>1, <2>2, SaveFrame
<1>9. ASSUME NEW r \in Runs, ValidateReadout(r) PROVE SaveInv'
  <2>1. /\ pc[r] = "gate" /\ pc'[r] \in {"save", "done"}
        /\ pc'[r] = "save" => idx'[r] = 1
        /\ UNCHANGED <<msg, receipts, written>> /\ SameElsewhere(r)
    BY <1>9 DEF ValidateReadout, SameElsewhere, Check, Goto, Finish
  <2>2. 1 \in DOMAIN msg[r].outputs /\ receipts[r] = {}
    BY <2>1, ContractShape DEF StageInv, EffectInv, IoStages, BeforeGate
  <2>3. {msg[r].outputs[i].role : i \in 1 .. 1 - 1} = {}
    OBVIOUS
  <2>4. SaveInvOf(r)'
    BY <2>1, <2>2, <2>3 DEF SaveInvOf
  <2> QED BY <2>1, <2>4, SaveFrame
<1>10. ASSUME NEW r \in Runs, OmittedOutput(r) PROVE SaveInv'
  <2>1. /\ pc'[r] \in {"done"} /\ UNCHANGED <<receipts, written>> /\ SameElsewhere(r)
    BY <1>10 DEF OmittedOutput, SameElsewhere, Finish
  <2>2. SaveInvOf(r)'
    BY <2>1 DEF SaveInvOf
  <2> QED BY <2>1, <2>2, SaveFrame
<1>11. ASSUME NEW r \in Runs, SaveOutput(r) PROVE SaveInv'
  <2> DEFINE spec == msg[r].outputs[idx[r]]
             count == Len(msg[r].outputs)
  <2>1. pc[r] = "save" /\ UNCHANGED msg /\ SameElsewhere(r)
    BY <1>11, SaveOutputFrame
  <2>2. /\ count \in Nat /\ DOMAIN msg[r].outputs = 1 .. count
        /\ idx[r] \in 1 .. count
        /\ receipts[r] = {msg[r].outputs[i].role : i \in 1 .. idx[r] - 1}
    BY <2>1, ContractShape DEF StageInv, IoStages, SaveInvOf
  <2>3. CASE /\ Put(r, spec)
             /\ receipts' = [receipts EXCEPT ![r] = @ \cup {spec.role}]
             /\ NextSpec(r, count, "notify")
    <3>1. receipts'[r] = {msg[r].outputs[i].role : i \in 1 .. idx[r]}
      BY <2>2, <2>3
    <3>2. receipts'[r] \subseteq written'[r]
      BY <2>3 DEF Put
    <3> HIDE DEF count, spec
    <3>3. ASSUME idx[r] < count PROVE SaveInvOf(r)'
      <4>1. pc'[r] = "save" /\ idx'[r] = idx[r] + 1
        BY <2>1, <2>3, <3>3 DEF NextSpec
      <4>2. idx'[r] - 1 = idx[r] /\ idx'[r] \in 1 .. count
        BY <2>2, <3>3, <4>1
      <4> QED BY <2>1, <2>2, <3>1, <3>2, <4>1, <4>2 DEF SaveInvOf
    <3>4. ASSUME ~(idx[r] < count) PROVE SaveInvOf(r)'
      <4>1. pc'[r] = "notify" /\ idx[r] = count
        BY <2>2, <2>3, <3>4 DEF NextSpec, Goto
      <4>2. 1 .. idx[r] = DOMAIN msg[r].outputs
        BY <2>2, <4>1
      <4>3. receipts'[r] = {msg[r].outputs[i].role : i \in DOMAIN msg[r].outputs}
        BY <3>1, <4>2, Zenon
      <4> QED BY <2>1, <3>2, <4>1, <4>3 DEF SaveInvOf, RolesOf
    <3>5. SaveInvOf(r)'
      BY <3>3, <3>4
    <3> QED BY <2>1, <3>5, SaveFrame
  <2>4. CASE /\ RetryOrReraise(r) \/ \E how \in Outcomes : Finish(r, how)
             /\ Put(r, spec) \/ UNCHANGED <<store, written>>
             /\ UNCHANGED receipts
    <3>1. pc'[r] = "done" \/ (pc'[r] = "save" /\ idx'[r] = idx[r])
      BY <2>1, <2>4 DEF RetryOrReraise, Finish
    <3>2. written[r] \subseteq written'[r]
      BY <2>4 DEF Put
    <3>3. SaveInvOf(r)'
      BY <2>1, <2>2, <2>4, <3>1, <3>2 DEF SaveInvOf
    <3> QED BY <2>1, <3>3, SaveFrame
  <2>5. {"output_write_failed", "unsupported_scheme", "escaped"} \subseteq Outcomes
    BY DEF Outcomes, ErrorCodes,
      ContractErrors, SecurityErrors, ComputeErrors, StorageErrors, WebhookErrors
  <2> QED BY <1>11, <2>3, <2>4, <2>5, SMTT(60) DEF SaveOutput
<1>12. ASSUME NEW r \in Runs, Notify(r) PROVE SaveInv'
  <2>1. /\ pc[r] = "notify" /\ pc'[r] \in {"notify", "done"}
        /\ UNCHANGED <<msg, receipts, written>> /\ SameElsewhere(r)
    BY <1>12 DEF Notify, SameElsewhere, RetryOrReraise, Finish
  <2>2. SaveInvOf(r)'
    BY <2>1 DEF SaveInvOf
  <2> QED BY <2>1, <2>2, SaveFrame
<1>13. ASSUME NEW r \in Runs, Kill(r) PROVE SaveInv'
  <2>1. /\ pc'[r] \in {"done"} /\ UNCHANGED <<receipts, written>> /\ SameElsewhere(r)
    BY <1>13 DEF Kill, SameElsewhere, Finish
  <2>2. SaveInvOf(r)'
    BY <2>1 DEF SaveInvOf
  <2> QED BY <2>1, <2>2, SaveFrame
<1>14. CASE UNCHANGED vars
  BY <1>14 DEF vars, SaveInv, SaveInvOf
<1> QED
  BY <1>1, <1>2, <1>3, <1>4, <1>5, <1>6, <1>7, <1>8, <1>9, <1>10, <1>11, <1>12, <1>13, <1>14 DEF Next, Step

\* An execution that neither reaches nor makes the announcement.
LEMMA AnnounceFrame ==
  ASSUME TypeOK, AnnounceInv, NEW r \in Runs,
         UNCHANGED <<msg, receipts, accepted>>,
         pc[r] \notin {"notify", "done"}, pc'[r] # "notify",
         outcome'[r] # "ok" \/ outcome'[r] = outcome[r],
         \A s \in Runs \ {r} : /\ pc'[s] = pc[s]
                               /\ attempt'[s] = attempt[s]
                               /\ outcome'[s] = outcome[s]
  PROVE  AnnounceInv'
<1> SUFFICES ASSUME NEW s \in Runs
             PROVE  /\ pc'[s] \notin {"notify", "done"} => accepted[s] = 0
                    /\ pc'[s] = "notify" => accepted[s] < attempt'[s]
                    /\ accepted[s] <= MaxAttempts
                    /\ accepted[s] > 0 => receipts[s] = RolesOf(msg[s].outputs)
                    /\ outcome'[s] = "ok" => accepted[s] > 0
  BY DEF AnnounceInv
<1>1. CASE s = r
  BY <1>1 DEF AnnounceInv
<1>2. CASE s # r
  BY <1>2 DEF AnnounceInv
<1> QED BY <1>1, <1>2

LEMMA AnnounceStep == IInv /\ [Next]_vars => AnnounceInv'
<1> SUFFICES ASSUME IInv, [Next]_vars PROVE AnnounceInv'
  OBVIOUS
<1>2. ASSUME NEW r \in Runs,
             Decode(r) \/ Validate(r) \/ CheckRoleCompatibility(r) \/ Authorize(r)
      PROVE  AnnounceInv'
  <2>1. TypeOK /\ AnnounceInv
    BY DEF IInv
  <2>2. /\ pc[r] \notin {"notify", "done"} /\ pc'[r] # "notify"
        /\ UNCHANGED <<msg, receipts, accepted>>
        /\ outcome'[r] # "ok" \/ outcome'[r] = outcome[r]
        /\ \A s \in Runs \ {r} : /\ pc'[s] = pc[s]
                                 /\ attempt'[s] = attempt[s]
                                 /\ outcome'[s] = outcome[s]
    BY <1>2, <2>1, AdmissionStep DEF effects
  <2> QED BY <2>1, <2>2, AnnounceFrame
<1>6. ASSUME NEW r \in Runs, ResolveCredentials(r) PROVE AnnounceInv'
  <2>1. /\ pc[r] = "resolve" /\ pc'[r] \in {"resolve", "load", "done"}
        /\ UNCHANGED <<msg, receipts, accepted>>
        /\ outcome'[r] # "ok" \/ outcome'[r] = outcome[r]
        /\ \A s \in Runs \ {r} : /\ pc'[s] = pc[s]
                                 /\ attempt'[s] = attempt[s]
                                 /\ outcome'[s] = outcome[s]
    BY <1>6 DEF IInv, TypeOK, ResolveCredentials, ResolutionFails, NextSpec, RetryOrReraise, Goto, Finish, effects
  <2> QED BY <2>1, AnnounceFrame DEF IInv
<1>7. ASSUME NEW r \in Runs, LoadInput(r) PROVE AnnounceInv'
  <2>1. /\ pc[r] = "load" /\ pc'[r] \in {"load", "compute", "done"}
        /\ UNCHANGED <<msg, receipts, accepted>>
        /\ outcome'[r] # "ok" \/ outcome'[r] = outcome[r]
        /\ \A s \in Runs \ {r} : /\ pc'[s] = pc[s]
                                 /\ attempt'[s] = attempt[s]
                                 /\ outcome'[s] = outcome[s]
    BY <1>7 DEF IInv, TypeOK, LoadInput, NextSpec, RetryOrReraise, Goto, Finish, effects
  <2> QED BY <2>1, AnnounceFrame DEF IInv
<1>8. ASSUME NEW r \in Runs, RunCompute(r) PROVE AnnounceInv'
  <2>1. /\ pc[r] = "compute" /\ pc'[r] \in {"compute", "gate", "done"}
        /\ UNCHANGED <<msg, receipts, accepted>>
        /\ outcome'[r] # "ok" \/ outcome'[r] = outcome[r]
        /\ \A s \in Runs \ {r} : /\ pc'[s] = pc[s]
                                 /\ attempt'[s] = attempt[s]
                                 /\ outcome'[s] = outcome[s]
    BY <1>8 DEF IInv, TypeOK, RunCompute, ComputeFails, RetryOrReraise, Goto, Finish, effects
  <2> QED BY <2>1, AnnounceFrame DEF IInv
<1>9. ASSUME NEW r \in Runs, ValidateReadout(r) PROVE AnnounceInv'
  <2>1. /\ pc[r] = "gate" /\ "save" \in Stages /\ TypeOK
        /\ UNCHANGED <<msg, receipts, accepted>>
        /\ Check(r, ReadoutError(msg[r], result[r].readout), "save")
    BY <1>9 DEF IInv, ValidateReadout, effects, Stages
  <2>2. ReadoutError(msg[r], result[r].readout) \in ErrorCodes \cup {NoError}
    BY ErrorsAreCodes
  <2>3. /\ pc'[r] \in {"save", "done"}
        /\ outcome'[r] # "ok" \/ outcome'[r] = outcome[r]
        /\ \A s \in Runs \ {r} : /\ pc'[s] = pc[s]
                                 /\ attempt'[s] = attempt[s]
                                 /\ outcome'[s] = outcome[s]
    BY <2>1, <2>2, CheckStep
  <2> QED BY <2>1, <2>3, AnnounceFrame DEF IInv
<1>10. ASSUME NEW r \in Runs, OmittedOutput(r) PROVE AnnounceInv'
  <2>1. /\ pc[r] = "save" /\ pc'[r] \in {"done"}
        /\ UNCHANGED <<msg, receipts, accepted>>
        /\ outcome'[r] # "ok" \/ outcome'[r] = outcome[r]
        /\ \A s \in Runs \ {r} : /\ pc'[s] = pc[s]
                                 /\ attempt'[s] = attempt[s]
                                 /\ outcome'[s] = outcome[s]
    BY <1>10 DEF IInv, TypeOK, OmittedOutput, Finish, effects
  <2> QED BY <2>1, AnnounceFrame DEF IInv
<1> USE ServiceRunnerAssumption, ContractShape
    DEF IInv, TypeOK, SaveInv, SaveInvOf, AnnounceInv, EffectInv, StageInv,
      AfterDecode, IoStages, control, effects, NoError, Stages, ErrorCodes,
      ContractErrors, SecurityErrors, ComputeErrors, StorageErrors, WebhookErrors
<1>1. ASSUME NEW r \in Runs, Start(r) PROVE AnnounceInv'
  BY <1>1 DEF Start, Goto
<1>11. ASSUME NEW r \in Runs, SaveOutput(r) PROVE AnnounceInv'
  <2>1. /\ pc[r] = "save" /\ pc'[r] \in {"save", "notify", "done"}
        /\ UNCHANGED <<msg, accepted>>
        /\ \A s \in Runs \ {r} : pc'[s] = pc[s] /\ receipts'[s] = receipts[s]
    BY <1>11, SaveOutputFrame DEF SameElsewhere
  <2>2. /\ outcome'[r] # "ok" \/ outcome'[r] = outcome[r]
        /\ \A s \in Runs \ {r} : attempt'[s] = attempt[s] /\ outcome'[s] = outcome[s]
    BY <1>11 DEF SaveOutput, NextSpec, RetryOrReraise, Goto, Finish
  <2>3. pc'[r] = "notify" => attempt'[r] = 1
    BY <1>11 DEF SaveOutput, NextSpec, RetryOrReraise, Goto, Finish
  <2> QED BY <2>1, <2>2, <2>3
<1>12. ASSUME NEW r \in Runs, Notify(r) PROVE AnnounceInv'
  <2>1. /\ pc[r] = "notify" /\ pc'[r] \in {"notify", "done"}
        /\ UNCHANGED <<msg, receipts>>
        /\ pc'[r] = "notify" => attempt'[r] = attempt[r] + 1 /\ outcome'[r] = outcome[r]
        /\ \A s \in Runs \ {r} : /\ pc'[s] = pc[s]
                                 /\ attempt'[s] = attempt[s]
                                 /\ outcome'[s] = outcome[s]
                                 /\ accepted'[s] = accepted[s]
    BY <1>12, SMTT(60) DEF Notify, RetryOrReraise, Finish
  <2>2. \/ accepted'[r] = accepted[r] + 1
        \/ accepted'[r] = accepted[r] /\ (outcome'[r] = "ok" => outcome[r] = "ok")
    BY <1>12, SMTT(60) DEF Notify, RetryOrReraise, Finish
  <2>3. /\ accepted[r] \in Nat /\ attempt[r] \in 1 .. MaxAttempts
        /\ accepted[r] < attempt[r] /\ receipts[r] = RolesOf(msg[r].outputs)
        /\ outcome[r] = "ok" => accepted[r] > 0
    BY <2>1
  <2>4. /\ accepted'[r] <= MaxAttempts
        /\ pc'[r] = "notify" => accepted'[r] < attempt'[r]
    BY <2>1, <2>2, <2>3
  <2>5. outcome'[r] = "ok" => accepted'[r] > 0
    BY <2>2, <2>3
  <2>6. receipts'[r] = RolesOf(msg'[r].outputs)
    BY <2>1, <2>3
  <2>7. ASSUME NEW s \in Runs \ {r}
        PROVE  /\ pc'[s] = pc[s] /\ attempt'[s] = attempt[s] /\ outcome'[s] = outcome[s]
               /\ accepted'[s] = accepted[s] /\ receipts'[s] = receipts[s] /\ msg'[s] = msg[s]
    BY <2>1
  <2> QED BY <2>1, <2>4, <2>5, <2>6, <2>7 DEF AnnounceInv
<1>13. ASSUME NEW r \in Runs, Kill(r) PROVE AnnounceInv'
  BY <1>13 DEF Kill, Finish
<1>14. CASE UNCHANGED vars
  BY <1>14 DEF vars
<1> QED
  BY <1>1, <1>2, <1>6, <1>7, <1>8, <1>9, <1>10, <1>11, <1>12, <1>13, <1>14 DEF Next, Step

LEMMA StoreStep == IInv /\ [Next]_vars => StoreInv'
<1> SUFFICES ASSUME IInv, [Next]_vars PROVE StoreInv'
  OBVIOUS
<1> USE ServiceRunnerAssumption, ContractShape
    DEF IInv, TypeOK, StoreInv, EffectInv, BeforeGate, Stages, control, effects, Blobs
<1>1. ASSUME NEW r \in Runs, Start(r) PROVE StoreInv'
  BY <1>1 DEF Start, Goto
<1>2. ASSUME NEW r \in Runs, Decode(r) PROVE StoreInv'
  BY <1>2 DEF Decode, Check, Goto, Finish
<1>3. ASSUME NEW r \in Runs, Validate(r) PROVE StoreInv'
  BY <1>3 DEF Validate, Check, Goto, Finish, ValidationError
<1>4. ASSUME NEW r \in Runs, CheckRoleCompatibility(r) PROVE StoreInv'
  BY <1>4 DEF CheckRoleCompatibility, Check, Goto, Finish
<1>5. ASSUME NEW r \in Runs, Authorize(r) PROVE StoreInv'
  BY <1>5 DEF Authorize, Check, Goto, Finish
<1>6. ASSUME NEW r \in Runs, ResolveCredentials(r) PROVE StoreInv'
  BY <1>6 DEF ResolveCredentials, ResolutionFails, NextSpec, RetryOrReraise, Goto, Finish
<1>7. ASSUME NEW r \in Runs, LoadInput(r) PROVE StoreInv'
  BY <1>7 DEF LoadInput, NextSpec, RetryOrReraise, Goto, Finish
<1>8. ASSUME NEW r \in Runs, RunCompute(r) PROVE StoreInv'
  BY <1>8 DEF RunCompute, ComputeFails, RetryOrReraise, Goto, Finish
<1>9. ASSUME NEW r \in Runs, ValidateReadout(r) PROVE StoreInv'
  BY <1>9 DEF ValidateReadout, Check, Goto, Finish, ReadoutError
<1>10. ASSUME NEW r \in Runs, OmittedOutput(r) PROVE StoreInv'
  BY <1>10 DEF OmittedOutput, Finish
<1>11. ASSUME NEW r \in Runs, SaveOutput(r) PROVE StoreInv'
  <2> DEFINE spec == msg[r].outputs[idx[r]]
             blob == [run |-> r, role |-> spec.role]
  <2>1. CASE Put(r, spec)
    <3>1. /\ \A u \in Uris : store'[u] = blob \/ store'[u] = store[u]
          /\ written' = [written EXCEPT ![r] = @ \cup {spec.role}]
      BY <2>1 DEF Put
    <3>2. blob.run = r /\ blob.role = spec.role
      OBVIOUS
    <3> HIDE DEF spec, blob
    <3>3. blob.role \in written'[blob.run]
      BY <3>1, <3>2
    <3>4. \A s \in Runs : written[s] \subseteq written'[s]
      BY <3>1
    <3>5. ASSUME NEW u \in Uris, store'[u] # NoData
          PROVE  store'[u].role \in written'[store'[u].run]
      <4>1. CASE store'[u] = blob
        BY <4>1, <3>3
      <4>2. CASE store'[u] = store[u]
        BY <4>2, <3>4, <3>5
      <4> QED BY <3>1, <4>1, <4>2
    <3> QED BY <3>5
  <2>2. CASE UNCHANGED <<store, written>>
    BY <2>2
  <2> QED BY <1>11, <2>1, <2>2 DEF SaveOutput
<1>12. ASSUME NEW r \in Runs, Notify(r) PROVE StoreInv'
  BY <1>12, SMTT(60) DEF Notify, RetryOrReraise, Finish
<1>13. ASSUME NEW r \in Runs, Kill(r) PROVE StoreInv'
  BY <1>13 DEF Kill, Finish
<1>14. CASE UNCHANGED vars
  BY <1>14 DEF vars
<1> QED
  BY <1>1, <1>2, <1>3, <1>4, <1>5, <1>6, <1>7, <1>8, <1>9, <1>10, <1>11, <1>12, <1>13, <1>14 DEF Next, Step

LEMMA GateStep == IInv /\ [Next]_vars => GateInv'
<1> SUFFICES ASSUME IInv, [Next]_vars PROVE GateInv'
  OBVIOUS
<1> USE DEF IInv, TypeOK, GateInv, Stages, control, effects
<1>1. ASSUME NEW r \in Runs, Start(r) PROVE GateInv'
  BY <1>1 DEF Start, Goto
<1>2. ASSUME NEW r \in Runs, Decode(r) PROVE GateInv'
  BY <1>2 DEF Decode, Check, Goto, Finish
<1>3. ASSUME NEW r \in Runs, Validate(r) PROVE GateInv'
  BY <1>3 DEF Validate, Check, Goto, Finish
<1>4. ASSUME NEW r \in Runs, CheckRoleCompatibility(r) PROVE GateInv'
  BY <1>4 DEF CheckRoleCompatibility, Check, Goto, Finish
<1>5. ASSUME NEW r \in Runs, Authorize(r) PROVE GateInv'
  BY <1>5 DEF Authorize, Check, Goto, Finish
<1>6. ASSUME NEW r \in Runs, ResolveCredentials(r) PROVE GateInv'
  BY <1>6 DEF ResolveCredentials, ResolutionFails, NextSpec, RetryOrReraise, Goto, Finish
<1>7. ASSUME NEW r \in Runs, LoadInput(r) PROVE GateInv'
  BY <1>7 DEF LoadInput, NextSpec, RetryOrReraise, Goto, Finish
<1>8. ASSUME NEW r \in Runs, RunCompute(r) PROVE GateInv'
  BY <1>8 DEF RunCompute, ComputeFails, RetryOrReraise, Goto, Finish
<1>9. ASSUME NEW r \in Runs, ValidateReadout(r) PROVE GateInv'
  BY <1>9 DEF ValidateReadout, Check, Goto, Finish
<1>10. ASSUME NEW r \in Runs, OmittedOutput(r) PROVE GateInv'
  BY <1>10 DEF OmittedOutput, Finish
<1>11. ASSUME NEW r \in Runs, SaveOutput(r) PROVE GateInv'
  BY <1>11 DEF SaveOutput, NextSpec, RetryOrReraise, Goto, Finish
<1>12. ASSUME NEW r \in Runs, Notify(r) PROVE GateInv'
  BY <1>12, SMTT(60) DEF Notify, RetryOrReraise, Finish
<1>13. ASSUME NEW r \in Runs, Kill(r) PROVE GateInv'
  BY <1>13 DEF Kill, Finish
<1>14. CASE UNCHANGED vars
  BY <1>14 DEF vars
<1> QED
  BY <1>1, <1>2, <1>3, <1>4, <1>5, <1>6, <1>7, <1>8, <1>9, <1>10, <1>11, <1>12, <1>13, <1>14 DEF Next, Step

\* Only RunCompute produces a result, and it leaves the stages before the gate.
LEMMA ResultStep == IInv /\ [Next]_vars => ResultInv'
<1> SUFFICES ASSUME IInv, [Next]_vars PROVE ResultInv'
  OBVIOUS
<1> USE DEF IInv, TypeOK, ResultInv, StageInv, BeforeGate, IoStages, Stages, control, effects
<1>1. ASSUME NEW r \in Runs, Start(r) PROVE ResultInv'
  BY <1>1 DEF Start, Goto
<1>2. ASSUME NEW r \in Runs,
             Decode(r) \/ Validate(r) \/ CheckRoleCompatibility(r) \/ Authorize(r)
      PROVE  ResultInv'
  <2>1. /\ pc[r] \in BeforeGate /\ UNCHANGED <<msg, result>>
        /\ \A s \in Runs \ {r} : pc'[s] = pc[s]
    BY <1>2, AdmissionStep
  <2> QED BY <2>1
<1>3. ASSUME NEW r \in Runs, ResolveCredentials(r) \/ LoadInput(r) PROVE ResultInv'
  <2>1. /\ pc[r] \in BeforeGate /\ UNCHANGED <<msg, result>>
        /\ \A s \in Runs \ {r} : pc'[s] = pc[s]
    BY <1>3 DEF ResolveCredentials, ResolutionFails, LoadInput, NextSpec, RetryOrReraise, Goto, Finish
  <2> QED BY <2>1
<1>4. ASSUME NEW r \in Runs, RunCompute(r) PROVE ResultInv'
  <2>1. msg[r] \in Contracts /\ WellFormed(msg[r]) /\ UNCHANGED msg
    BY <1>4 DEF RunCompute
  <2>2. /\ \A s \in Runs \ {r} : pc'[s] = pc[s] /\ result'[s] = result[s]
        /\ pc'[r] \in {"gate", "done"} \/ result'[r] = result[r]
        /\ pc[r] \in BeforeGate
    BY <1>4 DEF RunCompute, ComputeFails, RetryOrReraise, Goto, Finish
  <2> QED BY <2>1, <2>2
<1>5. ASSUME NEW r \in Runs,
             ValidateReadout(r) \/ OmittedOutput(r) \/ SaveOutput(r) \/ Notify(r) \/ Kill(r)
      PROVE  ResultInv'
  <2>1. /\ pc'[r] \in {"save", "notify", "done"} /\ UNCHANGED <<msg, result>>
        /\ \A s \in Runs \ {r} : pc'[s] = pc[s]
    <3>1. CASE ValidateReadout(r)
      BY <3>1 DEF ValidateReadout, Check, Goto, Finish
    <3>2. CASE OmittedOutput(r) \/ Kill(r)
      BY <3>2 DEF OmittedOutput, Kill, Finish
    <3>3. CASE SaveOutput(r)
      BY <3>3, SaveOutputFrame DEF SameElsewhere
    <3>4. CASE Notify(r)
      BY <3>4 DEF Notify, RetryOrReraise, Finish
    <3> QED BY <1>5, <3>1, <3>2, <3>3, <3>4
  <2> QED BY <2>1
<1>6. CASE UNCHANGED vars
  BY <1>6 DEF vars
<1> QED
  BY <1>1, <1>2, <1>3, <1>4, <1>5, <1>6 DEF Next, Step

\* What LandedInv speaks of changes only where an execution starts or saves.
LEMMA LandedFrame ==
  ASSUME LandedInv, UNCHANGED <<msg, receipts, store, written>>, TypeOK,
         \A s \in Runs : touched[s] \subseteq touched'[s]
  PROVE  LandedInv'
<1>1. ASSUME NEW u \in Uris, store[u] # NoData
      PROVE  /\ store[u].run \in Runs /\ u \in touched[store[u].run]
             /\ IsOutput(msg[store[u].run], store[u].role, u)
  BY <1>1 DEF LandedInv, TypeOK, Blobs
<1>2. ASSUME NEW u \in Uris, store'[u] # NoData
      PROVE  /\ u \in touched'[store'[u].run]
             /\ IsOutput(msg'[store'[u].run], store'[u].role, u)
  BY <1>1, <1>2
<1> QED BY <1>2 DEF LandedInv

\* An execution that starts has stored nothing.
LEMMA LandedStart ==
  ASSUME IInv, NEW r \in Runs, Start(r)
  PROVE  LandedInv'
<1> USE DEF IInv, TypeOK
<1>1. /\ pc[r] = "idle" /\ UNCHANGED <<receipts, store, touched, written>>
      /\ \A s \in Runs \ {r} : msg'[s] = msg[s]
  BY DEF Start, effects
<1>2. written[r] = {} /\ receipts[r] = {}
  BY <1>1 DEF EffectInv, BeforeGate, Stages
<1>3. \A u \in Uris : store[u] # NoData => store[u].run \in Runs \ {r}
  BY <1>2 DEF StoreInv, Blobs
<1>4. ASSUME NEW u \in Uris, store'[u] # NoData
      PROVE  /\ u \in touched'[store'[u].run]
             /\ IsOutput(msg'[store'[u].run], store'[u].role, u)
  BY <1>1, <1>3, <1>4 DEF LandedInv
<1>5. ASSUME NEW s \in Runs, written'[s] # {}
      PROVE  written'[s] \subseteq RolesOf(msg'[s].outputs)
  BY <1>1, <1>2, <1>5 DEF LandedInv
<1>6. ASSUME NEW s \in Runs, NEW role \in Roles, NEW u \in Uris,
             role \in receipts'[s], IsOutput(msg'[s], role, u)
      PROVE  store'[u] # NoData
  <2>1. s # r /\ msg'[s] = msg[s] /\ role \in receipts[s]
    BY <1>1, <1>2, <1>6
  <2> QED BY <1>1, <1>6, <2>1 DEF LandedInv
<1> QED BY <1>4, <1>5, <1>6 DEF LandedInv

\* save_outputs: a blob goes to the destination of its spec, and a receipt
\* belongs to the only output of that role.
LEMMA LandedSave ==
  ASSUME IInv, NEW r \in Runs, SaveOutput(r)
  PROVE  LandedInv'
<1> USE DEF IInv, TypeOK
<1> DEFINE spec == msg[r].outputs[idx[r]]
           blob == [run |-> r, role |-> spec.role]
<1>1. /\ pc[r] = "save" /\ UNCHANGED msg
      /\ touched' = [touched EXCEPT ![r] = @ \cup {spec.uri}]
      /\ SameElsewhere(r)
  BY SaveOutputFrame
<1>2. /\ msg[r] \in Contracts /\ WellFormed(msg[r]) /\ idx[r] \in DOMAIN msg[r].outputs
  BY <1>1 DEF StageInv, IoStages, SaveInv, SaveInvOf
<1>3. spec.uri \in Uris /\ spec.role \in Roles /\ IsOutput(msg[r], spec.role, spec.uri)
  BY <1>2, ContractShape DEF IsOutput
<1>4. ASSUME NEW u \in Uris, IsOutput(msg[r], spec.role, u) PROVE u = spec.uri
  BY <1>2, <1>4 DEF IsOutput, WellFormed, UniqueRoles
<1>5. /\ \/ Put(r, spec) /\ receipts' = [receipts EXCEPT ![r] = @ \cup {spec.role}]
         \/ Put(r, spec) /\ UNCHANGED receipts
         \/ UNCHANGED <<store, written, receipts>>
  BY DEF SaveOutput
<1>6. ASSUME UNCHANGED <<store, written, receipts>> PROVE LandedInv'
  BY <1>1, <1>6, LandedFrame
<1>7. ASSUME Put(r, spec),
             \/ receipts' = [receipts EXCEPT ![r] = @ \cup {spec.role}]
             \/ UNCHANGED receipts
      PROVE  LandedInv'
  <2> HIDE DEF spec
  <2>1. /\ blob.run = r /\ blob.role = spec.role /\ blob \in Blobs
        /\ store' = [store EXCEPT ![spec.uri] = blob]
        /\ written' = [written EXCEPT ![r] = @ \cup {spec.role}]
    BY <1>3, <1>7 DEF Put, Blobs
  <2> HIDE DEF blob
  <2>2. blob # NoData
    BY <2>1, ServiceRunnerAssumption
  <2>3. ASSUME NEW u \in Uris, store'[u] # NoData
        PROVE  /\ u \in touched'[store'[u].run]
               /\ IsOutput(msg'[store'[u].run], store'[u].role, u)
    <3>1. CASE u = spec.uri
      <4>1. store'[u] = blob /\ u \in touched'[r]
        BY <1>1, <1>3, <2>1, <3>1
      <4> QED BY <1>1, <1>3, <2>1, <3>1, <4>1
    <3>2. CASE u # spec.uri
      <4>1. store'[u] = store[u] /\ store[u].run \in Runs
        BY <2>1, <2>3, <3>2 DEF Blobs
      <4>2. u \in touched[store[u].run] /\ IsOutput(msg[store[u].run], store[u].role, u)
        BY <2>3, <4>1 DEF LandedInv
      <4>3. \A s \in Runs : touched[s] \subseteq touched'[s]
        BY <1>1
      <4> QED BY <1>1, <4>1, <4>2, <4>3
    <3> QED BY <3>1, <3>2
  <2>4. ASSUME NEW s \in Runs, written'[s] # {}
        PROVE  written'[s] \subseteq RolesOf(msg'[s].outputs)
    <3>1. spec.role \in RolesOf(msg[r].outputs)
      BY <1>3 DEF IsOutput, RolesOf
    <3>2. written[s] \subseteq RolesOf(msg[s].outputs)
      BY DEF LandedInv
    <3> QED BY <1>1, <2>1, <3>1, <3>2
  <2>5. ASSUME NEW s \in Runs, NEW role \in Roles, NEW u \in Uris,
               role \in receipts'[s], IsOutput(msg'[s], role, u)
        PROVE  store'[u] # NoData
    <3>1. CASE s = r /\ role = spec.role
      BY <1>1, <1>3, <1>4, <2>1, <2>2, <2>5, <3>1
    <3>2. CASE ~(s = r /\ role = spec.role)
      <4>1. role \in receipts[s]
        BY <1>7, <2>5, <3>2
      <4>2. store[u] # NoData
        BY <1>1, <2>5, <4>1 DEF LandedInv
      <4> QED BY <2>1, <2>2, <4>2
    <3> QED BY <3>1, <3>2
  <2> QED BY <2>3, <2>4, <2>5 DEF LandedInv
<1> QED BY <1>5, <1>6, <1>7

LEMMA LandedStep == IInv /\ [Next]_vars => LandedInv'
<1> SUFFICES ASSUME IInv, [Next]_vars PROVE LandedInv'
  OBVIOUS
<1>1. TypeOK /\ LandedInv
  BY DEF IInv
<1>2. ASSUME NEW r \in Runs,
             \/ Decode(r) \/ Validate(r) \/ CheckRoleCompatibility(r) \/ Authorize(r)
             \/ ResolveCredentials(r) \/ LoadInput(r) \/ RunCompute(r) \/ ValidateReadout(r)
             \/ OmittedOutput(r) \/ Notify(r) \/ Kill(r)
      PROVE  LandedInv'
  <2>1. /\ UNCHANGED <<msg, receipts, store, written>>
        /\ \/ touched' = touched
           \/ touched' = [touched EXCEPT ![r] = @ \cup {msg[r].inputs[idx[r]].uri}]
    BY <1>2 DEF Decode, Validate, CheckRoleCompatibility, Authorize, ResolveCredentials,
         LoadInput, RunCompute, ValidateReadout, OmittedOutput, Notify, Kill, effects
  <2>2. \A s \in Runs : touched[s] \subseteq touched'[s]
    BY <1>1, <2>1 DEF TypeOK
  <2> QED BY <1>1, <2>1, <2>2, LandedFrame
<1>3. CASE UNCHANGED vars
  <2>1. UNCHANGED <<msg, receipts, store, written, touched>>
    BY <1>3 DEF vars
  <2> QED BY <1>1, <2>1, LandedFrame
<1> QED
  BY <1>2, <1>3, LandedStart, LandedSave DEF Next, Step

LEMMA InvariantStep == IInv /\ [Next]_vars => IInv'
BY TypeStep, StageStep, EffectStep, GateStep, SaveStep, AnnounceStep, StoreStep,
   ResultStep, LandedStep DEF IInv

\* Every reachable state satisfies the inductive invariant: it holds at the
\* start of ServiceRunner, and every step function, retry and kill keeps it.
THEOREM Inductive == Spec => []IInv
BY Initially, InvariantStep, PTL DEF Spec

\* Every variable keeps its type: no step of ServiceRunner, no retry and no
\* kill leaves the stages, counters and results the code can be in.
THEOREM TypeCorrect == Spec => []TypeOK
<1>1. IInv => TypeOK
  BY DEF IInv
<1> QED BY Inductive, <1>1, PTL

\* steps.authorize: no effect of an execution before, or without, the
\* authorization of every URI of its contract.
THEOREM AuthorizationPrecedesIo == Spec => []AuthorizedBeforeAnyIo
<1>1. IInv => AuthorizedBeforeAnyIo
  BY DEF IInv, EffectInv, AuthorizedBeforeAnyIo
<1> QED BY Inductive, <1>1, PTL

\* steps.validate_readout: nothing reaches storage but the outputs of an
\* execution whose readout describes its own request and service.
THEOREM StorageIsExplained == Spec => []StoredOnlyIfExplained
<1>1. IInv => StoredOnlyIfExplained
  <2> SUFFICES ASSUME IInv, NEW u \in Uris, store[u] # NoData
               PROVE  Explained(store[u].run)
    BY DEF StoredOnlyIfExplained
  <2>1. store[u].run \in Runs /\ store[u].role \in written[store[u].run]
    BY DEF IInv, TypeOK, StoreInv, Blobs
  <2> QED BY <2>1 DEF IInv, EffectInv
<1> QED BY Inductive, <1>1, PTL

\* steps.notify_webhook: the platform hears of success only after every
\* declared output reached storage, and status "ok" means that it heard.
THEOREM AnnouncementsAreComplete == Spec => []AnnouncedOnlyIfComplete
<1>1. IInv => AnnouncedOnlyIfComplete
  BY DEF IInv, SaveInv, SaveInvOf, AnnounceInv, AnnouncedOnlyIfComplete
<1> QED BY Inductive, <1>1, PTL

\* with_retry around JwtWebhookNotifier.notify: one execution announces its
\* success at most MaxAttempts times.
THEOREM AnnouncementsAreBounded == Spec => []AnnouncementsBounded
<1>1. IInv => AnnouncementsBounded
  BY DEF IInv, AnnounceInv, AnnouncementsBounded
<1> QED BY Inductive, <1>1, PTL

\* save_outputs of concurrent executions: while only executions of the same
\* contract use its destinations, everything an execution announced stays in
\* storage, under the announced role and for the announced request.
THEOREM AnnouncedOutputsRemain == Spec => []AnnouncedOutputsStay
<1>1. IInv => AnnouncedOutputsStay
  <2> SUFFICES ASSUME IInv, NEW r \in Runs, accepted[r] > 0,
                      DistinctDestinations(msg[r]),
                      \A s \in Runs :
                        touched[s] \cap {msg[r].outputs[i].uri : i \in DOMAIN msg[r].outputs} # {}
                          => msg[s] = msg[r],
                      NEW i \in DOMAIN msg[r].outputs
               PROVE  LET blob == store[msg[r].outputs[i].uri]
                      IN  /\ blob # NoData /\ blob.role = msg[r].outputs[i].role
                          /\ msg[blob.run] = msg[r]
    BY DEF AnnouncedOutputsStay
  <2> DEFINE u == msg[r].outputs[i].uri
             role == msg[r].outputs[i].role
             blob == store[u]
  <2>1. msg[r] \in Contracts /\ receipts[r] = RolesOf(msg[r].outputs)
    BY DEF IInv, EffectInv, HadEffect, AnnounceInv
  <2>2. u \in Uris /\ role \in Roles /\ role \in receipts[r] /\ IsOutput(msg[r], role, u)
    BY <2>1, ContractShape DEF RolesOf, IsOutput
  <2>3. blob # NoData
    BY <2>2 DEF IInv, LandedInv
  <2>4. blob.run \in Runs /\ u \in touched[blob.run] /\ IsOutput(msg[blob.run], blob.role, u)
    BY <2>2, <2>3 DEF IInv, LandedInv, TypeOK, Blobs
  <2>5. msg[blob.run] = msg[r]
    BY <2>4
  <2>6. blob.role = role
    BY <2>4, <2>5 DEF IsOutput, DistinctDestinations
  <2> QED BY <2>3, <2>5, <2>6
<1> QED BY Inductive, <1>1, PTL

-----------------------------------------------------------------------------
\* ServiceRunner implements RunPromise.

LEMMA PromiseInit == Init => Promise!Init
<1> SUFFICES ASSUME Init PROVE Promise!Init
  OBVIOUS
<1>1. ASSUME NEW r \in Runs
      PROVE  /\ PhaseOf(r) = "idle" /\ DeclaredOf(r) = {} /\ AnswerOf(r) = "none"
             /\ (accepted[r] > 0) = FALSE
  BY <1>1 DEF Init, PhaseOf, AnswerOf, DeclaredOf, Explained
<1>2. [r \in Runs |-> accepted[r] > 0] = [r \in Runs |-> FALSE]
  BY <1>1
<1>3. written = [r \in Runs |-> {}]
  BY DEF Init
<1> QED BY <1>1, <1>2, <1>3 DEF Promise!Init

\* An action of r leaves what the other executions show of themselves alone.
OthersShowTheSame(r) ==
  \A s \in Runs \ {r} :
    /\ PhaseOf(s)' = PhaseOf(s) /\ DeclaredOf(s)' = DeclaredOf(s) /\ written'[s] = written[s]
    /\ (accepted[s] > 0)' = (accepted[s] > 0) /\ AnswerOf(s)' = AnswerOf(s)

\* What RunPromise sees of an execution is its own state only.
LEMMA OthersShow ==
  ASSUME NEW r \in Runs, SameElsewhere(r),
         \A s \in Runs \ {r} : /\ result'[s] = result[s]
                               /\ accepted'[s] = accepted[s]
                               /\ outcome'[s] = outcome[s]
  PROVE  OthersShowTheSame(r)
BY DEF SameElsewhere, OthersShowTheSame, PhaseOf, DeclaredOf, AnswerOf, Explained

\* So each variable of RunPromise changes at r at most.
LEMMA Shown ==
  ASSUME TypeOK, TypeOK', NEW r \in Runs, OthersShowTheSame(r)
  PROVE  /\ [s \in Runs |-> PhaseOf(s)]'
              = [[s \in Runs |-> PhaseOf(s)] EXCEPT ![r] = PhaseOf(r)']
         /\ [s \in Runs |-> DeclaredOf(s)]'
              = [[s \in Runs |-> DeclaredOf(s)] EXCEPT ![r] = DeclaredOf(r)']
         /\ written' = [written EXCEPT ![r] = written'[r]]
         /\ [s \in Runs |-> accepted[s] > 0]'
              = [[s \in Runs |-> accepted[s] > 0] EXCEPT ![r] = (accepted[r] > 0)']
         /\ [s \in Runs |-> AnswerOf(s)]'
              = [[s \in Runs |-> AnswerOf(s)] EXCEPT ![r] = AnswerOf(r)']
         /\ DeclaredOf(r)' = DeclaredOf(r) =>
              [s \in Runs |-> DeclaredOf(s)]' = [s \in Runs |-> DeclaredOf(s)]
         /\ written'[r] = written[r] => written' = written
         /\ (accepted[r] > 0)' = (accepted[r] > 0) =>
              [s \in Runs |-> accepted[s] > 0]' = [s \in Runs |-> accepted[s] > 0]
         /\ AnswerOf(r)' = AnswerOf(r) =>
              [s \in Runs |-> AnswerOf(s)]' = [s \in Runs |-> AnswerOf(s)]
<1>1. [s \in Runs |-> PhaseOf(s)]' = [[s \in Runs |-> PhaseOf(s)] EXCEPT ![r] = PhaseOf(r)']
  BY Zenon DEF OthersShowTheSame
<1>2. [s \in Runs |-> DeclaredOf(s)]'
        = [[s \in Runs |-> DeclaredOf(s)] EXCEPT ![r] = DeclaredOf(r)']
  BY Zenon DEF OthersShowTheSame
<1>3. written' = [written EXCEPT ![r] = written'[r]]
  BY DEF OthersShowTheSame, TypeOK
<1>4. [s \in Runs |-> accepted[s] > 0]'
        = [[s \in Runs |-> accepted[s] > 0] EXCEPT ![r] = (accepted[r] > 0)']
  BY Zenon DEF OthersShowTheSame
<1>5. [s \in Runs |-> AnswerOf(s)]' = [[s \in Runs |-> AnswerOf(s)] EXCEPT ![r] = AnswerOf(r)']
  BY Zenon DEF OthersShowTheSame
<1>6. ASSUME DeclaredOf(r)' = DeclaredOf(r)
      PROVE  [s \in Runs |-> DeclaredOf(s)]' = [s \in Runs |-> DeclaredOf(s)]
  BY <1>6, Zenon DEF OthersShowTheSame
<1>7. ASSUME written'[r] = written[r] PROVE written' = written
  BY <1>7 DEF OthersShowTheSame, TypeOK
<1>8. ASSUME (accepted[r] > 0)' = (accepted[r] > 0)
      PROVE  [s \in Runs |-> accepted[s] > 0]' = [s \in Runs |-> accepted[s] > 0]
  BY <1>8, Zenon DEF OthersShowTheSame
<1>9. ASSUME AnswerOf(r)' = AnswerOf(r)
      PROVE  [s \in Runs |-> AnswerOf(s)]' = [s \in Runs |-> AnswerOf(s)]
  BY <1>9, Zenon DEF OthersShowTheSame
<1> QED BY <1>1, <1>2, <1>3, <1>4, <1>5, <1>6, <1>7, <1>8, <1>9

\* An action that shows nothing new of r.
LEMMA Stutter ==
  ASSUME TypeOK, TypeOK', NEW r \in Runs, OthersShowTheSame(r),
         PhaseOf(r)' = PhaseOf(r), DeclaredOf(r)' = DeclaredOf(r), written'[r] = written[r],
         (accepted[r] > 0)' = (accepted[r] > 0), AnswerOf(r)' = AnswerOf(r)
  PROVE  UNCHANGED Promise!promise
<1>1. \A s \in Runs :
        /\ PhaseOf(s)' = PhaseOf(s) /\ DeclaredOf(s)' = DeclaredOf(s)
        /\ written'[s] = written[s]
        /\ (accepted[s] > 0)' = (accepted[s] > 0) /\ AnswerOf(s)' = AnswerOf(s)
  BY DEF OthersShowTheSame
<1>2. written' = written
  BY <1>1 DEF TypeOK
<1>3. /\ [s \in Runs |-> PhaseOf(s)]' = [s \in Runs |-> PhaseOf(s)]
      /\ [s \in Runs |-> DeclaredOf(s)]' = [s \in Runs |-> DeclaredOf(s)]
      /\ [s \in Runs |-> accepted[s] > 0]' = [s \in Runs |-> accepted[s] > 0]
      /\ [s \in Runs |-> AnswerOf(s)]' = [s \in Runs |-> AnswerOf(s)]
  BY <1>1, Zenon
<1> QED BY <1>2, <1>3 DEF Promise!promise

\* The actions of an execution concern that execution.
LEMMA ActsAlone ==
  ASSUME TypeOK, NEW r \in Runs, Start(r) \/ Step(r) \/ Kill(r)
  PROVE  /\ SameElsewhere(r)
         /\ \A s \in Runs \ {r} : /\ result'[s] = result[s]
                                  /\ accepted'[s] = accepted[s]
                                  /\ outcome'[s] = outcome[s]
<1> DEFINE Alone == /\ SameElsewhere(r)
                    /\ \A s \in Runs \ {r} : /\ result'[s] = result[s]
                                             /\ accepted'[s] = accepted[s]
                                             /\ outcome'[s] = outcome[s]
<1> USE DEF TypeOK, SameElsewhere, control, effects
<1>1. ASSUME Start(r) PROVE Alone
  BY <1>1 DEF Start, Goto
<1>2. ASSUME Decode(r) \/ Validate(r) \/ CheckRoleCompatibility(r) \/ Authorize(r) \/ ValidateReadout(r) PROVE Alone
  BY <1>2 DEF Decode, Validate, CheckRoleCompatibility, Authorize, ValidateReadout, Check, Goto, Finish
<1>3. ASSUME ResolveCredentials(r) \/ LoadInput(r) PROVE Alone
  BY <1>3 DEF ResolveCredentials, ResolutionFails, LoadInput, NextSpec, RetryOrReraise, Goto, Finish
<1>4. ASSUME RunCompute(r) PROVE Alone
  BY <1>4 DEF RunCompute, ComputeFails, RetryOrReraise, Goto, Finish
<1>5. ASSUME SaveOutput(r) PROVE Alone
  <2>1. SameElsewhere(r) /\ UNCHANGED <<result, accepted>>
    BY <1>5, SaveOutputFrame
  <2>2. \A s \in Runs \ {r} : outcome'[s] = outcome[s]
    BY <1>5 DEF SaveOutput, NextSpec, RetryOrReraise, Goto, Finish
  <2> HIDE DEF SameElsewhere
  <2> QED BY <2>1, <2>2
<1>6. ASSUME Notify(r) PROVE Alone
  BY <1>6 DEF Notify, RetryOrReraise, Finish
<1>7. ASSUME OmittedOutput(r) \/ Kill(r) PROVE Alone
  BY <1>7 DEF OmittedOutput, Kill, Finish
<1> HIDE DEF SameElsewhere
<1> QED BY <1>1, <1>2, <1>3, <1>4, <1>5, <1>6, <1>7 DEF Step

\* An action of one execution shows nothing new of the others.
LEMMA ActionFrame ==
  ASSUME TypeOK, NEW r \in Runs, Start(r) \/ Step(r) \/ Kill(r)
  PROVE  OthersShowTheSame(r)
BY ActsAlone, OthersShow

\* An action that publishes and announces nothing: the execution goes on, or
\* it fails.
LEMMA GoesOnOrFails ==
  ASSUME TypeOK, TypeOK', NEW r \in Runs, OthersShowTheSame(r),
         pc[r] \notin {"idle", "done"}, pc'[r] # "idle",
         pc'[r] = "done" => outcome'[r] # "ok",
         UNCHANGED msg, Explained(r)' <=> Explained(r), written'[r] = written[r],
         accepted'[r] = accepted[r]
  PROVE  Promise!Fail(r) \/ UNCHANGED Promise!promise
<1>1. /\ DeclaredOf(r)' = DeclaredOf(r) /\ (accepted[r] > 0)' = (accepted[r] > 0)
      /\ AnswerOf(r) = "none"
      /\ PhaseOf(r) = IF Explained(r) THEN "explained" ELSE "working"
  BY DEF DeclaredOf, AnswerOf, PhaseOf
<1>2. CASE pc'[r] = "done"
  <2>1. PhaseOf(r)' = "finished"
    BY <1>2 DEF PhaseOf
  <2>2. AnswerOf(r)' = "failed"
    BY <1>2 DEF AnswerOf
  <2> QED BY <1>1, <2>1, <2>2, Shown DEF Promise!Fail, Promise!End
<1>3. CASE pc'[r] # "done"
  <2>1. PhaseOf(r)' = PhaseOf(r) /\ AnswerOf(r)' = AnswerOf(r)
    BY <1>3 DEF PhaseOf, AnswerOf
  <2> QED BY <1>1, <2>1, Stutter
<1> QED BY <1>2, <1>3

\* Start of an execution is Begin of RunPromise.
LEMMA PromiseBegin ==
  ASSUME IInv, TypeOK', NEW r \in Runs, Start(r)
  PROVE  Promise!Begin(r)
<1>1. TypeOK /\ OthersShowTheSame(r)
  BY ActionFrame DEF IInv
<1>2. pc[r] = "idle" /\ pc'[r] = "decode" /\ UNCHANGED <<result, written, accepted>>
  BY <1>1 DEF Start, Goto, effects, TypeOK
<1>3. ~Explained(r) /\ ~Explained(r)'
  BY <1>2 DEF IInv, ResultInv, BeforeGate, Stages, Explained
<1>4. PhaseOf(r) = "idle" /\ PhaseOf(r)' = "working"
  BY <1>2, <1>3 DEF PhaseOf
<1>5. DeclaredOf(r)' = DeclaredOf(r) /\ AnswerOf(r)' = AnswerOf(r)
  BY <1>2, <1>3 DEF DeclaredOf, AnswerOf
<1>6. (accepted[r] > 0)' = (accepted[r] > 0) /\ written'[r] = written[r]
  BY <1>2
<1> QED BY <1>1, <1>4, <1>5, <1>6, Shown DEF Promise!Begin

\* RunCompute explains the result, or the gate will refuse it.
LEMMA PromiseCompute ==
  ASSUME IInv, TypeOK', NEW r \in Runs, RunCompute(r)
  PROVE  Promise!Explain(r) \/ Promise!Fail(r) \/ UNCHANGED Promise!promise
<1>1. TypeOK /\ OthersShowTheSame(r)
  BY ActionFrame DEF IInv, Step
<1>2. pc[r] = "compute" /\ UNCHANGED <<msg, written, accepted>>
  BY DEF RunCompute, effects
<1>3. ~Explained(r)
  BY <1>2 DEF IInv, ResultInv, BeforeGate, Stages, Explained
<1>4. CASE Explained(r)' /\ pc'[r] = "gate"
  <2>1. msg[r] \in Contracts /\ WellFormed(msg[r])
    BY <1>2 DEF IInv, StageInv, IoStages
  <2>2. RolesOf(msg[r].outputs) \in (SUBSET Roles) \ {{}}
    <3>1. RolesOf(msg[r].outputs) \subseteq Roles
      BY <2>1, ContractShape DEF RolesOf
    <3>2. msg[r].outputs[1].role \in RolesOf(msg[r].outputs)
      BY <2>1, ContractShape DEF RolesOf
    <3> QED BY <3>1, <3>2
  <2>3. PhaseOf(r) = "working" /\ PhaseOf(r)' = "explained"
    BY <1>2, <1>3, <1>4 DEF PhaseOf
  <2>4. DeclaredOf(r)' \in (SUBSET Roles) \ {{}}
    BY <1>2, <1>4, <2>2 DEF DeclaredOf
  <2>5. AnswerOf(r)' = AnswerOf(r)
    BY <1>2, <1>4 DEF AnswerOf
  <2>6. (accepted[r] > 0)' = (accepted[r] > 0) /\ written'[r] = written[r]
    BY <1>2
  <2> QED BY <1>1, <2>3, <2>4, <2>5, <2>6, Shown DEF Promise!Explain
<1>5. CASE ~Explained(r)' /\ pc'[r] # "idle" /\ (pc'[r] = "done" => outcome'[r] # "ok")
  BY <1>1, <1>2, <1>3, <1>5, GoesOnOrFails
<1>6. CASE ComputeFails(r) /\ UNCHANGED result
  <2>1. pc'[r] = "compute" \/ (pc'[r] = "done" /\ outcome'[r] # "ok")
    BY <1>1, <1>2, <1>6 DEF ComputeFails, RetryOrReraise, Finish, TypeOK
  <2>2. ~Explained(r)'
    BY <1>2, <1>3, <1>6 DEF Explained
  <2> QED BY <1>5, <2>1, <2>2
<1>7. CASE Goto(r, "gate")
  <2>1. pc'[r] = "gate"
    BY <1>1, <1>7 DEF Goto, TypeOK
  <2> QED BY <1>4, <1>5, <2>1
<1> QED BY <1>6, <1>7 DEF RunCompute

\* save_outputs publishes one role, and may fail having published it.
LEMMA PromiseSave ==
  ASSUME IInv, TypeOK', NEW r \in Runs, SaveOutput(r)
  PROVE  Promise!Publish(r) \/ Promise!Fail(r) \/ UNCHANGED Promise!promise
<1> DEFINE role == msg[r].outputs[idx[r]].role
<1>1. TypeOK /\ OthersShowTheSame(r)
  BY ActionFrame DEF IInv, Step
<1>2. /\ pc[r] = "save" /\ UNCHANGED <<msg, result, accepted>>
      /\ pc'[r] \in {"save", "notify", "done"}
  BY <1>1, SaveOutputFrame
<1>3. pc'[r] = "done" => outcome'[r] # "ok"
  BY <1>1, <1>2 DEF SaveOutput, NextSpec, RetryOrReraise, Goto, Finish, TypeOK
<1>4. Explained(r) /\ Explained(r)' /\ role \in RolesOf(msg[r].outputs)
  BY <1>2 DEF IInv, EffectInv, SaveInv, SaveInvOf, Explained, RolesOf
<1>5. CASE written' = written
  BY <1>1, <1>2, <1>3, <1>4, <1>5, GoesOnOrFails
<1>6. CASE written' = [written EXCEPT ![r] = @ \cup {role}]
  <2>1. written'[r] = written[r] \cup {role}
    BY <1>1, <1>6 DEF TypeOK
  <2>2. /\ PhaseOf(r) = "explained" /\ role \in DeclaredOf(r) /\ AnswerOf(r) = "none"
        /\ DeclaredOf(r)' = DeclaredOf(r) /\ (accepted[r] > 0)' = (accepted[r] > 0)
        /\ \/ PhaseOf(r)' = "explained" /\ AnswerOf(r)' = "none"
           \/ PhaseOf(r)' = "finished" /\ AnswerOf(r)' = "failed"
    BY <1>2, <1>3, <1>4 DEF PhaseOf, DeclaredOf, AnswerOf
  <2> HIDE DEF role
  <2>3. /\ \E x \in DeclaredOf(r) : written' = [written EXCEPT ![r] = @ \cup {x}]
        /\ UNCHANGED <<[s \in Runs |-> DeclaredOf(s)], [s \in Runs |-> accepted[s] > 0]>>
    BY <1>1, <1>6, <2>2, Shown
  <2>4. Promise!Stay \/ Promise!End(r, "failed")
    <3>1. CASE PhaseOf(r)' = "explained" /\ AnswerOf(r)' = "none"
      BY <1>1, <2>2, <3>1, Shown DEF Promise!Stay
    <3>2. CASE PhaseOf(r)' = "finished" /\ AnswerOf(r)' = "failed"
      BY <1>1, <3>2, Shown DEF Promise!End
    <3> QED BY <2>2, <3>1, <3>2
  <2> QED BY <2>2, <2>3, <2>4 DEF Promise!Publish
<1>7. written' = written \/ written' = [written EXCEPT ![r] = @ \cup {role}]
  BY DEF SaveOutput, Put
<1> QED BY <1>5, <1>6, <1>7

\* notify_webhook: what the platform takes is complete.
LEMMA PromiseNotify ==
  ASSUME IInv, TypeOK', NEW r \in Runs, Notify(r)
  PROVE  Promise!Announce(r) \/ Promise!Fail(r) \/ UNCHANGED Promise!promise
<1>1. TypeOK /\ OthersShowTheSame(r)
  BY ActionFrame DEF IInv, Step
<1>2. /\ pc[r] = "notify" /\ UNCHANGED <<msg, result, written>>
      /\ pc'[r] \in {"notify", "done"}
  BY <1>1 DEF Notify, RetryOrReraise, Finish, TypeOK
<1>3. Explained(r) /\ Explained(r)' /\ written[r] = RolesOf(msg[r].outputs)
  <2>1. Explained(r)
    BY <1>2 DEF IInv, EffectInv
  <2>2. RolesOf(msg[r].outputs) \subseteq written[r]
    BY <1>2 DEF IInv, SaveInv, SaveInvOf
  <2>3. written[r] \subseteq RolesOf(msg[r].outputs)
    BY DEF IInv, LandedInv
  <2> QED BY <1>2, <2>1, <2>2, <2>3 DEF Explained
<1>4. CASE accepted'[r] = accepted[r] + 1
  <2>1. (accepted[r] > 0)' = TRUE
    BY <1>1, <1>4 DEF TypeOK
  <2>2. /\ PhaseOf(r) = "explained" /\ AnswerOf(r) = "none" /\ written[r] = DeclaredOf(r)
        /\ DeclaredOf(r)' = DeclaredOf(r)
        /\ \/ PhaseOf(r)' = "explained" /\ AnswerOf(r)' = "none"
           \/ PhaseOf(r)' = "finished" /\ AnswerOf(r)' \in {"ok", "failed"}
    BY <1>2, <1>3 DEF PhaseOf, DeclaredOf, AnswerOf
  <2>3. /\ UNCHANGED <<[s \in Runs |-> DeclaredOf(s)], written>>
        /\ [s \in Runs |-> accepted[s] > 0]'
             = [[s \in Runs |-> accepted[s] > 0] EXCEPT ![r] = TRUE]
    BY <1>1, <1>2, <2>1, <2>2, Shown
  <2>4. Promise!Stay \/ Promise!End(r, "ok") \/ Promise!End(r, "failed")
    <3>1. CASE PhaseOf(r)' = "explained" /\ AnswerOf(r)' = "none"
      BY <1>1, <2>2, <3>1, Shown DEF Promise!Stay
    <3>2. CASE PhaseOf(r)' = "finished" /\ AnswerOf(r)' \in {"ok", "failed"}
      BY <1>1, <3>2, Shown DEF Promise!End
    <3> QED BY <2>2, <3>1, <3>2
  <2> QED BY <2>2, <2>3, <2>4 DEF Promise!Announce
<1>5. CASE accepted' = accepted /\ (pc'[r] = "done" => outcome'[r] # "ok")
  BY <1>1, <1>2, <1>3, <1>5, GoesOnOrFails
<1>6. \/ accepted'[r] = accepted[r] + 1
      \/ accepted' = accepted /\ (pc'[r] = "done" => outcome'[r] # "ok")
  BY <1>1, <1>2 DEF Notify, RetryOrReraise, Finish, TypeOK
<1> QED BY <1>4, <1>5, <1>6

\* Every step of an execution is a step of its promise or none.
LEMMA PromiseStep == IInv /\ [Next]_vars => [Promise!Next]_(Promise!promise)
<1> SUFFICES ASSUME IInv, [Next]_vars PROVE [Promise!Next]_(Promise!promise)
  OBVIOUS
<1>0. TypeOK /\ TypeOK'
  BY TypeStep DEF IInv
<1>1. ASSUME NEW r \in Runs, Start(r) PROVE Promise!Begin(r)
  BY <1>0, <1>1, PromiseBegin
<1>2. ASSUME NEW r \in Runs,
             \/ Decode(r) \/ Validate(r) \/ CheckRoleCompatibility(r) \/ Authorize(r)
             \/ ResolveCredentials(r) \/ LoadInput(r) \/ ValidateReadout(r)
             \/ OmittedOutput(r) \/ Kill(r)
      PROVE  Promise!Fail(r) \/ UNCHANGED Promise!promise
  <2>1. /\ UNCHANGED <<msg, result, written, accepted>>
        /\ pc[r] \notin {"idle", "done"}
    BY <1>2 DEF Decode, Validate, CheckRoleCompatibility, Authorize, ResolveCredentials,
         LoadInput, ValidateReadout, OmittedOutput, Kill, effects
  <2>2. OthersShowTheSame(r)
    BY <1>0, <1>2, ActionFrame DEF Step
  <2>3. pc'[r] # "idle" /\ (pc'[r] = "done" => outcome'[r] # "ok")
    <3>1. CASE Decode(r) \/ Validate(r) \/ CheckRoleCompatibility(r) \/ Authorize(r)
               \/ ValidateReadout(r)
      <4> DEFINE Codes == ErrorCodes \cup {NoError}
      <4>1. /\ {"malformed_message", "invalid_contract", NoError} \subseteq Codes
            /\ ValidationError(msg[r], TRUE) \in Codes /\ AuthorizationError(msg[r]) \in Codes
            /\ ReadoutError(msg[r], result[r].readout) \in Codes
        BY ErrorsAreCodes DEF ErrorCodes, ContractErrors
      <4>2. {"validate", "roles", "authorize", "resolve", "save"} \subseteq Stages \ {"idle", "done"}
        BY DEF Stages
      <4> HIDE DEF Codes
      <4>3. PICK stage \in Stages \ {"idle", "done"}, error \in Codes : Check(r, error, stage)
        BY <3>1, <4>1, <4>2
        DEF Decode, Validate, CheckRoleCompatibility, Authorize, ValidateReadout
      <4> QED BY <1>0, <4>3, CheckEnds DEF Codes
    <3>2. CASE ResolveCredentials(r)
      BY <1>0, <2>1, <3>2
      DEF ResolveCredentials, ResolutionFails, NextSpec, RetryOrReraise, Goto, Finish, TypeOK
    <3>3. CASE LoadInput(r)
      BY <1>0, <2>1, <3>3 DEF LoadInput, NextSpec, RetryOrReraise, Goto, Finish, TypeOK
    <3>4. CASE OmittedOutput(r) \/ Kill(r)
      BY <1>0, <3>4 DEF OmittedOutput, Kill, Finish, TypeOK
    <3> QED BY <1>2, <3>1, <3>2, <3>3, <3>4
  <2>4. Explained(r)' <=> Explained(r)
    BY <2>1 DEF Explained
  <2> QED BY <1>0, <2>1, <2>2, <2>3, <2>4, GoesOnOrFails
<1>3. ASSUME NEW r \in Runs, RunCompute(r)
      PROVE  Promise!Explain(r) \/ Promise!Fail(r) \/ UNCHANGED Promise!promise
  BY <1>0, <1>3, PromiseCompute
<1>4. ASSUME NEW r \in Runs, SaveOutput(r)
      PROVE  Promise!Publish(r) \/ Promise!Fail(r) \/ UNCHANGED Promise!promise
  BY <1>0, <1>4, PromiseSave
<1>5. ASSUME NEW r \in Runs, Notify(r)
      PROVE  Promise!Announce(r) \/ Promise!Fail(r) \/ UNCHANGED Promise!promise
  BY <1>0, <1>5, PromiseNotify
<1>6. CASE UNCHANGED vars
  BY <1>6 DEF vars, Promise!promise, PhaseOf, DeclaredOf, AnswerOf, Explained
<1> QED
  BY <1>1, <1>2, <1>3, <1>4, <1>5, <1>6 DEF Next, Step, Promise!Next

\* ServiceRunner.execute as the platform sees it, for any number of concurrent
\* executions: explained, published, announced and answered in that order and
\* never without the step before.  The safety part of KeepsPromise.
THEOREM Refinement == Spec => Promise!Safe
BY Inductive, PromiseInit, PromiseStep, PTL DEF Spec, Promise!Safe
=============================================================================
