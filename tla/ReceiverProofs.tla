---------------------------- MODULE ReceiverProofs ----------------------------
(***************************************************************************)
(* The safety properties of Receiver for any messages, contracts, registry *)
(* and policies, any number of deliveries and any number of attempts.      *)
(***************************************************************************)
EXTENDS Receiver, SequenceTheorems, WellFoundedInduction, TLAPS

\* A nonempty set of naturals has a least element: what makes "the first
\* refused spec" of `authorize' well defined.
LEMMA LeastElement ==
  ASSUME NEW T, T \subseteq Nat, T # {}
  PROVE  \E m \in T : \A k \in T : m <= k
<1> DEFINE below == {pair \in Nat \X Nat : pair[1] < pair[2]}
<1>1. IsWellFoundedOn(below, Nat)
  BY NatLessThanWellFounded DEF OpToRel
<1>2. PICK m \in T : \A k \in T : <<k, m>> \notin below
  BY <1>1, WFMin, Zenon
<1>3. ASSUME NEW k \in T PROVE m <= k
  <2>1. k \in Nat /\ m \in Nat
    OBVIOUS
  <2>2. k < m => <<k, m>> \in below
    BY <2>1
  <2> QED BY <1>2, <2>1, <2>2
<1> QED BY <1>3

\* steps.authorize: when no spec is refused, the scheme allowlist and the
\* tenant policy accept every URI of the contract.
LEMMA AuthorizationCoversAllSpecs ==
  ASSUME NEW c \in ContractRecords, AuthorizationError(c) = NoError
  PROVE  \A i \in DOMAIN AllSpecs(c) : Authorized(c, AllSpecs(c)[i].uri)
<1> DEFINE refused == {i \in DOMAIN AllSpecs(c) : UriError(c, AllSpecs(c)[i].uri) # NoError}
           first == CHOOSE i \in refused : \A j \in refused : i <= j
<1>1. DOMAIN AllSpecs(c) \subseteq Nat
  <2>1. c.inputs \in Seq(Specs) /\ c.outputs \in Seq(Specs)
    BY DEF ContractRecords
  <2>2. c.inputs \o c.outputs \in Seq(Specs)
    BY <2>1, ConcatProperties, Zenon
  <2>3. /\ DOMAIN (c.inputs \o c.outputs) = 1 .. Len(c.inputs \o c.outputs)
        /\ Len(c.inputs \o c.outputs) \in Nat
    BY <2>2, LenProperties, Zenon
  <2>4. \A n \in Nat : 1 .. n \subseteq Nat
    OBVIOUS
  <2> QED BY <2>3, <2>4, Zenon DEF AllSpecs
<1>2. refused = {}
  <2> SUFFICES ASSUME refused # {} PROVE FALSE
    OBVIOUS
  <2>1. refused \subseteq Nat
    BY <1>1
  <2>2. first \in refused
    BY <2>1, LeastElement
  <2>3. AuthorizationError(c) = UriError(c, AllSpecs(c)[first].uri)
    BY DEF AuthorizationError
  <2> QED BY <2>2, <2>3, Zenon
<1>3. ASSUME NEW u, UriError(c, u) = NoError PROVE Authorized(c, u)
  BY <1>3 DEF UriError, Authorized, NoError
<1> QED BY <1>2, <1>3

\* What is published: a contract, or what does not decode to one.
LEMMA PublishedShape ==
  ASSUME NEW p \in Payloads
  PROVE  p \in ContractRecords \cup {Malformed} /\ p # NoPayload
BY ReceiverAssumption DEF Payloads

\* SharedReceiverRunner.execute and _run_receiver: the errors they report.
LEMMA DecisionType ==
  ASSUME NEW m \in Messages
  PROVE  Decision(m) \in AdmissionErrors \cup {NoError}
<1> USE DEF AdmissionErrors, ContractErrors, SecurityErrors, NoError
<1> DEFINE c == payload[m]
<1>1. ValidationError(c, ~shared[m]) \in AdmissionErrors \cup {NoError}
  BY DEF ValidationError
<1>2. \A u : UriError(c, u) \in AdmissionErrors \cup {NoError}
  BY DEF UriError
<1>3. AuthorizationError(c) \in AdmissionErrors \cup {NoError}
  BY <1>2 DEF AuthorizationError
<1>4. RegistryError(c) \in AdmissionErrors \cup {NoError}
  BY DEF RegistryError
<1>5. RoleError(c) \in AdmissionErrors \cup {NoError}
  BY DEF RoleError
<1>6. \A e, f \in AdmissionErrors \cup {NoError} : FirstError(e, f) \in AdmissionErrors \cup {NoError}
  BY DEF FirstError
<1> HIDE DEF AdmissionErrors, NoError, c
<1>7. "malformed_message" \in AdmissionErrors
  BY DEF AdmissionErrors
<1> QED
  BY <1>1, <1>3, <1>4, <1>5, <1>6, <1>7 DEF Decision, c

\* SharedReceiverRunner.execute and _run_receiver: no check is skipped on the
\* way to the dispatch.
LEMMA AdmittedIsDispatchable ==
  ASSUME NEW m \in Messages, payload[m] \in Payloads, shared[m] \in BOOLEAN,
         Decision(m) = NoError
  PROVE  Dispatchable(m)
<1> DEFINE c == payload[m]
<1>1. c # Malformed
  BY DEF Decision, NoError
<1>2. c \in ContractRecords
  BY <1>1, PublishedShape
<1>3. ValidationError(c, ~shared[m]) = NoError
  BY <1>1 DEF Decision, NoError
<1>4. c.version \in SUPPORTED_PROTOCOL_VERSIONS /\ WellFormed(c) /\ (~shared[m] => c.params)
  BY <1>3 DEF ValidationError, NoError
<1>5. /\ AuthorizationError(c) = NoError
      /\ IF shared[m] THEN RegistryError(c) = NoError ELSE RoleError(c) = NoError
  BY <1>1, <1>3 DEF Decision, FirstError
<1>6. \A i \in DOMAIN AllSpecs(c) : Authorized(c, AllSpecs(c)[i].uri)
  BY <1>2, <1>5, AuthorizationCoversAllSpecs
<1>7. IF shared[m] THEN c.service \in DOMAIN Registry ELSE RolesCompatible(c)
  BY <1>5 DEF RegistryError, RoleError, NoError
<1> QED
  BY <1>1, <1>4, <1>6, <1>7 DEF Dispatchable

\* No message was published, no job was launched.
LEMMA Initially == Init => IInv
<1> SUFFICES ASSUME Init PROVE IInv
  OBVIOUS
<1>1. TypeOK
  BY ReceiverAssumption DEF Init, TypeOK, Answers
<1>2. FlowInv
  BY DEF Init, FlowInv, NoError, AdmissionErrors, ContractErrors, SecurityErrors
<1>3. JobInv
  BY DEF Init, JobInv
<1> QED
  BY <1>1, <1>2, <1>3 DEF IInv

-----------------------------------------------------------------------------
\* The names of deliveries and jobs.

LEMMA Names ==
  /\ \A d \in Deliveries :
       d[1] \in Messages /\ d[2] \in 1 .. MaxDeliveries /\ d = <<d[1], d[2]>>
  /\ \A j \in Jobs : /\ j[1] \in Messages /\ j[3] \in 1 .. MaxAttempts
                     /\ Delivery(j) \in Deliveries
                     /\ Delivery(j)[1] = j[1] /\ Delivery(j)[2] = j[2]
                     /\ j = <<j[1], j[2], j[3]>>
BY DEF Deliveries, Jobs, Delivery

\* The decision about a message looks at its payload and its topic only.
LEMMA DecisionFrame ==
  ASSUME NEW m \in Messages, payload'[m] = payload[m], shared'[m] = shared[m]
  PROVE  Decision(m)' = Decision(m)
BY DEF Decision

\* Publish is the only action that writes a payload, and it writes that of a
\* message nobody has seen.
LEMMA DecisionsStand ==
  ASSUME IInv, [Next]_vars
  PROVE  \A m \in Messages : topic[m] # "unpublished" => Decision(m)' = Decision(m)
<1> USE DEF IInv, TypeOK
<1>1. CASE UNCHANGED vars
  BY <1>1, DecisionFrame DEF vars
<1>2. ASSUME NEW m \in Messages, Publish(m)
      PROVE  \A n \in Messages : topic[n] # "unpublished" => Decision(n)' = Decision(n)
  <2>1. \A n \in Messages : topic[n] # "unpublished"
                            => payload'[n] = payload[n] /\ shared'[n] = shared[n]
    BY <1>2 DEF Publish
  <2> QED
    BY <2>1, DecisionFrame
<1>3. CASE UNCHANGED <<payload, shared>>
  BY <1>3, DecisionFrame
<1>4. ASSUME NEW m \in Messages, Deliver(m) \/ Expire(m) \/ DeadLetter(m)
      PROVE  UNCHANGED <<payload, shared>>
  BY <1>4 DEF Deliver, Expire, DeadLetter
<1>5. ASSUME NEW d \in Deliveries, Serve(d) \/ Crash(d)
      PROVE  UNCHANGED <<payload, shared>>
  BY <1>5 DEF Serve, Crash, Admit, Dispatch, Reply, pubsub
<1> QED
  BY <1>1, <1>2, <1>3, <1>4, <1>5 DEF Next

-----------------------------------------------------------------------------
\* Dispatch: what one call of run_job and with_retry do to the request.
LEMMA DispatchStep ==
  ASSUME TypeOK, NEW d \in Deliveries, Dispatch(d)
  PROVE  /\ rpc[d] = "dispatch"
         /\ jobs' = jobs \/ jobs' = jobs \cup {<<d[1], d[2], rattempt[d]>>}
         /\ \/ /\ rattempt[d] < MaxAttempts
               /\ rattempt' = [rattempt EXCEPT ![d] = @ + 1]
               /\ UNCHANGED <<rpc, answer>>
            \/ /\ UNCHANGED rattempt
               /\ rpc' = [rpc EXCEPT ![d] = "reply"]
               /\ \E how \in {"ok", "internal_error", "compute_failed"} :
                    /\ answer' = [answer EXCEPT ![d] = how]
                    /\ how = "ok" => <<d[1], d[2], rattempt[d]>> \in jobs'
         /\ UNCHANGED <<topic, payload, shared, sent, leased>>
BY DEF Dispatch, Launch, RetryDispatch, Respond, pubsub

\* It concerns no other request, and takes back no job.
LEMMA DispatchFrame ==
  ASSUME TypeOK, NEW d \in Deliveries, Dispatch(d)
  PROVE  /\ \A e \in Deliveries \ {d} : /\ rpc'[e] = rpc[e] /\ answer'[e] = answer[e]
                                       /\ rattempt'[e] = rattempt[e]
         /\ jobs \subseteq jobs'
<1>1. /\ DOMAIN rpc = Deliveries /\ DOMAIN answer = Deliveries /\ DOMAIN rattempt = Deliveries
  BY DEF TypeOK
<1>2. jobs \subseteq jobs'
  BY DispatchStep
<1>3. \A e \in Deliveries \ {d} : rpc'[e] = rpc[e] /\ rattempt'[e] = rattempt[e]
  <2>1. /\ UNCHANGED rpc \/ rpc' = [rpc EXCEPT ![d] = "reply"]
        /\ UNCHANGED rattempt \/ rattempt' = [rattempt EXCEPT ![d] = @ + 1]
    BY DispatchStep
  <2> QED
    BY <1>1, <2>1
<1>4. \A e \in Deliveries \ {d} : answer'[e] = answer[e]
  <2>1. \/ UNCHANGED answer
        \/ \E how \in {"ok", "internal_error", "compute_failed"} : answer' = [answer EXCEPT ![d] = how]
    BY DispatchStep
  <2> QED
    BY <1>1, <2>1
<1> QED
  BY <1>2, <1>3, <1>4

\* Whatever Pub/Sub, a request or Cloud Run does, every variable keeps its type.
LEMMA TypeStep == IInv /\ [Next]_vars => TypeOK'
<1> SUFFICES ASSUME IInv, [Next]_vars PROVE TypeOK'
  OBVIOUS
<1> USE ReceiverAssumption DEF IInv, TypeOK
<1>1. CASE UNCHANGED vars
  BY <1>1 DEF vars
<1>2. ASSUME NEW m \in Messages, Publish(m) PROVE TypeOK'
  <2>1. \A p \in Publications : p[1] \in Payloads /\ p[2] \in BOOLEAN
    BY DEF Payloads
  <2> QED
    BY <1>2, <2>1 DEF Publish, requests
<1>3. ASSUME NEW m \in Messages, Deliver(m) PROVE TypeOK'
  <2>1. sent[m] + 1 \in 1 .. MaxDeliveries
    BY <1>3 DEF Deliver
  <2>2. <<m, sent[m] + 1>> \in Deliveries
    BY <2>1 DEF Deliveries
  <2>3. sent' \in [Messages -> 0 .. MaxDeliveries]
    BY <1>3, <2>1 DEF Deliver
  <2> QED
    BY <1>3, <2>2, <2>3 DEF Deliver
<1>4. ASSUME NEW m \in Messages, Expire(m) \/ DeadLetter(m) PROVE TypeOK'
  BY <1>4 DEF Expire, DeadLetter, requests
<1>5. ASSUME NEW d \in Deliveries, Admit(d) PROVE TypeOK'
  <2>1. Decision(d[1]) \in Answers
    BY Names, DecisionType DEF Answers
  <2> QED
    BY <1>5, <2>1 DEF Admit, Respond, pubsub
<1>6. ASSUME NEW d \in Deliveries, Dispatch(d) PROVE TypeOK'
  <2>1. <<d[1], d[2], rattempt[d]>> \in Jobs
    BY Names DEF Jobs
  <2>2. jobs' \subseteq Jobs
    BY <1>6, <2>1, DispatchStep
  <2>3. rattempt' \in [Deliveries -> 1 .. MaxAttempts]
    <3>1. CASE UNCHANGED rattempt
      BY <3>1
    <3>2. CASE rattempt[d] < MaxAttempts /\ rattempt' = [rattempt EXCEPT ![d] = @ + 1]
      <4>1. rattempt[d] + 1 \in 1 .. MaxAttempts
        BY <3>2
      <4> QED
        BY <3>2, <4>1
    <3> QED
      BY <1>6, <3>1, <3>2, DispatchStep
  <2>4. answer' \in [Deliveries -> Answers] /\ rpc' \in [Deliveries ->
           {"none", "admit", "dispatch", "reply", "closed"}]
    <3>1. CASE UNCHANGED <<rpc, answer>>
      BY <3>1
    <3>2. ASSUME NEW how \in {"ok", "internal_error", "compute_failed"},
                 answer' = [answer EXCEPT ![d] = how], rpc' = [rpc EXCEPT ![d] = "reply"]
          PROVE  answer' \in [Deliveries -> Answers] /\ rpc' \in [Deliveries ->
                   {"none", "admit", "dispatch", "reply", "closed"}]
      BY <3>2 DEF Answers
    <3> QED
      BY <1>6, <3>1, <3>2, DispatchStep
  <2> QED
    BY <1>6, <2>2, <2>3, <2>4, DispatchStep
<1>7. ASSUME NEW d \in Deliveries, Reply(d) PROVE TypeOK'
  BY <1>7, Names DEF Reply
<1>8. ASSUME NEW d \in Deliveries, Crash(d) PROVE TypeOK'
  BY <1>8 DEF Crash, pubsub
<1> QED
  BY <1>1, <1>2, <1>3, <1>4, <1>5, <1>6, <1>7, <1>8 DEF Next, Serve

\* Only what was published is delivered.
LEMMA Started ==
  ASSUME IInv, NEW d \in Deliveries, rpc[d] # "none"
  PROVE  topic[d[1]] # "unpublished"
<1>1. d[1] \in Messages /\ d[2] \in 1 .. MaxDeliveries
  BY Names
<1>2. d[2] > 0
  BY <1>1, ReceiverAssumption
<1>3. ~(d[2] > sent[d[1]])
  BY DEF IInv, FlowInv
<1>4. sent[d[1]] # 0
  BY <1>2, <1>3
<1> QED
  BY <1>1, <1>4 DEF IInv, FlowInv

\* What a delivery has come to, as far as its own step does not change it.
Settled(d) ==
  /\ rpc[d] \in {"none", "admit", "dispatch"} => answer[d] = NoError
  /\ rpc[d] = "dispatch" => Decision(d[1]) = NoError
  /\ answer[d] \in AdmissionErrors => Decision(d[1]) = answer[d]
  /\ answer[d] = "ok" => <<d[1], d[2], rattempt[d]>> \in jobs

\* What is settled stays settled, also when the request is closed or lost.
LEMMA SettledFrame ==
  ASSUME IInv, [Next]_vars, NEW d \in Deliveries,
         rpc'[d] = rpc[d] \/ (rpc[d] # "none" /\ rpc'[d] = "closed"),
         answer'[d] = answer[d], rattempt'[d] = rattempt[d], jobs \subseteq jobs'
  PROVE  Settled(d)'
<1>1. Settled(d)
  BY DEF IInv, FlowInv, Settled
<1>2. NoError \notin AdmissionErrors
  BY DEF NoError, AdmissionErrors, ContractErrors, SecurityErrors
<1>3. rpc[d] # "none" => Decision(d[1])' = Decision(d[1])
  BY Started, Names, DecisionsStand
<1> QED
  BY <1>1, <1>2, <1>3 DEF Settled

\* Deliveries of one message and requests of one instance do not disturb each
\* other: each step settles its own delivery and leaves the others alone.
LEMMA FlowStep == IInv /\ [Next]_vars => FlowInv'
<1> SUFFICES ASSUME IInv, [Next]_vars PROVE FlowInv'
  OBVIOUS
<1> DEFINE Topics == /\ \A m \in Messages : topic[m] = "unpublished" => sent[m] = 0 /\ ~leased[m]
                     /\ \A m \in Messages : topic[m] # "unpublished" => payload[m] \in Payloads
                     /\ \A d \in Deliveries : d[2] > sent[d[1]] => rpc[d] = "none"
<1> SUFFICES Topics' /\ \A d \in Deliveries : Settled(d)'
  BY DEF FlowInv, Settled
<1> USE DEF TypeOK
<1>0. TypeOK /\ Topics /\ \A d \in Deliveries : Settled(d)
  BY DEF IInv, FlowInv, Settled
<1>1. CASE UNCHANGED vars
  <2>1. Topics'
    BY <1>0, <1>1 DEF vars
  <2> QED
    BY <1>1, <2>1, SettledFrame DEF vars
<1>2. ASSUME NEW m \in Messages, Publish(m)
      PROVE  Topics' /\ \A d \in Deliveries : Settled(d)'
  <2>1. \A p \in Publications : p[1] \in Payloads /\ p[2] \in BOOLEAN
    BY ReceiverAssumption DEF Payloads
  <2>2. Topics'
    BY <1>0, <1>2, <2>1 DEF Publish, requests
  <2> QED
    BY <1>2, <2>2, SettledFrame DEF Publish, requests
<1>3. ASSUME NEW m \in Messages, Deliver(m)
      PROVE  Topics' /\ \A d \in Deliveries : Settled(d)'
  <2>0. sent[m] + 1 \in 1 .. MaxDeliveries
    BY <1>0, <1>3, ReceiverAssumption DEF Deliver
  <2>1. PICK new \in Deliveries :
          new = <<m, sent[m] + 1>> /\ new[1] = m /\ new[2] = sent[m] + 1
    <3>1. <<m, sent[m] + 1>> \in Deliveries
      BY <2>0 DEF Deliveries
    <3>2. <<m, sent[m] + 1>>[1] = m /\ <<m, sent[m] + 1>>[2] = sent[m] + 1
      OBVIOUS
    <3> QED
      BY <3>1, <3>2
  <2>2. /\ topic[m] = "pending"
        /\ sent' = [sent EXCEPT ![m] = @ + 1]
        /\ rpc' = [rpc EXCEPT ![new] = "admit"]
        /\ leased' = [leased EXCEPT ![m] = TRUE]
        /\ UNCHANGED <<topic, payload, shared, rattempt, answer, jobs>>
    BY <1>0, <1>3, <2>1 DEF Deliver
  <2>3. rpc[new] = "none"
    BY <1>0, <2>2, <2>1
  <2>4. \A d \in Deliveries : d[2] > sent'[d[1]] => rpc'[d] = "none"
    <3> SUFFICES ASSUME NEW d \in Deliveries, d[2] > sent'[d[1]] PROVE rpc'[d] = "none"
      OBVIOUS
    <3>1. d[1] \in Messages /\ d[2] \in 1 .. MaxDeliveries
      BY Names
    <3>2. d[2] > sent[d[1]] /\ (d[1] = m => d[2] # sent[m] + 1)
      BY <1>0, <2>2, <3>1
    <3> QED
      BY <1>0, <2>2, <2>1, <3>2
  <2>5. Settled(new)'
    <3>1. answer[new] = NoError
      BY <1>0, <2>1, <2>3 DEF Settled
    <3>2. answer'[new] = NoError /\ rpc'[new] = "admit"
      BY <1>0, <2>2, <2>1, <3>1
    <3> QED
      BY <3>2 DEF Settled, NoError, AdmissionErrors, ContractErrors, SecurityErrors
  <2>6. \A d \in Deliveries \ {new} : Settled(d)'
    BY <1>0, <2>2, SettledFrame
  <2>7. \A n \in Messages : /\ topic'[n] = "unpublished" => sent'[n] = 0 /\ ~leased'[n]
                            /\ topic'[n] # "unpublished" => payload'[n] \in Payloads
    BY <1>0, <2>2
  <2> QED
    BY <2>4, <2>5, <2>6, <2>7
<1>4. ASSUME NEW m \in Messages, Expire(m) \/ DeadLetter(m)
      PROVE  Topics' /\ \A d \in Deliveries : Settled(d)'
  <2>1. Topics'
    BY <1>0, <1>4 DEF Expire, DeadLetter, requests
  <2> QED
    BY <1>4, <2>1, SettledFrame DEF Expire, DeadLetter, requests
<1>5. ASSUME NEW d \in Deliveries, Admit(d)
      PROVE  Topics' /\ \A e \in Deliveries : Settled(e)'
  <2>1. Topics'
    BY <1>0, <1>5 DEF Admit, Respond, pubsub
  <2>2. \A e \in Deliveries \ {d} : Settled(e)'
    BY <1>0, <1>5, SettledFrame DEF Admit, Respond, pubsub
  <2>3. Decision(d[1])' = Decision(d[1]) /\ Decision(d[1]) \in AdmissionErrors \cup {NoError}
    BY <1>5, Started, Names, DecisionsStand, DecisionType DEF Admit
  <2>4. Settled(d)'
    <3>1. CASE Decision(d[1]) # NoError /\ Respond(d, Decision(d[1]))
      <4>1. answer'[d] = Decision(d[1]) /\ rpc'[d] = "reply"
        BY <1>0, <3>1 DEF Respond
      <4> QED
        BY <2>3, <3>1, <4>1 DEF Settled, AdmissionErrors, ContractErrors, SecurityErrors
    <3>2. CASE Decision(d[1]) = NoError /\ rpc' = [rpc EXCEPT ![d] = "dispatch"] /\ UNCHANGED answer
      <4>1. answer'[d] = NoError /\ rpc'[d] = "dispatch"
        BY <1>0, <1>5, <3>2 DEF Admit, Settled
      <4> QED
        BY <2>3, <3>2, <4>1 DEF Settled, NoError, AdmissionErrors, ContractErrors, SecurityErrors
    <3> QED
      BY <1>5, <3>1, <3>2 DEF Admit
  <2> QED
    BY <2>1, <2>2, <2>4
<1>6. ASSUME NEW d \in Deliveries, Dispatch(d)
      PROVE  Topics' /\ \A e \in Deliveries : Settled(e)'
  <2>1. Topics'
    BY <1>0, <1>6, DispatchStep
  <2>2. \A e \in Deliveries \ {d} : Settled(e)'
    BY <1>0, <1>6, DispatchFrame, SettledFrame
  <2>3. Settled(d)'
    <3>1. /\ rpc[d] = "dispatch" /\ answer[d] = NoError /\ Decision(d[1]) = NoError
          /\ Decision(d[1])' = NoError
      <4>1. rpc[d] = "dispatch"
        BY <1>0, <1>6, DispatchStep
      <4>2. Decision(d[1])' = Decision(d[1])
        BY <4>1, Started, Names, DecisionsStand
      <4> QED
        BY <1>0, <4>1, <4>2 DEF Settled
    <3>2. CASE UNCHANGED <<rpc, answer>>
      BY <3>1, <3>2 DEF Settled, NoError, AdmissionErrors, ContractErrors, SecurityErrors
    <3>3. ASSUME NEW how \in {"ok", "internal_error", "compute_failed"},
                 UNCHANGED rattempt, rpc' = [rpc EXCEPT ![d] = "reply"],
                 answer' = [answer EXCEPT ![d] = how],
                 how = "ok" => <<d[1], d[2], rattempt[d]>> \in jobs'
          PROVE  Settled(d)'
      <4>1. answer'[d] = how /\ rpc'[d] = "reply"
        BY <1>0, <3>3
      <4> QED
        BY <3>3, <4>1 DEF Settled, AdmissionErrors, ContractErrors, SecurityErrors
    <3> QED
      BY <1>0, <1>6, <3>2, <3>3, DispatchStep
  <2> QED
    BY <2>1, <2>2, <2>3
<1>7. ASSUME NEW d \in Deliveries, Reply(d) \/ Crash(d)
      PROVE  Topics' /\ \A e \in Deliveries : Settled(e)'
  <2>1. Topics'
    <3>1. topic[d[1]] # "unpublished" /\ d[1] \in Messages
      BY <1>7, Started, Names DEF Reply, Crash
    <3>2. CASE Reply(d)
      BY <1>0, <3>1, <3>2 DEF Reply
    <3>3. CASE Crash(d)
      BY <1>0, <3>3 DEF Crash, pubsub
    <3> QED
      BY <1>7, <3>2, <3>3
  <2>2. \A e \in Deliveries : /\ rpc'[e] = rpc[e] \/ (rpc[e] # "none" /\ rpc'[e] = "closed")
                             /\ UNCHANGED <<answer, rattempt, jobs>>
    BY <1>0, <1>7 DEF Reply, Crash, pubsub
  <2> QED
    BY <2>1, <2>2, SettledFrame
<1> QED
  BY <1>1, <1>2, <1>3, <1>4, <1>5, <1>6, <1>7 DEF Next, Serve

\* A job is launched by the dispatch of its own delivery, whose attempts only
\* count upwards; that delivery never dispatches before it was admitted.
LEMMA JobStep == IInv /\ [Next]_vars => JobInv'
<1> SUFFICES ASSUME IInv, [Next]_vars PROVE JobInv'
  OBVIOUS
<1> USE DEF TypeOK
<1>0. TypeOK /\ JobInv
  BY DEF IInv
<1>1. ASSUME NEW j \in jobs
      PROVE  Decision(j[1])' = NoError /\ Delivery(j) \in Deliveries
  <2>1. Delivery(j) \in Deliveries /\ Delivery(j)[1] = j[1] /\ j[1] \in Messages
    BY <1>0, Names
  <2>2. rpc[Delivery(j)] # "none" /\ Decision(j[1]) = NoError
    BY <1>0 DEF JobInv
  <2> QED
    BY <2>1, <2>2, Started, DecisionsStand
<1>2. ASSUME UNCHANGED <<rattempt, jobs>>,
             \A d \in Deliveries : rpc[d] \notin {"none", "admit"}
                                    => rpc'[d] \notin {"none", "admit"}
      PROVE  JobInv'
  BY <1>0, <1>1, <1>2 DEF JobInv, Delivery
<1>3. CASE UNCHANGED vars
  BY <1>2, <1>3 DEF vars
<1>4. ASSUME NEW m \in Messages, Publish(m) \/ Expire(m) \/ DeadLetter(m) PROVE JobInv'
  BY <1>2, <1>4 DEF Publish, Expire, DeadLetter, requests
<1>5. ASSUME NEW m \in Messages, Deliver(m) PROVE JobInv'
  <2>1. rpc' = [rpc EXCEPT ![<<m, sent[m] + 1>>] = "admit"] /\ UNCHANGED <<rattempt, jobs>>
    BY <1>5 DEF Deliver
  <2>2. ASSUME NEW d \in Deliveries, d = <<m, sent[m] + 1>> PROVE rpc[d] = "none"
    <3>1. d[1] = m /\ d[2] = sent[m] + 1
      BY <2>2
    <3>2. d[2] > sent[d[1]]
      BY <1>0, <3>1, ReceiverAssumption
    <3> QED
      BY <3>2 DEF IInv, FlowInv
  <2> QED
    BY <1>0, <1>2, <2>1, <2>2
<1>6. ASSUME NEW d \in Deliveries, Admit(d) \/ Reply(d) \/ Crash(d) PROVE JobInv'
  BY <1>0, <1>2, <1>6 DEF Admit, Respond, Reply, Crash, pubsub
<1>7. ASSUME NEW d \in Deliveries, Dispatch(d) PROVE JobInv'
  <2>1. Decision(d[1])' = NoError
    <3>1. rpc[d] = "dispatch" /\ Decision(d[1]) = NoError
      BY <1>7 DEF Dispatch, IInv, FlowInv
    <3> QED
      BY <3>1, Started, Names, DecisionsStand
  <2>2. \A e \in Deliveries : /\ rpc[e] \notin {"none", "admit"} => rpc'[e] \notin {"none", "admit"}
                             /\ rattempt[e] <= rattempt'[e]
    <3>1. \A e \in Deliveries : rpc[e] \notin {"none", "admit"} => rpc'[e] \notin {"none", "admit"}
      BY <1>0, <1>7, DispatchStep
    <3>2. CASE UNCHANGED rattempt
      BY <1>0, <3>1, <3>2, ReceiverAssumption
    <3>3. CASE rattempt' = [rattempt EXCEPT ![d] = @ + 1]
      BY <1>0, <3>1, <3>3, ReceiverAssumption
    <3> QED
      BY <1>0, <1>7, <3>2, <3>3, DispatchStep
  <2>3. ASSUME NEW j \in jobs
        PROVE  /\ rpc'[Delivery(j)] \notin {"none", "admit"}
               /\ j[3] <= rattempt'[Delivery(j)]
               /\ Decision(j[1])' = NoError
    <3>1. /\ rpc[Delivery(j)] \notin {"none", "admit"}
          /\ j[3] <= rattempt[Delivery(j)]
      BY <1>0 DEF JobInv
    <3>2. j[3] \in Nat /\ rattempt[Delivery(j)] \in Nat /\ rattempt'[Delivery(j)] \in Nat
      <4>1. TypeOK'
        BY TypeStep
      <4> QED
        BY <1>0, <1>1, <4>1, Names, ReceiverAssumption
    <3> QED
      BY <1>1, <2>2, <3>1, <3>2
  <2>4. ASSUME NEW j, j = <<d[1], d[2], rattempt[d]>>
        PROVE  /\ rpc'[Delivery(j)] \notin {"none", "admit"}
               /\ j[3] <= rattempt'[Delivery(j)]
               /\ Decision(j[1])' = NoError
    <3>1. Delivery(j) = d /\ j[1] = d[1] /\ j[3] = rattempt[d]
      BY <2>4, Names DEF Delivery
    <3>2. rpc[d] = "dispatch"
      BY <1>7 DEF Dispatch
    <3> QED
      BY <2>1, <2>2, <3>1, <3>2
  <2>5. \A j \in jobs' : j \in jobs \/ j = <<d[1], d[2], rattempt[d]>>
    <3>1. jobs' = jobs \/ jobs' = jobs \cup {<<d[1], d[2], rattempt[d]>>}
      BY <1>0, <1>7, DispatchStep
    <3> QED
      BY <3>1
  <2> QED
    BY <2>3, <2>4, <2>5 DEF JobInv, Delivery
<1> QED
  BY <1>3, <1>4, <1>5, <1>6, <1>7 DEF Next, Serve

\* The receivers, Pub/Sub and Cloud Run together, whatever is redelivered,
\* retried or lost.
THEOREM Inductive == Spec => []IInv
<1>1. IInv /\ [Next]_vars => IInv'
  BY TypeStep, FlowStep, JobStep DEF IInv
<1> QED
  BY Initially, <1>1, PTL DEF Spec

\* SharedReceiverRunner.execute and _run_receiver: however a message is
\* redelivered and a dispatch retried, a worker is started for admitted
\* contracts only.
THEOREM Admitted == Spec => []JobsAreAdmitted
<1>1. IInv => JobsAreAdmitted
  <2> SUFFICES ASSUME IInv, NEW j \in jobs PROVE Dispatchable(j[1])
    BY DEF JobsAreAdmitted
  <2> USE DEF IInv
  <2>1. j[1] \in Messages /\ Delivery(j) \in Deliveries /\ Delivery(j)[1] = j[1]
    BY Names DEF TypeOK
  <2>2. rpc[Delivery(j)] # "none" /\ Decision(j[1]) = NoError
    BY DEF JobInv
  <2>3. topic[j[1]] # "unpublished"
    BY <2>1, <2>2, Started
  <2>4. payload[j[1]] \in Payloads /\ shared[j[1]] \in BOOLEAN
    BY <2>1, <2>3 DEF FlowInv, TypeOK
  <2> QED
    BY <2>1, <2>2, <2>4, AdmittedIsDispatchable
<1> QED
  BY Inductive, <1>1, PTL

\* The answers of the receivers and the jobs that exist agree: no delivery
\* launches what another refused, and "ok" names the last job of its request.
THEOREM Answered == Spec => []AnswersMatchJobs
<1>1. IInv => AnswersMatchJobs
  <2> SUFFICES ASSUME IInv, NEW d \in Deliveries
               PROVE  /\ answer[d] \in AdmissionErrors => \A j \in jobs : j[1] # d[1]
                      /\ answer[d] = "ok" =>
                           /\ <<d[1], d[2], rattempt[d]>> \in jobs
                           /\ \A j \in jobs : Delivery(j) = d => j[3] <= rattempt[d]
    BY DEF AnswersMatchJobs
  <2>1. NoError \notin AdmissionErrors
    BY DEF NoError, AdmissionErrors, ContractErrors, SecurityErrors
  <2> QED
    BY <2>1 DEF IInv, FlowInv, JobInv
<1> QED
  BY Inductive, <1>1, PTL
=============================================================================
