-------------------------- MODULE RemoteComputeProofs --------------------------
(***************************************************************************)
(* The safety properties of RemoteCompute for any number of runs, any      *)
(* answers of the remote service and any number of attempts.               *)
(***************************************************************************)
EXTENDS RemoteCompute, TLAPS

\* HttpComputeBackend starts with nothing asked.
LEMMA Initially == Init => IInv
<1> SUFFICES ASSUME Init PROVE IInv
  OBVIOUS
<1>1. TypeOK
  BY RemoteComputeAssumption DEF Init, TypeOK, Attempts, Outcomes
<1>2. PostInv /\ OutcomeInv /\ AnswersAreFinal /\ ResultsAnswerTheLastPost
  BY DEF Init, PostInv, OutcomeInv, AnswersAreFinal, ResultsAnswerTheLastPost
<1> QED
  BY <1>1, <1>2 DEF IInv

\* How a call can end: _decode_response returns, refuses, or lets an error pass.
LEMMA DecodeEnds ==
  ASSUME NEW p \in Responses
  PROVE  /\ Decode(p) \in {"result", "compute_failed", "escaped"}
         /\ Decode(p) = "result" => /\ p.status = "2xx" /\ p.body = "envelope"
                                    /\ OutputsDecode(p.outputs)
BY RemoteComputeAssumption DEF Decode

\* Whatever a run or the remote service does, every variable keeps its type.
LEMMA TypeStep == IInv /\ [Next]_vars => TypeOK'
<1> SUFFICES ASSUME IInv, [Next]_vars PROVE TypeOK'
  OBVIOUS
<1> USE RemoteComputeAssumption DEF IInv, TypeOK, Attempts, Outcomes
<1>1. CASE UNCHANGED vars
  BY <1>1 DEF vars
<1>2. ASSUME Tick PROVE TypeOK'
  BY <1>2 DEF Tick
<1>3. ASSUME NEW r \in Runs, Begin(r) PROVE TypeOK'
  BY <1>3 DEF Begin
<1>4. ASSUME NEW r \in Runs, MakeComputeContext(r) PROVE TypeOK'
  BY <1>4 DEF MakeComputeContext
<1>5. ASSUME NEW r \in Runs, EncodeFails(r) \/ FailForGood(r) \/ Kill(r) PROVE TypeOK'
  BY <1>5 DEF EncodeFails, FailForGood, Kill, Finish
<1>6. ASSUME NEW r \in Runs, Post(r) PROVE TypeOK'
  <2>1. context[r] \in 0 .. MaxClock
    BY <1>6 DEF Post, OutcomeInv
  <2>2. [run |-> r, attempt |-> attempt[r], generated_at |-> context[r]] \in Questions
    BY <2>1 DEF Questions
  <2>3. posts' \subseteq Questions
    BY <1>6, <2>2 DEF Post
  <2>4. remote' \in [Runs -> [Attempts -> Responses \cup {None, Computing}]]
    <3>1. [remote EXCEPT ![r][attempt[r]] = Computing]
            \in [Runs -> [Attempts -> Responses \cup {None, Computing}]]
      OBVIOUS
    <3> QED
      BY <1>6, <3>1 DEF Post
  <2> QED
    BY <1>6, <2>3, <2>4 DEF Post
<1>7. ASSUME NEW r \in Runs, Receive(r) PROVE TypeOK'
  BY <1>7, DecodeEnds DEF Receive, Read, OpenAttempt, Finish
<1>8. ASSUME NEW r \in Runs, FailTransiently(r) PROVE TypeOK'
  <2>1. CASE attempt[r] < MaxAttempts
    <3>1. attempt[r] + 1 \in 1 .. MaxAttempts
      BY <2>1
    <3>2. attempt' \in [Runs -> 1 .. MaxAttempts]
      BY <1>8, <2>1, <3>1 DEF FailTransiently, RetryOrReraise
    <3> QED
      BY <1>8, <2>1, <3>2 DEF FailTransiently, RetryOrReraise
  <2>2. CASE ~(attempt[r] < MaxAttempts)
    BY <1>8, <2>2 DEF FailTransiently, RetryOrReraise, Finish
  <2> QED
    BY <2>1, <2>2
<1>9. ASSUME NEW r \in Runs, NEW a \in Attempts, Answer(r, a) PROVE TypeOK'
  BY <1>9 DEF Answer
<1> QED
  BY <1>1, <1>2, <1>3, <1>4, <1>5, <1>6, <1>7, <1>8, <1>9 DEF Next, Step

\* A question is sent with the one time stamp of its run, in the attempt it is
\* at; with_retry only counts upwards.
LEMMA PostStep == IInv /\ [Next]_vars => PostInv'
<1> SUFFICES ASSUME IInv, [Next]_vars PROVE PostInv'
  OBVIOUS
<1>1. CASE UNCHANGED vars
  BY <1>1 DEF vars, IInv, PostInv
<1> USE RemoteComputeAssumption DEF IInv, TypeOK, PostInv, Attempts, Questions
<1>2. ASSUME Tick PROVE PostInv'
  BY <1>2 DEF Tick
<1>3. ASSUME NEW r \in Runs, Begin(r) PROVE PostInv'
  BY <1>3 DEF Begin
<1>4. ASSUME NEW r \in Runs, MakeComputeContext(r) PROVE PostInv'
  BY <1>4 DEF MakeComputeContext
<1>5. ASSUME NEW r \in Runs, EncodeFails(r) \/ FailForGood(r) \/ Kill(r) PROVE PostInv'
  BY <1>5 DEF EncodeFails, FailForGood, Kill, Finish
<1>6. ASSUME NEW r \in Runs, Post(r) PROVE PostInv'
  <2> DEFINE question == [run |-> r, attempt |-> attempt[r], generated_at |-> context[r]]
  <2>1. /\ pc[r] = "post" /\ pc' = [pc EXCEPT ![r] = "wait"] /\ UNCHANGED <<context, attempt>>
        /\ \/ /\ posts' = posts \cup {question}
              /\ remote' = [remote EXCEPT ![r][attempt[r]] = Computing]
           \/ UNCHANGED <<posts, remote>>
    BY <1>6 DEF Post
  <2>2. \A q \in posts' :
          /\ q.generated_at = context'[q.run]
          /\ pc'[q.run] \notin {"idle", "stamp"}
          /\ pc'[q.run] = "post" => q.attempt < attempt'[q.run]
          /\ q.attempt <= attempt'[q.run]
    <3>1. \A q \in posts : q.run \in Runs
      OBVIOUS
    <3> QED
      BY <2>1, <3>1
  <2>3. \A s \in Runs, a \in Attempts :
          remote'[s][a] # None => \E q \in posts' : q.run = s /\ q.attempt = a
    <3>1. CASE UNCHANGED <<posts, remote>>
      BY <3>1
    <3>2. CASE posts' = posts \cup {question} /\ remote' = [remote EXCEPT ![r][attempt[r]] = Computing]
      <4>1. question \in posts' /\ question.run = r /\ question.attempt = attempt[r]
        BY <3>2
      <4>2. \A s \in Runs, a \in Attempts :
              ~(s = r /\ a = attempt[r]) => remote'[s][a] = remote[s][a]
        BY <3>2
      <4> HIDE DEF question
      <4> QED
        BY <3>2, <4>1, <4>2
    <3> QED
      BY <2>1, <3>1, <3>2
  <2> QED
    BY <2>2, <2>3
<1>7. ASSUME NEW r \in Runs, Receive(r) PROVE PostInv'
  BY <1>7 DEF Receive, Read, OpenAttempt, Finish
<1>8. ASSUME NEW r \in Runs, FailTransiently(r) PROVE PostInv'
  BY <1>8 DEF FailTransiently, RetryOrReraise, Finish
<1>9. ASSUME NEW r \in Runs, NEW a \in Attempts, Answer(r, a) PROVE PostInv'
  BY <1>9 DEF Answer
<1> QED
  BY <1>1, <1>2, <1>3, <1>4, <1>5, <1>6, <1>7, <1>8, <1>9 DEF Next, Step

\* A call that has not ended has no outcome, and a result is a response.
LEMMA OutcomeStep == IInv /\ [Next]_vars => OutcomeInv'
<1> SUFFICES ASSUME IInv, [Next]_vars PROVE OutcomeInv'
  OBVIOUS
<1> USE RemoteComputeAssumption DEF IInv, TypeOK, OutcomeInv
<1>1. CASE UNCHANGED vars
  BY <1>1 DEF vars
<1>2. ASSUME Tick PROVE OutcomeInv'
  BY <1>2 DEF Tick
<1>3. ASSUME NEW r \in Runs, Begin(r) PROVE OutcomeInv'
  BY <1>3 DEF Begin
<1>4. ASSUME NEW r \in Runs, MakeComputeContext(r) PROVE OutcomeInv'
  <2>1. clock \in 0 .. MaxClock /\ clock # None
    <3>1. clock \in 0 .. MaxClock /\ 0 .. MaxClock \subseteq Nat
      OBVIOUS
    <3>2. None \notin Nat
      BY DEF RemoteComputeAssumption
    <3> QED
      BY <3>1, <3>2
  <2> QED
    BY <1>4, <2>1 DEF MakeComputeContext
<1>5. ASSUME NEW r \in Runs, EncodeFails(r) \/ FailForGood(r) \/ Kill(r) PROVE OutcomeInv'
  BY <1>5 DEF EncodeFails, FailForGood, Kill, Finish
<1>6. ASSUME NEW r \in Runs, Post(r) PROVE OutcomeInv'
  BY <1>6 DEF Post
<1>7. ASSUME NEW r \in Runs, Receive(r) PROVE OutcomeInv'
  BY <1>7, DecodeEnds DEF Receive, Read, OpenAttempt, Finish
<1>8. ASSUME NEW r \in Runs, FailTransiently(r) PROVE OutcomeInv'
  BY <1>8 DEF FailTransiently, RetryOrReraise, Finish
<1>9. ASSUME NEW r \in Runs, NEW a \in Attempts, Answer(r, a) PROVE OutcomeInv'
  BY <1>9 DEF Answer
<1> QED
  BY <1>1, <1>2, <1>3, <1>4, <1>5, <1>6, <1>7, <1>8, <1>9 DEF Next, Step

\* run returns or raises what it read: nothing after an answer asks again.
LEMMA FinalStep == IInv /\ [Next]_vars => AnswersAreFinal'
<1> SUFFICES ASSUME IInv, [Next]_vars PROVE AnswersAreFinal'
  OBVIOUS
<1> USE RemoteComputeAssumption DEF IInv, TypeOK, AnswersAreFinal
<1>1. CASE UNCHANGED vars
  BY <1>1 DEF vars
<1>2. ASSUME Tick PROVE AnswersAreFinal'
  BY <1>2 DEF Tick
<1>3. ASSUME NEW r \in Runs, Begin(r) PROVE AnswersAreFinal'
  BY <1>3 DEF Begin
<1>4. ASSUME NEW r \in Runs, MakeComputeContext(r) PROVE AnswersAreFinal'
  BY <1>4 DEF MakeComputeContext
<1>5. ASSUME NEW r \in Runs, EncodeFails(r) \/ FailForGood(r) \/ Kill(r)
      PROVE  AnswersAreFinal'
  BY <1>5 DEF EncodeFails, FailForGood, Kill, Finish
<1>6. ASSUME NEW r \in Runs, Post(r) PROVE AnswersAreFinal'
  BY <1>6 DEF Post
<1>7. ASSUME NEW r \in Runs, Receive(r) PROVE AnswersAreFinal'
  BY <1>7 DEF Receive, Read, OpenAttempt, Finish
<1>8. ASSUME NEW r \in Runs, FailTransiently(r) PROVE AnswersAreFinal'
  BY <1>8 DEF FailTransiently, RetryOrReraise, Finish
<1>9. ASSUME NEW r \in Runs, NEW a \in Attempts, Answer(r, a) PROVE AnswersAreFinal'
  BY <1>9 DEF Answer
<1> QED
  BY <1>1, <1>2, <1>3, <1>4, <1>5, <1>6, <1>7, <1>8, <1>9 DEF Next, Step

\* A ComputeResult is decoded from the answer to the attempt whose connection
\* is open, and the remote service answers a question once.
LEMMA ResultStep == IInv /\ [Next]_vars => ResultsAnswerTheLastPost'
<1> SUFFICES ASSUME IInv, [Next]_vars PROVE ResultsAnswerTheLastPost'
  OBVIOUS
<1> USE RemoteComputeAssumption DEF IInv, TypeOK, OutcomeInv, ResultsAnswerTheLastPost
<1>1. CASE UNCHANGED vars
  BY <1>1 DEF vars
<1>2. ASSUME Tick PROVE ResultsAnswerTheLastPost'
  BY <1>2 DEF Tick
<1>3. ASSUME NEW r \in Runs, Begin(r) PROVE ResultsAnswerTheLastPost'
  BY <1>3 DEF Begin
<1>4. ASSUME NEW r \in Runs, MakeComputeContext(r) PROVE ResultsAnswerTheLastPost'
  BY <1>4 DEF MakeComputeContext
<1>5. ASSUME NEW r \in Runs, EncodeFails(r) \/ FailForGood(r) \/ Kill(r)
      PROVE  ResultsAnswerTheLastPost'
  BY <1>5 DEF EncodeFails, FailForGood, Kill, Finish
<1>6. ASSUME NEW r \in Runs, Post(r) PROVE ResultsAnswerTheLastPost'
  BY <1>6 DEF Post
<1>7. ASSUME NEW r \in Runs, Receive(r) PROVE ResultsAnswerTheLastPost'
  <2>1. heard[r] = {} /\ outcome[r] = "none"
    BY <1>7 DEF Receive, Read, AnswersAreFinal
  <2>2. \E q \in posts : q.run = r /\ q.attempt = attempt[r]
    BY <1>7 DEF Receive, Read, OpenAttempt, PostInv
  <2> QED
    BY <1>7, <2>1, <2>2, DecodeEnds DEF Receive, Read, OpenAttempt, Finish, OutputsDecode
<1>8. ASSUME NEW r \in Runs, FailTransiently(r) PROVE ResultsAnswerTheLastPost'
  BY <1>8 DEF FailTransiently, RetryOrReraise, Finish
<1>9. ASSUME NEW r \in Runs, NEW a \in Attempts, Answer(r, a)
      PROVE  ResultsAnswerTheLastPost'
  BY <1>9 DEF Answer
<1> QED
  BY <1>1, <1>2, <1>3, <1>4, <1>5, <1>6, <1>7, <1>8, <1>9 DEF Next, Step

\* The runs and the remote service they share: what was asked, what was
\* answered and what was read fit together after every step.
THEOREM Inductive == Spec => []IInv
<1>1. IInv /\ [Next]_vars => IInv'
  BY TypeStep, PostStep, OutcomeStep, FinalStep, ResultStep DEF IInv
<1> QED
  BY Initially, <1>1, PTL DEF Spec

\* HttpComputeBackend.run: with any number of overlapping computations of the
\* same question, the result is the answer to the last request, whole.
THEOREM LastPost == Spec => []ResultsAnswerTheLastPost
<1>1. IInv => ResultsAnswerTheLastPost
  BY DEF IInv
<1> QED
  BY Inductive, <1>1, PTL

\* make_compute_context is outside the retried call: all requests of a run
\* carry the same generated_at, however the clock moves between them.
THEOREM OneQuestion == Spec => []OneQuestionPerRun
<1>1. IInv => OneQuestionPerRun
  BY DEF IInv, PostInv, OneQuestionPerRun
<1> QED
  BY Inductive, <1>1, PTL

\* with_retry retries lost connections only: once an answer was read, no other
\* computation is started for the run.
THEOREM Final == Spec => []AnswersAreFinal
<1>1. IInv => AnswersAreFinal
  BY DEF IInv
<1> QED
  BY Inductive, <1>1, PTL
=============================================================================
