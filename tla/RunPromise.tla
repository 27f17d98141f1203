----------------------------- MODULE RunPromise -----------------------------
(***************************************************************************)
(* What an execution of the pipeline promises to the platform, without     *)
(* contracts, adapters or retries:                                         *)
(*   - it explains its result before it publishes anything;                *)
(*   - it publishes only roles it declared;                                *)
(*   - it announces success only when every declared role is published;    *)
(*   - its answer is "ok" only if it announced success;                    *)
(*   - it finishes.                                                        *)
(* ServiceRunner implements this specification.                            *)
(***************************************************************************)
CONSTANTS Runs, Roles

VARIABLES
  phase,      \* how far each execution is
  declared,   \* the output roles it explained
  published,  \* the output roles it brought to storage
  announced,  \* whether the platform was told of success
  answer      \* what the execution returned

promise == <<phase, declared, published, announced, answer>>

Init ==
  /\ phase = [r \in Runs |-> "idle"]
  /\ declared = [r \in Runs |-> {}]
  /\ published = [r \in Runs |-> {}]
  /\ announced = [r \in Runs |-> FALSE]
  /\ answer = [r \in Runs |-> "none"]

Stay == UNCHANGED <<phase, answer>>

End(r, how) ==
  /\ phase' = [phase EXCEPT ![r] = "finished"]
  /\ answer' = [answer EXCEPT ![r] = how]

Begin(r) ==
  /\ phase[r] = "idle"
  /\ phase' = [phase EXCEPT ![r] = "working"]
  /\ UNCHANGED <<declared, published, announced, answer>>

Explain(r) ==
  /\ phase[r] = "working"
  /\ phase' = [phase EXCEPT ![r] = "explained"]
  /\ \E roles \in (SUBSET Roles) \ {{}} : declared' = [declared EXCEPT ![r] = roles]
  /\ UNCHANGED <<published, announced, answer>>

\* A write may succeed and the execution fail all the same.
Publish(r) ==
  /\ phase[r] = "explained"
  /\ \E role \in declared[r] : published' = [published EXCEPT ![r] = @ \cup {role}]
  /\ Stay \/ End(r, "failed")
  /\ UNCHANGED <<declared, announced>>

Announce(r) ==
  /\ phase[r] = "explained"
  /\ published[r] = declared[r]
  /\ announced' = [announced EXCEPT ![r] = TRUE]
  /\ Stay \/ End(r, "ok") \/ End(r, "failed")
  /\ UNCHANGED <<declared, published>>

Fail(r) ==
  /\ phase[r] \in {"working", "explained"}
  /\ End(r, "failed")
  /\ UNCHANGED <<declared, published, announced>>

Next == \E r \in Runs : Begin(r) \/ Explain(r) \/ Publish(r) \/ Announce(r) \/ Fail(r)

Safe == Init /\ [][Next]_promise

Spec == Safe /\ \A r \in Runs : (phase[r] = "working") ~> (phase[r] = "finished")
=============================================================================
