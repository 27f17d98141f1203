----------------------------- MODULE ServerPromise -----------------------------
(***************************************************************************)
(* What an instance owes to each request, whatever the others do: a whole  *)
(* message is executed at most once and its answer is about its own        *)
(* execution; without a whole message nothing is executed.  This is the    *)
(* server Receiver talks about, where deliveries only meet in the jobs     *)
(* they launch.                                                            *)
(***************************************************************************)
CONSTANTS Requests, None

VARIABLES
  state,  \* what became of each request
  sent,   \* whether its whole body was sent
  given   \* its answer

pvars == <<state, sent, given>>

Init ==
  /\ state = [q \in Requests |-> "unknown"]
  /\ sent = [q \in Requests |-> FALSE]
  /\ given = [q \in Requests |-> None]

Open(q) ==
  /\ state[q] = "unknown"
  /\ state' = [state EXCEPT ![q] = "open"]
  /\ UNCHANGED <<sent, given>>

Send(q) ==
  /\ state[q] # "unknown" /\ ~sent[q]
  /\ sent' = [sent EXCEPT ![q] = TRUE]
  /\ UNCHANGED <<state, given>>

Begin(q) ==
  /\ state[q] = "open" /\ sent[q]
  /\ state' = [state EXCEPT ![q] = "begun"]
  /\ UNCHANGED <<sent, given>>

\* Success is only claimed of what was executed.
Close(q) ==
  /\ state[q] \in {"open", "begun"}
  /\ state' = [state EXCEPT ![q] = "closed"]
  /\ \E how \in IF state[q] = "begun"
                THEN {"ok", "error", "service_error", "internal_error"}
                ELSE {"status", "internal_error"} :
       given' = [given EXCEPT ![q] = how]
  /\ UNCHANGED sent

Next == \E q \in Requests : Open(q) \/ Send(q) \/ Begin(q) \/ Close(q)

Spec == Init /\ [][Next]_pvars /\ \A q \in Requests : WF_pvars(Close(q))
=============================================================================
