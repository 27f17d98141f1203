------------------------------ MODULE MCReceiver ------------------------------
(***************************************************************************)
(* A small instance of Receiver: the registry of the shared receiver knows *)
(* the service "fc" and not "ab"; the dedicated receiver is that of "fc".  *)
(***************************************************************************)
EXTENDS Receiver, MCContracts

RegistryItems == <<[name |-> "fc", colon |-> TRUE, worker |-> "fc_worker"]>>
MCRegistry == RegistryOf(RegistryItems)

Given == {"GBT_RUNTIME_MODE", "GBT_ENV", "SERVICE_SECRET_KEY",
          "GBT_WORKER_JOB_NAME", "GBT_GCP_PROJECT"}

\* Both receivers are up.
ASSUME BothStart ==
  \A mode \in {"receiver", "shared-receiver"} : Starts(mode, Given, RegistryItems)

OtherService == [Good EXCEPT !.service = "ab"]

AllPublications == ({Malformed, Good, OtherService} \cup Refused) \X BOOLEAN
=============================================================================
