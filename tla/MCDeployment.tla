----------------------------- MODULE MCDeployment -----------------------------
(***************************************************************************)
(* Small deployments: one published message, and at most two jobs for it.  *)
(***************************************************************************)
EXTENDS Deployment, MCContracts

MCRegistry == RegistryOf(<<[name |-> "fc", colon |-> TRUE, worker |-> "fc_worker"]>>)

\* Secrets are left to the runs of ServiceRunner.
NoSecret(c) == [c EXCEPT !.inputs = <<In("gs_in")>>]

\* Accepted by the dedicated receiver and the worker, by the shared receiver
\* but not by the worker, and by neither receiver.
MixedPublications ==
  {<<NoSecret(Good), FALSE>>} \cup
  ({Malformed,
    [Good EXCEPT !.params = FALSE],
    [Good EXCEPT !.outputs = <<Out("forecast", "gs_out")>>],
    [Good EXCEPT !.outputs = <<Out("forecast", "gs_out"), Out(READOUT_OUTPUT_ROLE, "gs_alien")>>]}
   \X BOOLEAN)

GoodPublication == {<<Good, FALSE>>}

\* The executions and contracts the workers get from the receivers.
MCRuns == R!Jobs
MCDispatched == R!Payloads \ {Malformed}
=============================================================================
