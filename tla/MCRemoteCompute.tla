---------------------------- MODULE MCRemoteCompute ----------------------------
(***************************************************************************)
(* A small instance of RemoteCompute: a run that asks, and one whose       *)
(* parameters cannot be sent.  The remote service answers well or breaks   *)
(* one of the rules of the envelope.                                       *)
(***************************************************************************)
EXTENDS RemoteCompute, TLC

Good == [status |-> "2xx", body |-> "envelope", metadata |-> "absent",
         outputs |-> ("forecast" :> "base64") @@ ("model_readout" :> "base64")]

MCResponses ==
  {Good,
   [Good EXCEPT !.status = "other"],
   [Good EXCEPT !.body = "not_text"],
   [Good EXCEPT !.body = "no_outputs"],
   [Good EXCEPT !.outputs["model_readout"] = "not_text"],
   [Good EXCEPT !.metadata = "other"]}
=============================================================================
