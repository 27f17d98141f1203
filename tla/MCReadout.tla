------------------------------ MODULE MCReadout ------------------------------
(***************************************************************************)
(* A small instance of Readout and of the reference service: contracts     *)
(* with one and two outputs, two findings, two base guardrails, and in     *)
(* every part of the readout drafts that break its rules.                  *)
(***************************************************************************)
EXTENDS ForecastService, TLC

Uri(scheme, path, prebuilt) == [scheme |-> scheme, path |-> path, prebuilt |-> prebuilt]
At(scheme, role) == role :> Uri(scheme, role, FALSE)

\* Protocol 1.0 without the readout, and 1.1 with one output, two outputs, and
\* one at a place too long for a readout.
MCTooLong == {"far"}
MCContexts ==
  {[run |-> "r1", output_uris |-> At("file", RESULT_ROLE)],
   [run |-> "r2", output_uris |-> At("gs", RESULT_ROLE) @@ At("gs", ReadoutRole)],
   [run |-> "r3",
    output_uris |-> At("gs", RESULT_ROLE) @@ At("file", "basket") @@ At("gs", ReadoutRole)],
   [run |-> "r4", output_uris |-> "basket" :> Uri("gs", "far", FALSE) @@ At("gs", ReadoutRole)]}

MCFrames ==
  LET Good == [about |-> None, aware |-> TRUE, workflow |-> <<1, 2>>, digests |-> <<"s">>,
              period |-> <<1, 2>>] IN
  {Good, [Good EXCEPT !.about = "r0"], [Good EXCEPT !.aware = FALSE],
   [Good EXCEPT !.workflow = <<2, 1>>], [Good EXCEPT !.digests = <<"s", "s">>],
   [Good EXCEPT !.period = <<2, 1>>]}

MCArtifactDrafts ==
  {[role |-> r, uri |-> None] : r \in {RESULT_ROLE, "basket"}} \cup
  {[role |-> RESULT_ROLE, uri |-> Uri("data", "x", TRUE)],
   [role |-> "other", uri |-> Uri("gs", "x", FALSE)]}

MCFindingDrafts ==
  LET Good == [id |-> "f1", value |-> 1, kind |-> "interval", level |-> TRUE,
               lower |-> 0, upper |-> 2] IN
  {Good, [Good EXCEPT !.upper = NaN], [Good EXCEPT !.lower = 3],
   [Good EXCEPT !.id = "f2", !.kind = "std"]}

MCBase == <<"only_this", "say_no">>
MCGuides ==
  {[recommended_narrative_order |-> o, guardrails |-> g] :
     o \in {<<"f1">>, <<"f2", "f1">>},
     g \in {MCBase, MCBase \o <<"own">>, <<"own">> \o MCBase}}
=============================================================================
