---------------------------- MODULE ForecastService ----------------------------
(***************************************************************************)
(* The reference service of examples/forecast_service, one more backend of *)
(* Readout: MovingAverageBackend describes its one output in a readout     *)
(* that is the same for every run but for the identity and the place of    *)
(* the output, which it takes from the ComputeContext.                     *)
(***************************************************************************)
EXTENDS Readout

RESULT_ROLE == "result_json"
FORECAST_OUTPUT_ROLES == {RESULT_ROLE}

ForecastWorkflow == <<1>>
ForecastPeriod == <<1, 104>>
ForecastDigests == <<"timeseries">>

\* AnyUrl(result_uri), of the URI the context names.
ForecastArtifacts ==
  <<[role |-> RESULT_ROLE, uri |-> [context.output_uris[RESULT_ROLE] EXCEPT !.prebuilt = TRUE]]>>

ForecastFindings ==
  <<[id |-> "level_001", value |-> 120, kind |-> "none", level |-> FALSE,
     lower |-> None, upper |-> None]>>

ForecastGuide ==
  [recommended_narrative_order |-> <<"level_001">>, guardrails |-> BASE_GUARDRAILS]

ForecastReadout ==
  [about |-> context.run, aware |-> TRUE, workflow |-> ForecastWorkflow,
   digests |-> ForecastDigests, period |-> ForecastPeriod, artifacts |-> ForecastArtifacts,
   findings |-> ForecastFindings, guide |-> ForecastGuide]

\* The runner has checked the roles of the contract before; of a contract of
\* protocol 1.0 the readout is none, but the backend writes it all the same.
RunForecast ==
  /\ stage = "frame" /\ by = "models" /\ ~remote
  /\ DOMAIN context.output_uris \ {ReadoutRole} = FORECAST_OUTPUT_ROLES
  /\ Write(ForecastReadout, PartsOk(ForecastReadout), "root")

NextWithForecast == RunForecast \/ Next

SpecWithForecast == Init /\ [][NextWithForecast]_vars
=============================================================================
