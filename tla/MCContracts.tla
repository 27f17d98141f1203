----------------------------- MODULE MCContracts -----------------------------
(***************************************************************************)
(* The small world the checks share: one backend with one required input   *)
(* role and one artifact, one tenant, five URIs, and the contracts that    *)
(* reach every branch of the admission steps.                              *)
(***************************************************************************)
EXTENDS Steps, Configuration

MCRoles == {"series", "forecast", READOUT_OUTPUT_ROLE}

In(uri) == [role |-> "series", uri |-> uri, secret |-> FALSE]
Out(role, uri) == [role |-> role, uri |-> uri, secret |-> FALSE]

\* Protocol 1.1, everything in order.
Good == [request |-> "q1", tenant |-> "acme", service |-> "fc", version |-> "1.1",
         fields |-> TRUE, params |-> TRUE,
         inputs |-> <<[In("gs_in") EXCEPT !.secret = TRUE]>>,
         outputs |-> <<Out("forecast", "gs_out"), Out(READOUT_OUTPUT_ROLE, "gs_doc")>>]

\* Protocol 1.0: the readout is checked but is no output.
Old == [Good EXCEPT !.version = "1.0", !.outputs = <<Out("forecast", "gs_out")>>]

\* Another request writing to the same destinations, readout first.
Rival == [Good EXCEPT !.request = "q2",
            !.outputs = <<Out(READOUT_OUTPUT_ROLE, "gs_doc"), Out("forecast", "gs_out")>>]

\* Both outputs name one destination; nothing in the contract forbids it.
SameDestination == [Good EXCEPT !.outputs =
            <<Out("forecast", "gs_out"), Out(READOUT_OUTPUT_ROLE, "gs_out")>>]

Refused == {
  [Good EXCEPT !.version = "2.0"],
  [Good EXCEPT !.params = FALSE],
  [Good EXCEPT !.inputs = <<In("gs_in"), In("gs_doc")>>],
  [Good EXCEPT !.outputs = <<Out("forecast", "gs_out")>>],
  [Good EXCEPT !.outputs = <<Out("forecast", "ftp"), Out(READOUT_OUTPUT_ROLE, "gs_doc")>>],
  [Good EXCEPT !.outputs = <<Out("forecast", "gs_out"), Out(READOUT_OUTPUT_ROLE, "gs_alien")>>]}

MCUris == {"gs_in", "gs_out", "gs_doc", "gs_alien", "ftp"}

\* What these URIs are: a bucket of the tenant, a bucket of another one, and a
\* scheme that is not configured.
Policy == INSTANCE UriPolicy WITH
  AllowedSchemes <- SplitCsv(<<"gs", "bigquery", "secret">>),
  BucketPrefix <- <<"gbt", "-", "storage">>,
  RequireUserPathSegment <- TRUE

Bucket(tenant) == <<"gbt", "-", "storage", "-">> \o tenant
UserDir == <<"user_", "u1">>

Parsed(uri) ==
  CASE uri = "gs_in" -> [scheme |-> "gs", host |-> Bucket(<<"acme">>), path |-> <<UserDir, <<"in">>>>]
    [] uri = "gs_out" -> [scheme |-> "gs", host |-> Bucket(<<"acme", "-", "eu">>), path |-> <<UserDir, <<"out">>>>]
    [] uri = "gs_doc" -> [scheme |-> "gs", host |-> Bucket(<<"acme">>), path |-> <<UserDir, <<"doc">>, <<>>>>]
    [] uri = "gs_alien" -> [scheme |-> "gs", host |-> Bucket(<<"other">>), path |-> <<UserDir>>]
    [] uri = "ftp" -> [scheme |-> "ftp", host |-> <<"host">>, path |-> <<>>]

Identity(tenant) == [tenant |-> <<tenant>>, user |-> <<"u1">>]

MCAllowedUris == {u \in MCUris : Policy!SchemeAllowed(Parsed(u))}
MCPermittedUris ==
  {p \in {"acme"} \X MCUris : Policy!Permitted(Identity(p[1]), Parsed(p[2]))}
=============================================================================
