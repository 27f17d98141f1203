------------------------------- MODULE UriPolicy -------------------------------
(***************************************************************************)
(* What SchemeAllowlist and TenantPrefixPolicy answer for a URI.  They     *)
(* give the sets AllowedUris and PermittedUris of module Steps their       *)
(* meaning.                                                                *)
(*                                                                         *)
(* A name (a bucket, a tenant, a path segment) is the sequence of the      *)
(* fragments it is written with, so that one name may start with another.  *)
(* A path is the sequence of what stands between its slashes: a trailing   *)
(* slash ends it with an empty name, a double one leaves an empty name     *)
(* before the end.  Schemes are in lower case.                             *)
(***************************************************************************)
EXTENDS Integers, Sequences, FiniteSets

CONSTANTS
  AllowedSchemes,           \* settings.allowed_schemes
  BucketPrefix,             \* settings.bucket_prefix, a name
  RequireUserPathSegment    \* require_user_path_segment

Names == Seq(STRING)
EmptyName == <<>>
Identities == [tenant : Names, user : Names]
UriRecords == [scheme : STRING, host : Names, path : Seq(Names)]

-----------------------------------------------------------------------------
\* parse_uri.

Parses(u) ==
  /\ u.scheme # ""
  /\ \A k \in 1 .. Len(u.path) - 1 : u.path[k] # EmptyName
  /\ \A k \in DOMAIN u.path : u.path[k] # <<"..">>

-----------------------------------------------------------------------------
\* SchemeAllowlist.check.

SchemeAllowed(u) == Parses(u) /\ u.scheme \in AllowedSchemes

-----------------------------------------------------------------------------
\* TenantPrefixPolicy.authorize.

TenantAgnosticSchemes == {"secret", "inline"}
BucketSchemes == {"gs", "s3"}
BigQuerySchemes == {"bigquery"}

\* str.startswith.
StartsWith(name, prefix) ==
  /\ Len(prefix) <= Len(name)
  /\ \A k \in 1 .. Len(prefix) : name[k] = prefix[k]

ExpectedPrefix(identity) == BucketPrefix \o <<"-">> \o identity.tenant

UserSegment(identity) == <<"user_">> \o identity.user

\* No segment but the last can be empty here.
UserSegmentOk(identity, path) == path # <<>> /\ path[1] = UserSegment(identity)

\* host.split(".", 1)[0]: as far as no dot was met.
Project(host) ==
  SubSeq(host, 1, Cardinality({k \in DOMAIN host : \A l \in 1 .. k : host[l] # "."}))

BucketOk(identity, u) ==
  /\ StartsWith(u.host, ExpectedPrefix(identity))
  /\ RequireUserPathSegment => UserSegmentOk(identity, u.path)

BigQueryOk(identity, u) == StartsWith(Project(u.host), ExpectedPrefix(identity))

Permitted(identity, u) ==
  /\ Parses(u)
  /\ \/ u.scheme \in TenantAgnosticSchemes
     \/ u.scheme \in BucketSchemes /\ BucketOk(identity, u)
     \/ u.scheme \in BigQuerySchemes /\ BigQueryOk(identity, u)
=============================================================================
