------------------------------ MODULE SecretRef ------------------------------
(***************************************************************************)
(* The way of a secret reference from the platform to the adapter that     *)
(* resolves it.  The platform sends it as an object or as a URI; the       *)
(* receiver parses it, validates it and dumps the contract as JSON, where  *)
(* the reference is rendered as a URI again; the worker parses that URI    *)
(* and asks Secret Manager for the named version.                          *)
(*                                                                         *)
(* A text is the sequence of its segments between slashes: "a/b" is        *)
(* <<"a", "b">>, the empty text is <<"">>.  urlparse ends the path at a ?  *)
(* or #, removes tabs and line ends, and refuses some providers; which     *)
(* segments these are is left to the constants.                            *)
(***************************************************************************)
EXTENDS Integers, Sequences, FiniteSetsExt

CONSTANTS
  Segments,   \* what stands between two slashes
  Ends,       \* those with a ? or #
  Kept,       \* what urlparse leaves of each
  BadNetlocs, \* unmatched brackets, or characters that NFKC turns into delimiters
  Providers,  \* providers of the objects the platform sends
  Texts,      \* names and versions of those objects
  Paths,      \* what follows "secret://" in the URIs it sends
  NoRef       \* no reference: not there yet, or refused

Blank == ""
Empty == <<Blank>>
Latest == <<"latest">>
Text == Seq(Segments) \ {<<>>}
Refs == [provider : Text, name : Text, version : Text]

ASSUME SecretRefAssumption ==
  /\ Blank \in Segments /\ "latest" \in Segments
  /\ Ends \subseteq Segments /\ Kept \in [Segments -> Segments \ Ends]
  /\ \A s \in Segments : Kept[Kept[s]] = Kept[s]
  /\ Kept[Blank] = Blank /\ Kept["latest"] = "latest"
  /\ Providers \cup Texts \cup Paths \subseteq Text
  /\ NoRef \notin Refs

VARIABLES
  stage,     \* how far the reference is
  sent,      \* what the platform sent: <<"object", ref>> or <<"uri", text>>
  received,  \* the SecretRef of the receiver
  payload,   \* the URI in GBT_JOB_PAYLOAD
  worker     \* the SecretRef of the worker

vars == <<stage, sent, received, payload, worker>>

-----------------------------------------------------------------------------
\* The model.

\* Seeded bug: the version is not rendered.
ToUriWithoutVersion(ref) == ref.provider \o ref.name

ToUri(ref) ==
  IF ref.version = Latest THEN ref.provider \o ref.name
                          ELSE ref.provider \o ref.name \o ref.version

\* min_length of the three fields.
ValidRef(ref) == Empty \notin {ref.provider, ref.name, ref.version}

Named(path) == {i \in DOMAIN path : path[i] # Blank}

\* Seeded bug: everything up to the last slash is the name.
FirstNamedByLast(path) == Max(Named(path))

\* path.lstrip("/"): the first segment that is not empty.
FirstNamed(path) == Min(Named(path))

\* The netloc and the path of the URL, whose query and fragment nobody reads.
urlparse(text) ==
  LET ends == {i \in DOMAIN text : text[i] \in Ends}
      last == IF ends = {} THEN Len(text) ELSE Min(ends)
  IN  [i \in 1 .. last |-> Kept[text[i]]]

\* Seeded bug: a URI without version is given none.
ParseUriWithoutDefault(text) ==
  LET url == urlparse(text)
      path == Tail(url)
      k == FirstNamed(path)
  IN  IF Head(url) \in BadNetlocs \cup {Blank} \/ Named(path) = {} THEN NoRef
      ELSE [provider |-> <<Head(url)>>, name |-> <<path[k]>>,
            version |-> SubSeq(path, k + 1, Len(path))]

\* _parse_secret_uri of the text after "secret://", and the validation of what
\* it returns: the netloc is the provider, the first segment of the stripped
\* path is the name, and all the rest is the version.
ParseUri(text) ==
  LET url == urlparse(text)
      path == Tail(url)
      k == FirstNamed(path)
      ref == [provider |-> <<Head(url)>>,
              name |-> <<path[k]>>,
              version |-> IF k < Len(path) THEN SubSeq(path, k + 1, Len(path)) ELSE Latest]
  IN  IF Head(url) \in BadNetlocs \cup {Blank} \/ Named(path) = {} THEN NoRef
      ELSE IF ValidRef(ref) THEN ref ELSE NoRef

\* model_validate of either form.
Parse(form, what) ==
  CASE form = "uri" -> ParseUri(what)
    [] OTHER -> IF ValidRef(what) THEN what ELSE NoRef

-----------------------------------------------------------------------------
Objects == [provider : Providers, name : Texts, version : Texts \cup {Latest}]

Init ==
  /\ stage = "sent"
  /\ sent \in ({"object"} \X Objects) \cup ({"uri"} \X Paths)
  /\ received = NoRef
  /\ payload = <<>>
  /\ worker = NoRef

\* validate, in the receiver.
Receive ==
  /\ stage = "sent"
  /\ received' = Parse(sent[1], sent[2])
  /\ stage' = IF received' = NoRef THEN "refused" ELSE "received"
  /\ UNCHANGED <<sent, payload, worker>>

\* contract.model_dump(mode="json") for the dispatcher.
Dump ==
  /\ stage = "received"
  /\ payload' = ToUri(received)
  /\ stage' = "dispatched"
  /\ UNCHANGED <<sent, received, worker>>

\* validate, in the worker.
Load ==
  /\ stage = "dispatched"
  /\ worker' = Parse("uri", payload)
  /\ stage' = IF worker' = NoRef THEN "refused" ELSE "loaded"
  /\ UNCHANGED <<sent, received, payload>>

Next == Receive \/ Dump \/ Load

Spec == Init /\ [][Next]_vars

-----------------------------------------------------------------------------
\* Properties.

TypeOK ==
  /\ stage \in {"sent", "received", "dispatched", "loaded", "refused"}
  /\ sent \in ({"object"} \X Refs) \cup ({"uri"} \X Text)
  /\ received \in Refs \cup {NoRef}
  /\ payload \in Seq(Segments)
  /\ worker \in Refs \cup {NoRef}

\* _parse_secret_uri and to_uri.  A reference that was sent as a URI and that
\* the receiver accepts is accepted by the worker as well, and it names the
\* same secret and the same version there; extra slashes and an explicit
\* "latest" make no difference.
UriRefsSurvive ==
  /\ stage = "loaded" /\ sent[1] = "uri" => worker = received
  /\ stage = "refused" /\ sent[1] = "uri" => received = NoRef

\* SecretRef._serialize_for_json.  The same holds of objects if a URI can
\* express them: provider and name without a slash, no character anywhere that
\* urlparse cuts off or removes, and a provider it takes for a netloc.
Unaltered(text) == \A i \in DOMAIN text : Kept[text[i]] = text[i]

PlainObject(ref) ==
  /\ Len(ref.provider) = 1 /\ Len(ref.name) = 1
  /\ Unaltered(ref.provider) /\ Unaltered(ref.name) /\ Unaltered(ref.version)
  /\ ref.provider[1] \notin BadNetlocs

PlainObjectsSurvive == sent[1] = "object" /\ PlainObject(sent[2]) =>
  /\ stage = "loaded" => worker = sent[2]
  /\ stage = "refused" => received = NoRef
=============================================================================
