------------------------------ MODULE UriProofs ------------------------------
(***************************************************************************)
(* Theorems about the two components that read URIs: SecretRef, which      *)
(* parses and renders references to secrets, and UriPolicy, which decides  *)
(* what a tenant may touch.                                                *)
(*                                                                         *)
(* SecretRef: for every set of segments and texts of any length, whatever  *)
(* urlparse cuts off.  Whatever the parser returns is plain, and a plain   *)
(* reference is what the parser makes of its own URI.                      *)
(*                                                                         *)
(* UriPolicy: what the tenant policy keeps apart, for every bucket prefix, *)
(* every set of tenants and users and every URI.                           *)
(***************************************************************************)
EXTENDS SecretRef, UriPolicy, SequenceTheorems, FiniteSetTheorems,
        WellFoundedInduction, TLAPS

\* The segments urlparse leaves alone.
Clean == {s \in Segments : Kept[s] = s}

\* The references a URI can express: one segment each for the provider and the
\* name, neither of them empty, and nothing that urlparse alters or refuses.
Plain(ref) ==
  /\ ref \in Refs
  /\ \E p, n \in Clean \ {Blank} :
       ref.provider = <<p>> /\ ref.name = <<n>> /\ p \notin BadNetlocs
  /\ ref.version \in Seq(Clean) /\ ref.version # Empty

\* The least of some positions.
LEMMA MinIsLeast ==
  ASSUME NEW S \in SUBSET Nat, S # {}
  PROVE  Min(S) \in S /\ \A j \in S : Min(S) <= j
<1> DEFINE R == OpToRel(<, Nat)
<1>1. R = {ss \in Nat \X Nat : ss[1] < ss[2]}
  BY DEF OpToRel
<1>2. IsWellFoundedOn(R, Nat)
  BY NatLessThanWellFounded
<1> HIDE DEF R
<1>3. PICK i \in S : \A j \in S : ~ (<<j, i>> \in R)
  BY ONLY <1>2, S \in SUBSET Nat, S # {}, WFMin
<1>4. \A j \in S : i <= j
  <2> TAKE j \in S
  <2>1. i \in Nat /\ j \in Nat /\ <<j, i>> \in Nat \X Nat
    OBVIOUS
  <2>2. ~ (j < i)
    BY <1>1, <1>3, <2>1
  <2> QED BY <2>1, <2>2
<1> QED BY <1>4 DEF Min

\* A path that is not blank has a first segment that is not empty (lstrip).
LEMMA FirstNamedIsNamed ==
  ASSUME NEW path \in Seq(Segments), Named(path) # {}
  PROVE  FirstNamed(path) \in 1 .. Len(path) /\ path[FirstNamed(path)] # Blank
<1>1. Named(path) \subseteq 1 .. Len(path) /\ 1 .. Len(path) \subseteq Nat
  <2>1. DOMAIN path = 1 .. Len(path) /\ Len(path) \in Nat
    OBVIOUS
  <2>2. Named(path) \subseteq DOMAIN path
    BY DEF Named
  <2> QED BY <2>1, <2>2
<1>2. FirstNamed(path) \in Named(path)
  BY <1>1, MinIsLeast DEF FirstNamed
<1> QED BY <1>1, <1>2 DEF Named

\* What urlparse leaves is clean, and of a clean text it leaves everything.
LEMMA UrlIsClean ==
  ASSUME NEW text \in Text
  PROVE  /\ urlparse(text) \in Seq(Clean) /\ urlparse(text) # <<>>
         /\ text \in Seq(Clean) => urlparse(text) = text
<1> DEFINE ends == {i \in DOMAIN text : text[i] \in Ends}
           last == IF ends = {} THEN Len(text) ELSE Min(ends)
<1>1. /\ Len(text) \in Nat /\ Len(text) >= 1 /\ DOMAIN text = 1 .. Len(text)
      /\ \A i \in 1 .. Len(text) : text[i] \in Segments
  <2>1. text \in Seq(Segments) /\ text # <<>>
    BY DEF Text
  <2> QED BY <2>1
<1>2. last \in 1 .. Len(text)
  <2>1. ends \in SUBSET Nat /\ ends \subseteq 1 .. Len(text)
    BY <1>1
  <2> HIDE DEF ends
  <2>2. CASE ends = {}
    <3>1. last = Len(text)
      BY <2>2
    <3> HIDE DEF last
    <3> QED BY <1>1, <3>1
  <2>3. CASE ends # {}
    <3>1. last = Min(ends)
      BY <2>3
    <3> HIDE DEF last
    <3>2. Min(ends) \in ends
      BY <2>1, <2>3, MinIsLeast
    <3> QED BY <2>1, <3>1, <3>2
  <2> QED BY <2>2, <2>3
<1>3. urlparse(text) = [i \in 1 .. last |-> Kept[text[i]]]
  BY DEF urlparse
<1>4. \A s \in Segments : Kept[s] \in Clean /\ Kept[s] \notin Ends
  BY SecretRefAssumption DEF Clean
<1>5. ASSUME text \in Seq(Clean) PROVE last = Len(text) /\ \A i \in 1 .. last : Kept[text[i]] = text[i]
  <2>1. \A i \in 1 .. Len(text) : text[i] \in Clean
    BY <1>1, <1>5
  <2>2. \A i \in 1 .. Len(text) : Kept[text[i]] = text[i] /\ text[i] \notin Ends
    BY <1>1, <1>4, <2>1 DEF Clean
  <2>3. ends = {}
    BY <1>1, <2>2
  <2> QED BY <2>2, <2>3
<1> HIDE DEF last
<1>6. urlparse(text) \in Seq(Clean) /\ Len(urlparse(text)) = last
  <2>1. [i \in 1 .. last |-> Kept[text[i]]] \in [1 .. last -> Clean]
    BY <1>1, <1>2, <1>4
  <2> QED BY <1>2, <1>3, <2>1
<1>7. text = [i \in 1 .. Len(text) |-> text[i]]
  <2>1. text \in Seq(Segments)
    BY DEF Text
  <2> QED BY <2>1
<1>8. text \in Seq(Clean) => urlparse(text) = text
  BY <1>2, <1>3, <1>5, <1>7
<1>9. urlparse(text) # <<>>
  BY <1>2, <1>6
<1> QED BY <1>6, <1>8, <1>9

\* A clean text is a text.
LEMMA CleanTexts ==
  ASSUME NEW s \in Seq(Clean)
  PROVE  s \in Seq(Segments) /\ (s # <<>> => s \in Text)
<1>1. Clean \subseteq Segments
  BY DEF Clean
<1>2. s \in Seq(Segments)
  <2>1. s \in [1 .. Len(s) -> Clean] /\ Len(s) \in Nat
    OBVIOUS
  <2>2. s \in [1 .. Len(s) -> Segments]
    BY <1>1, <2>1
  <2> QED BY <2>1, <2>2
<1> QED BY <1>2 DEF Text

\* One segment is a text.
LEMMA SingletonIsText ==
  ASSUME NEW p \in Segments
  PROVE  <<p>> \in Text /\ Len(<<p>>) = 1 /\ <<p>>[1] = p /\ (p # Blank => <<p>> # Empty)
BY DEF Text, Empty

\* A segment, a slash and a text.
LEMMA PrefixedText ==
  ASSUME NEW p \in Segments, NEW s \in Seq(Segments)
  PROVE  /\ <<p>> \o s \in Text
         /\ Head(<<p>> \o s) = p /\ (<<p>> \o s)[1] = p
         /\ Tail(<<p>> \o s) = s
         /\ Len(<<p>> \o s) = Len(s) + 1
         /\ SubSeq(<<p>> \o s, 2, Len(<<p>> \o s)) = s
<1>1. <<p>> \o s \in Seq(Segments) /\ Len(<<p>> \o s) = Len(s) + 1
  OBVIOUS
<1>2. <<p>> \o s # <<>>
  OBVIOUS
<1>3. Head(<<p>> \o s) = p /\ (<<p>> \o s)[1] = p
  OBVIOUS
<1>4. Tail(<<p>> \o s) = s
  OBVIOUS
<1>5. SubSeq(<<p>> \o s, 2, Len(<<p>> \o s)) = s
  OBVIOUS
<1> QED BY <1>1, <1>2, <1>3, <1>4, <1>5 DEF Text

\* What _parse_secret_uri takes for the version is a clean text.
LEMMA VersionIsText ==
  ASSUME NEW path \in Seq(Clean), NEW k \in 1 .. Len(path)
  PROVE  LET version == IF k < Len(path) THEN SubSeq(path, k + 1, Len(path)) ELSE Latest
         IN  version \in Seq(Clean) /\ version # <<>>
<1>1. CASE k < Len(path)
  <2>1. \A i \in k + 1 .. Len(path) : path[i] \in Clean
    OBVIOUS
  <2>2. k + 1 \in Int /\ Len(path) \in Int /\ k + 1 <= Len(path)
    BY <1>1
  <2>3. /\ SubSeq(path, k + 1, Len(path)) \in Seq(Clean)
        /\ Len(SubSeq(path, k + 1, Len(path))) = Len(path) - (k + 1) + 1
    BY <2>1, <2>2, SubSeqProperties
  <2> DEFINE version == SubSeq(path, k + 1, Len(path))
  <2>4. version \in Seq(Clean) /\ Len(version) >= 1
    BY <2>2, <2>3
  <2>5. version # <<>>
    <3> HIDE DEF version
    <3> QED BY <2>4
  <2> QED BY <1>1, <2>4, <2>5
<1>2. CASE ~ (k < Len(path))
  <2>1. "latest" \in Clean
    BY SecretRefAssumption DEF Clean
  <2>2. Latest \in Seq(Clean) /\ Latest # <<>>
    BY <2>1 DEF Latest
  <2> QED BY <1>2, <2>2
<1> QED BY <1>1, <1>2

\* What _parse_secret_uri returns, if it returns anything, is plain.
LEMMA ParsedRefsArePlain ==
  ASSUME NEW text \in Text, ParseUri(text) # NoRef
  PROVE  Plain(ParseUri(text))
<1> DEFINE url == urlparse(text)
           path == Tail(url)
           k == FirstNamed(path)
           version == IF k < Len(path) THEN SubSeq(path, k + 1, Len(path)) ELSE Latest
           ref == [provider |-> <<Head(url)>>, name |-> <<path[k]>>, version |-> version]
<1>1. url \in Seq(Clean) /\ url # <<>>
  BY UrlIsClean
<1>2. /\ Head(url) \notin BadNetlocs \cup {Blank} /\ Named(path) # {} /\ ValidRef(ref)
      /\ ParseUri(text) = ref
  BY Zenon DEF ParseUri
<1> HIDE DEF url
<1>3. Head(url) \in Clean /\ path \in Seq(Clean)
  BY <1>1, HeadTailProperties
<1> HIDE DEF path
<1>4. k \in 1 .. Len(path) /\ path[k] # Blank
  BY <1>2, <1>3, CleanTexts, FirstNamedIsNamed
<1> HIDE DEF k
<1>5. version \in Seq(Clean) /\ version # <<>>
  BY <1>3, <1>4, VersionIsText
<1>6. version # Empty
  BY <1>2 DEF ValidRef
<1> HIDE DEF version
<1>7. path[k] \in Clean
  BY ONLY <1>3, <1>4
<1>8. <<Head(url)>> \in Text /\ <<path[k]>> \in Text /\ version \in Text
  BY <1>3, <1>5, <1>7, CleanTexts, SingletonIsText DEF Clean
<1>9. ref \in Refs
  BY <1>8 DEF Refs
<1>10. \E p, n \in Clean \ {Blank} : ref.provider = <<p>> /\ ref.name = <<n>> /\ p \notin BadNetlocs
  <2>1. Head(url) \in Clean \ {Blank} /\ path[k] \in Clean \ {Blank} /\ Head(url) \notin BadNetlocs
    BY <1>2, <1>3, <1>4, <1>7
  <2> QED BY <2>1
<1> QED BY <1>2, <1>5, <1>6, <1>9, <1>10 DEF Plain

\* to_uri and _parse_secret_uri: the URI of a plain reference means that
\* reference.
LEMMA PlainRefsRoundTrip ==
  ASSUME NEW ref, Plain(ref)
  PROVE  ToUri(ref) \in Text /\ ParseUri(ToUri(ref)) = ref
<1>1. PICK p \in Clean \ {Blank}, n \in Clean \ {Blank} :
        ref.provider = <<p>> /\ ref.name = <<n>> /\ p \notin BadNetlocs
  BY DEF Plain
<1> p \in Segments /\ n \in Segments
  BY DEF Clean
<1>2. /\ ref.version \in Seq(Segments) /\ ref.version # <<>> /\ ref.version # Empty
      /\ ref = [provider |-> <<p>>, name |-> <<n>>, version |-> ref.version]
  BY <1>1 DEF Plain, Refs, Text
<1> DEFINE path == IF ref.version = Latest THEN <<n>> ELSE <<n>> \o ref.version
<1>3. /\ path \in Seq(Segments) /\ Len(path) >= 1 /\ path[1] = n
      /\ (IF 1 < Len(path) THEN SubSeq(path, 2, Len(path)) ELSE Latest) = ref.version
  <2>1. CASE ref.version = Latest
    <3>1. path = <<n>>
      BY <2>1
    <3>2. path \in Seq(Segments) /\ Len(path) = 1 /\ path[1] = n
      BY <3>1, SingletonIsText DEF Text
    <3> QED BY <2>1, <3>2
  <2>2. CASE ref.version # Latest
    <3>1. path = <<n>> \o ref.version
      BY <2>2
    <3>2. /\ path \in Seq(Segments) /\ Len(path) = Len(ref.version) + 1 /\ path[1] = n
          /\ SubSeq(path, 2, Len(path)) = ref.version
      BY <1>2, <3>1, PrefixedText DEF Text
    <3>3. Len(ref.version) >= 1
      BY <1>2
    <3> QED BY <1>2, <3>2, <3>3
  <2> QED BY <2>1, <2>2
<1>4. ToUri(ref) = <<p>> \o path
  <2>1. (<<p>> \o <<n>>) \o ref.version = <<p>> \o (<<n>> \o ref.version)
    BY <1>2
  <2> QED BY <1>1, <2>1 DEF ToUri
<1> HIDE DEF path
<1>5. ToUri(ref) \in Text /\ Head(ToUri(ref)) = p /\ Tail(ToUri(ref)) = path
  BY <1>3, <1>4, PrefixedText
<1>6. urlparse(ToUri(ref)) = ToUri(ref)
  <2>1. ref.version \in Seq(Clean) /\ <<p>> \in Seq(Clean) /\ <<n>> \in Seq(Clean)
    BY DEF Plain
  <2>2. (<<p>> \o <<n>>) \in Seq(Clean) /\ (<<p>> \o <<n>>) \o ref.version \in Seq(Clean)
    BY <2>1, ConcatProperties
  <2>3. ToUri(ref) \in Seq(Clean)
    BY <1>1, <2>2 DEF ToUri
  <2> QED BY <1>5, <2>3, UrlIsClean
<1>7. Named(path) # {} /\ FirstNamed(path) = 1
  <2>1. DOMAIN path = 1 .. Len(path) /\ Len(path) \in Nat
    BY <1>3
  <2>2. 1 \in Named(path) /\ \A j \in Named(path) : 1 <= j /\ j \in Nat
    BY <1>3, <2>1 DEF Named
  <2>3. FirstNamed(path) \in Named(path) /\ FirstNamed(path) <= 1
    BY <2>2, MinIsLeast DEF FirstNamed
  <2> QED BY <2>2, <2>3
<1>8. ValidRef(ref)
  BY <1>1, <1>2, SingletonIsText DEF ValidRef
<1>9. [provider |-> <<p>>, name |-> <<path[1]>>,
       version |-> IF 1 < Len(path) THEN SubSeq(path, 2, Len(path)) ELSE Latest] = ref
  BY <1>2, <1>3
<1>10. p \notin BadNetlocs \cup {Blank} /\ 1 + 1 = 2
  BY <1>1
<1> QED BY Zenon, <1>5, <1>6, <1>7, <1>8, <1>9, <1>10 DEF ParseUri

-----------------------------------------------------------------------------
\* The inductive invariant: what each stage knows is what the stage before it
\* computed.

Accepted == received = Parse(sent[1], sent[2]) /\ received # NoRef
Rendered == payload = ToUri(received)

IInv ==
  /\ TypeOK
  /\ stage = "received" => Accepted
  /\ stage = "dispatched" => Accepted /\ Rendered
  /\ stage = "loaded" => Accepted /\ Rendered /\ worker = ParseUri(payload)
  /\ stage = "refused" =>
       received = NoRef \/ (Accepted /\ Rendered /\ ParseUri(payload) = NoRef)

\* Two texts with a slash between them are a text.
LEMMA JoinIsText ==
  ASSUME NEW s \in Text, NEW t \in Text
  PROVE  s \o t \in Text
<1>1. s \in Seq(Segments) /\ t \in Seq(Segments) /\ Len(s) >= 1
  BY DEF Text
<1>2. s \o t \in Seq(Segments) /\ Len(s \o t) = Len(s) + Len(t) /\ Len(t) \in Nat
  BY <1>1, ConcatProperties
<1>3. Len(s \o t) >= 1
  BY <1>1, <1>2
<1> QED BY <1>2, <1>3 DEF Text

\* to_uri renders every reference as a text.
LEMMA UriIsText ==
  ASSUME NEW ref \in Refs
  PROVE  ToUri(ref) \in Text
<1>1. ref.provider \in Text /\ ref.name \in Text /\ ref.version \in Text
  BY DEF Refs
<1>2. ref.provider \o ref.name \in Text
  BY <1>1, JoinIsText
<1>3. (ref.provider \o ref.name) \o ref.version \in Text
  BY <1>1, <1>2, JoinIsText
<1> QED BY <1>2, <1>3 DEF ToUri

\* Both forms are parsed to references or refused.
LEMMA ParseType ==
  ASSUME NEW s \in ({"object"} \X Refs) \cup ({"uri"} \X Text)
  PROVE  Parse(s[1], s[2]) \in Refs \cup {NoRef}
<1>1. CASE s \in {"object"} \X Refs
  BY <1>1 DEF Parse
<1>2. CASE s \in {"uri"} \X Text
  <2>1. s[1] = "uri" /\ s[2] \in Text
    BY <1>2
  <2>2. Parse(s[1], s[2]) = ParseUri(s[2])
    BY <2>1 DEF Parse
  <2> QED BY <2>1, <2>2, ParsedRefsArePlain DEF Plain
<1> QED BY <1>1, <1>2

LEMMA InitEstablishesIInv == Init => IInv
<1> SUFFICES ASSUME Init PROVE IInv
  OBVIOUS
<1>1. Objects \subseteq Refs
  <2>1. Providers \subseteq Text /\ Texts \cup {Latest} \subseteq Text
    BY SecretRefAssumption, SingletonIsText DEF Latest
  <2> QED BY <2>1 DEF Objects, Refs
<1>2. Paths \subseteq Text
  BY SecretRefAssumption
<1>3. sent \in ({"object"} \X Refs) \cup ({"uri"} \X Text)
  BY <1>1, <1>2 DEF Init
<1> QED BY <1>3 DEF Init, IInv, TypeOK

LEMMA StepKeepsIInv == IInv /\ [Next]_vars => IInv'
<1> SUFFICES ASSUME IInv, [Next]_vars PROVE IInv'
  OBVIOUS
<1>1. CASE Receive
  <2>1. received' \in Refs \cup {NoRef}
    BY <1>1, ParseType DEF Receive, IInv, TypeOK
  <2> QED BY <1>1, <2>1 DEF Receive, IInv, TypeOK, Accepted
<1>2. CASE Dump
  <2>1. received \in Refs
    BY <1>2 DEF Dump, IInv, TypeOK, Accepted
  <2>2. payload' \in Seq(Segments)
    BY <1>2, <2>1, UriIsText DEF Dump, Text
  <2> QED BY <1>2, <2>2 DEF Dump, IInv, TypeOK, Accepted, Rendered
<1>3. CASE Load
  <2>1. received \in Refs /\ payload = ToUri(received)
    BY <1>3 DEF Load, IInv, TypeOK, Accepted, Rendered
  <2>2. worker' = ParseUri(payload)
    BY <1>3 DEF Load, Parse
  <2>3. worker' \in Refs \cup {NoRef}
    BY <2>1, <2>2, UriIsText, ParsedRefsArePlain DEF Plain
  <2> QED BY <1>3, <2>2, <2>3 DEF Load, IInv, TypeOK, Accepted, Rendered
<1>4. CASE UNCHANGED vars
  BY <1>4 DEF vars, IInv, TypeOK, Accepted, Rendered
<1> QED BY <1>1, <1>2, <1>3, <1>4 DEF Next

\* Every reachable state satisfies the inductive invariant.
THEOREM Invariance == Spec => []IInv
<1> QED BY InitEstablishesIInv, StepKeepsIInv, PTL DEF Spec

\* The receiver and the worker hold a well-typed reference or none, for every
\* message.
THEOREM TypeCorrect == Spec => []TypeOK
<1>1. IInv => TypeOK
  BY DEF IInv
<1> QED BY <1>1, Invariance, PTL

\* _parse_secret_uri and to_uri: a reference sent as a URI means the same
\* secret and version in the worker as in the receiver, and the worker refuses
\* none that the receiver accepted.
THEOREM UrisMeanTheSame == Spec => []UriRefsSurvive
<1>1. IInv => UriRefsSurvive
  <2> SUFFICES ASSUME IInv, sent[1] = "uri", Accepted PROVE ParseUri(ToUri(received)) = received
    BY DEF IInv, UriRefsSurvive, Accepted, Rendered
  <2>1. sent[2] \in Text
    BY DEF IInv, TypeOK
  <2>2. received = ParseUri(sent[2]) /\ received # NoRef
    BY DEF Accepted, Parse
  <2> QED BY <2>1, <2>2, ParsedRefsArePlain, PlainRefsRoundTrip
<1> QED BY <1>1, Invariance, PTL

\* SecretRef._serialize_for_json: an object that a URI can express means the
\* same secret and version in the worker.
THEOREM PlainObjectsMeanTheSame == Spec => []PlainObjectsSurvive
<1>1. IInv => PlainObjectsSurvive
  <2> SUFFICES ASSUME IInv, sent[1] = "object", Accepted, PlainObject(sent[2])
               PROVE  received = sent[2] /\ ParseUri(ToUri(received)) = received
    BY DEF IInv, PlainObjectsSurvive, Accepted, Rendered
  <2>1. sent[2] \in Refs
    BY DEF IInv, TypeOK
  <2>2. received = sent[2] /\ ValidRef(sent[2])
    BY DEF Accepted, Parse
  <2>3. Plain(sent[2])
    <3>1. sent[2].provider \in Seq(Segments) /\ sent[2].name \in Seq(Segments)
          /\ sent[2].version \in Seq(Segments)
      BY <2>1 DEF Refs, Text
    <3>2. PICK p \in Clean : sent[2].provider = <<p>> /\ p \notin BadNetlocs
      <4>1. sent[2].provider = <<sent[2].provider[1]>> /\ sent[2].provider[1] \in Clean
        BY <3>1 DEF PlainObject, Unaltered, Clean
      <4> QED BY <4>1 DEF PlainObject
    <3>3. PICK n \in Clean : sent[2].name = <<n>>
      <4>1. sent[2].name = <<sent[2].name[1]>> /\ sent[2].name[1] \in Clean
        BY <3>1 DEF PlainObject, Unaltered, Clean
      <4> QED BY <4>1
    <3>4. sent[2].version \in Seq(Clean)
      <4> DEFINE version == sent[2].version
      <4>1. \A i \in DOMAIN version : version[i] \in Clean
        BY <3>1 DEF PlainObject, Unaltered, Clean
      <4>2. version \in Seq(Segments)
        BY <3>1
      <4> HIDE DEF version
      <4>3. version \in [1 .. Len(version) -> Clean] /\ Len(version) \in Nat
        BY <4>1, <4>2
      <4>4. version \in Seq(Clean)
        BY <4>3
      <4> QED BY <4>4 DEF version
    <3>5. p # Blank /\ n # Blank /\ sent[2].version # Empty
      BY <2>2, <3>2, <3>3 DEF ValidRef, Empty
    <3> QED BY <2>1, <3>2, <3>3, <3>4, <3>5 DEF Plain
  <2> QED BY <2>2, <2>3, PlainRefsRoundTrip
<1> QED BY <1>1, Invariance, PTL

-----------------------------------------------------------------------------
\* The tenant policy.

\* A host starts with the expected prefix of two tenants only if one tenant's
\* name starts with the other's.
LEMMA OnePrefix ==
  ASSUME NEW host \in Names, NEW p \in Names, NEW a \in Names, NEW b \in Names,
         StartsWith(host, p \o a), StartsWith(host, p \o b),
         Len(a) <= Len(b)
  PROVE  StartsWith(b, a)
<1>1. SUFFICES ASSUME NEW k \in 1 .. Len(a)
               PROVE  b[k] = a[k]
  BY DEF StartsWith
<1>2. /\ p \o a \in Names /\ Len(p \o a) = Len(p) + Len(a)
      /\ p \o b \in Names /\ Len(p \o b) = Len(p) + Len(b)
  BY DEF Names
<1>3. /\ k \in Nat /\ Len(p) \in Nat /\ Len(a) \in Nat /\ Len(b) \in Nat
      /\ k <= Len(b) /\ k <= Len(a) /\ k >= 1
  BY DEF Names
<1>4. (p \o a)[Len(p) + k] = a[k] /\ (p \o b)[Len(p) + k] = b[k]
  <2>1. a \in Seq(STRING) /\ b \in Seq(STRING) /\ p \in Seq(STRING)
    BY DEF Names
  <2>2. /\ Len(p) + k \in 1 .. Len(p) + Len(a) /\ ~(Len(p) + k <= Len(p))
        /\ Len(p) + k \in 1 .. Len(p) + Len(b) /\ Len(p) + k - Len(p) = k
    BY <1>3
  <2>3. \A i \in 1 .. Len(p) + Len(a) :
          (p \o a)[i] = IF i <= Len(p) THEN p[i] ELSE a[i - Len(p)]
    BY <2>1, ConcatProperties, Zenon
  <2>4. \A i \in 1 .. Len(p) + Len(b) :
          (p \o b)[i] = IF i <= Len(p) THEN p[i] ELSE b[i - Len(p)]
    BY <2>1, ConcatProperties, Zenon
  <2>5. (p \o a)[Len(p) + k] = a[k]
    BY <2>2, <2>3
  <2>6. (p \o b)[Len(p) + k] = b[k]
    BY <2>2, <2>4
  <2> QED BY <2>5, <2>6
<1>5. Len(p) + k \in 1 .. Len(p \o a) /\ Len(p) + k \in 1 .. Len(p \o b)
  BY <1>2, <1>3
<1>6. /\ host[Len(p) + k] = (p \o a)[Len(p) + k]
      /\ host[Len(p) + k] = (p \o b)[Len(p) + k]
  BY <1>5, Zenon DEF StartsWith
<1> QED BY <1>4, <1>6

\* The project of a BigQuery host is a name.
LEMMA ProjectIsName ==
  ASSUME NEW host \in Names
  PROVE  Project(host) \in Names
<1> DEFINE D == {k \in DOMAIN host : \A l \in 1 .. k : host[l] # "."}
<1>1. DOMAIN host = 1 .. Len(host) /\ Len(host) \in Nat
  BY DEF Names
<1>2. IsFiniteSet(1 .. Len(host)) /\ Cardinality(1 .. Len(host)) = Len(host)
  <2>1. 1 \in Int /\ Len(host) \in Int
    BY <1>1
  <2>2. /\ IsFiniteSet(1 .. Len(host))
        /\ Cardinality(1 .. Len(host)) = IF 1 > Len(host) THEN 0 ELSE Len(host) - 1 + 1
    BY <2>1, FS_Interval
  <2> QED
    BY <1>1, <2>2
<1>3. D \subseteq 1 .. Len(host)
  BY <1>1
<1>4. Cardinality(D) \in 0 .. Len(host)
  BY <1>2, <1>3, FS_Subset, FS_CardinalityType
<1>5. ASSUME NEW n \in 0 .. Len(host)
      PROVE  SubSeq(host, 1, n) \in Seq(STRING)
  <2>1. 1 \in Int /\ n \in Int /\ \A k \in 1 .. n : host[k] \in STRING
    BY <1>1 DEF Names
  <2> QED
    BY <2>1, SubSeqProperties
<1>6. Project(host) = SubSeq(host, 1, Cardinality(D))
  BY DEF Project
<1> HIDE DEF D
<1> QED
  BY <1>4, <1>5, <1>6 DEF Names

\* TenantPrefixPolicy._check_bucket_uri and _check_bigquery_uri compare with
\* startswith.  No bucket and no dataset is open to two tenants, provided that
\* neither tenant_id starts with the other.
THEOREM TenantsAreApart ==
  ASSUME BucketPrefix \o <<"-">> \in Names,
         NEW i \in Identities, NEW j \in Identities, NEW u \in UriRecords,
         u.scheme \notin TenantAgnosticSchemes,
         ~StartsWith(i.tenant, j.tenant), ~StartsWith(j.tenant, i.tenant)
  PROVE  ~(Permitted(i, u) /\ Permitted(j, u))
<1> DEFINE p == BucketPrefix \o <<"-">>
<1>1. p \in Names /\ i.tenant \in Names /\ j.tenant \in Names /\ u.host \in Names
  BY DEF Names, Identities, UriRecords
<1>2. Len(i.tenant) <= Len(j.tenant) \/ Len(j.tenant) <= Len(i.tenant)
  BY <1>1 DEF Names
<1>3. ASSUME NEW host \in Names
      PROVE  ~(StartsWith(host, p \o i.tenant) /\ StartsWith(host, p \o j.tenant))
  BY <1>1, <1>2, OnePrefix
<1>4. Project(u.host) \in Names
  BY <1>1, ProjectIsName
<1> QED
  BY <1>1, <1>3, <1>4
  DEF Permitted, BucketOk, BigQueryOk, ExpectedPrefix, BucketSchemes, BigQuerySchemes

\* _check_user_segment compares for equality.  With require_user_path_segment
\* no object of a bucket is open to two users, whatever their tenants are.
THEOREM UsersAreApart ==
  ASSUME RequireUserPathSegment,
         NEW i \in Identities, NEW j \in Identities, NEW u \in UriRecords,
         u.scheme \in BucketSchemes, i.user # j.user
  PROVE  ~(Permitted(i, u) /\ Permitted(j, u))
<1>1. i.user \in Names /\ j.user \in Names
  BY DEF Identities
<1>2. ASSUME NEW a \in Names, NEW b \in Names, <<"user_">> \o a = <<"user_">> \o b
      PROVE  a = b
  <2>1. Len(a) = Len(b)
    BY <1>2 DEF Names
  <2>2. \A k \in 1 .. Len(a) : (<<"user_">> \o a)[k + 1] = a[k]
    BY DEF Names
  <2>3. \A k \in 1 .. Len(b) : (<<"user_">> \o b)[k + 1] = b[k]
    BY DEF Names
  <2> QED
    BY <1>2, <2>1, <2>2, <2>3 DEF Names
<1>3. UserSegment(i) # UserSegment(j)
  BY <1>1, <1>2 DEF UserSegment
<1> QED
  BY <1>3
  DEF Permitted, BucketOk, UserSegmentOk, BucketSchemes, BigQuerySchemes, TenantAgnosticSchemes
=============================================================================
