----------------------------- MODULE MCSecretRef -----------------------------
(***************************************************************************)
(* A small instance of SecretRef: texts of up to two segments, URIs of up  *)
(* to five, with a segment that ends a path, one that ends it at once, and *)
(* one that loses a character.                                             *)
(***************************************************************************)
EXTENDS SecretRef

MCSegments == {"", "a", "b", "latest", "a#x", "?x", "b<TAB>"}
MCProviders == {<<"gcp">>, <<"">>, <<"gcp", "a">>, <<"gcp#x">>, <<"[gcp">>}
AllSegments == MCSegments \cup {"gcp", "gcp#x", "[gcp"}

MCEnds == {"a#x", "?x", "gcp#x"}
MCKept == [s \in AllSegments |->
  CASE s = "a#x" -> "a" [] s = "?x" -> "" [] s = "gcp#x" -> "gcp" [] s = "b<TAB>" -> "b"
    [] OTHER -> s]
MCBadNetlocs == {"[gcp"}

UpTo(n) == UNION {[1 .. k -> MCSegments] : k \in 1 .. n}
MCTexts == UpTo(2)
MCPaths == {<<p>> \o t : p \in {"gcp", "", "gcp#x", "[gcp"}, t \in UpTo(4) \cup {<<>>}}
=============================================================================
