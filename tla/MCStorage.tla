------------------------------ MODULE MCStorage ------------------------------
(***************************************************************************)
(* Small instances of Storage: concurrent writers and readers of one       *)
(* object, of one file, and of everything a scheme may refuse.             *)
(***************************************************************************)
EXTENDS Storage

CONSTANTS First, Second

MCUris == {"gs_a", "file_a", "web", "inl", "ftp"}
MCScheme == [u \in MCUris |-> CASE u = "gs_a" -> "gs"   [] u = "file_a" -> "file"
                                [] u = "web" -> "https" [] u = "inl" -> "inline"
                                [] OTHER -> "ftp"]

Found(codec) == [codec |-> codec, data |-> External, form |-> "whole"]
MCInitialObjects ==
  {[u \in MCUris |-> IF u \in {"web", "inl"} THEN Found("none")
                     ELSE IF u = "ftp" THEN NoObject ELSE o]
     : o \in {NoObject, Found("zstd")}}

Op(what, u, codec) == [op |-> what, uri |-> u, codec |-> codec, mode |-> "overwrite"]

\* Two writers and a reader of one object of Cloud Storage.
Codings == {"none", "zstd"}
OnOneObject ==
  {[c \in Calls |-> CASE c = First -> Op("write", "gs_a", i) [] c = Second -> Op("write", "gs_a", j)
                      [] OTHER -> Op("read", "gs_a", k)] : i \in Codings, j \in Codings, k \in Codings}

\* Two calls of any adapter and codec; the third one goes nowhere.
OnAnyAdapter ==
  {Op(what, "file_a", k) : what \in {"read", "write"}, k \in Codecs}
    \cup {Op(what, "gs_a", "gzip") : what \in {"read", "write"}}
    \cup {Op(what, u, "none") : what \in {"read", "write"}, u \in {"web", "inl", "ftp"}}

TwoOnAnyAdapter ==
  {[c \in Calls |-> CASE c = First -> o [] c = Second -> p [] OTHER -> Op("read", "ftp", "none")]
     : o \in OnAnyAdapter, p \in OnAnyAdapter}

MCWorkloads == OnOneObject \cup TwoOnAnyAdapter

ProtectedWrites == {[c \in Calls |-> [Op("write", "gs_a", "none") EXCEPT !.mode = "fail_if_exists"]]}
=============================================================================
