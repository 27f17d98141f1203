------------------------------- MODULE Storage -------------------------------
(***************************************************************************)
(* The storage stack behind StoragePort: CompressedStorage around a        *)
(* CompositeStorage that routes each call by scheme to GcsStorage,         *)
(* LocalFsStorage, HttpFetchStorage or InlineStorage.                      *)
(*                                                                         *)
(* Calls of any number of processes interleave.  A Cloud Storage object is *)
(* replaced as a whole; a local file is truncated when it is opened and    *)
(* filled afterwards, so others may see it empty or in part.  Payloads are *)
(* abstracted to the call that wrote them, and encodings to the codec and  *)
(* to how much of the encoded bytes is there.                              *)
(***************************************************************************)
EXTENDS Naturals

CONSTANTS
  Calls,       \* calls of StoragePort.read and StoragePort.write
  Workloads,   \* what each call may be: functions from Calls to operations
  Uris,
  Scheme,      \* the scheme of each URI
  Adapters,    \* the keys of CompositeStorage.by_scheme
  External,    \* data no call of ours wrote
  NoObject, NoValue,
  InitialObjects, \* what storage and the web may hold at the start
  MaxAttempts

Codecs == {"none", "gzip", "zstd"}
Forms == {"whole", "part", "empty"}
Contents == [codec : Codecs, data : Calls \cup {External}, form : Forms]

Operations == [op : {"read", "write"}, uri : Uris, codec : Codecs,
               mode : {"overwrite", "append", "fail_if_exists"}]

\* An inline URI carries its data.  Only a local file can be met while it is
\* being written, or be left torn by a process of an earlier time.
ASSUME StorageAssumption ==
  /\ Workloads \subseteq [Calls -> Operations]
  /\ Scheme \in [Uris -> STRING]
  /\ Adapters \subseteq {"gs", "file", "https", "inline"}
  /\ External \notin Calls
  /\ NoObject \notin Contents /\ NoValue \notin Contents
  /\ InitialObjects \subseteq [Uris -> Contents \cup {NoObject}]
  /\ \A o \in InitialObjects, u \in Uris :
       /\ Scheme[u] = "inline" => o[u] # NoObject
       /\ Scheme[u] # "file" /\ o[u] # NoObject => o[u].form = "whole"
  /\ MaxAttempts \in Nat \ {0}

VARIABLES
  pc,       \* where each call is
  op,       \* what each call does
  attempt,  \* attempt number of with_retry
  answer,   \* "data", "ok" or how the call failed
  value,    \* what a read returned
  objects,  \* what each URI holds
  before    \* history: the calls that had ended when a call began

vars == <<pc, op, attempt, answer, value, objects, before>>

Answers == {"none", "data", "ok", "unsupported_scheme", "blocked_host",
            "input_not_found", "input_read_failed", "format_parsing_failed",
            "output_write_failed", "escaped", "killed"}

Init ==
  /\ pc = [c \in Calls |-> "idle"]
  /\ op \in Workloads
  /\ attempt = [c \in Calls |-> 1]
  /\ answer = [c \in Calls |-> "none"]
  /\ value = [c \in Calls |-> NoValue]
  /\ objects \in InitialObjects
  /\ before = [c \in Calls |-> {}]

Is(c, what, scheme) == op[c].op = what /\ Scheme[op[c].uri] = scheme

\* What CompressedStorage.write hands to the inner adapter.
Encoded(c) == [codec |-> op[c].codec, data |-> c, form |-> "whole"]

-----------------------------------------------------------------------------
Answer(c, how) ==
  /\ pc' = [pc EXCEPT ![c] = "done"]
  /\ answer' = [answer EXCEPT ![c] = how]
  /\ UNCHANGED <<op, attempt, before>>

Goto(c, stage) ==
  /\ pc' = [pc EXCEPT ![c] = stage]
  /\ UNCHANGED <<op, attempt, answer, before>>

\* Seeded bugs: the budget is renewed; one attempt too many; the last failure
\* is taken for a success.
RetryForever(c) ==
  /\ attempt' = [attempt EXCEPT ![c] = (@ % MaxAttempts) + 1]
  /\ UNCHANGED <<pc, op, answer, before>>

RetryOnceMore(c) ==
  IF attempt[c] <= MaxAttempts
  THEN /\ attempt' = [attempt EXCEPT ![c] = @ + 1]
       /\ UNCHANGED <<pc, op, answer, before>>
  ELSE Answer(c, "escaped")

RetryThenSucceed(c) ==
  IF attempt[c] < MaxAttempts
  THEN /\ attempt' = [attempt EXCEPT ![c] = @ + 1]
       /\ UNCHANGED <<pc, op, answer, before>>
  ELSE Answer(c, "ok")

\* with_retry of the GCS and HTTP adapters after a transient failure.
RetryOrReraise(c) ==
  IF attempt[c] < MaxAttempts
  THEN /\ attempt' = [attempt EXCEPT ![c] = @ + 1]
       /\ UNCHANGED <<pc, op, answer, before>>
  ELSE Answer(c, "escaped")

\* CompositeStorage._select, before any adapter is called.
Begin(c) ==
  /\ pc[c] = "idle"
  /\ before' = [before EXCEPT ![c] = {d \in Calls : pc[d] = "done"}]
  /\ \/ /\ Scheme[op[c].uri] \in Adapters
        /\ pc' = [pc EXCEPT ![c] = "call"]
        /\ UNCHANGED answer
     \/ /\ Scheme[op[c].uri] \notin Adapters
        /\ pc' = [pc EXCEPT ![c] = "done"]
        /\ answer' = [answer EXCEPT ![c] = "unsupported_scheme"]
  /\ UNCHANGED <<op, attempt, value, objects>>

\* The scheme is right but the adapter cannot address the rest of the URI: no
\* blob name, outside the configured root, an unknown inline encoding, a host
\* on the blocklist.
Refuse(c) ==
  /\ pc[c] = "call" /\ attempt[c] = 1
  /\ \/ Scheme[op[c].uri] \in {"gs", "file"} /\ Answer(c, "unsupported_scheme")
     \/ Is(c, "read", "inline") /\ Answer(c, "unsupported_scheme")
     \/ Is(c, "read", "https") /\ Answer(c, "blocked_host")
  /\ UNCHANGED <<value, objects>>

-----------------------------------------------------------------------------
\* Writes.

Wrote(c, u) == pc[c] # "idle" /\ op[c].op = "write" /\ op[c].uri = u

\* The other writes to the URI of call c that had not ended when c began.
Rivals(c) == {d \in Calls \ {c} : Wrote(d, op[c].uri) /\ d \notin before[c]}

\* Seeded bug: an object that exists is left alone.
KeepExisting(c) ==
  objects' = [objects EXCEPT ![op[c].uri] = IF @ = NoObject THEN Encoded(c) ELSE @]

\* blob.upload_from_string: the object is replaced, whatever the write mode.
Upload(c) == objects' = [objects EXCEPT ![op[c].uri] = Encoded(c)]

\* GcsStorage.write: an attempt may fail after the upload took place.
GcsWrite(c) ==
  /\ pc[c] = "call" /\ Is(c, "write", "gs")
  /\ \/ Upload(c) /\ Answer(c, "ok")
     \/ /\ Upload(c) \/ UNCHANGED objects
        /\ RetryOrReraise(c) \/ Answer(c, "output_write_failed") \/ Answer(c, "escaped")
  /\ UNCHANGED value

\* LocalFsStorage.write: path.write_bytes truncates the file, then fills it.
\* Nothing is retried, and nothing is undone.
LocalOpen(c) ==
  /\ pc[c] = "call" /\ Is(c, "write", "file")
  /\ \/ /\ objects' = [objects EXCEPT ![op[c].uri] = [Encoded(c) EXCEPT !.form = "empty"]]
        /\ Goto(c, "fill")
     \/ UNCHANGED objects /\ Answer(c, "output_write_failed")
  /\ UNCHANGED value

\* Bytes that a concurrent write put into the file may survive behind ours.
LocalFill(c) ==
  /\ pc[c] = "fill"
  /\ \E form \in {"whole", "part"} :
       LET u == op[c].uri IN
       /\ objects' = [objects EXCEPT ![u] = [Encoded(c) EXCEPT !.form = form]]
       /\ \/ form = "part" /\ Goto(c, "fill")
          \/ form = "part" /\ Answer(c, "output_write_failed")
          \/ form = "part" /\ Rivals(c) # {} /\ Answer(c, "ok")
          \/ form = "whole" /\ Answer(c, "ok")
  /\ UNCHANGED value

\* HttpFetchStorage and InlineStorage refuse to write.
ReadOnlyWrite(c) ==
  /\ pc[c] = "call" /\ (Is(c, "write", "https") \/ Is(c, "write", "inline"))
  /\ Answer(c, "output_write_failed")
  /\ UNCHANGED <<value, objects>>

-----------------------------------------------------------------------------
\* Reads.

\* A gzip stream of no bytes decompresses to no bytes; one that breaks off
\* raises EOFError, which the handler for OSError does not catch, unless not
\* even its magic number is there.  A zstd frame must be complete.
Damage(raw, codec) ==
  CASE codec = "none" -> {}
    [] codec = "gzip" ->
         IF raw.form = "empty" THEN {}
         ELSE IF raw.codec # "gzip" THEN {"input_read_failed"}
         ELSE IF raw.form = "part" THEN {"input_read_failed", "escaped"}
         ELSE {}
    [] OTHER ->
         IF raw.codec = "zstd" /\ raw.form = "whole" THEN {} ELSE {"input_read_failed"}

\* Seeded bug: bytes that do not decode are passed on as they are.
DecodeLeniently(c, raw) ==
  Answer(c, "data") /\ value' = [value EXCEPT ![c] = raw]

\* CompressedStorage.read, after the inner read returned "raw".
Decode(c, raw) ==
  LET errors == Damage(raw, op[c].codec)
  IN  \/ errors = {} /\ Answer(c, "data") /\ value' = [value EXCEPT ![c] = raw]
      \/ \E error \in errors : Answer(c, error) /\ UNCHANGED value

\* GcsStorage.read and HttpFetchStorage.read.
RemoteRead(c) ==
  /\ pc[c] = "call" /\ (Is(c, "read", "gs") \/ Is(c, "read", "https"))
  /\ LET raw == objects[op[c].uri] IN
     \/ raw # NoObject /\ Decode(c, raw)
     \/ raw = NoObject /\ Answer(c, "input_not_found") /\ UNCHANGED value
     \/ /\ RetryOrReraise(c) \/ Answer(c, "input_read_failed") \/ Answer(c, "escaped")
        /\ UNCHANGED value
  /\ UNCHANGED objects

\* LocalFsStorage.read: no retry.
LocalRead(c) ==
  /\ pc[c] = "call" /\ Is(c, "read", "file")
  /\ LET raw == objects[op[c].uri] IN
     \/ raw # NoObject /\ Decode(c, raw)
     \/ raw = NoObject /\ Answer(c, "input_not_found") /\ UNCHANGED value
     \/ raw # NoObject /\ Answer(c, "input_read_failed") /\ UNCHANGED value
  /\ UNCHANGED objects

\* _decode_inline_uri: the data is in the URI.
InlineRead(c) ==
  /\ pc[c] = "call" /\ Is(c, "read", "inline")
  /\ \/ Decode(c, objects[op[c].uri])
     \/ \E how \in {"input_read_failed", "format_parsing_failed"} :
          Answer(c, how) /\ UNCHANGED value
  /\ UNCHANGED objects

-----------------------------------------------------------------------------
\* The process of a call is stopped.
Kill(c) ==
  /\ pc[c] \in {"call", "fill"}
  /\ Answer(c, "killed")
  /\ UNCHANGED <<value, objects>>

Step(c) ==
  \/ Refuse(c) \/ GcsWrite(c) \/ LocalOpen(c) \/ ReadOnlyWrite(c)
  \/ RemoteRead(c) \/ LocalRead(c) \/ InlineRead(c)

Next == \E c \in Calls : Begin(c) \/ Step(c) \/ LocalFill(c) \/ Kill(c)

\* A call that began goes on; a file that is being written is filled in the
\* end, or the write fails.
Fairness ==
  \A c \in Calls :
    /\ WF_vars(Step(c))
    /\ WF_vars(LocalFill(c) /\ pc'[c] = "done")

Spec == Init /\ [][Next]_vars /\ Fairness

-----------------------------------------------------------------------------
\* Properties.

TypeOK ==
  /\ pc \in [Calls -> {"idle", "call", "fill", "done"}]
  /\ op \in [Calls -> Operations]
  /\ attempt \in [Calls -> 1 .. MaxAttempts]
  /\ answer \in [Calls -> Answers]
  /\ value \in [Calls -> Contents \cup {NoValue}]
  /\ objects \in [Uris -> Contents \cup {NoObject}]
  /\ before \in [Calls -> SUBSET Calls]

Returned(c) == answer[c] = "data"

\* CompressedStorage.read and GcsStorage.write.  What a read returns is a
\* whole payload, in the encoding its own spec names, whatever was writing at
\* the time.  The exceptions are local files: one that is being written is
\* returned as it is without a codec, and as no bytes at all with gzip.
ReadsAreWhole ==
  \A c \in Calls : Returned(c) =>
    \/ value[c].form = "whole" /\ op[c].codec \in {"none", value[c].codec}
    \/ /\ Scheme[op[c].uri] = "file"
       /\ op[c].codec = "none" \/ (op[c].codec = "gzip" /\ value[c].form = "empty")

\* GcsStorage.write with retries: a write answered "ok" is what the URI holds,
\* unless another write to the URI overlapped with it or came later; for local
\* files as well.
AcknowledgedWritesLand ==
  \A c \in Calls :
    answer[c] = "ok" /\ Rivals(c) = {} => objects[op[c].uri] = Encoded(c)

\* GcsStorage: reads are regular.  A read never returns a payload that was
\* already replaced when it began, even if the write of that payload was
\* retried, failed or was killed.
ReadsAreFresh ==
  \A c \in Calls : Returned(c) /\ Scheme[op[c].uri] = "gs" =>
    ~ \E d \in before[c] :
        /\ answer[d] = "ok" /\ Wrote(d, op[c].uri)
        /\ value[c].data \in before[d] \cup {External}

\* with_retry, and the adapters that do not retry: every call ends.
EveryCallEnds == \A c \in Calls : (pc[c] # "idle") ~> (pc[c] = "done")

\* contract/io_spec.py, OutputSpec: "a write mode that adapters honor": a
\* write in mode fail_if_exists replaces nothing.
FailIfExistsReplacesNothing ==
  [][\A c \in Calls : \A u \in Uris :
       (pc[c] = "call" /\ pc'[c] = "done" /\ op[c].mode = "fail_if_exists" /\ op[c].uri = u)
         => (objects[u] # NoObject => objects'[u] = objects[u])]_vars
=============================================================================
