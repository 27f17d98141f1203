---------------------------- MODULE StorageProofs ----------------------------
(***************************************************************************)
(* Theorems about Storage, for any number of calls, any workloads, URIs    *)
(* and retry limit.  The argument: a call only ever replaces the object at *)
(* its own URI, by its own payload and while it is under way, and a call   *)
(* that had ended when another one began does nothing any more.            *)
(***************************************************************************)
EXTENDS Storage, TLAPS

\* Calls end with an answer; what a call knows to have ended has ended; only
\* writes are acknowledged and only files are filled.
CallInv ==
  \A c \in Calls :
    /\ answer[c] = "none" <=> pc[c] # "done"
    /\ \A d \in before[c] : pc[d] = "done"
    /\ pc[c] = "fill" => Is(c, "write", "file")
    /\ answer[c] = "ok" => op[c].op = "write"

\* Only a local file is ever there in part, and inline data is always there.
ObjectInv ==
  \A u \in Uris :
    /\ Scheme[u] # "file" /\ objects[u] # NoObject => objects[u].form = "whole"
    /\ Scheme[u] = "inline" => objects[u] # NoObject

\* An object of Cloud Storage is no older than any acknowledged write to it.
LatestInv ==
  \A d \in Calls :
    answer[d] = "ok" /\ Scheme[op[d].uri] = "gs"
      => /\ objects[op[d].uri] # NoObject
         /\ objects[op[d].uri].data \notin before[d] \cup {External}

IInv ==
  /\ TypeOK /\ CallInv /\ ObjectInv /\ LatestInv
  /\ ReadsAreWhole /\ AcknowledgedWritesLand /\ ReadsAreFresh

-----------------------------------------------------------------------------
\* What all steps of a call have in common.

\* The call leaves the objects alone, or it is a write to Cloud Storage or to a
\* file and replaces the object at its URI by its own payload.
Replaces(c) ==
  \/ objects' = objects
  \/ /\ pc[c] # "idle" /\ op[c].op = "write" /\ Scheme[op[c].uri] \in {"gs", "file"}
     /\ \E e \in Contents :
          /\ e.data = c /\ (Scheme[op[c].uri] = "gs" => e = Encoded(c))
          /\ objects' = [objects EXCEPT ![op[c].uri] = e]

\* The call reads nothing, or it ends with what it found at its URI, which it
\* could decode.
Takes(c) ==
  \/ value' = value /\ answer'[c] # "data"
  \/ /\ objects' = objects /\ pc'[c] = "done"
     /\ objects[op[c].uri] # NoObject /\ Damage(objects[op[c].uri], op[c].codec) = {}
     /\ value' = [value EXCEPT ![c] = objects[op[c].uri]]
     /\ answer'[c] = "data"

\* A step of one call, which has not ended.
Move(c) ==
  /\ op' = op /\ attempt' \in [Calls -> 1 .. MaxAttempts]
  /\ pc[c] # "done" /\ before[c] \subseteq Calls
  /\ \E p \in {"call", "fill", "done"} : pc' = [pc EXCEPT ![c] = p]
  /\ \E a \in Answers : answer' = [answer EXCEPT ![c] = a]
  /\ answer'[c] = "none" <=> pc'[c] # "done"
  /\ \/ before' = before /\ pc[c] # "idle"
     \/ /\ pc[c] = "idle" /\ answer'[c] \in {"none", "unsupported_scheme"}
        /\ before' = [before EXCEPT ![c] = {d \in Calls : pc[d] = "done"}]
  /\ pc'[c] = "fill" => Is(c, "write", "file")
  /\ Replaces(c) /\ Takes(c)
  /\ answer'[c] = "ok" =>
       /\ op[c].op = "write" /\ pc[c] # "idle"
       /\ objects'[op[c].uri] = Encoded(c) \/ (Scheme[op[c].uri] = "file" /\ Rivals(c) # {})

\* The operation of every call, and what its write would store, is well-typed.
LEMMA CallTypes ==
  ASSUME TypeOK, NEW c \in Calls
  PROVE  /\ op[c] \in Operations /\ op[c].uri \in Uris
         /\ Encoded(c) \in Contents /\ Encoded(c).data = c
         /\ \A f \in Forms : [Encoded(c) EXCEPT !.form = f] \in Contents
         /\ \A f \in Forms : [Encoded(c) EXCEPT !.form = f].data = c
         /\ [Encoded(c) EXCEPT !.form = "whole"] = Encoded(c)
<1>1. op[c] \in Operations
  BY DEF TypeOK
<1>2. op[c].uri \in Uris /\ op[c].codec \in Codecs
  BY <1>1 DEF Operations
<1>3. \A f \in Forms : [Encoded(c) EXCEPT !.form = f] = [codec |-> op[c].codec, data |-> c, form |-> f]
  BY DEF Encoded
<1>4. \A f \in Forms : [codec |-> op[c].codec, data |-> c, form |-> f] \in Contents
  BY <1>2 DEF Contents
<1>5. "whole" \in Forms
  BY DEF Forms
<1> QED BY <1>1, <1>2, <1>3, <1>4, <1>5 DEF Encoded

\* Ending with an answer, in a call that is under way.
LEMMA Ends ==
  ASSUME TypeOK, NEW c \in Calls, NEW how \in Answers \ {"none", "data", "ok"},
         pc[c] \in {"call", "fill"}, Answer(c, how), value' = value, Replaces(c)
  PROVE  Move(c)
<1>1. answer'[c] = how /\ pc'[c] = "done"
  BY DEF Answer, TypeOK
<1> QED BY <1>1 DEF Move, Answer, TypeOK, Takes

\* RetryOrReraise: one more attempt, within the limit, or the end.
LEMMA Retries ==
  ASSUME TypeOK, CallInv, NEW c \in Calls, pc[c] = "call",
         RetryOrReraise(c), value' = value, Replaces(c)
  PROVE  Move(c)
<1>1. CASE Answer(c, "escaped")
  <2>1. "escaped" \in Answers \ {"none", "data", "ok"}
    BY DEF Answers
  <2> QED BY <1>1, <2>1, Ends
<1>2. CASE /\ attempt[c] < MaxAttempts /\ attempt' = [attempt EXCEPT ![c] = @ + 1]
           /\ UNCHANGED <<pc, op, answer, before>>
  <2>1. attempt' \in [Calls -> 1 .. MaxAttempts]
    BY <1>2, StorageAssumption DEF TypeOK
  <2>2. pc' = [pc EXCEPT ![c] = "call"] /\ answer' = [answer EXCEPT ![c] = "none"]
    BY <1>2 DEF TypeOK, CallInv
  <2>3. pc'[c] = "call" /\ answer'[c] = "none"
    BY <1>2 DEF CallInv
  <2> QED BY <1>2, <2>1, <2>2, <2>3 DEF Move, Takes, Answers, TypeOK
<1> QED BY <1>1, <1>2 DEF RetryOrReraise

\* CompressedStorage.read: the data, or an error.
LEMMA Decodes ==
  ASSUME TypeOK, NEW c \in Calls, pc[c] = "call", objects' = objects,
         objects[op[c].uri] # NoObject, Decode(c, objects[op[c].uri])
  PROVE  Move(c)
<1> DEFINE raw == objects[op[c].uri]
<1>1. CASE Damage(raw, op[c].codec) = {} /\ Answer(c, "data") /\ value' = [value EXCEPT ![c] = raw]
  <2>1. answer'[c] = "data" /\ pc'[c] = "done"
    BY <1>1 DEF Answer, TypeOK
  <2> QED BY <1>1, <2>1 DEF Move, Answer, TypeOK, Takes, Replaces, Answers
<1>2. CASE \E error \in Damage(raw, op[c].codec) : Answer(c, error) /\ UNCHANGED value
  <2>1. PICK error \in Damage(raw, op[c].codec) : Answer(c, error) /\ UNCHANGED value
    BY <1>2
  <2>2. error \in {"input_read_failed", "escaped"}
    BY <2>1 DEF Damage
  <2>3. error \in Answers \ {"none", "data", "ok"}
    BY <2>2 DEF Answers
  <2> QED BY <2>1, <2>3, Ends DEF Replaces
<1> QED BY <1>1, <1>2 DEF Decode

\* Every action of a call is a move.
LEMMA BeginMoves == ASSUME IInv, NEW c \in Calls, Begin(c) PROVE Move(c)
<1>1. CASE pc' = [pc EXCEPT ![c] = "call"] /\ answer' = answer
  <2>1. answer[c] = "none" /\ answer' = [answer EXCEPT ![c] = "none"] /\ pc'[c] = "call"
    BY <1>1 DEF Begin, IInv, CallInv, TypeOK
  <2> QED BY <1>1, <2>1 DEF Begin, Move, Replaces, Takes, IInv, TypeOK, Answers
<1>2. CASE pc' = [pc EXCEPT ![c] = "done"] /\ answer' = [answer EXCEPT ![c] = "unsupported_scheme"]
  <2>1. answer'[c] = "unsupported_scheme" /\ pc'[c] = "done"
    BY <1>2 DEF IInv, TypeOK
  <2> QED BY <1>2, <2>1 DEF Begin, Move, Replaces, Takes, IInv, TypeOK, Answers
<1> QED BY <1>1, <1>2 DEF Begin

\* One lemma per action: it is a Move.
LEMMA RefuseMoves == ASSUME IInv, NEW c \in Calls, Refuse(c) PROVE Move(c)
<1>1. PICK how \in {"unsupported_scheme", "blocked_host"} : Answer(c, how)
  BY DEF Refuse
<1>2. how \in Answers \ {"none", "data", "ok"}
  BY DEF Answers
<1> QED BY <1>1, <1>2, Ends DEF Refuse, Replaces, IInv

\* A blob is replaced as a whole, also when the reply is lost.
LEMMA GcsWriteMoves == ASSUME IInv, NEW c \in Calls, GcsWrite(c) PROVE Move(c)
<1>1. pc[c] = "call" /\ Is(c, "write", "gs") /\ value' = value
  BY DEF GcsWrite
<1>2. ASSUME Upload(c) PROVE Replaces(c)
  BY <1>1, <1>2, CallTypes DEF Upload, Replaces, IInv, Is
<1>3. ASSUME Upload(c), Answer(c, "ok") PROVE Move(c)
  <2>1. answer'[c] = "ok" /\ pc'[c] = "done"
    BY <1>3 DEF Answer, IInv, TypeOK
  <2>2. objects'[op[c].uri] = Encoded(c)
    BY <1>3, CallTypes DEF Upload, IInv, TypeOK
  <2> QED BY <1>1, <1>2, <1>3, <2>1, <2>2 DEF Move, Answer, Takes, IInv, TypeOK, Is, Answers
<1>4. ASSUME Upload(c) \/ UNCHANGED objects PROVE Replaces(c)
  BY <1>2, <1>4 DEF Replaces
<1>5. \A how \in {"output_write_failed", "escaped"} : how \in Answers \ {"none", "data", "ok"}
  BY DEF Answers
<1>6. ASSUME Upload(c) \/ UNCHANGED objects,
             Answer(c, "output_write_failed") \/ Answer(c, "escaped")
      PROVE  Move(c)
  BY <1>1, <1>4, <1>5, <1>6, Ends DEF IInv
<1>7. ASSUME Upload(c) \/ UNCHANGED objects, RetryOrReraise(c) PROVE Move(c)
  BY <1>1, <1>4, <1>7, Retries DEF IInv
<1> QED BY <1>3, <1>6, <1>7 DEF GcsWrite

\* A local file is truncated first, or could not be opened.
LEMMA LocalOpenMoves == ASSUME IInv, NEW c \in Calls, LocalOpen(c) PROVE Move(c)
<1>1. pc[c] = "call" /\ Is(c, "write", "file") /\ value' = value
  BY DEF LocalOpen
<1>2. CASE /\ objects' = [objects EXCEPT ![op[c].uri] = [Encoded(c) EXCEPT !.form = "empty"]]
           /\ Goto(c, "fill")
  <2>1. Replaces(c)
    <3>1. "empty" \in Forms
      BY DEF Forms
    <3> QED BY <1>1, <1>2, <3>1, CallTypes DEF Replaces, IInv, Is
  <2>2. answer[c] = "none" /\ pc'[c] = "fill" /\ answer' = [answer EXCEPT ![c] = "none"]
    BY <1>1, <1>2 DEF Goto, IInv, CallInv, TypeOK
  <2> QED BY <1>1, <1>2, <2>1, <2>2 DEF Move, Goto, Takes, IInv, TypeOK, Answers
<1>3. CASE UNCHANGED objects /\ Answer(c, "output_write_failed")
  <2>1. "output_write_failed" \in Answers \ {"none", "data", "ok"}
    BY DEF Answers
  <2> QED BY <1>1, <1>3, <2>1, Ends DEF IInv, Replaces
<1> QED BY <1>2, <1>3 DEF LocalOpen

\* Its bytes follow, all of them or a part; a part is acknowledged only when a
\* rival wrote to the file in between.
LEMMA LocalFillMoves == ASSUME IInv, NEW c \in Calls, LocalFill(c) PROVE Move(c)
<1>1. pc[c] = "fill" /\ Is(c, "write", "file") /\ value' = value
  BY DEF LocalFill, IInv, CallInv
<1>2. PICK form \in {"whole", "part"} :
        /\ objects' = [objects EXCEPT ![op[c].uri] = [Encoded(c) EXCEPT !.form = form]]
        /\ \/ form = "part" /\ Goto(c, "fill")
           \/ form = "part" /\ Answer(c, "output_write_failed")
           \/ form = "part" /\ Rivals(c) # {} /\ Answer(c, "ok")
           \/ form = "whole" /\ Answer(c, "ok")
  BY DEF LocalFill
<1>3. Replaces(c)
  <2>1. form \in Forms
    BY DEF Forms
  <2> QED BY <1>1, <1>2, <2>1, CallTypes DEF Replaces, IInv, Is
<1>4. CASE Goto(c, "fill")
  <2>1. answer[c] = "none" /\ pc'[c] = "fill" /\ answer' = [answer EXCEPT ![c] = "none"]
    BY <1>1, <1>4 DEF Goto, IInv, CallInv, TypeOK
  <2> QED BY <1>1, <1>3, <1>4, <2>1 DEF Move, Goto, Takes, IInv, TypeOK, Answers
<1>5. CASE Answer(c, "output_write_failed")
  <2>1. "output_write_failed" \in Answers \ {"none", "data", "ok"}
    BY DEF Answers
  <2> QED BY <1>1, <1>3, <1>5, <2>1, Ends DEF IInv
<1>6. CASE Answer(c, "ok") /\ (Rivals(c) # {} \/ form = "whole")
  <2>1. answer'[c] = "ok" /\ pc'[c] = "done"
    BY <1>6 DEF Answer, IInv, TypeOK
  <2>2. form = "whole" => objects'[op[c].uri] = Encoded(c)
    BY <1>2, CallTypes DEF IInv, TypeOK
  <2> QED
    BY <1>1, <1>3, <1>6, <2>1, <2>2 DEF Move, Answer, Takes, IInv, TypeOK, Is, Answers
<1> QED BY <1>2, <1>4, <1>5, <1>6

\* A read takes what lies at its URI and changes nothing.
LEMMA ReadMoves ==
  ASSUME IInv, NEW c \in Calls, RemoteRead(c) \/ LocalRead(c) \/ InlineRead(c)
  PROVE  Move(c)
<1>1. pc[c] = "call" /\ objects' = objects /\ op[c].uri \in Uris
  BY CallTypes DEF RemoteRead, LocalRead, InlineRead, IInv
<1>2. ASSUME objects[op[c].uri] # NoObject, Decode(c, objects[op[c].uri])
      PROVE  Move(c)
  BY <1>1, <1>2, Decodes DEF IInv
<1>3. ASSUME NEW how \in {"input_not_found", "input_read_failed", "format_parsing_failed", "escaped"},
             Answer(c, how), UNCHANGED value
      PROVE  Move(c)
  <2>1. how \in Answers \ {"none", "data", "ok"}
    BY DEF Answers
  <2> QED BY <1>1, <1>3, <2>1, Ends DEF IInv, Replaces
<1>4. ASSUME RetryOrReraise(c), UNCHANGED value PROVE Move(c)
  BY <1>1, <1>4, Retries DEF IInv, Replaces
<1>5. CASE RemoteRead(c)
  BY <1>2, <1>3, <1>4, <1>5 DEF RemoteRead
<1>6. CASE LocalRead(c)
  BY <1>2, <1>3, <1>6 DEF LocalRead
<1>7. CASE InlineRead(c)
  <2>1. objects[op[c].uri] # NoObject
    BY <1>1, <1>7 DEF InlineRead, Is, IInv, ObjectInv
  <2> QED BY <1>2, <1>3, <1>7, <2>1 DEF InlineRead
<1> QED BY <1>5, <1>6, <1>7

LEMMA StepMoves ==
  ASSUME IInv, NEW c \in Calls, Begin(c) \/ Step(c) \/ LocalFill(c) \/ Kill(c)
  PROVE  Move(c)
<1>1. CASE ReadOnlyWrite(c)
  <2>1. "output_write_failed" \in Answers \ {"none", "data", "ok"}
    BY DEF Answers
  <2> QED BY <1>1, <2>1, Ends DEF ReadOnlyWrite, Replaces, IInv
<1>2. CASE Kill(c)
  <2>1. "killed" \in Answers \ {"none", "data", "ok"}
    BY DEF Answers
  <2> QED BY <1>2, <2>1, Ends DEF Kill, Replaces, IInv
<1> QED
  BY <1>1, <1>2, BeginMoves, RefuseMoves, GcsWriteMoves, LocalOpenMoves, LocalFillMoves, ReadMoves
  DEF Step

-----------------------------------------------------------------------------
\* The inductive invariant holds at the start, and every move keeps it.

LEMMA Initially == Init => IInv
<1> SUFFICES ASSUME Init PROVE IInv
  OBVIOUS
<1>1. TypeOK
  <2>1. op \in [Calls -> Operations] /\ objects \in [Uris -> Contents \cup {NoObject}]
    BY StorageAssumption DEF Init
  <2>2. 1 \in 1 .. MaxAttempts
    BY StorageAssumption
  <2> QED BY <2>1, <2>2 DEF Init, TypeOK, Answers
<1>2. ObjectInv
  BY StorageAssumption DEF Init, ObjectInv
<1>3. \A c \in Calls : answer[c] = "none" /\ pc[c] = "idle" /\ before[c] = {}
  BY DEF Init
<1> QED
  BY <1>1, <1>2, <1>3
  DEF IInv, CallInv, LatestInv, ReadsAreWhole, AcknowledgedWritesLand, ReadsAreFresh, Returned

\* What a move of c changes of other calls, of other objects, and of itself.
LEMMA MoveFrame ==
  ASSUME IInv, NEW c \in Calls, Move(c)
  PROVE  /\ op' = op
         /\ \A d \in Calls \ {c} : pc'[d] = pc[d] /\ answer'[d] = answer[d]
                                   /\ value'[d] = value[d] /\ before'[d] = before[d]
         /\ pc[c] # "done" /\ answer[c] = "none" /\ pc'[c] \in {"call", "fill", "done"}
         /\ answer'[c] \in Answers
         /\ \A d \in before'[c] : d \in Calls \ {c} /\ pc[d] = "done"
         /\ answer'[c] \notin {"none", "unsupported_scheme"} => before'[c] = before[c]
<1>1. answer[c] = "none"
  BY DEF Move, IInv, CallInv
<1>2. \A d \in Calls \ {c} : pc'[d] = pc[d] /\ answer'[d] = answer[d]
                             /\ value'[d] = value[d] /\ before'[d] = before[d]
  BY DEF Move, Takes, IInv, TypeOK
<1>3. pc'[c] \in {"call", "fill", "done"} /\ answer'[c] \in Answers
  BY DEF Move, IInv, TypeOK
<1>4. \A d \in before[c] : d \in Calls \ {c} /\ pc[d] = "done"
  BY DEF Move, IInv, CallInv
<1>5. before'[c] = before[c] \/ before'[c] = {d \in Calls : pc[d] = "done"}
  BY DEF Move, IInv, TypeOK
<1>6. pc[c] # "done" /\ op' = op
  BY DEF Move
<1>7. answer'[c] \notin {"none", "unsupported_scheme"} => before'[c] = before[c]
  BY DEF Move
<1> QED BY <1>1, <1>2, <1>3, <1>4, <1>5, <1>6, <1>7

LEMMA TypeMove == ASSUME IInv, NEW c \in Calls, Move(c) PROVE TypeOK'
<1>1. op[c].uri \in Uris
  BY CallTypes DEF IInv
<1>2. op' \in [Calls -> Operations] /\ attempt' \in [Calls -> 1 .. MaxAttempts]
  BY DEF Move, IInv, TypeOK
<1>3. pc' \in [Calls -> {"idle", "call", "fill", "done"}] /\ answer' \in [Calls -> Answers]
  BY DEF Move, IInv, TypeOK
<1>4. before' \in [Calls -> SUBSET Calls]
  BY DEF Move, IInv, TypeOK
<1>5. objects' \in [Uris -> Contents \cup {NoObject}]
  BY <1>1 DEF Move, Replaces, IInv, TypeOK
<1>6. value' \in [Calls -> Contents \cup {NoValue}]
  BY <1>1 DEF Move, Takes, IInv, TypeOK
<1> QED BY <1>2, <1>3, <1>4, <1>5, <1>6 DEF TypeOK

LEMMA CallMove == ASSUME IInv, NEW c \in Calls, Move(c) PROVE CallInv'
<1>1. SUFFICES ASSUME NEW d \in Calls
               PROVE  /\ answer'[d] = "none" <=> pc'[d] # "done"
                      /\ \A e \in before'[d] : pc'[e] = "done"
                      /\ pc'[d] = "fill" => Is(d, "write", "file")
                      /\ answer'[d] = "ok" => op[d].op = "write"
  BY MoveFrame DEF CallInv, Is
<1>2. CASE d = c
  <2>1. \A e \in before'[c] : pc'[e] = "done"
    BY MoveFrame
  <2> QED BY <1>2, <2>1 DEF Move
<1>3. CASE d # c
  <2>1. before[d] \subseteq Calls
    BY DEF IInv, TypeOK
  <2> QED BY <1>3, <2>1, MoveFrame DEF IInv, CallInv
<1> QED BY <1>2, <1>3

LEMMA ObjectMove == ASSUME IInv, NEW c \in Calls, Move(c) PROVE ObjectInv'
<1>1. CASE objects' = objects
  BY <1>1 DEF IInv, ObjectInv
<1>2. CASE \E e \in Contents :
             /\ e.data = c /\ (Scheme[op[c].uri] = "gs" => e = Encoded(c))
             /\ objects' = [objects EXCEPT ![op[c].uri] = e]
  <2>1. PICK e \in Contents : /\ e.data = c /\ (Scheme[op[c].uri] = "gs" => e = Encoded(c))
                              /\ objects' = [objects EXCEPT ![op[c].uri] = e]
    BY <1>2
  <2>2. Scheme[op[c].uri] \in {"gs", "file"} \/ objects' = objects
    BY DEF Move, Replaces
  <2>3. e # NoObject /\ Encoded(c).form = "whole"
    BY StorageAssumption DEF Encoded
  <2>4. objects \in [Uris -> Contents \cup {NoObject}]
    BY DEF IInv, TypeOK
  <2>5. ObjectInv
    BY DEF IInv
  <2>6. CASE Scheme[op[c].uri] \in {"gs", "file"}
    <3>1. SUFFICES ASSUME NEW u \in Uris
                   PROVE  /\ Scheme[u] # "file" /\ objects'[u] # NoObject => objects'[u].form = "whole"
                          /\ Scheme[u] = "inline" => objects'[u] # NoObject
      BY DEF ObjectInv
    <3>2. CASE u = op[c].uri
      <4>1. objects'[u] = e
        BY <2>1, <2>4, <3>2
      <4>2. Scheme[u] # "file" => e = Encoded(c)
        BY <2>1, <2>6, <3>2
      <4> QED BY <2>3, <2>6, <3>2, <4>1, <4>2
    <3>3. CASE u # op[c].uri
      <4>1. objects'[u] = objects[u]
        BY <2>1, <2>4, <3>3
      <4> QED BY <2>5, <4>1 DEF ObjectInv
    <3> QED BY <3>2, <3>3
  <2> QED BY <1>1, <2>2, <2>6
<1> QED BY <1>1, <1>2 DEF Move, Replaces

\* A move changes the object at one URI at most, that of a write under way.
LEMMA OtherObjects ==
  ASSUME IInv, NEW c \in Calls, Move(c), NEW u \in Uris, objects'[u] # objects[u]
  PROVE  /\ u = op[c].uri /\ op[c].op = "write" /\ pc[c] # "idle"
         /\ objects'[u] \in Contents /\ objects'[u].data = c
<1>1. PICK e \in Contents : e.data = c /\ objects' = [objects EXCEPT ![op[c].uri] = e]
  BY DEF Move, Replaces
<1> QED BY <1>1 DEF Move, Replaces, IInv, TypeOK

LEMMA LatestMove == ASSUME IInv, NEW c \in Calls, Move(c) PROVE LatestInv'
<1>1. SUFFICES ASSUME NEW d \in Calls, answer'[d] = "ok", Scheme[op[d].uri] = "gs"
               PROVE  /\ objects'[op[d].uri] # NoObject
                      /\ objects'[op[d].uri].data \notin before'[d] \cup {External}
  BY MoveFrame DEF LatestInv
<1> DEFINE u == op[d].uri
<1>2. u \in Uris
  BY CallTypes DEF IInv
<1>3. CASE d = c
  <2>1. objects'[u] = Encoded(c) /\ before'[c] \subseteq Calls \ {c}
    BY <1>1, <1>3, MoveFrame DEF Move
  <2>2. Encoded(c) \in Contents /\ Encoded(c).data = c
    BY CallTypes DEF IInv
  <2> QED BY <1>3, <2>1, <2>2, StorageAssumption
<1>4. CASE d # c
  <2>1. answer[d] = "ok" /\ before'[d] = before[d]
    BY <1>1, <1>4, MoveFrame
  <2>2. c \notin before[d]
    BY <1>1, MoveFrame DEF IInv, CallInv
  <2>3. CASE objects'[u] = objects[u]
    BY <1>1, <2>1, <2>3 DEF IInv, LatestInv
  <2>4. CASE objects'[u] # objects[u]
    BY <1>2, <2>1, <2>2, <2>4, OtherObjects, StorageAssumption
  <2> QED BY <2>3, <2>4
<1> QED BY <1>3, <1>4

\* CompressedStorage.read only returns what it could decode.
LEMMA WholeMove == ASSUME IInv, NEW c \in Calls, Move(c) PROVE ReadsAreWhole'
<1>1. SUFFICES ASSUME NEW d \in Calls, answer'[d] = "data"
               PROVE  \/ value'[d].form = "whole" /\ op[d].codec \in {"none", value'[d].codec}
                      \/ /\ Scheme[op[d].uri] = "file"
                         /\ \/ op[d].codec = "none"
                            \/ op[d].codec = "gzip" /\ value'[d].form = "empty"
  BY MoveFrame DEF ReadsAreWhole, Returned
<1>2. CASE d # c
  BY <1>1, <1>2, MoveFrame DEF IInv, ReadsAreWhole, Returned
<1>3. CASE d = c
  <2> DEFINE raw == objects[op[c].uri]
  <2>1. raw # NoObject /\ Damage(raw, op[c].codec) = {} /\ value'[c] = raw
    BY <1>1, <1>3 DEF Move, Takes, IInv, TypeOK
  <2>2. op[c].uri \in Uris /\ op[c].codec \in Codecs
    BY CallTypes DEF IInv, Operations
  <2>3. raw \in Contents
    BY <2>1, <2>2 DEF IInv, TypeOK
  <2>4. Scheme[op[c].uri] # "file" => raw.form = "whole"
    BY <2>1, <2>2 DEF IInv, ObjectInv
  <2>5. CASE op[c].codec = "none"
    BY <1>3, <2>1, <2>4, <2>5
  <2>6. CASE op[c].codec = "gzip"
    <3>1. raw.form = "empty" \/ (raw.codec = "gzip" /\ raw.form # "part")
      BY <2>1, <2>6 DEF Damage
    <3>2. raw.form \in {"whole", "part", "empty"}
      BY <2>3 DEF Contents, Forms
    <3> QED BY <1>3, <2>1, <2>4, <2>6, <3>1, <3>2
  <2>7. CASE op[c].codec = "zstd"
    BY <1>3, <2>1, <2>7 DEF Damage
  <2> QED BY <2>2, <2>5, <2>6, <2>7 DEF Codecs
<1> QED BY <1>2, <1>3

\* Whoever replaces an object after an acknowledged write is one of its rivals.
LEMMA LandedMove == ASSUME IInv, NEW c \in Calls, Move(c) PROVE AcknowledgedWritesLand'
<1>1. SUFFICES ASSUME NEW d \in Calls, answer'[d] = "ok", Rivals(d)' = {}
               PROVE  objects'[op[d].uri] = Encoded(d)
  BY MoveFrame DEF AcknowledgedWritesLand, Encoded
<1> DEFINE u == op[d].uri
<1>2. u \in Uris /\ op' = op
  BY CallTypes, MoveFrame DEF IInv
<1>3. before'[d] = before[d]
  BY <1>1, MoveFrame
<1>4. Rivals(d) = {}
  <2>1. \A e \in Calls : Wrote(e, u) => Wrote(e, u)'
    BY <1>2, MoveFrame DEF Wrote
  <2> QED BY <1>1, <1>2, <1>3, <2>1 DEF Rivals
<1>5. CASE d = c
  BY <1>1, <1>4, <1>5 DEF Move
<1>6. CASE d # c
  <2>1. answer[d] = "ok" /\ objects[u] = Encoded(d)
    BY <1>1, <1>4, <1>6, MoveFrame DEF IInv, AcknowledgedWritesLand
  <2>2. c \notin before[d]
    BY MoveFrame DEF IInv, CallInv
  <2>3. ~Wrote(c, u)
    BY <1>4, <1>6, <2>2 DEF Rivals
  <2>4. objects'[u] = objects[u]
    BY <1>2, <2>3, OtherObjects DEF Wrote
  <2> QED BY <2>1, <2>4
<1> QED BY <1>5, <1>6

\* A read meets the latest of the acknowledged writes, or a later one.
LEMMA FreshMove == ASSUME IInv, NEW c \in Calls, Move(c) PROVE ReadsAreFresh'
<1>1. SUFFICES ASSUME NEW r \in Calls, answer'[r] = "data", Scheme[op[r].uri] = "gs",
                      NEW d \in before'[r], answer'[d] = "ok", op[d].op = "write",
                      op[d].uri = op[r].uri,
                      value'[r].data \in before'[d] \cup {External}
               PROVE  FALSE
  BY MoveFrame DEF ReadsAreFresh, Returned, Wrote
<1>2. before'[r] = before[r]
  BY <1>1, MoveFrame
<1>3. d \in Calls \ {c} /\ pc[d] = "done"
  BY <1>1, <1>2, MoveFrame DEF IInv, TypeOK, CallInv
<1>4. answer[d] = "ok" /\ before'[d] = before[d]
  BY <1>1, <1>3, MoveFrame
<1>5. CASE r # c
  BY <1>1, <1>2, <1>3, <1>4, <1>5, MoveFrame DEF IInv, ReadsAreFresh, Returned, Wrote
<1>6. CASE r = c
  <2>1. value'[c] = objects[op[c].uri]
    BY <1>1, <1>6 DEF Move, Takes, IInv, TypeOK
  <2> QED BY <1>1, <1>3, <1>4, <1>6, <2>1 DEF IInv, LatestInv
<1> QED BY <1>5, <1>6

LEMMA InvariantMove == IInv /\ [Next]_vars => IInv'
<1> SUFFICES ASSUME IInv, [Next]_vars PROVE IInv'
  OBVIOUS
<1>1. ASSUME NEW c \in Calls, Move(c) PROVE IInv'
  BY <1>1, TypeMove, CallMove, ObjectMove, LatestMove, WholeMove, LandedMove, FreshMove DEF IInv
<1>2. CASE Next
  BY <1>1, <1>2, StepMoves DEF Next
<1>3. CASE UNCHANGED vars
  BY <1>3 DEF vars, IInv, TypeOK, CallInv, ObjectInv, LatestInv, ReadsAreWhole,
              AcknowledgedWritesLand, ReadsAreFresh, Returned, Rivals, Wrote, Encoded, Is
<1> QED BY <1>2, <1>3

\* Every reachable state of the storage stack satisfies the inductive
\* invariant, for any number of calls and any limit on the attempts.
THEOREM Inductive == Spec => []IInv
<1> QED BY Initially, InvariantMove, PTL DEF Spec

\* Every variable keeps its type; with_retry never exceeds its attempts.
THEOREM TypeCorrect == Spec => []TypeOK
<1>1. IInv => TypeOK
  BY DEF IInv
<1> QED BY <1>1, Inductive, PTL

\* CompressedStorage.read: what a read returns is a whole payload in the
\* encoding its spec names; local files are the exception.
THEOREM WholeReads == Spec => []ReadsAreWhole
<1>1. IInv => ReadsAreWhole
  BY DEF IInv
<1> QED BY <1>1, Inductive, PTL

\* GcsStorage.write and LocalFsStorage.write: a write answered "ok" is what its
\* URI holds, until a write that overlapped with it or came later.
THEOREM AcknowledgedWritesRemain == Spec => []AcknowledgedWritesLand
<1>1. IInv => AcknowledgedWritesLand
  BY DEF IInv
<1> QED BY <1>1, Inductive, PTL

\* GcsStorage.read: a read never returns a payload that an acknowledged write
\* had replaced before the read began.
THEOREM FreshReads == Spec => []ReadsAreFresh
<1>1. IInv => ReadsAreFresh
  BY DEF IInv
<1> QED BY <1>1, Inductive, PTL
=============================================================================
