------------------------------ MODULE BlobStore ------------------------------
(***************************************************************************)
(* What the blob store promises to the threads that call it, as if every   *)
(* call took effect at one moment: contents are stored for good, a content *)
(* is accepted if the reference given with it, if any, is one of its own,  *)
(* its call returns once it is stored, and get finds a content, whole, if  *)
(* and only if it is stored at that moment.                                *)
(***************************************************************************)
CONSTANTS
  Threads,    \* the callers
  Contents,   \* the byte strings that may be stored
  Keys,       \* the references
  NoKey,      \* no reference given
  OwnKeys     \* the references that are a content's own

VARIABLES
  stored,   \* the contents that are stored
  call      \* what each thread has asked for, or was given

svars == <<stored, call>>

Idle == [op |-> "idle"]
Adds == [op : {"add"}, content : Contents, key : Keys \cup {NoKey}]
Gets == [op : {"get"}, key : Keys]
Accepted(content) == [op |-> "accepted", content |-> content]
Found(content) == [op |-> "found", content |-> content]

Init == stored = {} /\ call = [t \in Threads |-> Idle]

Goes(t, to) == call' = [call EXCEPT ![t] = to]

(* A content is handed over, or a reference asked for. *)
Call(t) ==
  /\ call[t] = Idle
  /\ call'[t] \in Adds \cup Gets
  /\ Goes(t, call'[t])
  /\ UNCHANGED stored

Own(request) == request.key = NoKey \/ request.key \in OwnKeys[request.content]

Refuse(t) ==
  /\ call[t].op = "add"
  /\ ~ Own(call[t])
  /\ Goes(t, Idle)
  /\ UNCHANGED stored

Accept(t) ==
  /\ call[t].op = "add"
  /\ Own(call[t])
  /\ Goes(t, Accepted(call[t].content))
  /\ UNCHANGED stored

Store(t) ==
  /\ call[t].op = "accepted"
  /\ stored' = stored \cup {call[t].content}
  /\ UNCHANGED call

AddReturns(t) ==
  /\ call[t].op = "accepted"
  /\ call[t].content \in stored
  /\ Goes(t, Idle)
  /\ UNCHANGED stored

Find(t) ==
  /\ call[t].op = "get"
  /\ \E c \in stored : call[t].key \in OwnKeys[c] /\ Goes(t, Found(c))
  /\ UNCHANGED stored

FindNone(t) ==
  /\ call[t].op = "get"
  /\ \A c \in stored : call[t].key \notin OwnKeys[c]
  /\ Goes(t, Idle)
  /\ UNCHANGED stored

(* What was found is the caller's, whole, until it is done with it. *)
Use(t) ==
  /\ call[t].op = "found"
  /\ Goes(t, Idle)
  /\ UNCHANGED stored

Next ==
  \E t \in Threads :
    \/ Call(t) \/ Refuse(t) \/ Accept(t) \/ Store(t) \/ AddReturns(t)
    \/ Find(t) \/ FindNone(t) \/ Use(t)

Spec == Init /\ [][Next]_svars
==============================================================================
