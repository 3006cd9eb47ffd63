----------------------------- MODULE MCConnection -----------------------------
(***************************************************************************)
(* Instances of Connection for TLC.                                        *)
(***************************************************************************)
EXTENDS ConnectionGrammar

(***************************************************************************)
(* Whole streams, in few segments: a request, one with a body and another  *)
(* byte behind it, one with a body whose declared length does not fit an   *)
(* int, and one that is bad.                                               *)
(***************************************************************************)
Part1 == <<"a", SP, "/", SP, "H", "T", "T", "P", "/", "1", ".">>

Part2 == <<"0", CR, LF, CR, LF>>

Part3 == <<"0", CR, LF, "C", ":", SP, "1", CR, LF, CR, LF>>

Part4 == <<":">>

Part5 == <<"0", CR, LF, "C", ":", "1", "1", CR, LF, CR, LF>>

Streams == {Part1 \o Part2, Part1 \o Part3 \o Part4 \o Part4, Part1 \o Part5 \o Part4,
            Part1 \o Part4}

StreamSegments == {Part1, Part2, Part3, Part4, Part5}

InStreams(s) == \E t \in Streams : IsPrefix(s, t)

(***************************************************************************)
(* What a client may have sent when it has sent one request, whole.        *)
(***************************************************************************)
WholeRequests ==
  {s \in UNION {Prefixes(t) : t \in Streams} : \E r \in Requests(s) : r.length = Len(s)}

(***************************************************************************)
(* A client that sends one whole request and waits gets a reply, unless    *)
(* the server is stopped or dies: handle_read starts a read or a write     *)
(* until the request is answered.                                          *)
(***************************************************************************)
RequestIsAnswered ==
  \A c \in Clients :
    sent[c] \in WholeRequests
      ~> (got[c] # NoReply \/ gone[c] \/ sent[c] \notin WholeRequests \/ stopped \/ ~ up)

(***************************************************************************)
(* Any characters, one at a time: from the start, and after a start line.  *)
(***************************************************************************)
LineCharacters == {SP, CR, LF, "H", "T", "P", "/", ".", "1", NonAscii}

MaxLine == 15

MaxTarget == 3

InLine(s) ==
  /\ Len(s) <= MaxLine /\ Range(s) \subseteq LineCharacters
  /\ Cardinality({i \in DOMAIN s : s[i] = SP}) < 2 => Len(s) <= MaxTarget

StartLine == Part1 \o <<"0", CR, LF>>

HeaderCharacters == {SP, HT, CR, LF, ":", "C", "1"}

MaxHeaders == 9

InHeaders(s) ==
  \/ IsPrefix(s, StartLine)
  \/ /\ IsPrefix(StartLine, s)
     /\ Len(s) <= Len(StartLine) + MaxHeaders
     /\ Last(s) \in HeaderCharacters

Characters ==
  {<<c>> : c \in LineCharacters \cup HeaderCharacters \cup Range(StartLine)}

InLineOrHeaders(s) == InLine(s) \/ InHeaders(s)
==============================================================================
