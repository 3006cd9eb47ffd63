--------------------------- MODULE ConnectionGrammar ---------------------------
(***************************************************************************)
(* What a connection makes of its stream, against the grammar of requests. *)
(***************************************************************************)
EXTENDS Connection, RequestGrammar

(***************************************************************************)
(* However the stream of a connection is cut into reads, what handle_read  *)
(* has made of it is what the grammar says: a request is handled exactly   *)
(* when all of it has been read, with its method, its uri and its whole    *)
(* body; a stream is answered with 400 only if it does not start with a    *)
(* request.  (Declared lengths that fit an int.)                           *)
(***************************************************************************)
ParsedAsSent ==
  \A c \in Clients : LengthFits(sent[c]) =>
    LET p        == parser[c]
        consumed == nread[c] - chunk[c]
        requests == Requests(sent[c])
    IN  /\ p.result = "true" <=> \E r \in requests : r.length <= consumed
        /\ p.result = "true" => \A r \in requests :
             /\ IsPrefix(p.method \o <<SP>> \o p.uri \o <<SP>>, sent[c])
             /\ p.content = SubSeq(sent[c], r.body, r.length)
        /\ p.result = "false" => \A r \in requests : r.length > Len(sent[c])
================================================================================
