------------------------------ MODULE Connection ------------------------------
(***************************************************************************)
(* connection.cpp and server.cpp: the HTTP front end.  A pool of threads   *)
(* runs the completion handlers of the acceptor, of the connections and of *)
(* the signal set.  Each connection reads one request, in pieces of any    *)
(* size, answers it and is closed.                                         *)
(*                                                                         *)
(* A connection is named by its client.  boost::asio, TCP and the clients  *)
(* are external: a read completes with the bytes that have arrived, or     *)
(* with an error once the client is gone.  The strands are left out: that  *)
(* the handlers of a connection never overlap is checked without them.     *)
(***************************************************************************)
EXTENDS RequestParser, FiniteSets

CONSTANTS
  Clients,
  Threads,      \* thread_pool_size_ of them
  NoClient,
  Segments,     \* what clients send at a time
  MaySend(_),   \* the streams they send, and their prefixes
  BufferSize,   \* of buffer_
  Window,       \* bytes of a connection that are sent and not read
  Replies,      \* the replies of request_handler::handle_request
  NoReply,
  BadRequest,   \* reply::stock_reply(reply::bad_request)
  Faults        \* a subset of {"drop", "stop", "throw"}

ASSUME ConnectionAssumption ==
  /\ NoClient \notin Clients
  /\ NoReply \notin Replies \cup {BadRequest}
  /\ BufferSize \in Nat \ {0} /\ Window \in Nat \ {0}
  /\ Segments \subseteq Seq(Char)

VARIABLES
  connected,  \* the client has connected
  pending,    \* the operations of the connection that have not completed
  busy,       \* the connection whose handle_read a thread runs
  sent,       \* the bytes the client has sent
  nread,      \* how many of them have been read
  chunk,      \* how many of those the running handle_read was given
  gone,       \* the client has closed or lost the connection
  parser,     \* request_parser_ and request_
  reply_,
  wire,       \* what is written to the client
  got,        \* what the client has received
  stopped,    \* io_service_.stop() has been called
  up          \* the server runs

client == <<connected, sent, gone, got>>

server == <<stopped, up>>

vars == <<connected, pending, busy, sent, nread, chunk, gone, parser, reply_, wire, got,
          stopped, up>>

Init ==
  /\ connected = [c \in Clients |-> FALSE]
  /\ pending = [c \in Clients |-> {}]
  /\ busy = [t \in Threads |-> NoClient]
  /\ sent = [c \in Clients |-> <<>>]
  /\ nread = [c \in Clients |-> 0]
  /\ chunk = [c \in Clients |-> 0]
  /\ gone = [c \in Clients |-> FALSE]
  /\ parser = [c \in Clients |-> NewParser]
  /\ reply_ = [c \in Clients |-> NoReply]
  /\ wire = [c \in Clients |-> NoReply]
  /\ got = [c \in Clients |-> NoReply]
  /\ stopped = FALSE
  /\ up = TRUE

(***************************************************************************)
(* An operation and a handler hold a shared_ptr to the connection; the     *)
(* destructor closes the socket.                                           *)
(***************************************************************************)
Open(c) == pending[c] # {} \/ \E t \in Threads : busy[t] = c

Unread(c) == Len(sent[c]) - nread[c]

------------------------------------------------------------------------------
(* Clients *)

Connect(c) ==
  /\ up /\ ~ connected[c]
  /\ connected' = [connected EXCEPT ![c] = TRUE]
  /\ pending' = [pending EXCEPT ![c] = {"accept"}]
  /\ UNCHANGED <<busy, sent, nread, chunk, gone, parser, reply_, wire, got, server>>

Send(c) ==
  /\ Open(c) /\ ~ gone[c]
  /\ \E s \in Segments :
       /\ MaySend(sent[c] \o s)
       /\ Unread(c) + Len(s) <= Window
       /\ sent' = [sent EXCEPT ![c] = @ \o s]
  /\ UNCHANGED <<connected, pending, busy, nread, chunk, gone, parser, reply_, wire, got, server>>

Receive(c) ==
  /\ ~ gone[c] /\ wire[c] # got[c]
  /\ got' = [got EXCEPT ![c] = wire[c]]
  /\ UNCHANGED <<connected, pending, busy, sent, nread, chunk, gone, parser, reply_, wire, server>>

Drop(c) ==
  /\ "drop" \in Faults
  /\ Open(c) /\ ~ gone[c]
  /\ gone' = [gone EXCEPT ![c] = TRUE]
  /\ UNCHANGED <<connected, pending, busy, sent, nread, chunk, parser, reply_, wire, got, server>>

------------------------------------------------------------------------------
(* Completion handlers *)

Idle(t) == busy[t] = NoClient

(***************************************************************************)
(* io_service::run takes a handler while it is not stopped and a thread of *)
(* the pool is free.                                                       *)
(***************************************************************************)
CanRun == up /\ ~ stopped /\ \E t \in Threads : Idle(t)

Completes(c, op) ==
  /\ CanRun /\ op \in pending[c]
  /\ UNCHANGED <<connected, busy, sent, nread, chunk, gone, parser, reply_, got, server>>

(***************************************************************************)
(* server::handle_accept starts the connection, unless there was an error, *)
(* and accepts the next one.                                               *)
(***************************************************************************)
HandleAccept(c) ==
  /\ Completes(c, "accept")
  /\ \/ pending' = [pending EXCEPT ![c] = (@ \ {"accept"}) \cup {"read"}]
     \/ gone[c] /\ pending' = [pending EXCEPT ![c] = @ \ {"accept"}]
  /\ UNCHANGED wire

(***************************************************************************)
(* Mutant: reads again after an error.                                     *)
(***************************************************************************)
HandleReadErrorRetries(c) ==
  /\ Completes(c, "read") /\ gone[c]
  /\ UNCHANGED <<pending, wire>>

(***************************************************************************)
(* connection::handle_read with an error starts no new operation.          *)
(***************************************************************************)
HandleReadError(c) ==
  /\ Completes(c, "read") /\ gone[c]
  /\ pending' = [pending EXCEPT ![c] = @ \ {"read"}]
  /\ UNCHANGED wire

(***************************************************************************)
(* async_read_some completes, and thread t begins connection::handle_read. *)
(***************************************************************************)
HandleReadBegin(t, c) ==
  LET n == IF Unread(c) < BufferSize THEN Unread(c) ELSE BufferSize
  IN  /\ up /\ ~ stopped /\ Idle(t)
      /\ "read" \in pending[c] /\ n > 0
      /\ pending' = [pending EXCEPT ![c] = @ \ {"read"}]
      /\ busy' = [busy EXCEPT ![t] = c]
      /\ nread' = [nread EXCEPT ![c] = @ + n]
      /\ chunk' = [chunk EXCEPT ![c] = n]
      /\ UNCHANGED <<client, parser, reply_, wire, server>>

(***************************************************************************)
(* Mutant: each read has a parser of its own.                              *)
(***************************************************************************)
ParsedAfresh(c) == parse(NewParser, SubSeq(sent[c], nread[c] - chunk[c] + 1, nread[c]))

(***************************************************************************)
(* request_parser_.parse on the bytes of this read.                        *)
(***************************************************************************)
Parsed(c) == parse(parser[c], SubSeq(sent[c], nread[c] - chunk[c] + 1, nread[c]))

(***************************************************************************)
(* What is written of reply r.  to_buffers keeps the addresses of the      *)
(* temporaries that header::name() and header::value() return, which are   *)
(* destroyed before async_write reads them; the status line and the        *)
(* content are not copies.                                                 *)
(***************************************************************************)
to_buffers(r) == {[reply |-> r, headers |-> h] : h \in {"intact", "garbage"}}

(***************************************************************************)
(* Mutant: the next request is read while the reply is written.            *)
(***************************************************************************)
AnswerAndRead(c, r) ==
  /\ reply_' = [reply_ EXCEPT ![c] = r]
  /\ \E w \in to_buffers(r) : wire' = [wire EXCEPT ![c] = w]
  /\ pending' = [pending EXCEPT ![c] = @ \cup {"write", "read"}]

(***************************************************************************)
(* Mutant: the reply is not written.                                       *)
(***************************************************************************)
AnswerUnsent(c, r) ==
  /\ reply_' = [reply_ EXCEPT ![c] = r]
  /\ UNCHANGED <<wire, pending>>

(***************************************************************************)
(* Sets reply_ and starts async_write.                                     *)
(***************************************************************************)
Answer(c, r) ==
  /\ reply_' = [reply_ EXCEPT ![c] = r]
  /\ \E w \in to_buffers(r) : wire' = [wire EXCEPT ![c] = w]
  /\ pending' = [pending EXCEPT ![c] = @ \cup {"write"}]

(***************************************************************************)
(* Mutant: the connection is kept for further requests.                    *)
(***************************************************************************)
HandleReadKeepsAlive(t, c) ==
  /\ up /\ busy[t] = c
  /\ \E p \in {Parsed(c)} :
       \/ /\ p.result # "indeterminate"
          /\ parser' = [parser EXCEPT ![c] = NewParser]
          /\ \E r \in IF p.result = "true" THEN Replies ELSE {BadRequest} : AnswerAndRead(c, r)
       \/ /\ p.result = "indeterminate"
          /\ parser' = [parser EXCEPT ![c] = p]
          /\ pending' = [pending EXCEPT ![c] = @ \cup {"read"}]
          /\ UNCHANGED <<reply_, wire>>
  /\ busy' = [busy EXCEPT ![t] = NoClient]
  /\ chunk' = [chunk EXCEPT ![c] = 0]
  /\ UNCHANGED <<client, nread, server>>

(***************************************************************************)
(* handle_read parses what was read, and starts the next operation: the    *)
(* write of a reply when the request is complete or is bad, or a read.     *)
(***************************************************************************)
HandleRead(t, c) ==
  /\ up /\ busy[t] = c
  /\ \E p \in {Parsed(c)} :
       /\ parser' = [parser EXCEPT ![c] = p]
       /\ \/ p.result = "true" /\ \E r \in Replies : Answer(c, r)
          \/ p.result = "false" /\ Answer(c, BadRequest)
          \/ /\ p.result = "indeterminate"
             /\ pending' = [pending EXCEPT ![c] = @ \cup {"read"}]
             /\ UNCHANGED <<reply_, wire>>
  /\ busy' = [busy EXCEPT ![t] = NoClient]
  /\ chunk' = [chunk EXCEPT ![c] = 0]
  /\ UNCHANGED <<client, nread, server>>

(***************************************************************************)
(* connection::handle_write shuts the socket down; the connection is       *)
(* destroyed.  Closing a socket with unread bytes resets it, and the reply *)
(* may not reach the client.                                               *)
(***************************************************************************)
HandleWrite(c) ==
  /\ Completes(c, "write")
  /\ pending' = [pending EXCEPT ![c] = @ \ {"write"}]
  /\ \/ UNCHANGED wire
     \/ Unread(c) > 0 /\ wire' = [wire EXCEPT ![c] = got[c]]

(***************************************************************************)
(* server::handle_stop, on SIGINT, SIGTERM or SIGQUIT.                     *)
(***************************************************************************)
HandleStop ==
  /\ "stop" \in Faults /\ CanRun
  /\ stopped' = TRUE
  /\ UNCHANGED <<client, pending, busy, nread, chunk, parser, reply_, wire, up>>

(***************************************************************************)
(* The operations end with the process; a write may not be complete.       *)
(***************************************************************************)
Die ==
  /\ up' = FALSE
  /\ \E lost \in SUBSET {c \in Clients : "write" \in pending[c]} :
       wire' = [c \in Clients |-> IF c \in lost THEN got[c] ELSE wire[c]]
  /\ pending' = [c \in Clients |-> {}]
  /\ busy' = [t \in Threads |-> NoClient]
  /\ UNCHANGED <<client, nread, chunk, parser, reply_, stopped>>

(***************************************************************************)
(* Mutant: run returns when no connection is left.                         *)
(***************************************************************************)
ExitWhenIdle == up /\ stopped /\ (\A c \in Clients : ~ Open(c)) /\ Die

(***************************************************************************)
(* server::run has joined the threads, and the server is destroyed.        *)
(***************************************************************************)
Exit == up /\ stopped /\ (\A t \in Threads : Idle(t)) /\ Die

(***************************************************************************)
(* An exception of handle_request leaves io_service::run and the function  *)
(* of the thread: std::terminate.                                          *)
(***************************************************************************)
HandlerThrows(t, c) ==
  /\ "throw" \in Faults
  /\ up /\ busy[t] = c /\ Parsed(c).result = "true"
  /\ Die

Handler(c) ==
  \/ HandleAccept(c) \/ HandleReadError(c) \/ HandleWrite(c)
  \/ \E t \in Threads : HandleReadBegin(t, c) \/ HandleRead(t, c)

Next ==
  \/ \E c \in Clients :
       \/ Connect(c) \/ Send(c) \/ Receive(c) \/ Drop(c)
       \/ Handler(c)
       \/ \E t \in Threads : HandlerThrows(t, c)
  \/ HandleStop
  \/ Exit

Spec == Init /\ [][Next]_vars

(***************************************************************************)
(* The pool goes on as long as some handler is ready, and so do clients    *)
(* that have something to receive.  Sending, dropping and signals are not  *)
(* fair.                                                                   *)
(***************************************************************************)
FairSpec ==
  /\ Spec
  /\ WF_vars(\E c \in Clients : Handler(c))
  /\ WF_vars(\E c \in Clients : Receive(c))
  /\ WF_vars(Exit)

------------------------------------------------------------------------------
(* Properties *)

(***************************************************************************)
(* The bytes of the connection that handle_read has handed to parse.       *)
(***************************************************************************)
Handed(c) == SubSeq(sent[c], 1, nread[c] - chunk[c])

(***************************************************************************)
(* Where the stream is cut into reads makes no difference: the parser,     *)
(* which keeps its state from one handle_read to the next, is where one    *)
(* call of parse for all the bytes would have left it.                     *)
(***************************************************************************)
ReadInOnePiece == \A c \in Clients : parser[c] = parse(NewParser, Handed(c))

(***************************************************************************)
(* The bytes up to h are a head: its last four are the first empty line.   *)
(***************************************************************************)
EndsLineAt(s, i) == s[i - 1] = CR /\ s[i] = LF

HeadEndsAt(s, h) ==
  /\ h \in 4 .. Len(s) /\ EndsLineAt(s, h) /\ EndsLineAt(s, h - 2)
  /\ \A i \in 4 .. h - 1 : ~ (EndsLineAt(s, i) /\ EndsLineAt(s, i - 2))

(***************************************************************************)
(* A request that is handled is what the client sent: its method and its   *)
(* uri are the first two words of the stream, and its content the bytes    *)
(* behind the first empty line, as many as atoi makes of Content-Length    *)
(* and never more than MaxContent, whether or not the length that the      *)
(* client wrote fits an int.                                               *)
(***************************************************************************)
HandledAsSent ==
  \A c \in Clients : parser[c].result = "true" =>
    LET p    == parser[c]
        s    == Handed(c)
        clen == atoi[get_header(p, ContentLength)]
    IN  /\ Len(p.content) = (IF clen > 0 THEN clen ELSE 0) /\ clen <= MaxContent
        /\ \E h \in DOMAIN s : HeadEndsAt(s, h) /\ h + Len(p.content) <= Len(s)
                               /\ p.content = SubSeq(s, h + 1, h + Len(p.content))
        /\ \E i, j \in DOMAIN s :
             /\ i < j /\ s[i] = SP /\ s[j] = SP
             /\ p.method = SubSeq(s, 1, i - 1) /\ p.uri = SubSeq(s, i + 1, j - 1)

(***************************************************************************)
(* A connection has at most one operation or handler: its handlers never   *)
(* overlap, with or without its strand, and when one starts no operation   *)
(* the connection is destroyed, as the comments of connection.cpp say.     *)
(***************************************************************************)
OneOperation ==
  \A c \in Clients :
    Cardinality(pending[c]) + Cardinality({t \in Threads : busy[t] = c}) <= 1

(***************************************************************************)
(* reply_ is not changed while it is written, as reply.hpp asks: "the      *)
(* reply object must remain valid and not be changed until the write       *)
(* operation has completed".  (This is about reply_, which the status line *)
(* and the content are sent from; the buffers of the headers point to      *)
(* temporaries instead, see to_buffers.)                                   *)
(***************************************************************************)
ReplyKeptWhileWritten ==
  [][\A c \in Clients : "write" \in pending[c] => reply_'[c] = reply_[c]]_vars

(***************************************************************************)
(* A connection whose client is gone is destroyed, whatever it had sent.   *)
(***************************************************************************)
DroppedIsClosed == \A c \in Clients : gone[c] ~> (~ Open(c) \/ stopped)

(***************************************************************************)
(* server::run returns once the server is stopped.                         *)
(***************************************************************************)
StopEnds == stopped ~> ~ up
==============================================================================
