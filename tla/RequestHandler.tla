--------------------------- MODULE RequestHandler ---------------------------
(***************************************************************************)
(* request_handler: what the server does with a whole request              *)
(* (request_handler.cpp, the query grammar of request.hpp), when the       *)
(* threads of the pool handle requests at the same time.  The requests are *)
(* the ones Sync and curl build, and malformed ones.                       *)
(*                                                                         *)
(* The index is the set of contents it holds: one add_blob and one get are *)
(* steps of their own (BlobIndex shows what its mutex makes atomic), and a *)
(* handler makes several of them.  URIs, queries and header values that    *)
(* are not forms are sequences of words and punctuation marks.             *)
(***************************************************************************)
EXTENDS BlobKey, Multipart, FiniteSets

CONSTANTS
  Threads,        \* threads of the pool
  BlobRef,        \* how a key is spelled: "sha1-..." or "sha256-..."
  Uploads,        \* what clients upload: sequences of payloads
  Asked,          \* the keys clients ask for
  Batches,        \* what stat requests ask for: sequences of keys
  BlobName,       \* "blob1", "blob2", ...: the names of a stat request's keys, by number
  Names,          \* the names in queries, in the order std::map has them
  Unreadable,     \* contents whose file may be missing or not open
  OtherRequests,  \* other requests, with the statuses they may be answered with
  StaticFiles,    \* paths below static_directory, with what reading them gives
  Limit           \* references in an enumerate reply (25 in the code)

ASSUME AskedAssumption == Asked \subseteq Keys

ASSUME BatchesAssumption == \A ks \in Batches : ks \in Seq(Keys) /\ Len(ks) <= Len(BlobName)

ASSUME UploadsAssumption == Uploads \subseteq Seq(Contents \cup {<<>>})

VARIABLES
  stored,   \* the contents in the index
  pc,       \* where each thread is
  asks,     \* history: what the client of its request asked for
  parts,    \* handle_put: payloads still to be added
  blobs,    \* handle_stat: references still to be looked up
  stat,     \* handle_stat: the array of the reply so far
  rep,      \* the reply
  before,   \* history: stored when the request came in
  sent      \* history: contents of uploads that were answered 200

vars == <<stored, pc, asks, parts, blobs, stat, rep, before, sent>>

------------------------------------------------------------------------------
(* The requests of clients *)

Request(method, uri, headers, content) ==
  [method |-> method, uri |-> uri, headers |-> headers, content |-> content]

Header(name, value) == [name |-> name, value |-> value]

NoText == <<>>

UploadRequest(payloads) ==
  Request("POST", <<"/", "upload">>, <<Header("Content-Type", FormType)>>, Form(payloads))

stat_request(keys) ==
  LET ss[n \in 0 .. Len(keys)] ==
        IF n = 0 THEN <<"camliversion", "=", "1">>
        ELSE ss[n - 1] \o <<"&", BlobName[n], "=", BlobRef[keys[n]]>>
  IN  ss[Len(keys)]

StatPost(keys) == Request("POST", <<"/", "stat">>, <<>>, stat_request(keys))

StatGet(keys) == Request("GET", <<"/", "stat", "?">> \o stat_request(keys), <<>>, NoText)

build_enumeration_url(last) ==
  <<"/", "enumerate-blobs">> \o (IF last = NoKey THEN <<>> ELSE <<"?", "after", "=", BlobRef[last]>>)

EnumerateRequest(last) == Request("GET", build_enumeration_url(last), <<>>, NoText)

build_blob_url(k) == <<"/", BlobRef[k]>>

Encodings == {"gzip", "deflate", "zlib"}

BlobRequest(method, k, accept) ==
  Request(method, build_blob_url(k), <<Header("accept-encoding", accept)>>, NoText)

------------------------------------------------------------------------------
(* Helpers of the handlers *)

Escapes == [e \in {"%2E", "%2F", "%3F"} |->
              CASE e = "%2E" -> "." [] e = "%2F" -> "/" [] e = "%3F" -> "?"]

(***************************************************************************)
(* An escape whose two characters are no number, and one cut off by the    *)
(* end of the URI.                                                         *)
(***************************************************************************)
BadEscapes == {"%zz", "%"}

Unescape(word) ==
  IF word \in DOMAIN Escapes THEN Escapes[word] ELSE IF word = "+" THEN " " ELSE word

url_decode(uri) ==
  [ok   |-> Range(uri) \cap BadEscapes = {},
   path |-> [i \in DOMAIN uri |-> Unescape(uri[i])]]

(***************************************************************************)
(* The first header of a name; a name in lower case is the same.           *)
(***************************************************************************)
SameName(a, b) ==
  \/ a = b
  \/ {a, b} = {"Content-Type", "content-type"}
  \/ {a, b} = {"Accept-Encoding", "accept-encoding"}

get_header(headers, name) ==
  LET found == {i \in DOMAIN headers : SameName(headers[i].name, name)}
  IN  IF found = {} THEN NoText ELSE headers[Min(found)].value

(***************************************************************************)
(* keys_and_values: pair >> *((';' | '&') >> pair).  A value is a run of   *)
(* words and of the marks a value may contain.                             *)
(***************************************************************************)
Separators == {"&", ";"}

IsValue(word) == word \notin Separators \cup {"?", " "}

QueryPairs(text) ==
  LET from[i \in 1 .. Len(text) + 1] ==
        LET e    == RunEnd(text, i + 2, IsValue)
            full == Is(text, i + 1, "=") /\ e > i + 2
            end  == IF full THEN e ELSE i + 1
        IN  IF i > Len(text) \/ text[i] \notin Range(Names) THEN <<>>
            ELSE <<[name  |-> text[i],
                    value |-> IF full THEN SubSeq(text, i + 2, e - 1) ELSE NoText]>>
                 \o (IF end <= Len(text) /\ text[end] \in Separators THEN from[end + 1] ELSE <<>>)
  IN  from[1]

(***************************************************************************)
(* The words that are neither a name in a query nor a reference.           *)
(***************************************************************************)
Reserved ==
  Separators \cup DOMAIN Escapes \cup BadEscapes
    \cup {"/", ".", "?", " ", "+", "=", "1", "stat", "static", "enumerate-blobs", "upload"}

(***************************************************************************)
(* The names are told apart.  Of ten or more, "blob10" comes before        *)
(* "blob2" in Names.                                                       *)
(***************************************************************************)
ASSUME NamesAssumption ==
  /\ BlobName \in Seq(Range(BlobName)) /\ Names \in Seq(Range(Names))
  /\ \A i, j \in DOMAIN BlobName : BlobName[i] = BlobName[j] => i = j
  /\ \A i, j \in DOMAIN Names : Names[i] = Names[j] => i = j
  /\ Range(Names) = Range(BlobName) \cup {"after", "camliversion"}
  /\ Range(BlobName) \cap ({"after", "camliversion"} \cup Reserved) = {}

ASSUME BlobRefAssumption ==
  /\ DOMAIN BlobRef = Keys
  /\ \A k \in Keys : BlobRef[k] \notin Range(Names) \cup Reserved
  /\ \A j, k \in Keys : BlobRef[j] = BlobRef[k] => j = k

(***************************************************************************)
(* The std::map's values whose names begin with a word, in its order.      *)
(***************************************************************************)
ValuesIn(m, words) ==
  LET values[i \in 0 .. Len(Names)] ==
        IF i = 0 THEN <<>>
        ELSE IF Names[i] \in words \cap DOMAIN m THEN Append(values[i - 1], m[Names[i]])
        ELSE values[i - 1]
  IN  values[Len(Names)]

ValuesOf(text, words) == ValuesIn(MapOf(QueryPairs(text)), words)

(***************************************************************************)
(* Mutant: the '?' stays in front of the query.                            *)
(***************************************************************************)
QueryWithMark(input) == IF Find(input, "?") = 0 THEN input ELSE After(input, Find(input, "?") - 1)

(***************************************************************************)
(* input.substr(found + 1): of a text without '?', all of it.              *)
(***************************************************************************)
Query(input) == After(input, Find(input, "?"))

decode_query_string_blobs(input) == ValuesOf(Query(input), Range(BlobName))

decode_query_string_after(path) == ValuesOf(Query(path), {"after"})

(***************************************************************************)
(* create_blob_key and BlobIndex::get: what a text is the reference of.  A *)
(* text without '-', or of no content's digest, is the key of nothing.     *)
(***************************************************************************)
create_blob_key(text) ==
  IF \E k \in Keys : text = <<BlobRef[k]>>
  THEN CHOOSE k \in Keys : text = <<BlobRef[k]>>
  ELSE NoKey

Found(text) ==
  {c \in stored : create_blob_key(text) \in KeysOf({c})}

------------------------------------------------------------------------------
(* The life of a request *)

StockReply(status) == [status |-> status]

NoReply == StockReply(0)

Asks(kind, payloads, keys, statuses) ==
  [kind |-> kind, payloads |-> payloads, keys |-> keys, statuses |-> statuses]

NoAsks == Asks("none", <<>>, <<>>, {})

Init ==
  /\ stored = {}
  /\ pc = [t \in Threads |-> "idle"]
  /\ asks = [t \in Threads |-> NoAsks]
  /\ parts = [t \in Threads |-> <<>>]
  /\ blobs = [t \in Threads |-> <<>>]
  /\ stat = [t \in Threads |-> <<>>]
  /\ rep = [t \in Threads |-> NoReply]
  /\ before = [t \in Threads |-> {}]
  /\ sent = {}

(***************************************************************************)
(* A thread begins to handle a request.                                    *)
(***************************************************************************)
Begin(t, asked) ==
  /\ pc[t] = "idle"
  /\ asks' = [asks EXCEPT ![t] = asked]
  /\ before' = [before EXCEPT ![t] = stored]

Answer(t, reply) ==
  /\ pc' = [pc EXCEPT ![t] = "done"]
  /\ rep' = [rep EXCEPT ![t] = reply]

AnswerAtOnce(t, asked, reply) ==
  /\ Begin(t, asked)
  /\ Answer(t, reply)
  /\ UNCHANGED <<stored, parts, blobs, stat, sent>>

(***************************************************************************)
(* The reply goes to the connection, which closes when it is written.      *)
(***************************************************************************)
Written(t) ==
  /\ pc[t] = "done"
  /\ pc' = [pc EXCEPT ![t] = "idle"]
  /\ asks' = [asks EXCEPT ![t] = NoAsks]
  /\ rep' = [rep EXCEPT ![t] = NoReply]
  /\ stat' = [stat EXCEPT ![t] = <<>>]
  /\ before' = [before EXCEPT ![t] = {}]
  /\ UNCHANGED <<stored, parts, blobs, sent>>

------------------------------------------------------------------------------
(* handle_request *)

HasDotDot(path) == \E i \in 1 .. Len(path) - 1 : path[i] = "." /\ path[i + 1] = "."

(***************************************************************************)
(* Mutant: the path is looked at as it came, before it is decoded.         *)
(***************************************************************************)
BadPathUndecoded(uri) ==
  \/ ~ url_decode(uri).ok
  \/ uri = <<>>
  \/ uri[1] # "/"
  \/ HasDotDot(uri)

BadPath(uri) ==
  LET path == url_decode(uri).path
  IN  \/ ~ url_decode(uri).ok
      \/ path = <<>>
      \/ path[1] # "/"
      \/ HasDotDot(path)

Path(r) == url_decode(r.uri).path

(***************************************************************************)
(* Which handler gets the request: the first test that holds.  "/static"   *)
(* without a second slash begins with "/stat".                             *)
(***************************************************************************)
Route(r) ==
  IF BadPath(r.uri) THEN "bad"
  ELSE IF HasAt(Path(r), 1, <<"/", "static", "/">>) THEN "static"
  ELSE IF Len(Path(r)) > 1 /\ Path(r)[2] \in {"stat", "static"} THEN "stat"
  ELSE IF HasAt(Path(r), 1, <<"/", "enumerate-blobs">>) /\ r.method = "GET" THEN "enumerate"
  ELSE IF r.method = "HEAD" THEN "check"
  ELSE IF r.method = "GET" THEN "get"
  ELSE IF r.method \in {"PUT", "POST"} THEN "put"
  ELSE "bad"

HandleBad(t, r, asked) ==
  /\ Route(r) = "bad"
  /\ AnswerAtOnce(t, asked, StockReply(400))

(***************************************************************************)
(* The extension is what follows the last dot behind the last slash.       *)
(***************************************************************************)
Extension(path) ==
  LET rfind(w) == Max({0} \cup {i \in DOMAIN path : path[i] = w})
  IN  IF rfind(".") > rfind("/") THEN After(path, rfind(".")) ELSE NoText

mappings == [gif |-> "image/gif", htm |-> "text/html", html |-> "text/html",
             jpg |-> "image/jpeg", png |-> "image/png", css |-> "text/css"]

extension_to_type(extension) ==
  IF Len(extension) = 1 /\ Head(extension) \in DOMAIN mappings
  THEN mappings[Head(extension)]
  ELSE "text/plain"

HandleStatic(t, r, asked) ==
  LET path == Path(r) \o (IF Path(r)[Len(Path(r))] = "/" THEN <<"index", ".", "html">> ELSE <<>>)
  IN  /\ Route(r) = "static"
      /\ AnswerAtOnce(t, asked,
           IF path \notin DOMAIN StaticFiles THEN StockReply(404)
           ELSE [status |-> 200, file |-> StaticFiles[path],
                 type |-> extension_to_type(Extension(path))])

------------------------------------------------------------------------------
(* handle_check, handle_get, handle_enumerate *)

HandleCheck(t, r, asked) ==
  LET found == Found(Tail(Path(r)))
  IN  /\ Route(r) = "check"
      /\ \/ found = {} /\ AnswerAtOnce(t, asked, StockReply(404))
         \/ \E c \in found : AnswerAtOnce(t, asked, [status |-> 200, size |-> Len(c)])

(***************************************************************************)
(* The first encoding of Accept-Encoding, if it is one ZopfliCompress can  *)
(* produce, is applied and named in Content-Encoding.                      *)
(***************************************************************************)
AcceptedEncoding(r) ==
  LET accept == get_header(r.headers, "Accept-Encoding")
  IN  IF accept # NoText /\ Head(accept) \in Encodings THEN Head(accept) ELSE "identity"

(***************************************************************************)
(* Mutant: the reply always names the default of output_type.              *)
(***************************************************************************)
HandleGetAsGzip(t, r, asked) ==
  LET found == Found(Tail(Path(r)))
      e     == AcceptedEncoding(r)
  IN  /\ Route(r) = "get"
      /\ \/ found = {} /\ AnswerAtOnce(t, asked, StockReply(404))
         \/ found \cap Unreadable # {} /\ AnswerAtOnce(t, asked, StockReply(404))
         \/ \E c \in found :
              AnswerAtOnce(t, asked, [status |-> 200, body |-> <<e, c>>, encoding |-> "gzip"])

(***************************************************************************)
(* A blob that is not in the index, one whose file does not open, and one  *)
(* that is read.  (A file that opens is read whole: BlobIndex has the ones *)
(* that a crash or a failed write leaves cut short.)                       *)
(***************************************************************************)
HandleGet(t, r, asked) ==
  LET found == Found(Tail(Path(r)))
      e     == AcceptedEncoding(r)
  IN  /\ Route(r) = "get"
      /\ \/ found = {} /\ AnswerAtOnce(t, asked, StockReply(404))
         \/ found \cap Unreadable # {} /\ AnswerAtOnce(t, asked, StockReply(404))
         \/ \E c \in found :
              AnswerAtOnce(t, asked, [status |-> 200, body |-> <<e, c>>, encoding |-> e])

(***************************************************************************)
(* paginate from the first key that is not below `after'.  It is one step  *)
(* here; what its walk without the mutex may meet is in BlobIndex.         *)
(***************************************************************************)
KeysFrom(last) ==
  InOrder({k \in KeysOf(stored) : last = NoKey \/ KeyLeq(last, k)})

HandleEnumerate(t, r, asked) ==
  LET after == decode_query_string_after(Path(r))
      keys  == KeysFrom(IF after = <<>> THEN NoKey ELSE create_blob_key(Head(after)))
  IN  /\ Route(r) = "enumerate"
      /\ AnswerAtOnce(t, asked,
           [status |-> 200,
            blobs |-> SubSeq(keys, 1, Min({Limit, Len(keys)})),
            continueAfter |-> IF Len(keys) > Limit THEN keys[Limit + 1] ELSE NoKey])

------------------------------------------------------------------------------
(* handle_put *)

(***************************************************************************)
(* parse_boundry_header and the parts: a header that is no list of         *)
(* parameters, or has no boundary, leaves nothing to add.                  *)
(***************************************************************************)
Payloads(content_type, body) ==
  LET boundaries == attributeValue(MapOf(HeaderPairs(content_type)), <<98>>)
      form == IF boundaries = {} THEN <<>>
              ELSE MultiPartFormData(CHOOSE x \in boundaries : TRUE, body)
  IN  [i \in DOMAIN form |-> form[i].payload]

(***************************************************************************)
(* The other requests upload nothing.                                      *)
(***************************************************************************)
ASSUME OtherAssumption ==
  \A o \in OtherRequests :
    Payloads(get_header(o.request.headers, "Content-Type"), o.request.content) = <<>>

HandlePut(t, r, asked) ==
  LET content_type == get_header(r.headers, "Content-Type")
  IN  /\ Route(r) = "put"
      /\ \/ content_type = NoText /\ AnswerAtOnce(t, asked, StockReply(400))
         \/ /\ content_type # NoText
            /\ Begin(t, asked)
            /\ parts' = [parts EXCEPT ![t] = Payloads(content_type, r.content)]
            /\ pc' = [pc EXCEPT ![t] = "put"]
            /\ UNCHANGED <<stored, blobs, stat, rep, sent>>

(***************************************************************************)
(* The next part; an empty payload is left out.                            *)
(***************************************************************************)
PutAdd(t) ==
  /\ pc[t] = "put"
  /\ parts[t] # <<>>
  /\ stored' = stored \cup ({Head(parts[t])} \ {<<>>})
  /\ parts' = [parts EXCEPT ![t] = Tail(@)]
  /\ UNCHANGED <<pc, asks, blobs, stat, rep, before, sent>>

(***************************************************************************)
(* The reply says 200 whatever became of the parts.                        *)
(***************************************************************************)
PutAnswer(t) ==
  /\ pc[t] = "put"
  /\ parts[t] = <<>>
  /\ Answer(t, [status |-> 200])
  /\ sent' = sent \cup Range(asks[t].payloads)
  /\ UNCHANGED <<stored, asks, parts, blobs, stat, before>>

------------------------------------------------------------------------------
(* handle_stat *)

(***************************************************************************)
(* The test for "camliversion=1" rejects nothing: the position of a text   *)
(* that is not there, cut to 32 bits, is not the npos it is compared with. *)
(* Of a method other than GET and POST nothing is decoded.                 *)
(***************************************************************************)
HandleStat(t, r, asked) ==
  /\ Route(r) = "stat"
  /\ Begin(t, asked)
  /\ blobs' = [blobs EXCEPT ![t] =
       IF r.method = "GET" THEN decode_query_string_blobs(Path(r))
       ELSE IF r.method = "POST" THEN decode_query_string_blobs(r.content)
       ELSE <<>>]
  /\ pc' = [pc EXCEPT ![t] = "stat"]
  /\ UNCHANGED <<stored, parts, stat, rep, sent>>

StatLookup(t) ==
  /\ pc[t] = "stat"
  /\ blobs[t] # <<>>
  /\ blobs' = [blobs EXCEPT ![t] = Tail(@)]
  /\ \/ /\ Found(Head(blobs[t])) = {}
        /\ UNCHANGED stat
     \/ \E c \in Found(Head(blobs[t])) :
          stat' = [stat EXCEPT ![t] = Append(@, [blobRef |-> Head(blobs[t]), size |-> Len(c)])]
  /\ UNCHANGED <<stored, pc, asks, parts, rep, before, sent>>

StatAnswer(t) ==
  /\ pc[t] = "stat"
  /\ blobs[t] = <<>>
  /\ Answer(t, [status |-> 200, stat |-> stat[t]])
  /\ UNCHANGED <<stored, asks, parts, blobs, stat, before, sent>>

------------------------------------------------------------------------------
handle_request(t, r, asked) ==
  \/ HandleBad(t, r, asked)
  \/ HandleStatic(t, r, asked)
  \/ HandleStat(t, r, asked)
  \/ HandleEnumerate(t, r, asked)
  \/ HandleCheck(t, r, asked)
  \/ HandleGet(t, r, asked)
  \/ HandlePut(t, r, asked)

(***************************************************************************)
(* What clients send, each with what is asked for and may be answered.     *)
(***************************************************************************)
Incoming ==
  {[request |-> UploadRequest(ps), asks |-> Asks("put", ps, <<>>, {200})] : ps \in Uploads}
  \cup (UNION {{[request |-> r, asks |-> Asks("stat", <<>>, ks, {200})] :
                 r \in {StatPost(ks), StatGet(ks)}} : ks \in Batches})
  \cup {[request |-> EnumerateRequest(k), asks |-> Asks("enumerate", <<>>, <<k>>, {200})] :
          k \in Asked \cup {NoKey}}
  \cup {[request |-> BlobRequest("GET", k, accept), asks |-> Asks("get", <<>>, <<k>>, {200, 404})] :
          k \in Asked, accept \in {NoText, <<"other">>} \cup {<<e>> : e \in Encodings}}
  \cup {[request |-> BlobRequest("HEAD", k, NoText), asks |-> Asks("head", <<>>, <<k>>, {200, 404})] :
          k \in Asked}
  \cup {[request |-> o.request, asks |-> Asks("other", <<>>, <<>>, o.statuses)] : o \in OtherRequests}

Receive(t) == pc[t] = "idle" /\ \E i \in Incoming : handle_request(t, i.request, i.asks)

Next ==
  \E t \in Threads :
    \/ Receive(t)
    \/ PutAdd(t) \/ PutAnswer(t)
    \/ StatLookup(t) \/ StatAnswer(t)
    \/ Written(t)

Spec == Init /\ [][Next]_vars

------------------------------------------------------------------------------
(* Properties *)

Answered(t, kind) == pc[t] = "done" /\ asks[t].kind = kind

ContentOf(k) == {c \in Contents : k \in KeysOf({c})}

(***************************************************************************)
(* An upload that was answered 200 is in the index, every non-empty        *)
(* payload byte for byte and line ends inside it included; and nothing     *)
(* comes into the index that no client sent.                               *)
(***************************************************************************)
UploadsStored ==
  /\ sent \ {<<>>} \subseteq stored
  /\ stored \subseteq sent \cup UNION {Range(asks[t].payloads) : t \in Threads}

(***************************************************************************)
(* A stat reply is about the references that were asked for, by GET and by *)
(* POST alike, while other threads store blobs: it lists, with its size,   *)
(* each one that was stored when the request came in, and none that is not *)
(* stored now.                                                             *)
(***************************************************************************)
StatAnswersAsked ==
  \A t \in Threads : Answered(t, "stat") =>
    LET entry(k) == {[blobRef |-> <<BlobRef[k]>>, size |-> Len(c)] : c \in ContentOf(k)}
        listed   == Range(rep[t].stat)
        asked    == Range(asks[t].keys)
    IN  /\ \A k \in asked : ContentOf(k) \subseteq before[t] => entry(k) \subseteq listed
        /\ listed \subseteq UNION {entry(k) : k \in {j \in asked : ContentOf(j) \subseteq stored}}

(***************************************************************************)
(* GET and HEAD agree with each other and with the uploads: a reference is *)
(* found from the moment its content is stored (by GET, if its file opens; *)
(* HEAD does not look at the file), the size HEAD reports is the length of *)
(* that content, and what GET returns, decoded as its Content-Encoding     *)
(* says, is the content.                                                   *)
(***************************************************************************)
FoundAsStored ==
  \A t \in Threads : \A kind \in {"get", "head"} : Answered(t, kind) =>
    LET contents == ContentOf(Head(asks[t].keys))
    IN  /\ contents \subseteq before[t] /\ (kind = "get" => contents \cap Unreadable = {}) =>
             rep[t].status = 200
        /\ rep[t].status = 200 =>
             /\ contents \subseteq stored
             /\ kind = "head" => rep[t].size \in {Len(c) : c \in contents}
             /\ kind = "get" => rep[t].body \in {<<rep[t].encoding, c>> : c \in contents}

(***************************************************************************)
(* A request is answered with a status that is meant for it: 400 for a bad *)
(* escape, a path that is not absolute or contains "..", escaped or not,   *)
(* an upload without a type and an unknown method; and a well-formed one   *)
(* is not rejected.  (A GET of stat without camliversion is not among the  *)
(* ones that are rejected, although handle_stat has a test for it: see     *)
(* HandleStat.  Its 200 is what the code gives, not what is meant.)        *)
(***************************************************************************)
StatusFits ==
  \A t \in Threads : pc[t] = "done" => rep[t].status \in asks[t].statuses
==============================================================================
