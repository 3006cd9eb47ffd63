----------------------- MODULE RequestHandlerInvariants -----------------------
(***************************************************************************)
(* The routes of requests, the steps of the handlers thread by thread, and *)
(* the inductive invariants of RequestHandler, for handlers that find in   *)
(* forms and queries what the client put in (StatsDecoded, AllDecoded),    *)
(* which RequestHandlerProofs shows.                                       *)
(***************************************************************************)
EXTENDS RequestHandler, CommonLemmas

------------------------------------------------------------------------------
(***************************************************************************)
(* A reference stands for itself in a URI.                                 *)
(***************************************************************************)
LEMMA RefFacts ==
  ASSUME NEW k \in Keys
  PROVE  /\ BlobRef[k] \notin Reserved
         /\ Unescape(BlobRef[k]) = BlobRef[k]
         /\ create_blob_key(<<BlobRef[k]>>) = k
<1>1. BlobRef[k] \notin Reserved
  BY BlobRefAssumption, Zenon
<1>2. Unescape(BlobRef[k]) = BlobRef[k]
  BY <1>1, Zenon DEF Unescape, Reserved
<1>3. \A j \in Keys : <<BlobRef[k]>> = <<BlobRef[j]>> => j = k
  BY BlobRefAssumption, Zenon
<1>4. create_blob_key(<<BlobRef[k]>>) = k
  BY <1>3, Zenon DEF create_blob_key
<1> QED
  BY <1>1, <1>2, <1>4, Zenon

(***************************************************************************)
(* The words of well-formed requests that are no references.               *)
(***************************************************************************)
Plain == {"/", "stat", "upload", "enumerate-blobs", "?", "after", "=", "&", "1", "camliversion"}
         \cup Range(BlobName)

Refs == {BlobRef[k] : k \in Keys}

(***************************************************************************)
(* The words of clients' URIs mean themselves.                             *)
(***************************************************************************)
LEMMA WordFacts == \A w \in Plain \cup Refs : Unescape(w) = w /\ w \notin BadEscapes /\ w # "."
<1>1. ASSUME NEW w \in Plain PROVE Unescape(w) = w /\ w \notin BadEscapes /\ w # "."
  <2>1. CASE w \in Range(BlobName)
    <3>1. w \notin Reserved
      BY <2>1, NamesAssumption, Zenon
    <3> QED
      BY <3>1, Zenon DEF Unescape, Reserved
  <2>2. CASE w \notin Range(BlobName)
    BY <2>2, Zenon DEF Plain, Unescape, Escapes, BadEscapes
  <2> QED
    BY <2>1, <2>2, Zenon
<1>2. ASSUME NEW k \in Keys
      PROVE  /\ Unescape(BlobRef[k]) = BlobRef[k]
             /\ BlobRef[k] \notin BadEscapes
             /\ BlobRef[k] # "."
  BY RefFacts, Zenon DEF Reserved
<1> QED
  BY <1>1, <1>2, Zenon DEF Refs

(***************************************************************************)
(* A URI of such words and references is its own path and is not refused.  *)
(***************************************************************************)
LEMMA PathFacts ==
  ASSUME NEW uri, NEW n \in Nat \ {0}, uri \in [1 .. n -> Plain \cup Refs], uri[1] = "/"
  PROVE  /\ url_decode(uri).path = uri
         /\ ~ BadPath(uri)
<1>1. \A i \in 1 .. n : Unescape(uri[i]) = uri[i] /\ uri[i] \notin BadEscapes /\ uri[i] # "."
  BY WordFacts, Zenon
<1>2. Range(uri) \cap BadEscapes = {}
  BY <1>1, Zenon DEF Range
<1>3. [i \in 1 .. n |-> Unescape(uri[i])] = uri
  BY <1>1, Zenon
<1>4. url_decode(uri).path = uri /\ url_decode(uri).ok
  BY <1>2, <1>3, Zenon DEF url_decode
<1>5. Len(uri) = n /\ uri # <<>>
  OBVIOUS
<1> QED
  BY <1>1, <1>4, <1>5 DEF BadPath, HasDotDot

(***************************************************************************)
(* What a path begins with.                                                *)
(***************************************************************************)
LEMMA WordFirst ==
  ASSUME NEW S, NEW path \in Seq(S), NEW word \in Seq(S)
  PROVE  HasAt(path, 1, word) <=>
           Len(word) <= Len(path) /\ \A j \in 1 .. Len(word) : path[j] = word[j]
<1>1. Len(word) \in Nat /\ Len(path) \in Nat
  OBVIOUS
<1>2. 1 + Len(word) <= Len(path) + 1 <=> Len(word) <= Len(path)
  BY <1>1
<1>3. \A j \in 1 .. Len(word) : 1 + j - 1 = j
  BY <1>1
<1>4. CASE 1 + Len(word) <= Len(path) + 1
  <2>1. HasAt(path, 1, word) <=> \A j \in 1 .. Len(word) : path[1 + j - 1] = word[j]
    BY <1>4, PartIs DEF HasAt
  <2> QED
    BY <1>2, <1>3, <1>4, <2>1, Zenon
<1> QED
  BY <1>2, <1>4, Zenon DEF HasAt

(***************************************************************************)
(* Which handler gets each of the well-formed requests, and with which     *)
(* path.                                                                   *)
(***************************************************************************)
LEMMA RouteFacts ==
  ASSUME NEW r, r.uri \in Seq(Plain \cup Refs), Len(r.uri) > 1, r.uri[1] = "/"
  PROVE  /\ Path(r) = r.uri
         /\ Route(r) = IF r.uri[2] = "stat" THEN "stat"
                       ELSE IF r.uri[2] = "enumerate-blobs" /\ r.method = "GET" THEN "enumerate"
                       ELSE IF r.method = "HEAD" THEN "check"
                       ELSE IF r.method = "GET" THEN "get"
                       ELSE IF r.method \in {"PUT", "POST"} THEN "put"
                       ELSE "bad"
<1> DEFINE uri == r.uri
<1>1. Path(r) = uri /\ ~ BadPath(uri)
  <2> DEFINE n == Len(uri)
  <2>1. n \in Nat \ {0} /\ uri \in [1 .. n -> Plain \cup Refs]
    OBVIOUS
  <2> HIDE DEF n
  <2> QED
    BY <2>1, PathFacts, Zenon DEF Path
<1>2. Len(uri) > 1 /\ uri \in Seq(Plain \cup Refs \cup {"static"}) /\ uri[2] # "static"
  <2>1. "static" \notin Refs
    BY RefFacts, Zenon DEF Refs, Reserved
  <2>2. "static" \notin Range(BlobName)
    BY NamesAssumption, Zenon DEF Reserved
  <2> QED
    BY <2>1, <2>2 DEF Plain
<1>3. ~ HasAt(uri, 1, <<"/", "static", "/">>)
  <2> DEFINE w == <<"/", "static", "/">>
             S == Plain \cup Refs \cup {"static"}
  <2>1. w \in Seq(S) /\ uri \in Seq(S)
    BY <1>2 DEF Plain
  <2>2. Len(w) = 3 /\ w[2] = "static"
    BY Zenon
  <2> HIDE DEF w, S, uri
  <2>3. HasAt(uri, 1, w) => \A j \in 1 .. Len(w) : uri[j] = w[j]
    BY <2>1, WordFirst, ZenonT(30)
  <2> QED
    BY <1>2, <2>2, <2>3 DEF w
<1>4. HasAt(uri, 1, <<"/", "enumerate-blobs">>) <=> uri[2] = "enumerate-blobs"
  <2> DEFINE w == <<"/", "enumerate-blobs">>
             S == Plain \cup Refs \cup {"static"}
  <2>1. w \in Seq(S) /\ uri \in Seq(S)
    BY <1>2 DEF Plain
  <2>2. Len(w) = 2 /\ w[1] = "/" /\ w[2] = "enumerate-blobs" /\ uri[1] = "/"
    BY Zenon
  <2> HIDE DEF w, S, uri
  <2>3. HasAt(uri, 1, w) <=> Len(w) <= Len(uri) /\ \A j \in 1 .. Len(w) : uri[j] = w[j]
    BY <2>1, WordFirst, ZenonT(30)
  <2>4. Len(uri) \in Nat
    BY <2>1
  <2> QED
    BY <1>2, <2>2, <2>3, <2>4 DEF w
<1> QED
  BY <1>1, <1>2, <1>3, <1>4, Zenon DEF Route

(***************************************************************************)
(* Where GET and HEAD of a reference go.                                   *)
(***************************************************************************)
LEMMA BlobRoute ==
  ASSUME NEW k \in Keys, NEW accept
  PROVE  /\ Route(BlobRequest("GET", k, accept)) = "get"
         /\ Route(BlobRequest("HEAD", k, accept)) = "check"
         /\ \A m : Tail(Path(BlobRequest(m, k, accept))) = <<BlobRef[k]>>
<1> DEFINE uri == <<"/", BlobRef[k]>>
<1>0. BlobRef[k] \in Refs /\ BlobRef[k] \notin {"stat", "enumerate-blobs"}
  BY RefFacts, Zenon DEF Refs, Reserved
<1>1. uri \in Seq(Plain \cup Refs) /\ Len(uri) > 1 /\ uri[1] = "/" /\ uri[2] \notin {"stat", "enumerate-blobs"}
  BY <1>0 DEF Plain
<1>2. Tail(uri) = <<BlobRef[k]>>
  OBVIOUS
<1>3. \A m : BlobRequest(m, k, accept).uri = uri /\ BlobRequest(m, k, accept).method = m
  BY Zenon DEF BlobRequest, Request, build_blob_url
<1> HIDE DEF uri
<1> QED
  BY <1>1, <1>2, <1>3, RouteFacts

(***************************************************************************)
(* Where an upload goes.                                                   *)
(***************************************************************************)
LEMMA UploadRoute ==
  ASSUME NEW ps
  PROVE  /\ Route(UploadRequest(ps)) = "put"
         /\ get_header(UploadRequest(ps).headers, "Content-Type") = FormType
         /\ FormType # NoText
<1> DEFINE uri == <<"/", "upload">>
<1>1. uri \in Seq(Plain \cup Refs) /\ Len(uri) > 1 /\ uri[1] = "/" /\ uri[2] = "upload"
  BY DEF Plain, Refs
<1>2. /\ UploadRequest(ps).uri = uri
      /\ UploadRequest(ps).method = "POST"
      /\ UploadRequest(ps).headers = <<Header("Content-Type", FormType)>>
  BY Zenon DEF UploadRequest, Request
<1> HIDE DEF uri
<1>3. Route(UploadRequest(ps)) = "put"
  BY <1>1, <1>2, RouteFacts, Zenon
<1>4. get_header(<<Header("Content-Type", FormType)>>, "Content-Type") = FormType
  <2> DEFINE hs == <<Header("Content-Type", FormType)>>
             I == {i \in 1 .. Len(hs) : SameName(hs[i].name, "Content-Type")}
  <2>1. I = {1}
    BY DEF SameName, Header
  <2>2. Min(I) = 1
    BY <2>1 DEF Min
  <2>3. get_header(hs, "Content-Type") = hs[1].value
    BY <2>1, <2>2 DEF get_header
  <2>4. hs[1].value = FormType
    BY Zenon DEF Header
  <2> QED
    BY <2>3, <2>4, Zenon
<1> QED
  BY <1>2, <1>3, <1>4 DEF FormType, NoText, Boundary

(***************************************************************************)
(* Where an enumeration goes.                                              *)
(***************************************************************************)
LEMMA EnumerateRoute ==
  ASSUME NEW k \in Keys \cup {NoKey}
  PROVE  Route(EnumerateRequest(k)) = "enumerate"
<1> DEFINE uri == build_enumeration_url(k)
<1>1. CASE k = NoKey
  <2>1. /\ uri \in Seq(Plain \cup Refs) /\ Len(uri) > 1 /\ uri[1] = "/" /\ uri[2] = "enumerate-blobs"
        /\ EnumerateRequest(k).uri = uri /\ EnumerateRequest(k).method = "GET"
    BY <1>1 DEF build_enumeration_url, EnumerateRequest, Request, Plain, Refs
  <2> HIDE DEF uri
  <2> QED
    BY <2>1, RouteFacts, Zenon
<1>2. CASE k # NoKey
  <2> DEFINE head == <<"/", "enumerate-blobs">>
             tail == <<"?", "after", "=", BlobRef[k]>>
             S == Plain \cup Refs
  <2>1. BlobRef[k] \in Refs
    BY <1>2, Zenon DEF Refs
  <2>2. head \in Seq(S) /\ tail \in Seq(S)
    BY <2>1 DEF Plain
  <2>3. Len(head) = 2 /\ Len(tail) = 4 /\ head[1] = "/" /\ head[2] = "enumerate-blobs"
    BY Zenon
  <2>4. uri = head \o tail
    BY <1>2, Zenon DEF build_enumeration_url
  <2> HIDE DEF head, tail, uri, S
  <2>5. /\ head \o tail \in Seq(S)
        /\ Len(head \o tail) = Len(head) + Len(tail)
        /\ \A i \in 1 .. Len(head) : (head \o tail)[i] = head[i]
    BY <2>2, ConcatFacts, Zenon
  <2>6. uri \in Seq(S)
    BY <2>4, <2>5, Zenon
  <2>7. Len(uri) > 1 /\ uri[1] = "/" /\ uri[2] = "enumerate-blobs"
    BY <2>3, <2>4, <2>5
  <2>8. EnumerateRequest(k).uri = uri /\ EnumerateRequest(k).method = "GET"
    BY Zenon DEF EnumerateRequest, Request, uri
  <2> QED
    BY <2>6, <2>7, <2>8, RouteFacts, Zenon DEF S
<1> QED
  BY <1>1, <1>2, Zenon

------------------------------------------------------------------------------
------------------------------------------------------------------------------
(***************************************************************************)
(* What handle_stat and handle_put make of the requests: stat requests     *)
(* arrive at handle_stat, which finds the references asked for, and        *)
(* handle_put finds the payloads of a form.                                *)
(***************************************************************************)
RefsOf(asked) == {<<BlobRef[k]>> : k \in asked}

AllOf(ks, refs) == refs \in Seq(RefsOf(Range(ks))) /\ RefsOf(Range(ks)) \subseteq Range(refs)

StatIsDecoded(ks) ==
  /\ Route(StatPost(ks)) = "stat" /\ StatPost(ks).method = "POST"
  /\ Route(StatGet(ks)) = "stat" /\ StatGet(ks).method = "GET"
  /\ AllOf(ks, decode_query_string_blobs(StatPost(ks).content))
  /\ AllOf(ks, decode_query_string_blobs(Path(StatGet(ks))))

StatsDecoded == \A ks \in Batches : StatIsDecoded(ks)

AllDecoded == \A ps \in Uploads : Payloads(FormType, Form(ps)) = ps

(***************************************************************************)
(* What a step does, thread by thread.                                     *)
(***************************************************************************)
OnThreads(f) == DOMAIN f = Threads

Functions ==
  /\ OnThreads(pc) /\ OnThreads(asks) /\ OnThreads(parts) /\ OnThreads(blobs)
  /\ OnThreads(stat) /\ OnThreads(rep) /\ OnThreads(before)

Others(t) ==
  \A u \in Threads \ {t} :
    /\ pc'[u] = pc[u] /\ asks'[u] = asks[u] /\ parts'[u] = parts[u] /\ blobs'[u] = blobs[u]
    /\ stat'[u] = stat[u] /\ rep'[u] = rep[u] /\ before'[u] = before[u]

Begun(t, asked) ==
  /\ pc[t] = "idle"
  /\ asks'[t] = asked /\ before'[t] = stored /\ stat'[t] = stat[t]
  /\ UNCHANGED <<stored, sent>>

UploadStep(t) ==
  \E ps \in Uploads :
    /\ Begun(t, Asks("put", ps, <<>>, {200}))
    /\ pc'[t] = "put"
    /\ parts'[t] = Payloads(FormType, Form(ps))

StatStep(t) ==
  \E ks \in Batches :
    /\ Begun(t, Asks("stat", <<>>, ks, {200}))
    /\ pc'[t] = "stat"
    /\ AllOf(ks, blobs'[t])

EnumerateStep(t) ==
  \E k : Begun(t, Asks("enumerate", <<>>, <<k>>, {200})) /\ pc'[t] = "done" /\ rep'[t].status = 200

GetReply(kind, k, reply) ==
  \/ Found(<<BlobRef[k]>>) = {} /\ reply.status = 404
  \/ kind = "get" /\ Found(<<BlobRef[k]>>) \cap Unreadable # {} /\ reply.status = 404
  \/ \E c \in Found(<<BlobRef[k]>>) :
       /\ reply.status = 200
       /\ kind = "head" => reply.size = Len(c)
       /\ kind = "get" => reply.body = <<reply.encoding, c>>

GetStep(t) ==
  \E k \in Asked, kind \in {"get", "head"} :
    /\ Begun(t, Asks(kind, <<>>, <<k>>, {200, 404}))
    /\ pc'[t] = "done"
    /\ GetReply(kind, k, rep'[t])

(***************************************************************************)
(* The statuses the handlers have for a request, whatever is stored.       *)
(***************************************************************************)
StaticPath(r) == Path(r) \o (IF Path(r)[Len(Path(r))] = "/" THEN <<"index", ".", "html">> ELSE <<>>)

StatusesOf(r) ==
  IF Route(r) = "bad" THEN {400}
  ELSE IF Route(r) = "static" THEN IF StaticPath(r) \in DOMAIN StaticFiles THEN {200} ELSE {404}
  ELSE IF Route(r) \in {"check", "get"} THEN {200, 404}
  ELSE IF Route(r) = "put" /\ get_header(r.headers, "Content-Type") = NoText THEN {400}
  ELSE {200}

OtherStep(t) ==
  \E o \in OtherRequests :
    /\ Begun(t, Asks("other", <<>>, <<>>, o.statuses))
    /\ \/ pc'[t] = "done" /\ rep'[t].status \in StatusesOf(o.request)
       \/ pc'[t] = "put" /\ parts'[t] = <<>> /\ 200 \in StatusesOf(o.request)
       \/ pc'[t] = "stat" /\ 200 \in StatusesOf(o.request)

(***************************************************************************)
(* A handler that answers at once.                                         *)
(***************************************************************************)
LEMMA AtOnce ==
  ASSUME NEW t \in Threads, NEW asked, NEW reply, Functions, AnswerAtOnce(t, asked, reply)
  PROVE  Functions' /\ Others(t) /\ Begun(t, asked) /\ pc'[t] = "done" /\ rep'[t] = reply
<1>1. /\ pc' = [pc EXCEPT ![t] = "done"] /\ rep' = [rep EXCEPT ![t] = reply]
      /\ asks' = [asks EXCEPT ![t] = asked] /\ before' = [before EXCEPT ![t] = stored]
      /\ pc[t] = "idle" /\ UNCHANGED <<stored, parts, blobs, stat, sent>>
  BY Zenon DEF AnswerAtOnce, Begin, Answer
<1>2. OnThreads(pc) /\ OnThreads(rep) /\ OnThreads(asks) /\ OnThreads(before)
  BY Zenon DEF Functions
<1>3. OnThreads(pc') /\ pc'[t] = "done" /\ \A u \in Threads \ {t} : pc'[u] = pc[u]
  BY <1>1, <1>2, Zenon DEF OnThreads
<1>4. OnThreads(rep') /\ rep'[t] = reply /\ \A u \in Threads \ {t} : rep'[u] = rep[u]
  BY <1>1, <1>2, Zenon DEF OnThreads
<1>5. OnThreads(asks') /\ asks'[t] = asked /\ \A u \in Threads \ {t} : asks'[u] = asks[u]
  BY <1>1, <1>2, Zenon DEF OnThreads
<1>6. OnThreads(before') /\ before'[t] = stored /\ \A u \in Threads \ {t} : before'[u] = before[u]
  BY <1>1, <1>2, Zenon DEF OnThreads
<1>7. OnThreads(parts') /\ OnThreads(blobs') /\ OnThreads(stat')
  BY <1>1, Zenon DEF Functions
<1> QED
  BY <1>1, <1>3, <1>4, <1>5, <1>6, <1>7, Zenon DEF Functions, Others, Begun

(***************************************************************************)
(* handle_put, of a request with a type.                                   *)
(***************************************************************************)
LEMMA PutBegins ==
  ASSUME NEW t \in Threads, NEW asked, NEW payloads, Functions, Begin(t, asked),
         parts' = [parts EXCEPT ![t] = payloads], pc' = [pc EXCEPT ![t] = "put"],
         UNCHANGED <<stored, blobs, stat, rep, sent>>
  PROVE  Functions' /\ Others(t) /\ Begun(t, asked) /\ pc'[t] = "put" /\ parts'[t] = payloads
<1>1. /\ asks' = [asks EXCEPT ![t] = asked] /\ before' = [before EXCEPT ![t] = stored]
      /\ pc[t] = "idle"
  BY Zenon DEF Begin
<1>2. OnThreads(pc) /\ OnThreads(parts) /\ OnThreads(asks) /\ OnThreads(before)
  BY Zenon DEF Functions
<1>3. OnThreads(pc') /\ pc'[t] = "put" /\ \A u \in Threads \ {t} : pc'[u] = pc[u]
  BY <1>2, Zenon DEF OnThreads
<1>4. OnThreads(parts') /\ parts'[t] = payloads /\ \A u \in Threads \ {t} : parts'[u] = parts[u]
  BY <1>2, Zenon DEF OnThreads
<1>5. OnThreads(asks') /\ asks'[t] = asked /\ \A u \in Threads \ {t} : asks'[u] = asks[u]
  BY <1>1, <1>2, Zenon DEF OnThreads
<1>6. OnThreads(before') /\ before'[t] = stored /\ \A u \in Threads \ {t} : before'[u] = before[u]
  BY <1>1, <1>2, Zenon DEF OnThreads
<1>7. OnThreads(rep') /\ OnThreads(blobs') /\ OnThreads(stat')
  BY Zenon DEF Functions
<1> QED
  BY <1>1, <1>3, <1>4, <1>5, <1>6, <1>7, Zenon DEF Functions, Others, Begun

(***************************************************************************)
(* handle_stat.                                                            *)
(***************************************************************************)
LEMMA StatBegins ==
  ASSUME NEW t \in Threads, NEW asked, NEW refs, Functions, Begin(t, asked),
         blobs' = [blobs EXCEPT ![t] = refs], pc' = [pc EXCEPT ![t] = "stat"],
         UNCHANGED <<stored, parts, stat, rep, sent>>
  PROVE  Functions' /\ Others(t) /\ Begun(t, asked) /\ pc'[t] = "stat" /\ blobs'[t] = refs
<1>1. /\ asks' = [asks EXCEPT ![t] = asked] /\ before' = [before EXCEPT ![t] = stored]
      /\ pc[t] = "idle"
  BY Zenon DEF Begin
<1>2. OnThreads(pc) /\ OnThreads(blobs) /\ OnThreads(asks) /\ OnThreads(before)
  BY Zenon DEF Functions
<1>3. OnThreads(pc') /\ pc'[t] = "stat" /\ \A u \in Threads \ {t} : pc'[u] = pc[u]
  BY <1>2, Zenon DEF OnThreads
<1>4. OnThreads(blobs') /\ blobs'[t] = refs /\ \A u \in Threads \ {t} : blobs'[u] = blobs[u]
  BY <1>2, Zenon DEF OnThreads
<1>5. OnThreads(asks') /\ asks'[t] = asked /\ \A u \in Threads \ {t} : asks'[u] = asks[u]
  BY <1>1, <1>2, Zenon DEF OnThreads
<1>6. OnThreads(before') /\ before'[t] = stored /\ \A u \in Threads \ {t} : before'[u] = before[u]
  BY <1>1, <1>2, Zenon DEF OnThreads
<1>7. OnThreads(rep') /\ OnThreads(parts') /\ OnThreads(stat')
  BY Zenon DEF Functions
<1> QED
  BY <1>1, <1>3, <1>4, <1>5, <1>6, <1>7, Zenon DEF Functions, Others, Begun

(***************************************************************************)
(* handle_request calls the handler of the route, and no other.            *)
(***************************************************************************)
LEMMA RouteCases ==
  ASSUME NEW t, NEW r, NEW asked, handle_request(t, r, asked)
  PROVE  /\ Route(r) = "bad" => HandleBad(t, r, asked)
         /\ Route(r) = "static" => HandleStatic(t, r, asked)
         /\ Route(r) = "stat" => HandleStat(t, r, asked)
         /\ Route(r) = "enumerate" => HandleEnumerate(t, r, asked)
         /\ Route(r) = "check" => HandleCheck(t, r, asked)
         /\ Route(r) = "get" => HandleGet(t, r, asked)
         /\ Route(r) = "put" => HandlePut(t, r, asked)
         /\ Route(r) \in {"bad", "static", "stat", "enumerate", "check", "get", "put"}
<1>1. HandleBad(t, r, asked) => Route(r) = "bad"
  BY Zenon DEF HandleBad
<1>2. HandleStatic(t, r, asked) => Route(r) = "static"
  BY Zenon DEF HandleStatic
<1>3. HandleStat(t, r, asked) => Route(r) = "stat"
  BY Zenon DEF HandleStat
<1>4. HandleEnumerate(t, r, asked) => Route(r) = "enumerate"
  BY Zenon DEF HandleEnumerate
<1>5. HandleCheck(t, r, asked) => Route(r) = "check"
  BY Zenon DEF HandleCheck
<1>6. HandleGet(t, r, asked) => Route(r) = "get"
  BY Zenon DEF HandleGet
<1>7. HandlePut(t, r, asked) => Route(r) = "put"
  BY Zenon DEF HandlePut
<1> QED
  BY <1>1, <1>2, <1>3, <1>4, <1>5, <1>6, <1>7, Zenon DEF handle_request

(***************************************************************************)
(* Sync's upload goes to handle_put, which splits its form.                *)
(***************************************************************************)
LEMMA ReceivesUpload ==
  ASSUME NEW t \in Threads, Functions, NEW ps \in Uploads,
         handle_request(t, UploadRequest(ps), Asks("put", ps, <<>>, {200}))
  PROVE  Functions' /\ Others(t) /\ UploadStep(t)
<1> DEFINE r == UploadRequest(ps)
           asked == Asks("put", ps, <<>>, {200})
           content_type == get_header(r.headers, "Content-Type")
<1>1. Route(r) = "put" /\ content_type = FormType /\ FormType # NoText
  BY UploadRoute, Zenon
<1>2. HandlePut(t, r, asked)
  <2> HIDE DEF r, asked
  <2> QED
    BY <1>1, RouteCases, ZenonT(30) DEF r, asked
<1>3. r.content = Form(ps)
  BY Zenon DEF UploadRequest, Request
<1> DEFINE payloads == Payloads(content_type, r.content)
<1>4. payloads = Payloads(FormType, Form(ps))
  <2> HIDE DEF content_type, r
  <2> QED
    BY <1>1, <1>3, Zenon
<1>5. /\ Begin(t, asked)
      /\ parts' = [parts EXCEPT ![t] = payloads]
      /\ pc' = [pc EXCEPT ![t] = "put"]
      /\ UNCHANGED <<stored, blobs, stat, rep, sent>>
  <2> HIDE DEF r, asked
  <2> QED
    BY <1>1, <1>2, Zenon DEF HandlePut
<1> HIDE DEF r, asked, content_type, payloads
<1>6. Functions' /\ Others(t) /\ Begun(t, asked) /\ pc'[t] = "put" /\ parts'[t] = payloads
  BY <1>5, PutBegins, Zenon
<1> QED
  BY <1>4, <1>6, Zenon DEF UploadStep, asked

(***************************************************************************)
(* A stat request goes to handle_stat, which finds the references.         *)
(***************************************************************************)
LEMMA ReceivesStat ==
  ASSUME StatsDecoded, NEW t \in Threads, Functions, NEW ks \in Batches,
         NEW r \in {StatPost(ks), StatGet(ks)},
         handle_request(t, r, Asks("stat", <<>>, ks, {200}))
  PROVE  Functions' /\ Others(t) /\ StatStep(t)
<1> DEFINE asked == Asks("stat", <<>>, ks, {200})
           refs == IF r.method = "GET" THEN decode_query_string_blobs(Path(r))
                   ELSE IF r.method = "POST" THEN decode_query_string_blobs(r.content)
                   ELSE <<>>
<1>2. StatIsDecoded(ks)
  BY Zenon DEF StatsDecoded
<1>3. Route(r) = "stat"
  BY <1>2, Zenon DEF StatIsDecoded
<1>4. HandleStat(t, r, asked)
  <2> HIDE DEF asked
  <2> QED
    BY <1>3, RouteCases, Zenon DEF asked
<1>5. AllOf(ks, refs)
  <2>1. "POST" # "GET"
    BY Zenon
  <2>2. CASE r = StatPost(ks)
    <3>1. refs = decode_query_string_blobs(StatPost(ks).content)
      BY <1>2, <2>1, <2>2, Zenon DEF StatIsDecoded
    <3> HIDE DEF refs
    <3> QED
      BY <1>2, <3>1, Zenon DEF StatIsDecoded
  <2>3. CASE r = StatGet(ks)
    <3>1. refs = decode_query_string_blobs(Path(StatGet(ks)))
      BY <1>2, <2>3, Zenon DEF StatIsDecoded
    <3> HIDE DEF refs
    <3> QED
      BY <1>2, <3>1, Zenon DEF StatIsDecoded
  <2> QED
    BY <2>2, <2>3, Zenon
<1>6. /\ Begin(t, asked)
      /\ blobs' = [blobs EXCEPT ![t] = refs]
      /\ pc' = [pc EXCEPT ![t] = "stat"]
      /\ UNCHANGED <<stored, parts, stat, rep, sent>>
  BY <1>4, Zenon DEF HandleStat
<1> HIDE DEF refs, asked
<1>7. Functions' /\ Others(t) /\ Begun(t, asked) /\ pc'[t] = "stat" /\ blobs'[t] = refs
  BY <1>6, StatBegins, Zenon
<1> QED
  BY <1>5, <1>7, Zenon DEF StatStep, asked

(***************************************************************************)
(* An enumeration is answered by handle_enumerate.                         *)
(***************************************************************************)
LEMMA ReceivesEnumerate ==
  ASSUME NEW t \in Threads, Functions, NEW k \in Asked \cup {NoKey},
         handle_request(t, EnumerateRequest(k), Asks("enumerate", <<>>, <<k>>, {200}))
  PROVE  Functions' /\ Others(t) /\ EnumerateStep(t)
<1> DEFINE r == EnumerateRequest(k)
           asked == Asks("enumerate", <<>>, <<k>>, {200})
<1>1. k \in Keys \cup {NoKey}
  BY AskedAssumption, Zenon
<1>2. Route(r) = "enumerate"
  BY <1>1, EnumerateRoute, Zenon
<1>3. HandleEnumerate(t, r, asked)
  <2> HIDE DEF r, asked
  <2> QED
    BY <1>2, RouteCases, Zenon DEF r, asked
<1> HIDE DEF r, asked
<1>4. PICK reply : AnswerAtOnce(t, asked, reply) /\ reply.status = 200
  <2> DEFINE after == decode_query_string_after(Path(r))
             keys == KeysFrom(IF after = <<>> THEN NoKey ELSE create_blob_key(Head(after)))
             page == SubSeq(keys, 1, Min({Limit, Len(keys)}))
             next == IF Len(keys) > Limit THEN keys[Limit + 1] ELSE NoKey
             reply == [status |-> 200, blobs |-> page, continueAfter |-> next]
  <2>1. AnswerAtOnce(t, asked, reply)
    BY <1>3, Zenon DEF HandleEnumerate
  <2>2. reply.status = 200
    <3> HIDE DEF page, next
    <3> QED
      BY Zenon
  <2> HIDE DEF reply
  <2> QED
    BY <2>1, <2>2
<1>5. Functions' /\ Others(t) /\ Begun(t, asked) /\ pc'[t] = "done" /\ rep'[t] = reply
  BY <1>4, AtOnce
<1> QED
  BY <1>4, <1>5, Zenon DEF EnumerateStep, asked

(***************************************************************************)
(* GET of a reference is answered by handle_get.                           *)
(***************************************************************************)
LEMMA ReceivesGet ==
  ASSUME NEW t \in Threads, Functions, NEW k \in Asked, NEW accept,
         handle_request(t, BlobRequest("GET", k, accept), Asks("get", <<>>, <<k>>, {200, 404}))
  PROVE  Functions' /\ Others(t) /\ GetStep(t)
<1> DEFINE r == BlobRequest("GET", k, accept)
           asked == Asks("get", <<>>, <<k>>, {200, 404})
<1>1. k \in Keys
  BY AskedAssumption, Zenon
<1>2. Route(r) = "get" /\ Tail(Path(r)) = <<BlobRef[k]>>
  BY <1>1, BlobRoute, Zenon
<1>3. HandleGet(t, r, asked)
  <2> HIDE DEF r, asked
  <2> QED
    BY <1>2, RouteCases DEF r, asked
<1> HIDE DEF r, asked
<1>4. PICK reply : AnswerAtOnce(t, asked, reply) /\ GetReply("get", k, reply)
  <2> DEFINE found == Found(<<BlobRef[k]>>)
  <2>1. \/ found = {} /\ AnswerAtOnce(t, asked, StockReply(404))
        \/ found \cap Unreadable # {} /\ AnswerAtOnce(t, asked, StockReply(404))
        \/ \E c \in found : \E e : AnswerAtOnce(t, asked, [status |-> 200, body |-> <<e, c>>, encoding |-> e])
    BY <1>2, <1>3, Zenon DEF HandleGet
  <2>2. StockReply(404).status = 404
    BY Zenon DEF StockReply
  <2>3. \A c, e : LET reply == [status |-> 200, body |-> <<e, c>>, encoding |-> e]
                  IN  /\ reply.status = 200
                      /\ reply.body = <<reply.encoding, c>>
    BY Zenon
  <2>4. "get" # "head"
    BY Zenon
  <2>5. CASE found = {} /\ AnswerAtOnce(t, asked, StockReply(404))
    BY <2>2, <2>5 DEF GetReply
  <2>6. CASE found \cap Unreadable # {} /\ AnswerAtOnce(t, asked, StockReply(404))
    <3>1. GetReply("get", k, StockReply(404))
      BY <2>2, <2>6, Zenon DEF GetReply
    <3> QED
      BY <2>6, <3>1, Zenon
  <2>7. CASE \E c \in found : \E e : AnswerAtOnce(t, asked, [status |-> 200, body |-> <<e, c>>, encoding |-> e])
    <3>1. PICK c \in found : \E e : AnswerAtOnce(t, asked, [status |-> 200, body |-> <<e, c>>, encoding |-> e])
      BY <2>7, Zenon
    <3>2. PICK e : AnswerAtOnce(t, asked, [status |-> 200, body |-> <<e, c>>, encoding |-> e])
      BY <3>1, Zenon
    <3> DEFINE reply == [status |-> 200, body |-> <<e, c>>, encoding |-> e]
    <3>3. reply.status = 200 /\ reply.body = <<reply.encoding, c>>
      BY <2>3, Zenon
    <3>4. AnswerAtOnce(t, asked, reply)
      BY <3>2, Zenon
    <3> HIDE DEF reply
    <3>5. GetReply("get", k, reply)
      BY <2>4, <3>3 DEF GetReply
    <3> QED
      BY <3>4, <3>5, Zenon
  <2> QED
    BY <2>1, <2>5, <2>7, <2>6, Zenon
<1>5. Functions' /\ Others(t) /\ Begun(t, asked) /\ pc'[t] = "done" /\ rep'[t] = reply
  BY <1>4, AtOnce, Zenon
<1>6. GetReply("get", k, rep'[t])
  BY <1>4, <1>5, Zenon
<1> QED
  BY <1>5, <1>6, Zenon DEF GetStep, asked

(***************************************************************************)
(* HEAD of a reference is answered by handle_check.                        *)
(***************************************************************************)
LEMMA ReceivesHead ==
  ASSUME NEW t \in Threads, Functions, NEW k \in Asked, NEW accept,
         handle_request(t, BlobRequest("HEAD", k, accept), Asks("head", <<>>, <<k>>, {200, 404}))
  PROVE  Functions' /\ Others(t) /\ GetStep(t)
<1> DEFINE r == BlobRequest("HEAD", k, accept)
           asked == Asks("head", <<>>, <<k>>, {200, 404})
<1>1. k \in Keys
  BY AskedAssumption, Zenon
<1>2. Route(r) = "check" /\ Tail(Path(r)) = <<BlobRef[k]>>
  BY <1>1, BlobRoute, Zenon
<1>3. HandleCheck(t, r, asked)
  <2> HIDE DEF r, asked
  <2> QED
    BY <1>2, RouteCases DEF r, asked
<1> HIDE DEF r, asked
<1>4. PICK reply : AnswerAtOnce(t, asked, reply) /\ GetReply("head", k, reply)
  <2> DEFINE found == Found(<<BlobRef[k]>>)
  <2>1. \/ found = {} /\ AnswerAtOnce(t, asked, StockReply(404))
        \/ \E c \in found : AnswerAtOnce(t, asked, [status |-> 200, size |-> Len(c)])
    BY <1>2, <1>3, Zenon DEF HandleCheck
  <2>2. StockReply(404).status = 404
    BY Zenon DEF StockReply
  <2>4. "get" # "head"
    BY Zenon
  <2>5. CASE found = {} /\ AnswerAtOnce(t, asked, StockReply(404))
    BY <2>2, <2>5 DEF GetReply
  <2>6. CASE \E c \in found : AnswerAtOnce(t, asked, [status |-> 200, size |-> Len(c)])
    <3>1. PICK c \in found : AnswerAtOnce(t, asked, [status |-> 200, size |-> Len(c)])
      BY <2>6, Zenon
    <3> DEFINE reply == [status |-> 200, size |-> Len(c)]
    <3>2. reply.status = 200 /\ reply.size = Len(c)
      BY Zenon
    <3>3. AnswerAtOnce(t, asked, reply)
      BY <3>1, Zenon
    <3> HIDE DEF reply
    <3>4. GetReply("head", k, reply)
      BY <2>4, <3>2 DEF GetReply
    <3> QED
      BY <3>3, <3>4, Zenon
  <2> QED
    BY <2>1, <2>5, <2>6, Zenon
<1>5. Functions' /\ Others(t) /\ Begun(t, asked) /\ pc'[t] = "done" /\ rep'[t] = reply
  BY <1>4, AtOnce, Zenon
<1>6. GetReply("head", k, rep'[t])
  BY <1>4, <1>5, Zenon
<1> QED
  BY <1>5, <1>6, Zenon DEF GetStep, asked

(***************************************************************************)
(* Any other request is answered as its route says, and adds nothing.      *)
(***************************************************************************)
LEMMA ReceivesOther ==
  ASSUME NEW t \in Threads, Functions, NEW o \in OtherRequests,
         handle_request(t, o.request, Asks("other", <<>>, <<>>, o.statuses))
  PROVE  Functions' /\ Others(t) /\ OtherStep(t)
<1> DEFINE r == o.request
           asked == Asks("other", <<>>, <<>>, o.statuses)
           Ends(reply) == /\ AnswerAtOnce(t, asked, reply)
                          /\ reply.status \in StatusesOf(r)
<1> HIDE DEF r, asked
<1>1. handle_request(t, r, asked)
  BY Zenon DEF r, asked
<1>2. StockReply(400).status = 400 /\ StockReply(404).status = 404
  BY Zenon DEF StockReply
<1>3. ASSUME NEW reply, Ends(reply)
      PROVE  Functions' /\ Others(t) /\ OtherStep(t)
  <2>1. Functions' /\ Others(t) /\ Begun(t, asked) /\ pc'[t] = "done" /\ rep'[t] = reply
    BY <1>3, AtOnce, Zenon
  <2> QED
    BY <1>3, <2>1, Zenon DEF OtherStep, asked, r
<1>4. CASE Route(r) = "bad"
  <2>1. Ends(StockReply(400))
    BY <1>1, <1>2, <1>4, RouteCases DEF HandleBad, StatusesOf
  <2> QED
    BY <1>3, <2>1, Zenon
<1>5. CASE Route(r) = "static"
  <2>1. HandleStatic(t, r, asked)
    BY <1>1, <1>5, RouteCases, Zenon
  <2> DEFINE path == StaticPath(r)
             type == extension_to_type(Extension(path))
             file == StaticFiles[path]
             page == [status |-> 200, file |-> file, type |-> type]
             reply == IF path \notin DOMAIN StaticFiles THEN StockReply(404) ELSE page
  <2>2. AnswerAtOnce(t, asked, reply)
    BY <2>1, Zenon DEF HandleStatic, StaticPath
  <2>3. page.status = 200
    <3> HIDE DEF type, file
    <3> QED
      BY Zenon
  <2> HIDE DEF page, path
  <2>4. reply.status = IF path \in DOMAIN StaticFiles THEN 200 ELSE 404
    BY <1>2, <2>3, ZenonT(30)
  <2> HIDE DEF reply
  <2>5. StatusesOf(r) = IF path \in DOMAIN StaticFiles THEN {200} ELSE {404}
    BY <1>5, Zenon DEF StatusesOf, path
  <2>6. reply.status \in StatusesOf(r)
    BY <2>4, <2>5, ZenonT(30)
  <2>7. Ends(reply)
    BY <2>2, <2>6, Zenon
  <2> QED
    BY <1>3, <2>7, Zenon
<1>6. CASE Route(r) = "stat"
  <2>1. HandleStat(t, r, asked)
    BY <1>1, <1>6, RouteCases, Zenon
  <2> DEFINE refs == IF r.method = "GET" THEN decode_query_string_blobs(Path(r))
                     ELSE IF r.method = "POST" THEN decode_query_string_blobs(r.content)
                     ELSE <<>>
  <2>2. /\ Begin(t, asked)
        /\ blobs' = [blobs EXCEPT ![t] = refs]
        /\ pc' = [pc EXCEPT ![t] = "stat"]
        /\ UNCHANGED <<stored, parts, stat, rep, sent>>
    BY <2>1, Zenon DEF HandleStat
  <2> HIDE DEF refs
  <2>3. Functions' /\ Others(t) /\ Begun(t, asked) /\ pc'[t] = "stat"
    BY <2>2, StatBegins, Zenon
  <2>4. 200 \in StatusesOf(r)
    BY <1>6, ZenonT(30) DEF StatusesOf
  <2> QED
    BY <2>3, <2>4, Zenon DEF OtherStep, asked, r
<1>7. CASE Route(r) = "enumerate"
  <2> DEFINE after == decode_query_string_after(Path(r))
             keys == KeysFrom(IF after = <<>> THEN NoKey ELSE create_blob_key(Head(after)))
             page == SubSeq(keys, 1, Min({Limit, Len(keys)}))
             next == IF Len(keys) > Limit THEN keys[Limit + 1] ELSE NoKey
             reply == [status |-> 200, blobs |-> page, continueAfter |-> next]
  <2>1. AnswerAtOnce(t, asked, reply)
    BY <1>1, <1>7, RouteCases, ZenonT(30) DEF HandleEnumerate
  <2>2. reply.status = 200
    <3> HIDE DEF page, next
    <3> QED
      BY Zenon
  <2> HIDE DEF reply
  <2>3. Ends(reply)
    BY <1>7, <2>1, <2>2, Zenon DEF StatusesOf
  <2> QED
    BY <1>3, <2>3, Zenon
<1>8. CASE Route(r) = "check"
  <2> DEFINE found == Found(Tail(Path(r)))
  <2>1. \/ AnswerAtOnce(t, asked, StockReply(404))
        \/ \E c \in found : AnswerAtOnce(t, asked, [status |-> 200, size |-> Len(c)])
    BY <1>1, <1>8, RouteCases, ZenonT(30) DEF HandleCheck
  <2> HIDE DEF found
  <2>3. PICK reply : AnswerAtOnce(t, asked, reply) /\ (reply.status = 200 \/ reply.status = 404)
    <3>1. CASE AnswerAtOnce(t, asked, StockReply(404))
      BY <1>2, <3>1
    <3>2. CASE \E c \in found : AnswerAtOnce(t, asked, [status |-> 200, size |-> Len(c)])
      <4>1. PICK c \in found : AnswerAtOnce(t, asked, [status |-> 200, size |-> Len(c)])
        BY <3>2, Zenon
      <4> DEFINE reply == [status |-> 200, size |-> Len(c)]
      <4>2. reply.status = 200
        BY Zenon
      <4>3. AnswerAtOnce(t, asked, reply)
        BY <4>1, Zenon
      <4> HIDE DEF reply
      <4> QED
        BY <4>2, <4>3
    <3> QED
      BY <2>1, <3>1, <3>2, Zenon
  <2>4. Ends(reply)
    BY <1>8, <2>3, ZenonT(30) DEF StatusesOf
  <2> QED
    BY <1>3, <2>4, Zenon
<1>9. CASE Route(r) = "get"
  <2> DEFINE found == Found(Tail(Path(r)))
             e == AcceptedEncoding(r)
  <2>1. \/ AnswerAtOnce(t, asked, StockReply(404))
        \/ \E c \in found : AnswerAtOnce(t, asked, [status |-> 200, body |-> <<e, c>>, encoding |-> e])
    BY <1>1, <1>9, RouteCases, ZenonT(30) DEF HandleGet
  <2> HIDE DEF found, e
  <2>3. PICK reply : AnswerAtOnce(t, asked, reply) /\ (reply.status = 200 \/ reply.status = 404)
    <3>1. CASE AnswerAtOnce(t, asked, StockReply(404))
      BY <1>2, <3>1
    <3>2. CASE \E c \in found : AnswerAtOnce(t, asked, [status |-> 200, body |-> <<e, c>>, encoding |-> e])
      <4>1. PICK c \in found : AnswerAtOnce(t, asked, [status |-> 200, body |-> <<e, c>>, encoding |-> e])
        BY <3>2, Zenon
      <4> DEFINE reply == [status |-> 200, body |-> <<e, c>>, encoding |-> e]
      <4>2. reply.status = 200
        BY Zenon
      <4>3. AnswerAtOnce(t, asked, reply)
        BY <4>1, Zenon
      <4> HIDE DEF reply
      <4> QED
        BY <4>2, <4>3
    <3> QED
      BY <2>1, <3>1, <3>2, Zenon
  <2>4. Ends(reply)
    BY <1>9, <2>3, Zenon DEF StatusesOf
  <2> QED
    BY <1>3, <2>4
<1>10. CASE Route(r) = "put"
  <2> DEFINE content_type == get_header(r.headers, "Content-Type")
             payloads == Payloads(content_type, r.content)
  <2>1. payloads = <<>>
    BY OtherAssumption, Zenon DEF r
  <2>2. \/ content_type = NoText /\ AnswerAtOnce(t, asked, StockReply(400))
        \/ /\ content_type # NoText
           /\ Begin(t, asked)
           /\ parts' = [parts EXCEPT ![t] = payloads]
           /\ pc' = [pc EXCEPT ![t] = "put"]
           /\ UNCHANGED <<stored, blobs, stat, rep, sent>>
    BY <1>1, <1>10, RouteCases, Zenon DEF HandlePut
  <2>3. StatusesOf(r) = IF content_type = NoText THEN {400} ELSE {200}
    BY <1>10, Zenon DEF StatusesOf
  <2> HIDE DEF payloads, content_type
  <2>4. CASE content_type = NoText /\ AnswerAtOnce(t, asked, StockReply(400))
    <3>1. Ends(StockReply(400))
      BY <1>2, <2>3, <2>4
    <3> QED
      BY <1>3, <3>1
  <2>5. CASE /\ content_type # NoText
             /\ Begin(t, asked)
             /\ parts' = [parts EXCEPT ![t] = payloads]
             /\ pc' = [pc EXCEPT ![t] = "put"]
             /\ UNCHANGED <<stored, blobs, stat, rep, sent>>
    <3>1. Functions' /\ Others(t) /\ Begun(t, asked) /\ pc'[t] = "put" /\ parts'[t] = payloads
      BY <2>5, PutBegins, ZenonT(30)
    <3>2. 200 \in StatusesOf(r)
      BY <2>3, <2>5, Zenon
    <3> QED
      BY <2>1, <3>1, <3>2, Zenon DEF OtherStep, asked, r
  <2> QED
    BY <2>2, <2>4, <2>5, Zenon
<1> QED
  BY <1>1, <1>4, <1>5, <1>6, <1>7, <1>8, <1>9, <1>10, RouteCases, Zenon

(***************************************************************************)
(* handle_request, for every request a client sends.                       *)
(***************************************************************************)
LEMMA Received ==
  ASSUME StatsDecoded, NEW t \in Threads, Functions, Receive(t)
  PROVE  /\ Functions' /\ Others(t)
         /\ UploadStep(t) \/ StatStep(t) \/ EnumerateStep(t) \/ GetStep(t) \/ OtherStep(t)
<1> DEFINE Takes(r, asked) == handle_request(t, r, asked)
           Done == /\ Functions' /\ Others(t)
                   /\ UploadStep(t) \/ StatStep(t) \/ EnumerateStep(t) \/ GetStep(t) \/ OtherStep(t)
           Sent(r, a) == [request |-> r, asks |-> a]
           S1 == {Sent(UploadRequest(ps), Asks("put", ps, <<>>, {200})) : ps \in Uploads}
           S2 == UNION {{Sent(r, Asks("stat", <<>>, ks, {200})) : r \in {StatPost(ks), StatGet(ks)}} :
                         ks \in Batches}
           S3 == {Sent(EnumerateRequest(k), Asks("enumerate", <<>>, <<k>>, {200})) :
                   k \in Asked \cup {NoKey}}
           Get(k, accept) == Sent(BlobRequest("GET", k, accept), Asks("get", <<>>, <<k>>, {200, 404}))
           Accepts == {NoText, <<"other">>} \cup {<<e>> : e \in Encodings}
           S4 == {Get(k, accept) : k \in Asked, accept \in Accepts}
           S5 == {Sent(BlobRequest("HEAD", k, NoText), Asks("head", <<>>, <<k>>, {200, 404})) :
                   k \in Asked}
           S6 == {Sent(o.request, Asks("other", <<>>, <<>>, o.statuses)) : o \in OtherRequests}
<1> SUFFICES Done
  BY Zenon
<1>1. PICK i \in Incoming : Takes(i.request, i.asks)
  BY Zenon DEF Receive
<1> HIDE DEF Takes
<1>2. ASSUME NEW r, NEW a, i = Sent(r, a)
      PROVE  Takes(r, a)
  BY <1>1, <1>2, Zenon
<1>3. i \in S1 \/ i \in S2 \/ i \in S3 \/ i \in S4 \/ i \in S5 \/ i \in S6
  <2>1. Incoming = S1 \cup S2 \cup S3 \cup S4 \cup S5 \cup S6
    BY DEF Incoming
  <2> HIDE DEF S1, S2, S3, S4, S5, S6
  <2> QED
    BY <1>1, <2>1, Zenon
<1> HIDE DEF Sent
<1>4. ASSUME NEW ps \in Uploads, Takes(UploadRequest(ps), Asks("put", ps, <<>>, {200}))
      PROVE  Done
  BY <1>4, ReceivesUpload, Zenon DEF Takes
<1>5. ASSUME NEW ks \in Batches, NEW r \in {StatPost(ks), StatGet(ks)},
             Takes(r, Asks("stat", <<>>, ks, {200}))
      PROVE  Done
  BY <1>5, ReceivesStat, ZenonT(30) DEF Takes
<1>6. ASSUME NEW k \in Asked \cup {NoKey},
             Takes(EnumerateRequest(k), Asks("enumerate", <<>>, <<k>>, {200}))
      PROVE  Done
  BY <1>6, ReceivesEnumerate, ZenonT(30) DEF Takes
<1>7. ASSUME NEW k \in Asked, NEW accept,
             Takes(BlobRequest("GET", k, accept), Asks("get", <<>>, <<k>>, {200, 404}))
      PROVE  Done
  BY <1>7, ReceivesGet DEF Takes
<1>8. ASSUME NEW k \in Asked, Takes(BlobRequest("HEAD", k, NoText), Asks("head", <<>>, <<k>>, {200, 404}))
      PROVE  Done
  BY <1>8, ReceivesHead DEF Takes
<1>9. ASSUME NEW o \in OtherRequests, Takes(o.request, Asks("other", <<>>, <<>>, o.statuses))
      PROVE  Done
  BY <1>9, ReceivesOther, Zenon DEF Takes
<1> HIDE DEF Done
<1>10. CASE i \in S1
  <2>1. PICK ps \in Uploads : i = Sent(UploadRequest(ps), Asks("put", ps, <<>>, {200}))
    BY <1>10, Zenon
  <2>2. Takes(UploadRequest(ps), Asks("put", ps, <<>>, {200}))
    BY <1>2, <2>1, Zenon
  <2> QED
    BY <1>4, <2>2, Zenon
<1>11. CASE i \in S2
  <2>1. PICK T \in {{Sent(r, Asks("stat", <<>>, ks, {200})) : r \in {StatPost(ks), StatGet(ks)}} :
                     ks \in Batches} : i \in T
    BY <1>11, Zenon
  <2>2. PICK ks \in Batches :
          T = {Sent(r, Asks("stat", <<>>, ks, {200})) : r \in {StatPost(ks), StatGet(ks)}}
    BY <2>1, Zenon
  <2>3. PICK r \in {StatPost(ks), StatGet(ks)} : i = Sent(r, Asks("stat", <<>>, ks, {200}))
    BY <2>1, <2>2, Zenon
  <2>4. Takes(r, Asks("stat", <<>>, ks, {200}))
    BY <1>2, <2>3, Zenon
  <2> QED
    BY <1>5, <2>4, Zenon
<1>12. CASE i \in S3
  <2>1. PICK k \in Asked \cup {NoKey} :
          i = Sent(EnumerateRequest(k), Asks("enumerate", <<>>, <<k>>, {200}))
    BY <1>12, Zenon
  <2>2. Takes(EnumerateRequest(k), Asks("enumerate", <<>>, <<k>>, {200}))
    BY <1>2, <2>1, Zenon
  <2> QED
    BY <1>6, <2>2, Zenon
<1>13. CASE i \in S4
  <2> HIDE DEF Get, Accepts
  <2>2. PICK k \in Asked, accept \in Accepts : i = Get(k, accept)
    BY <1>13
  <2>3. i = Sent(BlobRequest("GET", k, accept), Asks("get", <<>>, <<k>>, {200, 404}))
    BY <2>2, Zenon DEF Get
  <2>4. Takes(BlobRequest("GET", k, accept), Asks("get", <<>>, <<k>>, {200, 404}))
    BY <1>2, <2>3, ZenonT(30)
  <2> QED
    BY <1>7, <2>4, ZenonT(30)
<1>14. CASE i \in S5
  <2>1. PICK k \in Asked :
          i = Sent(BlobRequest("HEAD", k, NoText), Asks("head", <<>>, <<k>>, {200, 404}))
    BY <1>14, Zenon
  <2>2. Takes(BlobRequest("HEAD", k, NoText), Asks("head", <<>>, <<k>>, {200, 404}))
    BY <1>2, <2>1, ZenonT(30)
  <2> QED
    BY <1>8, <2>2, Zenon
<1>15. CASE i \in S6
  <2>1. PICK o \in OtherRequests : i = Sent(o.request, Asks("other", <<>>, <<>>, o.statuses))
    BY <1>15, Zenon
  <2>2. Takes(o.request, Asks("other", <<>>, <<>>, o.statuses))
    BY <1>2, <2>1, Zenon
  <2> QED
    BY <1>9, <2>2, Zenon
<1> HIDE DEF S1, S2, S3, S4, S5, S6
<1> QED
  BY <1>3, <1>10, <1>11, <1>12, <1>13, <1>14, <1>15, Zenon

(***************************************************************************)
(* The other steps of a thread.                                            *)
(***************************************************************************)
AddStep(t) ==
  /\ pc[t] = "put" /\ parts[t] # <<>>
  /\ stored' = stored \cup ({Head(parts[t])} \ {<<>>})
  /\ parts'[t] = Tail(parts[t])
  /\ UNCHANGED <<pc, asks, blobs, stat, rep, before, sent>>

PutAnswerStep(t) ==
  /\ pc[t] = "put" /\ parts[t] = <<>>
  /\ pc'[t] = "done" /\ rep'[t].status = 200
  /\ sent' = sent \cup Range(asks[t].payloads)
  /\ UNCHANGED <<stored, asks, parts, blobs, stat, before>>

LookupStep(t) ==
  /\ pc[t] = "stat" /\ blobs[t] # <<>>
  /\ blobs'[t] = Tail(blobs[t])
  /\ \/ Found(Head(blobs[t])) = {} /\ stat'[t] = stat[t]
     \/ \E c \in Found(Head(blobs[t])) :
          stat'[t] = Append(stat[t], [blobRef |-> Head(blobs[t]), size |-> Len(c)])
  /\ UNCHANGED <<stored, pc, asks, parts, rep, before, sent>>

StatAnswerStep(t) ==
  /\ pc[t] = "stat" /\ blobs[t] = <<>>
  /\ pc'[t] = "done" /\ rep'[t].status = 200 /\ rep'[t].stat = stat[t]
  /\ UNCHANGED <<stored, asks, parts, blobs, stat, before, sent>>

WrittenStep(t) ==
  /\ pc[t] = "done"
  /\ pc'[t] = "idle" /\ asks'[t] = NoAsks /\ stat'[t] = <<>> /\ before'[t] = {}
  /\ UNCHANGED <<stored, sent>>

(***************************************************************************)
(* handle_put: one part.                                                   *)
(***************************************************************************)
LEMMA Adds ==
  ASSUME NEW t \in Threads, Functions, PutAdd(t)
  PROVE  Functions' /\ Others(t) /\ AddStep(t)
<1>1. /\ pc[t] = "put" /\ parts[t] # <<>>
      /\ stored' = stored \cup ({Head(parts[t])} \ {<<>>})
      /\ UNCHANGED <<pc, asks, blobs, stat, rep, before, sent>>
  BY Zenon DEF PutAdd
<1>2. parts' = [parts EXCEPT ![t] = Tail(parts[t])]
  BY Zenon DEF PutAdd, Functions, OnThreads
<1>3. OnThreads(parts)
  BY Zenon DEF Functions
<1>4. OnThreads(parts') /\ parts'[t] = Tail(parts[t]) /\ \A u \in Threads \ {t} : parts'[u] = parts[u]
  BY <1>2, <1>3, Zenon DEF OnThreads
<1> QED
  BY <1>1, <1>4, Zenon DEF Functions, Others, AddStep

(***************************************************************************)
(* handle_put: the reply.                                                  *)
(***************************************************************************)
LEMMA PutAnswers ==
  ASSUME NEW t \in Threads, Functions, PutAnswer(t)
  PROVE  Functions' /\ Others(t) /\ PutAnswerStep(t)
<1> DEFINE reply == [status |-> 200]
<1>1. /\ pc[t] = "put" /\ parts[t] = <<>>
      /\ pc' = [pc EXCEPT ![t] = "done"] /\ rep' = [rep EXCEPT ![t] = reply]
      /\ sent' = sent \cup Range(asks[t].payloads)
      /\ UNCHANGED <<stored, asks, parts, blobs, stat, before>>
  BY Zenon DEF PutAnswer, Answer
<1>2. reply.status = 200
  BY Zenon
<1> HIDE DEF reply
<1>3. OnThreads(pc) /\ OnThreads(rep)
  BY Zenon DEF Functions
<1>4. OnThreads(pc') /\ pc'[t] = "done" /\ \A u \in Threads \ {t} : pc'[u] = pc[u]
  BY <1>1, <1>3, Zenon DEF OnThreads
<1>5. OnThreads(rep') /\ rep'[t] = reply /\ \A u \in Threads \ {t} : rep'[u] = rep[u]
  BY <1>1, <1>3, Zenon DEF OnThreads
<1> QED
  BY <1>1, <1>2, <1>4, <1>5, ZenonT(30) DEF Functions, Others, PutAnswerStep

(***************************************************************************)
(* handle_stat: one reference.                                             *)
(***************************************************************************)
LEMMA LooksUp ==
  ASSUME NEW t \in Threads, Functions, StatLookup(t)
  PROVE  Functions' /\ Others(t) /\ LookupStep(t)
<1>1. /\ pc[t] = "stat" /\ blobs[t] # <<>>
      /\ UNCHANGED <<stored, pc, asks, parts, rep, before, sent>>
  BY Zenon DEF StatLookup
<1>2. blobs' = [blobs EXCEPT ![t] = Tail(blobs[t])]
  BY Zenon DEF StatLookup, Functions, OnThreads
<1>3. OnThreads(blobs) /\ OnThreads(stat)
  BY Zenon DEF Functions
<1>4. OnThreads(blobs') /\ blobs'[t] = Tail(blobs[t]) /\ \A u \in Threads \ {t} : blobs'[u] = blobs[u]
  BY <1>2, <1>3, Zenon DEF OnThreads
<1>5. \/ Found(Head(blobs[t])) = {} /\ stat' = stat
      \/ \E c \in Found(Head(blobs[t])) :
           stat' = [stat EXCEPT ![t] = Append(stat[t], [blobRef |-> Head(blobs[t]), size |-> Len(c)])]
  BY <1>3, Zenon DEF StatLookup, OnThreads
<1>6. CASE Found(Head(blobs[t])) = {} /\ stat' = stat
  BY <1>1, <1>4, <1>6, Zenon DEF Functions, Others, LookupStep
<1>7. CASE \E c \in Found(Head(blobs[t])) :
             stat' = [stat EXCEPT ![t] = Append(stat[t], [blobRef |-> Head(blobs[t]), size |-> Len(c)])]
  <2>1. PICK c \in Found(Head(blobs[t])) :
          stat' = [stat EXCEPT ![t] = Append(stat[t], [blobRef |-> Head(blobs[t]), size |-> Len(c)])]
    BY <1>7, Zenon
  <2> DEFINE longer == Append(stat[t], [blobRef |-> Head(blobs[t]), size |-> Len(c)])
  <2>2. stat' = [stat EXCEPT ![t] = longer]
    BY <2>1, Zenon
  <2> HIDE DEF longer
  <2>3. OnThreads(stat') /\ stat'[t] = longer /\ \A u \in Threads \ {t} : stat'[u] = stat[u]
    BY <1>3, <2>2, Zenon DEF OnThreads
  <2>4. \E d \in Found(Head(blobs[t])) :
          stat'[t] = Append(stat[t], [blobRef |-> Head(blobs[t]), size |-> Len(d)])
    BY <2>3, Zenon DEF longer
  <2> QED
    BY <1>1, <1>4, <2>3, <2>4, Zenon DEF Functions, Others, LookupStep
<1> QED
  BY <1>5, <1>6, <1>7, Zenon

(***************************************************************************)
(* handle_stat: the reply.                                                 *)
(***************************************************************************)
LEMMA StatAnswers ==
  ASSUME NEW t \in Threads, Functions, StatAnswer(t)
  PROVE  Functions' /\ Others(t) /\ StatAnswerStep(t)
<1> DEFINE reply == [status |-> 200, stat |-> stat[t]]
<1>1. /\ pc[t] = "stat" /\ blobs[t] = <<>>
      /\ pc' = [pc EXCEPT ![t] = "done"] /\ rep' = [rep EXCEPT ![t] = reply]
      /\ UNCHANGED <<stored, asks, parts, blobs, stat, before, sent>>
  BY Zenon DEF StatAnswer, Answer
<1>2. reply.status = 200 /\ reply.stat = stat[t]
  BY Zenon
<1> HIDE DEF reply
<1>3. OnThreads(pc) /\ OnThreads(rep)
  BY DEF Functions
<1>4. OnThreads(pc') /\ pc'[t] = "done" /\ \A u \in Threads \ {t} : pc'[u] = pc[u]
  BY <1>1, <1>3, Zenon DEF OnThreads
<1>5. OnThreads(rep') /\ rep'[t] = reply /\ \A u \in Threads \ {t} : rep'[u] = rep[u]
  BY <1>1, <1>3, Zenon DEF OnThreads
<1> QED
  BY <1>1, <1>2, <1>4, <1>5, Zenon DEF Functions, Others, StatAnswerStep

(***************************************************************************)
(* The reply is written.                                                   *)
(***************************************************************************)
LEMMA Writes ==
  ASSUME NEW t \in Threads, Functions, Written(t)
  PROVE  Functions' /\ Others(t) /\ WrittenStep(t)
<1>1. /\ pc[t] = "done"
      /\ pc' = [pc EXCEPT ![t] = "idle"] /\ asks' = [asks EXCEPT ![t] = NoAsks]
      /\ rep' = [rep EXCEPT ![t] = NoReply] /\ stat' = [stat EXCEPT ![t] = <<>>]
      /\ before' = [before EXCEPT ![t] = {}]
      /\ UNCHANGED <<stored, parts, blobs, sent>>
  BY Zenon DEF Written
<1>2. OnThreads(pc) /\ OnThreads(asks) /\ OnThreads(rep) /\ OnThreads(stat) /\ OnThreads(before)
  BY Zenon DEF Functions
<1>3. OnThreads(pc') /\ pc'[t] = "idle" /\ \A u \in Threads \ {t} : pc'[u] = pc[u]
  BY <1>1, <1>2, Zenon DEF OnThreads
<1>4. OnThreads(asks') /\ asks'[t] = NoAsks /\ \A u \in Threads \ {t} : asks'[u] = asks[u]
  BY <1>1, <1>2, Zenon DEF OnThreads
<1>5. OnThreads(rep') /\ \A u \in Threads \ {t} : rep'[u] = rep[u]
  BY <1>1, <1>2, Zenon DEF OnThreads
<1>6. OnThreads(stat') /\ stat'[t] = <<>> /\ \A u \in Threads \ {t} : stat'[u] = stat[u]
  BY <1>1, <1>2, Zenon DEF OnThreads
<1>7. OnThreads(before') /\ before'[t] = {} /\ \A u \in Threads \ {t} : before'[u] = before[u]
  BY <1>1, <1>2, Zenon DEF OnThreads
<1> QED
  BY <1>1, <1>3, <1>4, <1>5, <1>6, <1>7, Zenon DEF Functions, Others, WrittenStep

(***************************************************************************)
(* One step of one thread.                                                 *)
(***************************************************************************)
Step(t) ==
  /\ Others(t)
  /\ \/ UploadStep(t) \/ StatStep(t) \/ EnumerateStep(t) \/ GetStep(t) \/ OtherStep(t)
     \/ AddStep(t) \/ PutAnswerStep(t) \/ LookupStep(t) \/ StatAnswerStep(t) \/ WrittenStep(t)

(***************************************************************************)
(* A step of the pool is a step of one thread.                             *)
(***************************************************************************)
LEMMA Steps ==
  ASSUME StatsDecoded, Functions, [Next]_vars
  PROVE  Functions' /\ (UNCHANGED vars \/ \E t \in Threads : Step(t))
<1>1. CASE UNCHANGED vars
  BY <1>1, Zenon DEF vars, Functions, OnThreads
<1>2. CASE Next
  <2>1. PICK t \in Threads :
          \/ Receive(t)
          \/ PutAdd(t) \/ PutAnswer(t)
          \/ StatLookup(t) \/ StatAnswer(t)
          \/ Written(t)
    BY <1>2, Zenon DEF Next
  <2>2. Functions' /\ Step(t)
    BY <2>1, Received, Adds, PutAnswers, LooksUp, StatAnswers, Writes, Zenon DEF Step
  <2> QED
    BY <2>2, Zenon
<1> QED
  BY <1>1, <1>2, Zenon

(***************************************************************************)
(* Every thread is idle at first.                                          *)
(***************************************************************************)
LEMMA FunctionsFirst == Init => Functions
BY Zenon DEF Init, Functions, OnThreads

(***************************************************************************)
(* What is still to be added is part of what was asked for, and what was   *)
(* asked for and is not to be added any more is stored.                    *)
(***************************************************************************)
UploadFacts(t) ==
  /\ pc[t] = "put" =>
       /\ parts[t] \in Seq(Contents \cup {<<>>})
       /\ Range(parts[t]) \subseteq Range(asks[t].payloads)
       /\ Range(asks[t].payloads) \ {<<>>} \subseteq stored \cup Range(parts[t])
  /\ pc[t] # "put" => Range(asks[t].payloads) \subseteq sent

UploadInv ==
  /\ Functions
  /\ stored \subseteq Contents
  /\ sent \ {<<>>} \subseteq stored
  /\ \A c \in stored : c \in sent \/ \E t \in Threads : c \in Range(asks[t].payloads)
  /\ \A t \in Threads : UploadFacts(t)

(***************************************************************************)
(* The head and the tail of a sequence.                                    *)
(***************************************************************************)
LEMMA HeadTailFacts ==
  ASSUME NEW S, NEW s \in Seq(S), s # <<>>
  PROVE  /\ Head(s) \in S /\ Tail(s) \in Seq(S)
         /\ Range(s) = {Head(s)} \cup Range(Tail(s))
<1>1. Len(s) \in Nat \ {0} /\ DOMAIN s = 1 .. Len(s) /\ Head(s) = s[1]
  OBVIOUS
<1>2. /\ Tail(s) \in Seq(S) /\ Len(Tail(s)) = Len(s) - 1
      /\ \A i \in 1 .. Len(s) - 1 : Tail(s)[i] = s[i + 1]
  OBVIOUS
<1>3. DOMAIN Tail(s) = 1 .. Len(s) - 1
  BY <1>1, <1>2
<1>4. ASSUME NEW x \in Range(s) PROVE x \in {Head(s)} \cup Range(Tail(s))
  <2>1. PICK i \in 1 .. Len(s) : x = s[i]
    BY <1>1, Zenon DEF Range
  <2>2. CASE i = 1
    BY <1>1, <2>1, <2>2, Zenon
  <2>3. CASE i # 1
    <3>1. i - 1 \in 1 .. Len(s) - 1 /\ (i - 1) + 1 = i
      BY <1>1, <2>3
    <3>2. Tail(s)[i - 1] = x
      BY <1>2, <2>1, <3>1, Zenon
    <3> QED
      BY <1>3, <3>1, <3>2, Zenon DEF Range
  <2> QED
    BY <2>2, <2>3, Zenon
<1>5. ASSUME NEW x \in Range(Tail(s)) PROVE x \in Range(s)
  <2>1. PICK i \in 1 .. Len(s) - 1 : x = Tail(s)[i]
    BY <1>3, Zenon DEF Range
  <2>2. i + 1 \in 1 .. Len(s)
    BY <1>1
  <2> QED
    BY <1>1, <1>2, <2>1, <2>2, Zenon DEF Range
<1>6. Head(s) \in Range(s)
  BY <1>1 DEF Range
<1>7. Head(s) \in S
  BY <1>1
<1> QED
  BY <1>2, <1>4, <1>5, <1>6, <1>7, Zenon

(***************************************************************************)
(* The empty sequence has no elements.                                     *)
(***************************************************************************)
LEMMA NoneRange == Range(<<>>) = {}
BY DEF Range

(***************************************************************************)
(* The fields of what a client asks for.                                   *)
(***************************************************************************)
LEMMA AsksFields ==
  ASSUME NEW kind, NEW payloads, NEW keys, NEW statuses
  PROVE  /\ Asks(kind, payloads, keys, statuses).kind = kind
         /\ Asks(kind, payloads, keys, statuses).payloads = payloads
         /\ Asks(kind, payloads, keys, statuses).keys = keys
         /\ Asks(kind, payloads, keys, statuses).statuses = statuses
BY Zenon DEF Asks

(***************************************************************************)
(* A thread that begins or ends a request loses no payload.                *)
(***************************************************************************)
LEMMA UploadTurns ==
  ASSUME UploadInv, NEW t \in Threads, Others(t), pc[t] # "put", UNCHANGED <<stored, sent>>,
         Functions', UploadFacts(t)'
  PROVE  UploadInv'
<1>1. Range(asks[t].payloads) \subseteq sent
  BY Zenon DEF UploadInv, UploadFacts
<1>2. ASSUME NEW c \in stored
      PROVE  c \in sent \/ \E u \in Threads : c \in Range(asks'[u].payloads)
  <2>1. CASE c \in sent
    BY <2>1, Zenon
  <2>2. CASE c \notin sent
    <3>1. PICK u \in Threads : c \in Range(asks[u].payloads)
      BY <2>2, Zenon DEF UploadInv
    <3>2. u # t
      BY <1>1, <2>2, <3>1, Zenon
    <3>3. asks'[u] = asks[u]
      BY <3>2, Zenon DEF Others
    <3> QED
      BY <3>1, <3>3, Zenon
  <2> QED
    BY <2>1, <2>2, Zenon
<1>3. ASSUME NEW u \in Threads PROVE UploadFacts(u)'
  <2>1. CASE u = t
    BY <2>1, Zenon
  <2>2. CASE u # t
    <3>1. pc'[u] = pc[u] /\ parts'[u] = parts[u] /\ asks'[u] = asks[u]
      BY <2>2, Zenon DEF Others
    <3>2. UploadFacts(u)
      BY Zenon DEF UploadInv
    <3> QED
      BY <3>1, <3>2, Zenon DEF UploadFacts
  <2> QED
    BY <2>1, <2>2, Zenon
<1> QED
  BY <1>2, <1>3, Zenon DEF UploadInv

(***************************************************************************)
(* Every step keeps UploadInv.                                             *)
(***************************************************************************)
LEMMA UploadPreserved ==
  ASSUME StatsDecoded, AllDecoded, UploadInv, [Next]_vars
  PROVE  UploadInv'
<1>1. Functions' /\ (UNCHANGED vars \/ \E t \in Threads : Step(t))
  BY Steps, Zenon DEF UploadInv
<1>2. CASE UNCHANGED vars
  BY <1>1, <1>2, Zenon DEF vars, UploadInv, UploadFacts
<1>3. ASSUME NEW t \in Threads, Step(t) PROVE UploadInv'
  <2> USE <1>1, <1>3
  <2>1. Others(t) /\ Functions' /\ UploadFacts(t)
    BY Zenon DEF Step, UploadInv
  <2>2. ASSUME NEW asked, Begun(t, asked), pc'[t] # "put", asked.payloads = <<>>
        PROVE  UploadInv'
    <3>1. asks'[t].payloads = <<>> /\ UNCHANGED <<stored, sent>> /\ pc[t] # "put"
      BY <2>2, Zenon DEF Begun
    <3>2. UploadFacts(t)'
      BY <2>2, <3>1, NoneRange, Zenon DEF UploadFacts
    <3> QED
      BY <2>1, <3>1, <3>2, UploadTurns, Zenon
  <2>3. CASE UploadStep(t)
    <3>1. PICK ps \in Uploads : Begun(t, Asks("put", ps, <<>>, {200})) /\ pc'[t] = "put"
                                /\ parts'[t] = Payloads(FormType, Form(ps))
      BY <2>3, Zenon DEF UploadStep
    <3>2. parts'[t] = ps /\ ps \in Seq(Contents \cup {<<>>})
      BY <3>1, UploadsAssumption, Zenon DEF AllDecoded
    <3>3. asks'[t].payloads = ps /\ UNCHANGED <<stored, sent>> /\ pc[t] # "put"
      BY <3>1, AsksFields, SMTT(20) DEF Begun
    <3>4. UploadFacts(t)'
      BY <3>1, <3>2, <3>3, Zenon DEF UploadFacts
    <3> QED
      BY <2>1, <3>3, <3>4, UploadTurns, Zenon
  <2>4. CASE StatStep(t)
    <3>1. PICK ks : Begun(t, Asks("stat", <<>>, ks, {200})) /\ pc'[t] = "stat"
      BY <2>4, Zenon DEF StatStep
    <3>2. pc'[t] # "put" /\ Asks("stat", <<>>, ks, {200}).payloads = <<>>
      BY <3>1, AsksFields
    <3> QED
      BY <2>2, <3>1, <3>2, Zenon
  <2>5. CASE EnumerateStep(t)
    <3>1. PICK k : Begun(t, Asks("enumerate", <<>>, <<k>>, {200})) /\ pc'[t] = "done"
      BY <2>5, Zenon DEF EnumerateStep
    <3>2. pc'[t] # "put" /\ Asks("enumerate", <<>>, <<k>>, {200}).payloads = <<>>
      BY <3>1, AsksFields
    <3> QED
      BY <2>2, <3>1, <3>2, Zenon
  <2>6. CASE GetStep(t)
    <3>1. PICK k, kind : Begun(t, Asks(kind, <<>>, <<k>>, {200, 404})) /\ pc'[t] = "done"
      BY <2>6, ZenonT(30) DEF GetStep
    <3>2. pc'[t] # "put" /\ Asks(kind, <<>>, <<k>>, {200, 404}).payloads = <<>>
      BY <3>1, AsksFields
    <3> QED
      BY <2>2, <3>1, <3>2, Zenon
  <2>7. CASE OtherStep(t)
    <3>1. PICK o \in OtherRequests :
            /\ Begun(t, Asks("other", <<>>, <<>>, o.statuses))
            /\ pc'[t] \in {"done", "stat"} \/ (pc'[t] = "put" /\ parts'[t] = <<>>)
      BY <2>7, Zenon DEF OtherStep
    <3>2. Asks("other", <<>>, <<>>, o.statuses).payloads = <<>>
      BY AsksFields, SMTT(20)
    <3>3. CASE pc'[t] \in {"done", "stat"}
      BY <2>2, <3>1, <3>2, <3>3, Zenon
    <3>4. CASE pc'[t] = "put" /\ parts'[t] = <<>>
      <4>1. asks'[t].payloads = <<>> /\ UNCHANGED <<stored, sent>> /\ pc[t] # "put"
        BY <3>1, <3>2, Zenon DEF Begun
      <4>2. UploadFacts(t)'
        BY <3>4, <4>1, NoneRange, SMTT(20) DEF UploadFacts
      <4> QED
        BY <2>1, <4>1, <4>2, UploadTurns, Zenon
    <3> QED
      BY <3>1, <3>3, <3>4, Zenon
  <2>8. CASE AddStep(t)
    <3> DEFINE first == Head(parts[t])
               asked == Range(asks[t].payloads)
    <3>1. /\ pc[t] = "put" /\ parts[t] # <<>> /\ parts'[t] = Tail(parts[t])
          /\ stored' = stored \cup ({first} \ {<<>>})
          /\ UNCHANGED <<pc, asks, sent>>
      BY <2>8, Zenon DEF AddStep
    <3>2. /\ parts[t] \in Seq(Contents \cup {<<>>})
          /\ Range(parts[t]) \subseteq asked
          /\ asked \ {<<>>} \subseteq stored \cup Range(parts[t])
      BY <2>1, <3>1, Zenon DEF UploadFacts
    <3>3. /\ first \in Contents \cup {<<>>} /\ Tail(parts[t]) \in Seq(Contents \cup {<<>>})
          /\ Range(parts[t]) = {first} \cup Range(Tail(parts[t]))
      BY <3>1, <3>2, HeadTailFacts, Zenon
    <3> HIDE DEF first
    <3>4. UploadFacts(t)'
      BY <3>1, <3>2, <3>3, Zenon DEF UploadFacts
    <3>5. ASSUME NEW u \in Threads PROVE UploadFacts(u)'
      <4>1. CASE u = t
        BY <3>4, <4>1, Zenon
      <4>2. CASE u # t
        <5>1. parts'[u] = parts[u] /\ UploadFacts(u)
          BY <2>1, <4>2, Zenon DEF Others, UploadInv
        <5> QED
          BY <3>1, <5>1, Zenon DEF UploadFacts
      <4> QED
        BY <4>1, <4>2, Zenon
    <3>6. stored' \subseteq Contents
      BY <3>1, <3>3, Zenon DEF UploadInv
    <3>7. sent' \ {<<>>} \subseteq stored'
      BY <3>1, Zenon DEF UploadInv
    <3>8. ASSUME NEW c \in stored'
          PROVE  c \in sent' \/ \E u \in Threads : c \in Range(asks'[u].payloads)
      <4>1. CASE c \in stored
        BY <3>1, <4>1, Zenon DEF UploadInv
      <4>2. CASE c = first
        BY <3>1, <3>2, <3>3, <4>2, Zenon
      <4> QED
        BY <3>1, <4>1, <4>2, Zenon
    <3> QED
      BY <2>1, <3>5, <3>6, <3>7, <3>8, Zenon DEF UploadInv
  <2>9. CASE PutAnswerStep(t)
    <3> DEFINE asked == Range(asks[t].payloads)
    <3>1. /\ pc[t] = "put" /\ parts[t] = <<>> /\ pc'[t] = "done"
          /\ sent' = sent \cup asked /\ UNCHANGED <<stored, asks, parts>>
      BY <2>9, Zenon DEF PutAnswerStep
    <3>2. asked \ {<<>>} \subseteq stored
      BY <2>1, <3>1, NoneRange, Zenon DEF UploadFacts
    <3>3. ASSUME NEW u \in Threads PROVE UploadFacts(u)'
      <4>1. CASE u = t
        <5>1. pc'[u] # "put" /\ asks'[u] = asks[t]
          BY <3>1, <4>1, Zenon
        <5> QED
          BY <3>1, <5>1, Zenon DEF UploadFacts
      <4>2. CASE u # t
        <5>1. pc'[u] = pc[u] /\ UploadFacts(u)
          BY <2>1, <4>2, Zenon DEF Others, UploadInv
        <5> QED
          BY <3>1, <5>1, Zenon DEF UploadFacts
      <4> QED
        BY <4>1, <4>2
    <3>4. sent' \ {<<>>} \subseteq stored'
      BY <3>1, <3>2, Zenon DEF UploadInv
    <3>5. \A c \in stored' : c \in sent' \/ \E u \in Threads : c \in Range(asks'[u].payloads)
      BY <3>1, Zenon DEF UploadInv
    <3> QED
      BY <2>1, <3>1, <3>3, <3>4, <3>5, Zenon DEF UploadInv
  <2>10. CASE LookupStep(t) \/ StatAnswerStep(t)
    <3>1. pc[t] # "put" /\ pc'[t] # "put" /\ UNCHANGED <<stored, asks, sent>>
      BY <2>10, Zenon DEF LookupStep, StatAnswerStep
    <3>2. UploadFacts(t)'
      BY <2>1, <3>1, Zenon DEF UploadFacts
    <3> QED
      BY <2>1, <3>1, <3>2, UploadTurns, Zenon
  <2>11. CASE WrittenStep(t)
    <3>1. pc[t] # "put" /\ pc'[t] # "put" /\ asks'[t] = NoAsks /\ UNCHANGED <<stored, sent>>
      BY <2>11, Zenon DEF WrittenStep
    <3>2. asks'[t].payloads = <<>>
      BY <3>1, AsksFields DEF NoAsks
    <3>3. UploadFacts(t)'
      BY <3>1, <3>2, NoneRange, Zenon DEF UploadFacts
    <3> QED
      BY <2>1, <3>1, <3>3, UploadTurns, Zenon
  <2> QED
    BY <2>3, <2>4, <2>5, <2>6, <2>7, <2>8, <2>9, <2>10, <2>11, Zenon DEF Step
<1> QED
  BY <1>1, <1>2, <1>3, Zenon

(***************************************************************************)
(* UploadInv holds at first.                                               *)
(***************************************************************************)
LEMMA UploadFirst == Init => UploadInv
<1> SUFFICES ASSUME Init PROVE UploadInv
  BY Zenon
<1>1. Functions
  BY FunctionsFirst, Zenon
<1>2. stored = {} /\ sent = {}
  BY Zenon DEF Init
<1>3. ASSUME NEW t \in Threads PROVE UploadFacts(t)
  <2>1. pc[t] = "idle" /\ asks[t] = NoAsks
    BY Zenon DEF Init
  <2>2. asks[t].payloads = <<>>
    BY <2>1, AsksFields DEF NoAsks
  <2> QED
    BY <2>1, <2>2, NoneRange, Zenon DEF UploadFacts
<1> QED
  BY <1>1, <1>2, <1>3, Zenon DEF UploadInv

(***************************************************************************)
(* UploadInv is an invariant.                                              *)
(***************************************************************************)
LEMMA UploadInvariant ==
  ASSUME StatsDecoded, AllDecoded
  PROVE  Spec => []UploadInv
<1>1. UploadInv /\ [Next]_vars => UploadInv'
  BY UploadPreserved, Zenon
<1> QED
  BY <1>1, UploadFirst, PTL DEF Spec

(***************************************************************************)
(* The uploads that were answered 200 are stored, if forms are decoded.     *)
(***************************************************************************)
LEMMA UploadsStoredThen ==
  ASSUME StatsDecoded, AllDecoded
  PROVE  Spec => []UploadsStored
<1>1. UploadInv => UploadsStored
  <2> SUFFICES ASSUME UploadInv PROVE UploadsStored
    BY Zenon
  <2>1. sent \ {<<>>} \subseteq stored
    BY Zenon DEF UploadInv
  <2>2. stored \subseteq sent \cup UNION {Range(asks[t].payloads) : t \in Threads}
    BY Zenon DEF UploadInv
  <2> QED
    BY <2>1, <2>2, Zenon DEF UploadsStored
<1> QED
  BY <1>1, UploadInvariant, PTL

------------------------------------------------------------------------------
(***************************************************************************)
(* The other requests may be answered with what their route answers.       *)
(***************************************************************************)
OthersFit == \A o \in OtherRequests : StatusesOf(o.request) \subseteq o.statuses

(***************************************************************************)
(* A thread that adds parts or looks references up will answer 200.        *)
(***************************************************************************)
StatusFacts(t) ==
  /\ pc[t] \in {"put", "stat"} => 200 \in asks[t].statuses
  /\ pc[t] = "done" => rep[t].status \in asks[t].statuses

StatusInv == Functions /\ \A t \in Threads : StatusFacts(t)

(***************************************************************************)
(* Every step keeps StatusInv.                                             *)
(***************************************************************************)
LEMMA StatusPreserved ==
  ASSUME StatsDecoded, OthersFit, StatusInv, [Next]_vars
  PROVE  StatusInv'
<1>1. Functions' /\ (UNCHANGED vars \/ \E t \in Threads : Step(t))
  BY Steps, Zenon DEF StatusInv
<1>2. CASE UNCHANGED vars
  BY <1>1, <1>2, Zenon DEF vars, StatusInv, StatusFacts
<1>3. ASSUME NEW t \in Threads, Step(t) PROVE StatusInv'
  <2>1. Others(t) /\ StatusFacts(t)
    BY <1>3, Zenon DEF Step, StatusInv
  <2>2. SUFFICES StatusFacts(t)'
    <3>1. ASSUME NEW u \in Threads, u # t PROVE StatusFacts(u)'
      <4>1. pc'[u] = pc[u] /\ asks'[u] = asks[u] /\ rep'[u] = rep[u] /\ StatusFacts(u)
        BY <2>1, <3>1, Zenon DEF Others, StatusInv
      <4> QED
        BY <4>1, Zenon DEF StatusFacts
    <3> QED
      BY <1>1, <2>2, <3>1, Zenon DEF StatusInv
  <2>3. CASE UploadStep(t)
    <3>1. PICK ps : Begun(t, Asks("put", ps, <<>>, {200})) /\ pc'[t] = "put"
      BY <2>3, Zenon DEF UploadStep
    <3>2. asks'[t].statuses = {200}
      BY <3>1, AsksFields, SMTT(20) DEF Begun
    <3> QED
      BY <3>1, <3>2, Zenon DEF StatusFacts
  <2>4. CASE StatStep(t)
    <3>1. PICK ks : Begun(t, Asks("stat", <<>>, ks, {200})) /\ pc'[t] = "stat"
      BY <2>4, Zenon DEF StatStep
    <3>2. asks'[t].statuses = {200}
      BY <3>1, AsksFields DEF Begun
    <3> QED
      BY <3>1, <3>2, Zenon DEF StatusFacts
  <2>5. CASE EnumerateStep(t)
    <3>1. PICK k : Begun(t, Asks("enumerate", <<>>, <<k>>, {200})) /\ pc'[t] = "done"
                   /\ rep'[t].status = 200
      BY <2>5, Zenon DEF EnumerateStep
    <3>2. asks'[t].statuses = {200}
      BY <3>1, AsksFields DEF Begun
    <3> QED
      BY <3>1, <3>2, Zenon DEF StatusFacts
  <2>6. CASE GetStep(t)
    <3>1. PICK k, kind : /\ Begun(t, Asks(kind, <<>>, <<k>>, {200, 404})) /\ pc'[t] = "done"
                         /\ GetReply(kind, k, rep'[t])
      BY <2>6, Zenon DEF GetStep
    <3>2. asks'[t].statuses = {200, 404}
      BY <3>1, AsksFields, SMTT(20) DEF Begun
    <3>3. rep'[t].status \in {200, 404}
      BY <3>1, Zenon DEF GetReply
    <3> QED
      BY <3>1, <3>2, <3>3, Zenon DEF StatusFacts
  <2>7. CASE OtherStep(t)
    <3>1. PICK o \in OtherRequests :
            /\ Begun(t, Asks("other", <<>>, <<>>, o.statuses))
            /\ \/ pc'[t] = "done" /\ rep'[t].status \in StatusesOf(o.request)
               \/ pc'[t] = "put" /\ 200 \in StatusesOf(o.request)
               \/ pc'[t] = "stat" /\ 200 \in StatusesOf(o.request)
      BY <2>7, Zenon DEF OtherStep
    <3>2. asks'[t].statuses = o.statuses /\ StatusesOf(o.request) \subseteq o.statuses
      BY <3>1, AsksFields DEF Begun, OthersFit
    <3> QED
      BY <3>1, <3>2, Zenon DEF StatusFacts
  <2>8. CASE AddStep(t) \/ LookupStep(t)
    <3>1. UNCHANGED <<pc, asks, rep>>
      BY <2>8, Zenon DEF AddStep, LookupStep
    <3> QED
      BY <2>1, <3>1, Zenon DEF StatusFacts
  <2>9. CASE PutAnswerStep(t) \/ StatAnswerStep(t)
    <3>1. pc[t] \in {"put", "stat"} /\ pc'[t] = "done" /\ rep'[t].status = 200 /\ asks' = asks
      BY <2>9, Zenon DEF PutAnswerStep, StatAnswerStep
    <3> QED
      BY <2>1, <3>1, Zenon DEF StatusFacts
  <2>10. CASE WrittenStep(t)
    BY <2>10, Zenon DEF WrittenStep, StatusFacts
  <2> QED
    BY <1>3, <2>3, <2>4, <2>5, <2>6, <2>7, <2>8, <2>9, <2>10, Zenon DEF Step
<1> QED
  BY <1>1, <1>2, <1>3, Zenon

(***************************************************************************)
(* The statuses fit the requests, if stat requests are decoded.            *)
(***************************************************************************)
LEMMA StatusesFitThen ==
  ASSUME StatsDecoded, OthersFit
  PROVE  Spec => []StatusFits
<1>1. Init => StatusInv
  <2> SUFFICES ASSUME Init PROVE StatusInv
    BY Zenon
  <2>1. \A t \in Threads : pc[t] = "idle"
    BY Zenon DEF Init
  <2> QED
    BY <2>1, FunctionsFirst, Zenon DEF StatusInv, StatusFacts
<1>2. StatusInv /\ [Next]_vars => StatusInv'
  BY StatusPreserved
<1>3. StatusInv => StatusFits
  BY Zenon DEF StatusInv, StatusFacts, StatusFits
<1> QED
  BY <1>1, <1>2, <1>3, PTL DEF Spec

(***************************************************************************)
(* No two contents agree up to their first NUL, where the digests stop.    *)
(***************************************************************************)
DistinctCStrings == \A c, d \in Contents : CString(c) = CString(d) => c = d

(***************************************************************************)
(* What the index finds for a key that a client asks for.                  *)
(***************************************************************************)
LEMMA ContentFacts ==
  ASSUME NEW k \in Keys, stored \subseteq Contents,
         create_blob_key(<<BlobRef[k]>>) = k
  PROVE  /\ ContentOf(k) # {}
         /\ Found(<<BlobRef[k]>>) = ContentOf(k) \cap stored
         /\ DistinctCStrings => \A c, d \in ContentOf(k) : c = d
<1>1. PICK c \in Contents, h \in HashTypes : k = BlobKeyFor(h, c)
  BY DEF Keys
<1>2. k \in KeysOf({c})
  BY <1>1, Zenon DEF KeysOf, KeysOfContent
<1>3. Found(<<BlobRef[k]>>) = ContentOf(k) \cap stored
  BY Zenon DEF Found, ContentOf
<1>4. ASSUME DistinctCStrings, NEW a \in ContentOf(k), NEW b \in ContentOf(k)
      PROVE  a = b
  <2>1. a \in Contents /\ b \in Contents /\ k \in KeysOf({a}) /\ k \in KeysOf({b})
    BY Zenon DEF ContentOf
  <2>2. {a} \in SUBSET Contents /\ a \in {a}
    BY <2>1, Zenon
  <2>3. CString(a) = CString(b)
    BY <2>1, <2>2, KeysOfFacts, Zenon
  <2> QED
    BY <1>4, <2>1, <2>3, Zenon DEF DistinctCStrings
<1> QED
  BY <1>2, <1>3, <1>4, Zenon DEF ContentOf

(***************************************************************************)
(* No handler takes a content out of the index.                            *)
(***************************************************************************)
LEMMA StoredGrows ==
  ASSUME NEW t \in Threads, Step(t)
  PROVE  stored \subseteq stored'
<1>1. CASE AddStep(t)
  BY <1>1, Zenon DEF AddStep
<1>2. CASE ~ AddStep(t)
  <2>1. stored' = stored
    BY <1>2, Zenon DEF Step, UploadStep, StatStep, EnumerateStep, GetStep, OtherStep, Begun,
                PutAnswerStep, LookupStep, StatAnswerStep, WrittenStep
  <2> QED
    BY <2>1, Zenon
<1> QED
  BY <1>1, <1>2, Zenon

(***************************************************************************)
(* FoundAsStored, of one thread.                                           *)
(***************************************************************************)
GetFits(kind, contents, reply, old, now) ==
  /\ contents \subseteq old /\ (kind = "get" => contents \cap Unreadable = {}) => reply.status = 200
  /\ reply.status = 200 =>
       /\ contents \subseteq now
       /\ kind = "head" => reply.size \in {Len(c) : c \in contents}
       /\ kind = "get" => reply.body \in {<<reply.encoding, c>> : c \in contents}

GetFacts(t) ==
  \A kind \in {"get", "head"} : Answered(t, kind) =>
    GetFits(kind, ContentOf(Head(asks[t].keys)), rep[t], before[t], stored)

(***************************************************************************)
(* A thread that is not idle and not done serves an upload, a stat request *)
(* or another one.                                                         *)
(***************************************************************************)
KindFacts(t) ==
  /\ pc[t] = "put" => asks[t].kind \in {"put", "other"}
  /\ pc[t] = "stat" => asks[t].kind \in {"stat", "other"}

GetInv ==
  /\ UploadInv
  /\ \A t \in Threads : KindFacts(t) /\ GetFacts(t)

(***************************************************************************)
(* Every step keeps GetInv.                                                *)
(***************************************************************************)
LEMMA GetPreserved ==
  ASSUME StatsDecoded, AllDecoded, DistinctCStrings, GetInv, [Next]_vars
  PROVE  GetInv'
<1>1. UploadInv' /\ UploadInv
  BY UploadPreserved, Zenon DEF GetInv
<1>2. UNCHANGED vars \/ \E t \in Threads : Step(t)
  BY <1>1, Steps, Zenon DEF UploadInv
<1>3. CASE UNCHANGED vars
  BY <1>1, <1>3, Zenon DEF vars, GetInv, KindFacts, GetFacts, Answered
<1>4. ASSUME NEW t \in Threads, Step(t) PROVE GetInv'
  <2>1. Others(t) /\ KindFacts(t) /\ GetFacts(t) /\ stored \subseteq stored'
    BY <1>4, StoredGrows, Zenon DEF Step, GetInv
  <2>2. SUFFICES KindFacts(t)' /\ GetFacts(t)'
    <3>1. ASSUME NEW u \in Threads, u # t PROVE KindFacts(u)' /\ GetFacts(u)'
      <4>1. /\ pc'[u] = pc[u] /\ asks'[u] = asks[u] /\ rep'[u] = rep[u] /\ before'[u] = before[u]
            /\ KindFacts(u) /\ GetFacts(u)
        BY <2>1, <3>1, Zenon DEF Others, GetInv
      <4>2. KindFacts(u)'
        BY <4>1, Zenon DEF KindFacts
      <4>3. ASSUME NEW kind \in {"get", "head"}, Answered(u, kind)'
            PROVE  GetFits(kind, ContentOf(Head(asks[u].keys)), rep[u], before[u], stored')
        <5>1. Answered(u, kind)
          BY <4>1, <4>3, Zenon DEF Answered
        <5>2. GetFits(kind, ContentOf(Head(asks[u].keys)), rep[u], before[u], stored)
          BY <4>1, <5>1, Zenon DEF GetFacts
        <5> QED
          BY <2>1, <5>2, Zenon DEF GetFits
      <4>4. GetFacts(u)'
        BY <4>1, <4>3, Zenon DEF GetFacts
      <4> QED
        BY <4>2, <4>4, Zenon
    <3> QED
      BY <1>1, <2>2, <3>1, Zenon DEF GetInv
  <2>3. ASSUME pc'[t] # "done" \/ asks'[t].kind \notin {"get", "head"}
        PROVE  GetFacts(t)'
    BY <2>3, Zenon DEF GetFacts, Answered
  <2>4. CASE UploadStep(t)
    <3>1. PICK ps : Begun(t, Asks("put", ps, <<>>, {200})) /\ pc'[t] = "put"
      BY <2>4, Zenon DEF UploadStep
    <3>2. asks'[t].kind = "put"
      BY <3>1, AsksFields DEF Begun
    <3>3. KindFacts(t)'
      BY <3>1, <3>2, Zenon DEF KindFacts
    <3> QED
      BY <2>3, <3>1, <3>3, Zenon
  <2>5. CASE StatStep(t)
    <3>1. PICK ks : Begun(t, Asks("stat", <<>>, ks, {200})) /\ pc'[t] = "stat"
      BY <2>5, Zenon DEF StatStep
    <3>2. asks'[t].kind = "stat"
      BY <3>1, AsksFields DEF Begun
    <3>3. KindFacts(t)'
      BY <3>1, <3>2, Zenon DEF KindFacts
    <3> QED
      BY <2>3, <3>1, <3>3, Zenon
  <2>6. CASE EnumerateStep(t)
    <3>1. PICK k : Begun(t, Asks("enumerate", <<>>, <<k>>, {200})) /\ pc'[t] = "done"
      BY <2>6, Zenon DEF EnumerateStep
    <3>2. asks'[t].kind = "enumerate"
      BY <3>1, AsksFields DEF Begun
    <3>3. KindFacts(t)'
      BY <3>1, Zenon DEF KindFacts
    <3> QED
      BY <2>3, <3>2, <3>3, Zenon
  <2>7. CASE GetStep(t)
    <3>1. PICK k \in Asked, kind \in {"get", "head"} :
            /\ Begun(t, Asks(kind, <<>>, <<k>>, {200, 404})) /\ pc'[t] = "done"
            /\ GetReply(kind, k, rep'[t])
      BY <2>7, Zenon DEF GetStep
    <3> DEFINE asked == Asks(kind, <<>>, <<k>>, {200, 404})
    <3>2. asked.kind = kind /\ asked.keys = <<k>>
      BY AsksFields
    <3>3. asks'[t] = asked /\ before'[t] = stored /\ stored' = stored
      BY <3>1, Zenon DEF Begun
    <3> HIDE DEF asked
    <3>4. asks'[t].kind = kind /\ Head(asks'[t].keys) = k
      BY <3>2, <3>3
    <3>5. k \in Keys /\ stored \subseteq Contents
      BY <1>1, AskedAssumption, Zenon DEF UploadInv
    <3>6. /\ ContentOf(k) # {}
          /\ Found(<<BlobRef[k]>>) = ContentOf(k) \cap stored
          /\ \A c, d \in ContentOf(k) : c = d
      BY <3>5, RefFacts, ContentFacts, Zenon
    <3>7. GetFits(kind, ContentOf(k), rep'[t], before'[t], stored')
      <4>1. CASE Found(<<BlobRef[k]>>) = {} /\ rep'[t].status = 404
        <5>1. ~ (ContentOf(k) \subseteq before'[t])
          BY <3>3, <3>6, <4>1
        <5>2. rep'[t].status # 200
          BY <4>1
        <5> QED
          BY <5>1, <5>2, Zenon DEF GetFits
      <4>2. CASE \E c \in Found(<<BlobRef[k]>>) :
                   /\ rep'[t].status = 200
                   /\ kind = "head" => rep'[t].size = Len(c)
                   /\ kind = "get" => rep'[t].body = <<rep'[t].encoding, c>>
        <5>1. PICK c \in Found(<<BlobRef[k]>>) :
                   /\ rep'[t].status = 200
                   /\ kind = "head" => rep'[t].size = Len(c)
                   /\ kind = "get" => rep'[t].body = <<rep'[t].encoding, c>>
          BY <4>2, Zenon
        <5>2. c \in ContentOf(k) /\ c \in stored
          BY <3>6, Zenon
        <5>3. ContentOf(k) \subseteq stored'
          BY <3>3, <3>6, <5>2, Zenon
        <5> QED
          BY <5>1, <5>2, <5>3, Zenon DEF GetFits
      <4>3. CASE kind = "get" /\ Found(<<BlobRef[k]>>) \cap Unreadable # {} /\ rep'[t].status = 404
        <5>1. ContentOf(k) \cap Unreadable # {}
          BY <3>6, <4>3, Zenon
        <5>2. rep'[t].status # 200
          BY <4>3
        <5> QED
          BY <4>3, <5>1, <5>2, Zenon DEF GetFits
      <4> QED
        BY <3>1, <4>1, <4>2, <4>3, ZenonT(30) DEF GetReply
    <3>8. ASSUME NEW j \in {"get", "head"}, Answered(t, j)' PROVE j = kind
      BY <3>4, <3>8, Zenon DEF Answered
    <3>9. GetFacts(t)'
      BY <3>4, <3>7, <3>8, Zenon DEF GetFacts
    <3>10. KindFacts(t)'
      BY <3>1, Zenon DEF KindFacts
    <3> QED
      BY <3>9, <3>10, Zenon
  <2>8. CASE OtherStep(t)
    <3>1. PICK o \in OtherRequests : Begun(t, Asks("other", <<>>, <<>>, o.statuses))
      BY <2>8, Zenon DEF OtherStep
    <3>2. asks'[t].kind = "other"
      BY <3>1, AsksFields DEF Begun
    <3>3. KindFacts(t)'
      BY <3>2, Zenon DEF KindFacts
    <3> QED
      BY <2>3, <3>2, <3>3, Zenon
  <2>9. CASE AddStep(t) \/ LookupStep(t)
    <3>1. pc[t] \in {"put", "stat"} /\ UNCHANGED <<pc, asks>>
      BY <2>9, Zenon DEF AddStep, LookupStep
    <3>2. KindFacts(t)'
      BY <2>1, <3>1, Zenon DEF KindFacts
    <3> QED
      BY <2>3, <3>1, <3>2, Zenon
  <2>10. CASE PutAnswerStep(t) \/ StatAnswerStep(t)
    <3>1. pc[t] \in {"put", "stat"} /\ pc'[t] = "done" /\ asks' = asks
      BY <2>10, Zenon DEF PutAnswerStep, StatAnswerStep
    <3>2. asks'[t].kind \notin {"get", "head"}
      BY <2>1, <3>1, Zenon DEF KindFacts
    <3>3. KindFacts(t)'
      BY <3>1, Zenon DEF KindFacts
    <3> QED
      BY <2>3, <3>2, <3>3, Zenon
  <2>11. CASE WrittenStep(t)
    <3>1. pc'[t] = "idle"
      BY <2>11, Zenon DEF WrittenStep
    <3> QED
      BY <2>3, <3>1, Zenon DEF KindFacts
  <2> QED
    BY <1>4, <2>4, <2>5, <2>6, <2>7, <2>8, <2>9, <2>10, <2>11, Zenon DEF Step
<1> QED
  BY <1>2, <1>3, <1>4, Zenon

(***************************************************************************)
(* GetInv is an invariant.                                                 *)
(***************************************************************************)
LEMMA GetInvariant ==
  ASSUME StatsDecoded, AllDecoded, DistinctCStrings
  PROVE  Spec => []GetInv
<1>1. Init => GetInv
  <2> SUFFICES ASSUME Init PROVE GetInv
    BY Zenon
  <2>1. \A t \in Threads : pc[t] = "idle"
    BY Zenon DEF Init
  <2>2. \A t \in Threads : KindFacts(t) /\ GetFacts(t)
    BY <2>1, Zenon DEF KindFacts, GetFacts, Answered
  <2> QED
    BY <2>2, UploadFirst, Zenon DEF GetInv
<1>2. GetInv /\ [Next]_vars => GetInv'
  BY GetPreserved, Zenon
<1> QED
  BY <1>1, <1>2, PTL DEF Spec

(***************************************************************************)
(* GET and HEAD find what is stored, if the requests are decoded.          *)
(***************************************************************************)
LEMMA FoundThen ==
  ASSUME StatsDecoded, AllDecoded, DistinctCStrings
  PROVE  Spec => []FoundAsStored
<1>1. GetInv => FoundAsStored
  BY Zenon DEF GetInv, GetFacts, GetFits, FoundAsStored
<1> QED
  BY <1>1, GetInvariant, PTL

------------------------------------------------------------------------------
(***************************************************************************)
(* The entry of a key in a stat reply, and all that may be listed.         *)
(***************************************************************************)
Entry(k) == {[blobRef |-> <<BlobRef[k]>>, size |-> Len(c)] : c \in ContentOf(k)}

Entries(asked, now) == UNION {Entry(k) : k \in {j \in asked : ContentOf(j) \subseteq now}}

(***************************************************************************)
(* The lookups so far: what is missing in the list and was stored when the *)
(* request came in is still to be looked up.                               *)
(***************************************************************************)
ListFits(refs, list, asked, old, now) ==
  /\ asked \subseteq Keys
  /\ refs \in Seq(RefsOf(asked))
  /\ list \in Seq(Entries(asked, now))
  /\ old \subseteq now
  /\ \A k \in asked : ContentOf(k) \subseteq old =>
       Entry(k) \subseteq Range(list) \/ <<BlobRef[k]>> \in Range(refs)

(***************************************************************************)
(* StatAnswersAsked, of one thread.                                        *)
(***************************************************************************)
StatFits(list, asked, old, now) ==
  /\ \A k \in asked : ContentOf(k) \subseteq old => Entry(k) \subseteq Range(list)
  /\ Range(list) \subseteq Entries(asked, now)

StatFacts(t) ==
  /\ pc[t] = "idle" => stat[t] = <<>>
  /\ pc[t] = "stat" /\ asks[t].kind = "stat" =>
       ListFits(blobs[t], stat[t], Range(asks[t].keys), before[t], stored)
  /\ Answered(t, "stat") => StatFits(rep[t].stat, Range(asks[t].keys), before[t], stored)

StatInv == GetInv /\ \A t \in Threads : StatFacts(t)

(***************************************************************************)
(* The elements of a sequence that is one longer.                          *)
(***************************************************************************)
LEMMA LongerFacts ==
  ASSUME NEW S, NEW s \in Seq(S), NEW e \in S
  PROVE  Append(s, e) \in Seq(S) /\ Range(s) \subseteq Range(Append(s, e)) /\ e \in Range(Append(s, e))
<1>1. /\ Append(s, e) \in Seq(S) /\ Len(s) \in Nat /\ Len(Append(s, e)) = Len(s) + 1
      /\ \A i \in 1 .. Len(s) : Append(s, e)[i] = s[i]
      /\ Append(s, e)[Len(s) + 1] = e
  OBVIOUS
<1>2. DOMAIN s = 1 .. Len(s) /\ DOMAIN Append(s, e) = 1 .. Len(s) + 1
  BY <1>1
<1>3. 1 .. Len(s) \subseteq 1 .. Len(s) + 1 /\ Len(s) + 1 \in 1 .. Len(s) + 1
  BY <1>1
<1> QED
  BY <1>1, <1>2, <1>3, Zenon DEF Range

(***************************************************************************)
(* What is stored later is listed later.                                   *)
(***************************************************************************)
LEMMA EntriesGrow ==
  ASSUME NEW asked, NEW now, NEW later, now \subseteq later
  PROVE  Entries(asked, now) \subseteq Entries(asked, later)
BY Zenon DEF Entries

(***************************************************************************)
(* Sequences over a larger set.                                            *)
(***************************************************************************)
LEMMA SeqGrows ==
  ASSUME NEW S, NEW T, S \subseteq T, NEW s \in Seq(S)
  PROVE  s \in Seq(T)
OBVIOUS

(***************************************************************************)
(* What other threads store meanwhile does not spoil a list.               *)
(***************************************************************************)
LEMMA ListKeeps ==
  ASSUME NEW refs, NEW list, NEW asked, NEW old, NEW now, NEW later, now \subseteq later
  PROVE  /\ ListFits(refs, list, asked, old, now) => ListFits(refs, list, asked, old, later)
         /\ StatFits(list, asked, old, now) => StatFits(list, asked, old, later)
<1>1. Entries(asked, now) \subseteq Entries(asked, later)
  BY EntriesGrow, Zenon
<1>2. ListFits(refs, list, asked, old, now) => ListFits(refs, list, asked, old, later)
  BY <1>1, SeqGrows, Zenon DEF ListFits
<1>3. StatFits(list, asked, old, now) => StatFits(list, asked, old, later)
  BY <1>1, Zenon DEF StatFits
<1> QED
  BY <1>2, <1>3, Zenon

(***************************************************************************)
(* Before the first lookup nothing is listed, and everything asked for is  *)
(* to be looked up.                                                        *)
(***************************************************************************)
LEMMA ListBegins ==
  ASSUME NEW ks \in Batches, NEW refs, AllOf(ks, refs), NEW now
  PROVE  ListFits(refs, <<>>, Range(ks), now, now)
<1>1. ks \in Seq(Keys)
  BY BatchesAssumption, Zenon
<1>2. Range(ks) \subseteq Keys
  BY <1>1 DEF Range
<1>3. \A k \in Range(ks) : <<BlobRef[k]>> \in Range(refs)
  BY Zenon DEF AllOf, RefsOf
<1>4. <<>> \in Seq(Entries(Range(ks), now))
  OBVIOUS
<1> QED
  BY <1>2, <1>3, <1>4, Zenon DEF ListFits, AllOf

(***************************************************************************)
(* One lookup: a reference that was stored when the request came in is     *)
(* found, since nothing is removed, and its entry is appended.             *)
(***************************************************************************)
LEMMA ListGoesOn ==
  ASSUME DistinctCStrings, stored \subseteq Contents,
         NEW refs, NEW list, NEW asked, NEW old, ListFits(refs, list, asked, old, stored),
         refs # <<>>, NEW longer,
         \/ Found(Head(refs)) = {} /\ longer = list
         \/ \E c \in Found(Head(refs)) :
              longer = Append(list, [blobRef |-> Head(refs), size |-> Len(c)])
  PROVE  ListFits(Tail(refs), longer, asked, old, stored)
<1> DEFINE first == Head(refs)
<1>1. /\ first \in RefsOf(asked) /\ Tail(refs) \in Seq(RefsOf(asked))
      /\ Range(refs) = {first} \cup Range(Tail(refs))
  BY HeadTailFacts, Zenon DEF ListFits
<1>2. PICK k \in asked : first = <<BlobRef[k]>>
  BY <1>1, Zenon DEF RefsOf
<1>3. k \in Keys
  BY <1>2, Zenon DEF ListFits
<1>4. /\ ContentOf(k) # {}
      /\ Found(first) = ContentOf(k) \cap stored
      /\ \A c, d \in ContentOf(k) : c = d
  BY <1>2, <1>3, RefFacts, ContentFacts, Zenon
<1>5. ASSUME NEW j \in asked, <<BlobRef[j]>> = first PROVE j = k
  <2>1. j \in Keys
    BY Zenon DEF ListFits
  <2>2. create_blob_key(<<BlobRef[j]>>) = j /\ create_blob_key(<<BlobRef[k]>>) = k
    BY <1>3, <2>1, RefFacts, Zenon
  <2> QED
    BY <1>2, <1>5, <2>2, Zenon
<1> HIDE DEF first
<1>6. CASE Found(first) = {} /\ longer = list
  <2>1. old \subseteq stored
    BY Zenon DEF ListFits
  <2>2. ~ (ContentOf(k) \subseteq old)
    BY <1>4, <1>6, <2>1, Zenon
  <2>3. ASSUME NEW j \in asked, ContentOf(j) \subseteq old
        PROVE  Entry(j) \subseteq Range(longer) \/ <<BlobRef[j]>> \in Range(Tail(refs))
    <3>1. <<BlobRef[j]>> # first
      BY <1>5, <2>2, <2>3, Zenon
    <3> QED
      BY <1>1, <1>6, <2>3, <3>1, Zenon DEF ListFits
  <2> QED
    BY <1>1, <1>6, <2>3, Zenon DEF ListFits
<1>7. CASE \E c \in Found(first) : longer = Append(list, [blobRef |-> first, size |-> Len(c)])
  <2>1. PICK c \in Found(first) : longer = Append(list, [blobRef |-> first, size |-> Len(c)])
    BY <1>7, Zenon
  <2> DEFINE entry == [blobRef |-> first, size |-> Len(c)]
  <2>2. c \in ContentOf(k) /\ ContentOf(k) = {c} /\ ContentOf(k) \subseteq stored
    BY <1>4, Zenon
  <2>3. Entry(k) = {entry}
    BY <1>2, <2>2, Zenon DEF Entry
  <2>4. longer = Append(list, entry)
    BY <2>1, Zenon
  <2> HIDE DEF entry
  <2>5. entry \in Entries(asked, stored)
    BY <1>2, <2>2, <2>3, Zenon DEF Entries
  <2>6. /\ longer \in Seq(Entries(asked, stored))
        /\ Range(list) \subseteq Range(longer) /\ entry \in Range(longer)
    BY <2>4, <2>5, LongerFacts, Zenon DEF ListFits
  <2>7. ASSUME NEW j \in asked, ContentOf(j) \subseteq old
        PROVE  Entry(j) \subseteq Range(longer) \/ <<BlobRef[j]>> \in Range(Tail(refs))
    <3>1. CASE <<BlobRef[j]>> = first
      BY <1>5, <2>3, <2>6, <3>1, Zenon
    <3>2. CASE <<BlobRef[j]>> # first
      BY <1>1, <2>6, <2>7, <3>2, Zenon DEF ListFits
    <3> QED
      BY <3>1, <3>2, Zenon
  <2> QED
    BY <1>1, <2>6, <2>7, Zenon DEF ListFits
<1> QED
  BY <1>6, <1>7, Zenon DEF first

(***************************************************************************)
(* When nothing is left to look up the list is complete.                   *)
(***************************************************************************)
LEMMA ListEnds ==
  ASSUME NEW list, NEW asked, NEW old, NEW now, ListFits(<<>>, list, asked, old, now)
  PROVE  StatFits(list, asked, old, now)
<1>1. list \in Seq(Entries(asked, now))
  BY Zenon DEF ListFits
<1>2. Range(list) \subseteq Entries(asked, now)
  BY <1>1 DEF Range
<1> QED
  BY <1>2, NoneRange, Zenon DEF ListFits, StatFits

(***************************************************************************)
(* Every step keeps StatInv.                                               *)
(***************************************************************************)
LEMMA StatPreserved ==
  ASSUME StatsDecoded, AllDecoded, DistinctCStrings, StatInv, [Next]_vars
  PROVE  StatInv'
<1>1. GetInv' /\ GetInv /\ UploadInv
  BY GetPreserved, Zenon DEF StatInv, GetInv
<1>2. UNCHANGED vars \/ \E t \in Threads : Step(t)
  BY <1>1, Steps, Zenon DEF UploadInv
<1>3. CASE UNCHANGED vars
  BY <1>1, <1>3, Zenon DEF vars, StatInv, StatFacts, Answered
<1>4. ASSUME NEW t \in Threads, Step(t) PROVE StatInv'
  <2>1. Others(t) /\ KindFacts(t) /\ StatFacts(t) /\ stored \subseteq stored'
    BY <1>1, <1>4, StoredGrows, Zenon DEF Step, GetInv, StatInv
  <2>2. SUFFICES StatFacts(t)'
    <3>1. ASSUME NEW u \in Threads, u # t PROVE StatFacts(u)'
      <4>1. /\ pc'[u] = pc[u] /\ asks'[u] = asks[u] /\ blobs'[u] = blobs[u] /\ stat'[u] = stat[u]
            /\ rep'[u] = rep[u] /\ before'[u] = before[u]
            /\ StatFacts(u)
        BY <2>1, <3>1, ZenonT(30) DEF Others, StatInv
      <4> DEFINE asked == Range(asks[u].keys)
      <4>2. /\ ListFits(blobs[u], stat[u], asked, before[u], stored) =>
                 ListFits(blobs[u], stat[u], asked, before[u], stored')
            /\ StatFits(rep[u].stat, asked, before[u], stored) =>
                 StatFits(rep[u].stat, asked, before[u], stored')
        BY <2>1, ListKeeps, Zenon
      <4> QED
        BY <4>1, <4>2, ZenonT(30) DEF StatFacts, Answered
    <3> QED
      BY <1>1, <2>2, <3>1, Zenon DEF StatInv
  <2>3. ASSUME pc'[t] \in {"put", "stat", "done"}, asks'[t].kind # "stat"
        PROVE  StatFacts(t)'
    BY <2>3, Zenon DEF StatFacts, Answered
  <2>4. CASE UploadStep(t)
    <3>1. PICK ps : Begun(t, Asks("put", ps, <<>>, {200})) /\ pc'[t] = "put"
      BY <2>4 DEF UploadStep
    <3>2. asks'[t].kind = "put"
      BY <3>1, AsksFields DEF Begun
    <3> QED
      BY <2>3, <3>1, <3>2, Zenon
  <2>5. CASE StatStep(t)
    <3>1. PICK ks \in Batches :
            /\ Begun(t, Asks("stat", <<>>, ks, {200})) /\ pc'[t] = "stat"
            /\ AllOf(ks, blobs'[t])
      BY <2>5, Zenon DEF StatStep
    <3>2. asks'[t].keys = ks
      BY <3>1, AsksFields, SMTT(20) DEF Begun
    <3>3. stat'[t] = <<>> /\ before'[t] = stored /\ stored' = stored
      BY <2>1, <3>1, Zenon DEF Begun, StatFacts
    <3>4. ListFits(blobs'[t], <<>>, Range(ks), stored, stored)
      BY <3>1, ListBegins, Zenon
    <3>5. ListFits(blobs'[t], stat'[t], Range(asks'[t].keys), before'[t], stored')
      BY <3>2, <3>3, <3>4, Zenon
    <3> QED
      BY <3>1, <3>5, Zenon DEF StatFacts, Answered
  <2>6. CASE EnumerateStep(t)
    <3>1. PICK k : Begun(t, Asks("enumerate", <<>>, <<k>>, {200})) /\ pc'[t] = "done"
      BY <2>6, Zenon DEF EnumerateStep
    <3>2. asks'[t].kind = "enumerate"
      BY <3>1, AsksFields DEF Begun
    <3> QED
      BY <2>3, <3>1, <3>2, Zenon
  <2>7. CASE GetStep(t)
    <3>1. PICK k \in Asked, kind \in {"get", "head"} :
            Begun(t, Asks(kind, <<>>, <<k>>, {200, 404})) /\ pc'[t] = "done"
      BY <2>7, SMTT(20) DEF GetStep
    <3>2. asks'[t].kind = kind
      BY <3>1, AsksFields, SMTT(20) DEF Begun
    <3> QED
      BY <2>3, <3>1, <3>2, Zenon
  <2>8. CASE OtherStep(t)
    <3>1. PICK o \in OtherRequests :
            Begun(t, Asks("other", <<>>, <<>>, o.statuses)) /\ pc'[t] \in {"put", "stat", "done"}
      BY <2>8, Zenon DEF OtherStep
    <3>2. asks'[t].kind = "other"
      BY <3>1, AsksFields, SMTT(20) DEF Begun
    <3> QED
      BY <2>3, <3>1, <3>2, Zenon
  <2>9. CASE AddStep(t) \/ PutAnswerStep(t)
    <3>1. pc[t] = "put" /\ pc'[t] \in {"put", "done"} /\ asks' = asks
      BY <2>9, Zenon DEF AddStep, PutAnswerStep
    <3>2. asks'[t].kind # "stat"
      BY <2>1, <3>1, Zenon DEF KindFacts
    <3> QED
      BY <2>3, <3>1, <3>2, Zenon
  <2>10. CASE LookupStep(t)
    <3>1. /\ pc[t] = "stat" /\ blobs[t] # <<>> /\ blobs'[t] = Tail(blobs[t])
          /\ \/ Found(Head(blobs[t])) = {} /\ stat'[t] = stat[t]
             \/ \E c \in Found(Head(blobs[t])) :
                  stat'[t] = Append(stat[t], [blobRef |-> Head(blobs[t]), size |-> Len(c)])
          /\ UNCHANGED <<stored, pc, asks, before>>
      BY <2>10, Zenon DEF LookupStep
    <3>2. CASE asks[t].kind # "stat"
      BY <2>3, <3>1, <3>2, Zenon
    <3>3. CASE asks[t].kind = "stat"
      <4>1. ListFits(blobs[t], stat[t], Range(asks[t].keys), before[t], stored)
        BY <2>1, <3>1, <3>3, Zenon DEF StatFacts
      <4>2. stored \subseteq Contents
        BY <1>1, Zenon DEF UploadInv
      <4>3. ListFits(Tail(blobs[t]), stat'[t], Range(asks[t].keys), before[t], stored)
        BY <3>1, <4>1, <4>2, ListGoesOn, ZenonT(30)
      <4>4. ListFits(blobs'[t], stat'[t], Range(asks'[t].keys), before'[t], stored')
        BY <3>1, <4>3, Zenon
      <4> QED
        BY <3>1, <4>4, ZenonT(30) DEF StatFacts, Answered
    <3> QED
      BY <3>2, <3>3, Zenon
  <2>11. CASE StatAnswerStep(t)
    <3>1. /\ pc[t] = "stat" /\ blobs[t] = <<>> /\ pc'[t] = "done" /\ rep'[t].stat = stat[t]
          /\ UNCHANGED <<stored, asks, before>>
      BY <2>11, Zenon DEF StatAnswerStep
    <3>2. CASE asks[t].kind # "stat"
      BY <2>3, <3>1, <3>2, Zenon
    <3>3. CASE asks[t].kind = "stat"
      <4>1. ListFits(<<>>, stat[t], Range(asks[t].keys), before[t], stored)
        BY <2>1, <3>1, <3>3, ZenonT(30) DEF StatFacts
      <4>2. StatFits(stat[t], Range(asks[t].keys), before[t], stored)
        BY <4>1, ListEnds, Zenon
      <4>3. StatFits(rep'[t].stat, Range(asks'[t].keys), before'[t], stored')
        BY <3>1, <4>2, Zenon
      <4> QED
        BY <3>1, <4>3, Zenon DEF StatFacts, Answered
    <3> QED
      BY <3>2, <3>3
  <2>12. CASE WrittenStep(t)
    BY <2>12, Zenon DEF WrittenStep, StatFacts, Answered
  <2> QED
    BY <1>4, <2>4, <2>5, <2>6, <2>7, <2>8, <2>9, <2>10, <2>11, <2>12, Zenon DEF Step
<1> QED
  BY <1>2, <1>3, <1>4

(***************************************************************************)
(* A stat reply lists what was asked for, if the requests are decoded.     *)
(***************************************************************************)
LEMMA StatAnswersThen ==
  ASSUME StatsDecoded, AllDecoded, DistinctCStrings
  PROVE  Spec => []StatAnswersAsked
<1>1. Init /\ GetInv => StatInv
  <2> SUFFICES ASSUME Init, GetInv PROVE StatInv
    BY Zenon
  <2>1. \A t \in Threads : pc[t] = "idle" /\ stat[t] = <<>>
    BY Zenon DEF Init
  <2> QED
    BY <2>1, Zenon DEF StatInv, StatFacts, Answered
<1>2. StatInv /\ [Next]_vars => StatInv'
  BY StatPreserved
<1>3. StatInv => StatAnswersAsked
  BY Zenon DEF StatInv, StatFacts, StatFits, Entries, Entry, StatAnswersAsked
<1> QED
  BY <1>1, <1>2, <1>3, GetInvariant, PTL DEF Spec
==============================================================================
