--------------------------- MODULE MCRequestHandler ---------------------------
(***************************************************************************)
(* Instances of RequestHandler for TLC.  The payloads are an ordinary      *)
(* character with line ends before, behind and after it.                   *)
(***************************************************************************)
EXTENDS RequestHandler, SequencesExt, TLC

x == 120

TextContents == {<<x>>, <<x, CRLF>>, <<CRLF, LF, x>>}

BinaryContents == {<<x>>, <<233>>}

Number(s) == FoldLeft(LAMBDA n, byte : 251 * n + byte, 1, s) % 100003

MCSha1 == [s \in CStrings |-> Number(s)]

MCSha256 == [s \in CStrings |-> 200000 - Number(s)]

MCBlobRef == [k \in Keys |-> (IF k.hash_type = sha1 THEN "sha1-" ELSE "sha256-") \o ToString(k.hash_value)]

MCUnreadable == {<<CRLF, LF, x>>} \cap Contents

MCUploads ==
  {<<c>> : c \in Contents} \cup {<<<<>>, <<x>>>>}
    \cup {ps \in {<<<<x>>, <<x, CRLF>>>>} : Range(ps) \subseteq Contents}

MCAsked ==
  {BlobKeyFor(sha1, <<x>>), BlobKeyFor(sha256, <<x, CRLF>>)}
    \cup {BlobKeyFor(sha1, c) : c \in MCUnreadable}

MCBlobName ==
  <<"blob1", "blob2", "blob3", "blob4", "blob5", "blob6", "blob7", "blob8", "blob9", "blob10">>

MCNames == <<"after", "blob1", "blob10">> \o SubSeq(MCBlobName, 2, 9) \o <<"camliversion">>

(***************************************************************************)
(* Ten keys are one more than names whose order is that of their numbers.  *)
(***************************************************************************)
MCBatches ==
  LET one == BlobKeyFor(sha1, <<x>>)
      two == BlobKeyFor(sha256, <<x, CRLF>>)
  IN  {<<>>, <<one>>, <<two, one>>, <<one, one>>} \cup {[n \in 1 .. 10 |-> IF n = 10 THEN two ELSE one]}

(***************************************************************************)
(* Requests for each early return the code can take.  The one of stat for  *)
(* a missing camliversion it cannot: its test means 400, and the request   *)
(* has the status the code gives.                                          *)
(***************************************************************************)
Other(method, uri, headers, statuses) ==
  [request |-> Request(method, uri, headers, NoText), statuses |-> statuses]

MCOtherRequests ==
  {Other("GET", <<"/", "%zz">>, <<>>, {400}),
   Other("GET", <<"/", "static", "/", "%">>, <<>>, {400}),
   Other("GET", <<>>, <<>>, {400}),
   Other("GET", <<"static">>, <<>>, {400}),
   Other("GET", <<"/", "static", "/", "%2E", ".", "/", "x">>, <<>>, {400}),
   Other("DELETE", <<"/", "x">>, <<>>, {400}),
   Other("PUT", <<"/", "upload">>, <<>>, {400}),
   Other("PUT", <<"/", "upload">>, <<Header("content-type", <<109>>)>>, {200}),
   Other("GET", <<"/", "stat", "?", "blob1", "=", "x">>, <<>>, {200}),
   Other("HEAD", <<"/", "stat">>, <<>>, {200}),
   Other("GET", <<"/", "static", "%2F">>, <<>>, {200}),
   Other("GET", <<"/", "static", "/", "a", "+", "b">>, <<>>, {404})}

MCStaticFiles == [f \in {<<"/", "static", "/", "index", ".", "html">>} |-> <<x>>]

Symmetry == Permutations(Threads)
===============================================================================
