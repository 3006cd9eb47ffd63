------------------------------ MODULE Multipart ------------------------------
(***************************************************************************)
(* Multipart form data as the server reads it (boost-multipart-form.h,     *)
(* boost-multipart-form.cpp).  The Boost.Spirit rules are greedy and       *)
(* ordered: what a rule matches at a position is determined, so each one   *)
(* is an operator from a text and a position to the position behind the    *)
(* match.  Positions count from 1, and 0 says that the rule fails.         *)
(*                                                                         *)
(* A text is a sequence of bytes in which a carriage return stands for the *)
(* two bytes CR LF.                                                        *)
(***************************************************************************)
EXTENDS Integers, Sequences, FiniteSetsExt, Functions

CRLF == 13

LF == 10

Space == 32

Quote == 34

Dash == 45

Colon == 58

Semicolon == 59

Equals == 61

IsEol(c) == c \in {CRLF, LF}

(***************************************************************************)
(* ascii::char_ matches no byte above 127.                                 *)
(***************************************************************************)
IsAscii(c) == c < 128

(***************************************************************************)
(* The position behind the longest run of characters at i that pass Test.  *)
(***************************************************************************)
RunEnd(text, i, Test(_)) ==
  Min({j \in i .. Len(text) + 1 : j = Len(text) + 1 \/ ~ Test(text[j])})

Is(text, i, c) == i \in DOMAIN text /\ text[i] = c

HasAt(text, i, word) ==
  i + Len(word) <= Len(text) + 1 /\ SubSeq(text, i, i + Len(word) - 1) = word

(***************************************************************************)
(* std::string::find kept in an unsigned: the position, or 0 for npos,     *)
(* which is what the code's `split + 1' wraps to.  No comparison of such   *)
(* an unsigned with std::string::npos is ever true.                        *)
(***************************************************************************)
Find(text, c) ==
  LET found == {i \in DOMAIN text : text[i] = c}
  IN  IF found = {} THEN 0 ELSE Min(found)

Before(text, i) == IF i = 0 THEN text ELSE SubSeq(text, 1, i - 1)

After(text, i) == SubSeq(text, i + 1, Len(text))

(***************************************************************************)
(* A std::map filled with insert: the first value of a name stays.         *)
(***************************************************************************)
MapOf(pairs) ==
  [n \in {pairs[k].name : k \in DOMAIN pairs} |->
     pairs[Min({k \in DOMAIN pairs : pairs[k].name = n})].value]

------------------------------------------------------------------------------
(***************************************************************************)
(* A form as curl and browsers write it, with the boundary 'X' and one     *)
(* header line, "n:f", in each part.                                       *)
(***************************************************************************)
Boundary == <<88>>

FormPart(payload) ==
  <<Dash, Dash>> \o Boundary \o <<CRLF, 110, Colon, 102, CRLF, CRLF>> \o payload \o <<CRLF>>

FormEnd == <<Dash, Dash>> \o Boundary \o <<Dash, Dash, CRLF>>

FormFrom(payloads) ==
  LET from[k \in 1 .. Len(payloads) + 1] ==
        IF k > Len(payloads) THEN FormEnd ELSE FormPart(payloads[k]) \o from[k + 1]
  IN  from

Form(payloads) == FormFrom(payloads)[1]

(***************************************************************************)
(* multipart/form-data; boundary=X, where 'm' stands for the type and 'B'  *)
(* for the word boundary.                                                  *)
(***************************************************************************)
FormType == <<109, Semicolon, Space, 66, Equals>> \o Boundary

------------------------------------------------------------------------------
(***************************************************************************)
(* header_tokens: pair >> *(';' >> *" " >> pair).  A value is quoted, or   *)
(* it is the whole rest of the header, further parameters included.  A     *)
(* quote that is not closed has its text twice in the value: Spirit does   *)
(* not take back what the first alternative has appended.                  *)
(***************************************************************************)
HeaderPair(text, i) ==
  LET k   == RunEnd(text, i, LAMBDA c : IsAscii(c) /\ c \notin {Equals, Semicolon})
      q   == RunEnd(text, k + 2, LAMBDA c : IsAscii(c) /\ c # Quote)
      e   == RunEnd(text, k + 1, IsAscii)
      Pair(value, end) == [name |-> SubSeq(text, i, k - 1), value |-> value, end |-> end]
  IN  IF k = i THEN [name |-> <<>>, value |-> <<>>, end |-> 0]
      ELSE IF ~ Is(text, k, Equals) \/ e = k + 1 THEN Pair(<<>>, k)
      ELSE IF ~ Is(text, k + 1, Quote) THEN Pair(SubSeq(text, k + 1, e - 1), e)
      ELSE IF q > k + 2 /\ Is(text, q, Quote)
      THEN Pair(SubSeq(text, k + 2, q - 1), q + 1)
      ELSE Pair(SubSeq(text, k + 2, q - 1) \o SubSeq(text, k + 1, e - 1), e)

HeaderPairs(text) ==
  LET from[i \in 1 .. Len(text) + 1] ==
        LET p == HeaderPair(text, i)
        IN  IF p.end = 0 THEN <<>>
            ELSE <<p>> \o (IF Is(text, p.end, Semicolon)
                           THEN from[RunEnd(text, p.end + 1, LAMBDA c : c = Space)]
                           ELSE <<>>)
  IN  from[1]

(***************************************************************************)
(* Header::attributeValue, as the set of its at most one result.  Names    *)
(* are compared without regard to case.                                    *)
(***************************************************************************)
ToLower(c) == IF c \in 65 .. 90 THEN c + 32 ELSE c

Lower(text) == [i \in DOMAIN text |-> ToLower(text[i])]

attributeValue(attributes, name) ==
  {attributes[n] : n \in {m \in DOMAIN attributes : Lower(m) = Lower(name)}}

------------------------------------------------------------------------------
(***************************************************************************)
(* chunks: chunk >> *chunk >> end_boundry.  A boundary ends a chunk        *)
(* wherever it stands, at the beginning of a line or not.                  *)
(***************************************************************************)
ChunkBoundary(text, i, boundary) ==
  LET line == <<Dash, Dash>> \o boundary
  IN  /\ HasAt(text, i, line)
      /\ i + Len(line) \in DOMAIN text
      /\ IsEol(text[i + Len(line)])

EndBoundary(text, i, boundary) ==
  HasAt(text, i, <<Dash, Dash>> \o boundary \o <<Dash, Dash>>)

(***************************************************************************)
(* The values of the chunks from position i on, and <<>> if the grammar    *)
(* does not match there: a byte above 127 in any chunk, an empty chunk or  *)
(* a missing end makes the whole parse fail.                               *)
(***************************************************************************)
ChunkValues(text, boundary) ==
  LET values[i \in 1 .. Len(text) + 1] ==
        LET v == i + Len(boundary) + 3
            e == Min({j \in v .. Len(text) + 1 :
                        \/ j = Len(text) + 1
                        \/ ~ IsAscii(text[j])
                        \/ ChunkBoundary(text, j, boundary)
                        \/ EndBoundary(text, j, boundary)})
        IN  IF ~ ChunkBoundary(text, i, boundary) THEN <<>>
            ELSE IF e = v THEN <<>>
            ELSE IF EndBoundary(text, e, boundary) THEN <<SubSeq(text, v, e - 1)>>
            ELSE IF values[e] = <<>> THEN <<>>
            ELSE <<SubSeq(text, v, e - 1)>> \o values[e]
  IN  values[1]

(***************************************************************************)
(* chunk_tokens: *header >> eol >> *body.  The header lines and, if it is  *)
(* not empty, the body; <<>> also if there is no empty line.               *)
(***************************************************************************)
ChunkTokens(chunk) ==
  LET from[i \in 1 .. Len(chunk) + 1] ==
        LET e == RunEnd(chunk, i, LAMBDA c : ~ IsEol(c))
            body == SubSeq(chunk, i + 1, Len(chunk))
        IN  IF e = Len(chunk) + 1 THEN [ok |-> FALSE, tokens |-> <<>>]
            ELSE IF e = i
            THEN [ok |-> TRUE, tokens |-> IF body = <<>> THEN <<>> ELSE <<body>>]
            ELSE [from[e + 1] EXCEPT !.tokens = <<SubSeq(chunk, i, e - 1)>> \o @]
  IN  from[1]

(***************************************************************************)
(* Mutant: the line end before a boundary is left in the payload.          *)
(***************************************************************************)
EraseNothing(text) == text

(***************************************************************************)
(* boost::erase_last(chunk, "\r\n").                                       *)
(***************************************************************************)
EraseLast(text) ==
  LET ends == {i \in DOMAIN text : text[i] = CRLF}
  IN  IF ends = {} THEN text ELSE Before(text, Max(ends)) \o After(text, Max(ends))

(***************************************************************************)
(* Part::add_header: a line without a colon becomes a header whose name    *)
(* and value are both the whole line.                                      *)
(***************************************************************************)
AddHeader(headers, line) ==
  LET split == Find(line, Colon)
      pairs == HeaderPairs(After(line, split))
  IN  IF pairs = <<>> THEN headers
      ELSE Append(headers, [name |-> Before(line, split), attributes |-> MapOf(pairs)])

(***************************************************************************)
(* The tokens of a chunk from the last to the first: the last one is the   *)
(* payload (of a chunk without a body, its last header line is).           *)
(***************************************************************************)
PayloadOf(tokens) == IF tokens = <<>> THEN <<>> ELSE EraseLast(tokens[Len(tokens)])

HeadersOf(tokens) ==
  LET from[k \in 1 .. Len(tokens)] ==
        IF k = Len(tokens) THEN <<>> ELSE AddHeader(from[k + 1], tokens[k])
  IN  IF tokens = <<>> THEN <<>> ELSE from[1]

PartOf(tokens) == [payload |-> PayloadOf(tokens), headers |-> HeadersOf(tokens)]

AddPart(parts, chunk) ==
  IF chunk.ok THEN Append(parts, PartOf(chunk.tokens)) ELSE parts

(***************************************************************************)
(* MultiPartFormData::MultiPartFormData: the parts of the chunks that can  *)
(* be split; no part at all if the text is not a form of this boundary.    *)
(***************************************************************************)
PartsOf(chunks) ==
  LET parts[k \in 0 .. Len(chunks)] ==
        IF k = 0 THEN <<>> ELSE AddPart(parts[k - 1], ChunkTokens(chunks[k]))
  IN  parts[Len(chunks)]

MultiPartFormData(boundary, input) == PartsOf(ChunkValues(input, boundary))
==============================================================================
