----------------------------- MODULE RequestParser -----------------------------
(***************************************************************************)
(* request_parser.cpp: the state machine that turns the bytes of a         *)
(* connection, one at a time, into a request.                              *)
(*                                                                         *)
(* A byte is one of the characters the machine tells apart; the header     *)
(* name "content-length" is the one-letter name "c", so that reading a     *)
(* name, the change to lower case and the look-up stay what they are.  The *)
(* HTTP version numbers are not kept: nothing reads them.                  *)
(***************************************************************************)
EXTENDS Integers, Sequences, FiniteSetsExt

CONSTANTS
  IntWidth,    \* bits of an int
  LongWidth,   \* bits of a long, which atoi goes through
  MaxContent   \* 16 * 1024 * 1024

ASSUME WidthAssumption ==
  /\ IntWidth \in Nat \ {0} /\ LongWidth \in Nat /\ LongWidth >= IntWidth
  /\ MaxContent \in Nat \ {0} /\ MaxContent < 2 ^ (IntWidth - 1)
  /\ {2 ^ IntWidth, 2 ^ (IntWidth - 1), 2 ^ (LongWidth - 1)} \subseteq Nat \ {0}

SP == " "

HT == "\t"

CR == "\r"

LF == "\n"

NonAscii == "0x80"

Numerals == <<"0", "1", "2", "3", "4", "5", "6", "7", "8", "9">>

(***************************************************************************)
(* "a" stands for the letters without a meaning of their own, and "(" for  *)
(* the tspecials without one.                                              *)
(***************************************************************************)
Char ==
  {SP, HT, CR, LF, NonAscii, "/", ":", "(", ".", "-", "a", "c", "h", "t", "p", "C", "H", "T", "P",
   "0", "1", "2", "3", "4", "5", "6", "7", "8", "9"}

is_char(c) == c # NonAscii

is_ctl(c) == c \in {HT, CR, LF}

is_tspecial(c) == c \in {"/", ":", "(", SP, HT}

is_digit(c) == \E i \in DOMAIN Numerals : Numerals[i] = c

IsToken(c) == is_char(c) /\ ~ is_ctl(c) /\ ~ is_tspecial(c)

Digit(c) == (CHOOSE i \in DOMAIN Numerals : Numerals[i] = c) - 1

LowerCase == [C |-> "c", H |-> "h", T |-> "t", P |-> "p"]

tolower(c) == IF c \in DOMAIN LowerCase THEN LowerCase[c] ELSE c

------------------------------------------------------------------------------
(* atoi, as glibc has it: strtol, and its long cast to an int *)

SkipSpace(s) ==
  LET at == {i \in DOMAIN s : s[i] # SP} IN IF at = {} THEN <<>> ELSE SubSeq(s, Min(at), Len(s))

LeadingDigits(s) ==
  LET at == {i \in DOMAIN s : ~ is_digit(s[i])} IN IF at = {} THEN s ELSE SubSeq(s, 1, Min(at) - 1)

Decimal(digits) ==
  LET value[i \in 0 .. Len(digits)] == IF i = 0 THEN 0 ELSE 10 * value[i - 1] + Digit(digits[i])
  IN  value[Len(digits)]

ToInt(n) == ((n + 2 ^ (IntWidth - 1)) % 2 ^ IntWidth) - 2 ^ (IntWidth - 1)

Number[s \in Seq(Char)] == Decimal(LeadingDigits(s))

atoi[str \in Seq(Char)] ==
  LET s    == SkipSpace(str)
      neg  == s # <<>> /\ s[1] = "-"
      n    == Number[IF neg THEN Tail(s) ELSE s]
      most == 2 ^ (LongWidth - 1) - 1
  IN  IF neg THEN ToInt(- (IF n > most THEN most + 1 ELSE n))
             ELSE ToInt(IF n > most THEN most ELSE n)

------------------------------------------------------------------------------
(* class request and class request_parser *)

(***************************************************************************)
(* The constructors.  (body_bytes_ has no initial value in the code, and is *)
(* set before it is read.)                                                 *)
(***************************************************************************)
NewParser ==
  [state_ |-> "method_start", body_bytes_ |-> 0, result |-> "indeterminate",
   method |-> <<>>, uri |-> <<>>, headers |-> <<>>, content |-> <<>>]

Goto(p, state) == [p EXCEPT !.state_ = state]

Reject(p) == [p EXCEPT !.result = "false"]

Accept(p) == [p EXCEPT !.result = "true"]

ContentLength == <<"c">>

get_header(p, name) ==
  LET at == {i \in DOMAIN p.headers : p.headers[i].name = name}
  IN  IF at = {} THEN <<>> ELSE p.headers[Min(at)].value

PushName(p, c) == [p EXCEPT !.headers[Len(p.headers)].name = Append(@, tolower(c))]

PushValue(p, c) == [p EXCEPT !.headers[Len(p.headers)].value = Append(@, c)]

(***************************************************************************)
(* The states that wait for one character, and the states they lead to.    *)
(***************************************************************************)
Literal ==
  [http_version_h            |-> <<"H", "http_version_t_1">>,
   http_version_t_1          |-> <<"T", "http_version_t_2">>,
   http_version_t_2          |-> <<"T", "http_version_p">>,
   http_version_p            |-> <<"P", "http_version_slash">>,
   http_version_slash        |-> <<"/", "http_version_major_start">>,
   expecting_newline_1       |-> <<LF, "header_line_start">>,
   space_before_header_value |-> <<SP, "header_value">>,
   expecting_newline_2       |-> <<LF, "header_line_start">>]

ConsumeLiteral(p, input) ==
  IF input = Literal[p.state_][1] THEN Goto(p, Literal[p.state_][2]) ELSE Reject(p)

ConsumeMethod(p, input) ==
  CASE p.state_ = "method" /\ input = SP -> Goto(p, "uri")
    [] IsToken(input) -> [Goto(p, "method") EXCEPT !.method = Append(@, input)]
    [] OTHER -> Reject(p)

ConsumeUri(p, input) ==
  CASE input = SP    -> Goto(p, "http_version_h")
    [] is_ctl(input) -> Reject(p)
    [] OTHER         -> [p EXCEPT !.uri = Append(@, input)]

(***************************************************************************)
(* Mutant: the minor number may be empty.                                  *)
(***************************************************************************)
ConsumeVersionWithoutMinor(p, input) ==
  CASE is_digit(input) ->
         Goto(p, IF p.state_ \in {"http_version_major_start", "http_version_major"}
                 THEN "http_version_major" ELSE "http_version_minor")
    [] p.state_ = "http_version_major" /\ input = "." -> Goto(p, "http_version_minor_start")
    [] p.state_ \in {"http_version_minor_start", "http_version_minor"} /\ input = CR ->
         Goto(p, "expecting_newline_1")
    [] OTHER -> Reject(p)

ConsumeVersion(p, input) ==
  CASE is_digit(input) ->
         Goto(p, IF p.state_ \in {"http_version_major_start", "http_version_major"}
                 THEN "http_version_major" ELSE "http_version_minor")
    [] p.state_ = "http_version_major" /\ input = "." -> Goto(p, "http_version_minor_start")
    [] p.state_ = "http_version_minor" /\ input = CR  -> Goto(p, "expecting_newline_1")
    [] OTHER -> Reject(p)

ConsumeHeaderStart(p, input) ==
  CASE input = CR -> Goto(p, "expecting_newline_3")
    [] p.headers # <<>> /\ input \in {SP, HT} -> Goto(p, "header_lws")
    [] IsToken(input) ->
         [Goto(p, "header_name") EXCEPT
            !.headers = Append(@, [name |-> <<tolower(input)>>, value |-> <<>>])]
    [] OTHER -> Reject(p)

ConsumeHeaderName(p, input) ==
  CASE input = ":"    -> Goto(p, "space_before_header_value")
    [] IsToken(input) -> PushName(p, input)
    [] OTHER          -> Reject(p)

ConsumeHeaderValue(p, input) ==
  IF p.state_ = "header_lws" /\ input \in {SP, HT}
  THEN p
  ELSE CASE input = CR                   -> Goto(p, "expecting_newline_2")
         [] is_ctl(input) /\ input # CR  -> Reject(p)
         [] OTHER                        -> PushValue(Goto(p, "header_value"), input)

(***************************************************************************)
(* The line feed that ends the headers: the length of the body is known.   *)
(***************************************************************************)
ConsumeEndOfHeaders(p, input) ==
  LET clen == atoi[get_header(p, ContentLength)]
  IN  CASE input # LF \/ clen > MaxContent -> Reject(p)
        [] input = LF /\ clen \in 1 .. MaxContent ->
             [Goto(p, "body") EXCEPT !.body_bytes_ = clen]
        [] input = LF /\ clen <= 0 -> Accept(p)

(***************************************************************************)
(* Mutant: the byte that completes the body is counted but not kept.       *)
(***************************************************************************)
ConsumeBodyShort(p, input) ==
  LET q == [p EXCEPT !.body_bytes_ = @ - 1]
  IN  IF q.body_bytes_ = 0 THEN Accept(q) ELSE [q EXCEPT !.content = Append(@, input)]

ConsumeBody(p, input) ==
  LET q == [p EXCEPT !.content = Append(@, input), !.body_bytes_ = @ - 1]
  IN  IF q.body_bytes_ = 0 THEN Accept(q) ELSE q

consume(p, input) ==
  CASE p.state_ \in DOMAIN Literal                  -> ConsumeLiteral(p, input)
    [] p.state_ \in {"method_start", "method"}      -> ConsumeMethod(p, input)
    [] p.state_ = "uri"                             -> ConsumeUri(p, input)
    [] p.state_ \in {"http_version_major_start", "http_version_major",
                     "http_version_minor_start", "http_version_minor"}
                                                    -> ConsumeVersion(p, input)
    [] p.state_ = "header_line_start"               -> ConsumeHeaderStart(p, input)
    [] p.state_ = "header_name"                     -> ConsumeHeaderName(p, input)
    [] p.state_ \in {"header_lws", "header_value"}  -> ConsumeHeaderValue(p, input)
    [] p.state_ = "expecting_newline_3"             -> ConsumeEndOfHeaders(p, input)
    [] p.state_ = "body"                            -> ConsumeBody(p, input)

(***************************************************************************)
(* parse: the bytes after the one that decides are not looked at.  The set *)
(* after[i] holds one parser, the one that has consumed i bytes.           *)
(***************************************************************************)
Consumed(p, input) == IF p.result = "indeterminate" THEN consume(p, input) ELSE p

parse(p, bytes) ==
  LET after[i \in 0 .. Len(bytes)] ==
        IF i = 0 THEN {p} ELSE {Consumed(q, c) : q \in after[i - 1], c \in {bytes[i]}}
  IN  CHOOSE q \in after[Len(bytes)] : TRUE
==============================================================================
