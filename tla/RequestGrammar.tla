---------------------------- MODULE RequestGrammar ----------------------------
(***************************************************************************)
(* What a request is, said without a state machine: a start line, header   *)
(* lines and continuation lines, each ended by CR LF, an empty line, and   *)
(* as many bytes of body as the first Content-Length header says.  The     *)
(* parser is checked against this definition.                              *)
(***************************************************************************)
EXTENDS RequestParser, SequencesExt

All(s, Is(_)) == \A i \in DOMAIN s : Is(s[i])

NotCtl(c) == ~ is_ctl(c)

IsName(s) == s # <<>> /\ All(s, IsToken)

IsNumber(s) == s # <<>> /\ All(s, is_digit)

IsVersion(s) ==
  /\ Len(s) > 5 /\ SubSeq(s, 1, 5) = <<"H", "T", "T", "P", "/">>
  /\ \E dot \in 6 .. Len(s) :
       s[dot] = "." /\ IsNumber(SubSeq(s, 6, dot - 1)) /\ IsNumber(SubSeq(s, dot + 1, Len(s)))

IsUri(s) == \A i \in DOMAIN s : NotCtl(s[i]) /\ s[i] # SP

IsStartLine(s) ==
  \E i, j \in DOMAIN s :
    /\ i < j /\ s[i] = SP /\ s[j] = SP
    /\ IsName(SubSeq(s, 1, i - 1))
    /\ IsUri(SubSeq(s, i + 1, j - 1))
    /\ IsVersion(SubSeq(s, j + 1, Len(s)))

(***************************************************************************)
(* name ": " value                                                         *)
(***************************************************************************)
Colon(s) == SelectInSeq(s, LAMBDA c : c = ":")

IsHeaderLine(s) ==
  /\ Colon(s) \in 2 .. Len(s) - 1 /\ s[Colon(s) + 1] = SP
  /\ IsName(SubSeq(s, 1, Colon(s) - 1))
  /\ All(SubSeq(s, Colon(s) + 2, Len(s)), NotCtl)

Name(s) == [i \in 1 .. Colon(s) - 1 |-> tolower(s[i])]

(***************************************************************************)
(* A continuation line starts with spaces or tabs, which are left out.     *)
(***************************************************************************)
Unfold(s) ==
  LET i == SelectInSeq(s, LAMBDA c : c \notin {SP, HT})
  IN  IF i = 0 THEN <<>> ELSE SubSeq(s, i, Len(s))

IsContinuation(s) == s # <<>> /\ s[1] \in {SP, HT} /\ All(Unfold(s), NotCtl)

------------------------------------------------------------------------------
EmptyLine == <<CR, LF, CR, LF>>

EndsLine(s, i) == i > 1 /\ s[i - 1] = CR /\ s[i] = LF

(***************************************************************************)
(* The lines of the first n bytes, without the CR LF that ends each.       *)
(***************************************************************************)
Lines(s, n) ==
  LET ends     == {i \in 1 .. n : s[i] = LF}
      Begin(i) == 1 + Max({0} \cup {j \in ends : j < i})
  IN  {[begin |-> Begin(i), text |-> SubSeq(s, Begin(i), i - 2)] : i \in ends}

(***************************************************************************)
(* The head of a stream ends with its first empty line: at most one        *)
(* element, of the lines of the head and its length.                       *)
(***************************************************************************)
Heads(s) ==
  {[lines |-> Lines(s, n - 2), length |-> n] :
     n \in {k \in 4 .. Len(s) :
             /\ SubSeq(s, k - 3, k) = EmptyLine
             /\ \A m \in 4 .. k - 1 : SubSeq(s, m - 3, m) # EmptyLine
             /\ \A i \in 1 .. k : s[i] = LF => EndsLine(s, i)}}

Before(l, m) == l.begin < m.begin

IsRequestHead(lines) ==
  \A l \in lines :
    IF l.begin = 1
    THEN IsStartLine(l.text)
    ELSE \/ IsHeaderLine(l.text)
         \/ IsContinuation(l.text) /\ \E k \in lines : k.begin > 1 /\ Before(k, l)

(***************************************************************************)
(* The value of header l: its own and its continuations'.                  *)
(***************************************************************************)
Value(lines, l) ==
  LET more  == {m \in lines :
                  Before(l, m) /\ \A k \in lines : Before(l, k) /\ ~ Before(m, k)
                                                  => IsContinuation(k.text)}
      parts == SetToSortSeq(more, Before)
  IN  SubSeq(l.text, Colon(l.text) + 2, Len(l.text))
        \o FlattenSeq([i \in DOMAIN parts |-> Unfold(parts[i].text)])

IsContentLength(l) ==
  l.begin > 1 /\ IsHeaderLine(l.text) /\ Name(l.text) = ContentLength

(***************************************************************************)
(* The length the head declares: the number its first value starts with.   *)
(***************************************************************************)
Declared(lines) ==
  LET at == {l \in lines : IsContentLength(l)}
  IN  IF at = {} THEN 0
      ELSE LET l == CHOOSE k \in at : \A m \in at : ~ Before(m, k)
           IN  Decimal(LeadingDigits(SkipSpace(Value(lines, l))))

(***************************************************************************)
(* The requests that stream s starts with: at most one.                    *)
(***************************************************************************)
Requests(s) ==
  {[length |-> h.length + Declared(h.lines), body |-> h.length + 1] :
     h \in {g \in Heads(s) : IsRequestHead(g.lines) /\ Declared(g.lines) <= MaxContent}}

(***************************************************************************)
(* The length that the head of s declares is an int.                       *)
(***************************************************************************)
LengthFits(s) ==
  \A h \in Heads(s) : IsRequestHead(h.lines) => Declared(h.lines) < 2 ^ (IntWidth - 1)
==============================================================================
