----------------------------- MODULE JsonReader ------------------------------
(***************************************************************************)
(* Reading a JSON text (src/3rd/json/json_spirit_reader_template.h): the   *)
(* rules of Json_grammer and the Semantic_actions they call, which build   *)
(* the value in place and keep raw pointers into it.                       *)
(*                                                                         *)
(* The text is one the generator wrote for `sent', whole, cut short,       *)
(* followed by something else, or with one lexeme replaced.                *)
(***************************************************************************)
EXTENDS Json

CONSTANTS Values,    \* the values written
          Lexemes,   \* what a replaced byte becomes, and what may follow
          Pages,     \* the pages of blobrefs written
          PageSize,  \* the size of the blobs in them
          NullPtr    \* the null pointer

VARIABLES
  sent,        \* the value that was written
  edit,        \* what happened to its text
  text,        \* the text handed to read
  it,          \* the iterator: how much of the text was consumed
  rules,       \* the rules the parser is in, the innermost one last
  status,      \* "reading", "hit", or "thrown"
  value_,      \* the value being built
  current_p_,  \* a path in value_: the array or object being filled
  stack_,      \* the paths of those around it
  name_,       \* the name of the current pair
  page         \* what parse_sync_enumeration returns

vars == <<sent, edit, text, it, rules, status, value_, current_p_, stack_, name_,
          page>>

------------------------------------------------------------------------------
(***************************************************************************)
(* Lexemes at position i of the text; 0 and NoNumber where there is none.  *)
(***************************************************************************)
Spaces == 9 .. 13 \cup {Space}

At(i) == IF i \in DOMAIN text THEN text[i] ELSE -1

RECURSIVE SkipSpace(_)
SkipSpace(i) == IF At(i) \in Spaces THEN SkipSpace(i + 1) ELSE i

is_eq(i, word) == i + Len(word) - 1 <= Len(text) /\ SubSeq(text, i, i + Len(word) - 1) = word

HexDigits == Digits \cup 65 .. 70 \cup 97 .. 102

(***************************************************************************)
(* confix_p('"', *lex_escape_ch_p, '"'): where the string that starts      *)
(* before i ends.                                                          *)
(***************************************************************************)
RECURSIVE ClosingQuote(_)
ClosingQuote(i) ==
  CASE At(i) = -1 -> 0
    [] At(i) = Quote -> i
    [] At(i) = Backslash /\ At(i + 1) \in {88, 120} ->
         IF At(i + 2) \in HexDigits THEN ClosingQuote(i + 3) ELSE 0
    [] At(i) = Backslash /\ At(i + 1) \notin {88, 120} ->
         IF At(i + 1) = -1 THEN 0 ELSE ClosingQuote(i + 2)
    [] OTHER -> ClosingQuote(i + 1)

RECURSIVE DigitsEnd(_)
DigitsEnd(i) == IF At(i) \in Digits THEN DigitsEnd(i + 1) ELSE i

Numeral(i, j) == FoldLeft(LAMBDA n, d : 10 * n + (d - Zero), 0, SubSeq(text, i, j - 1))

(***************************************************************************)
(* int64_p, then uint64_p: neither matches a number out of its range.      *)
(***************************************************************************)
NoNumber == [end |-> 0, value |-> Null]

Number(i) ==
  LET sign == At(i) \in {Plus, Minus}
      first == IF sign THEN i + 1 ELSE i
      end == DigitsEnd(first)
      n == Numeral(first, end) * (IF At(i) = Minus THEN -1 ELSE 1)
  IN  IF end = first THEN NoNumber
      ELSE IF n \in -(IntMax + 1) .. IntMax THEN [end |-> end, value |-> Int64(n)]
      ELSE IF ~sign /\ n <= 2 * IntMax + 1 THEN [end |-> end, value |-> Uint64(n)]
      ELSE NoNumber

------------------------------------------------------------------------------
(***************************************************************************)
(* substitute_esc_chars, from the iterator i on.                           *)
(***************************************************************************)
hex_to_num(c) ==
  CASE c \in Digits -> c - Zero
    [] c \in 97 .. 102 -> c - 97 + 10
    [] c \in 65 .. 70 -> c - 65 + 10
    [] OTHER -> 0

unicode_str_to_char(s, i) ==
  (4096 * hex_to_num(s[i + 1]) + 256 * hex_to_num(s[i + 2])
   + 16 * hex_to_num(s[i + 3]) + hex_to_num(s[i + 4])) % 256

Unescaped == [c \in {116, 98, 102, 110, 114, Backslash, Slash, Quote} |->
  IF \E e \in DOMAIN EscapeLetter : EscapeLetter[e] = c
  THEN CHOOSE e \in DOMAIN EscapeLetter : EscapeLetter[e] = c
  ELSE c]

(* What the escape whose letter is s[i] stands for, and its last position. *)
append_esc_char_and_incr_iter(s, i) ==
  CASE s[i] \in DOMAIN Unescaped -> [add |-> <<Unescaped[s[i]]>>, last |-> i]
    [] s[i] = 120 /\ Len(s) + 1 - i >= 3 ->
         [add |-> <<(16 * hex_to_num(s[i + 1]) + hex_to_num(s[i + 2])) % 256>>,
          last |-> i + 2]
    [] s[i] = 117 /\ Len(s) + 1 - i >= 5 ->
         [add |-> <<unicode_str_to_char(s, i)>>, last |-> i + 4]
    [] OTHER -> [add |-> <<>>, last |-> i]

RECURSIVE Substituted(_, _)
Substituted(s, i) ==
  IF i >= Len(s) THEN SubSeq(s, i, Len(s))
  ELSE IF s[i] # Backslash THEN <<s[i]>> \o Substituted(s, i + 1)
  ELSE LET e == append_esc_char_and_incr_iter(s, i + 1)
       IN  e.add \o Substituted(s, e.last + 1)

substitute_esc_chars(s) == Substituted(s, 1)

get_str(first, last) == substitute_esc_chars(SubSeq(text, first + 1, last - 1))

------------------------------------------------------------------------------
(***************************************************************************)
(* The value at a path, and the value with another child added there.      *)
(***************************************************************************)
Child(v, i) == IF HasType(v, "array") THEN v.array[i] ELSE v.obj[i].value_

Width(v) == IF HasType(v, "array") THEN Len(v.array) ELSE Len(v.obj)

ValueAt(path) == FoldLeft(Child, value_, path)

RECURSIVE Added(_, _, _)
Added(v, path, child) ==
  IF path = <<>>
  THEN IF HasType(v, "array")
       THEN Array(Append(v.array, child))
       ELSE Obj(Append(v.obj, Pair(name_, child)))
  ELSE LET below == Added(Child(v, Head(path)), Tail(path), child)
       IN  IF HasType(v, "array")
           THEN Array([v.array EXCEPT ![Head(path)] = below])
           ELSE Obj([v.obj EXCEPT ![Head(path)].value_ = below])

(***************************************************************************)
(* add_first and add_to_current; NewPtr is the pointer they return.        *)
(***************************************************************************)
add_to_current(v) ==
  value_' = IF current_p_ = NullPtr THEN v ELSE Added(value_, current_p_, v)

NewPtr ==
  IF current_p_ = NullPtr THEN <<>>
  ELSE Append(current_p_, Width(ValueAt(current_p_)) + 1)

\* A new scalar becomes the current pointer only when it is the first value.
new_scalar(v) ==
  /\ add_to_current(v)
  /\ current_p_' = IF current_p_ = NullPtr THEN <<>> ELSE current_p_
  /\ UNCHANGED <<stack_, name_>>

begin_compound(empty) ==
  /\ add_to_current(empty)
  /\ stack_' = IF current_p_ = NullPtr THEN stack_ ELSE Append(stack_, current_p_)
  /\ current_p_' = NewPtr
  /\ UNCHANGED name_

\* A mutant of end_compound: the pointer is taken and stays on the stack.
end_compound_keeps ==
  /\ IF current_p_ # <<>>
     THEN current_p_' = Last(stack_)
     ELSE UNCHANGED current_p_
  /\ UNCHANGED <<value_, name_, stack_>>

end_compound ==
  /\ IF current_p_ # <<>>
     THEN current_p_' = Last(stack_) /\ stack_' = Front(stack_)
     ELSE UNCHANGED <<current_p_, stack_>>
  /\ UNCHANGED <<value_, name_>>

new_name(first, last) ==
  /\ name_' = get_str(first, last)
  /\ UNCHANGED <<value_, current_p_, stack_>>

------------------------------------------------------------------------------
(***************************************************************************)
(* The rules.  The last element of `rules' says what the innermost rule    *)
(* expects next:                                                           *)
(*   "value"           a value                        (json_, pair_)       *)
(*   "elements"        a value or the closing bracket (array_)             *)
(*   "element"         a value, after a comma         (elements_)          *)
(*   "more_elements"   a comma or the closing bracket                      *)
(*   "members", "pair", "more_members"  the same      (object_, members_)  *)
(*   "colon"           the colon of a pair            (pair_)              *)
(* A part of a rule that fails after the actions of an earlier part ends   *)
(* in one of the eps_p alternatives, which throw.                          *)
(***************************************************************************)
p == SkipSpace(it + 1)

Expects(expected) == status = "reading" /\ Last(rules) \in expected

ExpectsValue == Expects({"value", "elements", "element"})

\* The rules after the innermost one has got its value.
GotValue ==
  IF Last(rules) = "value" THEN Front(rules)
  ELSE Append(Front(rules), "more_elements")

Enter(rest) ==
  /\ rules' = rest
  /\ status' = IF rest = <<>> THEN "hit" ELSE "reading"
  /\ UNCHANGED <<sent, edit, text, page>>

new_str ==
  /\ ExpectsValue /\ At(p) = Quote /\ ClosingQuote(p + 1) # 0
  /\ it' = ClosingQuote(p + 1)
  /\ new_scalar(Str(get_str(p, ClosingQuote(p + 1))))
  /\ Enter(GotValue)

new_int ==
  /\ ExpectsValue /\ Number(p) # NoNumber
  /\ it' = Number(p).end - 1
  /\ new_scalar(Number(p).value)
  /\ Enter(GotValue)

Word(word, v) ==
  /\ ExpectsValue /\ is_eq(p, word)
  /\ it' = p + Len(word) - 1
  /\ new_scalar(v)
  /\ Enter(GotValue)

new_true == Word(true, Bool(TRUE))

new_false == Word(false, Bool(FALSE))

new_null == Word(null, Null)

begin_obj ==
  /\ ExpectsValue /\ At(p) = OpenObj
  /\ it' = p
  /\ begin_compound(Obj(<<>>))
  /\ Enter(Append(GotValue, "members"))

begin_array ==
  /\ ExpectsValue /\ At(p) = OpenArray
  /\ it' = p
  /\ begin_compound(Array(<<>>))
  /\ Enter(Append(GotValue, "elements"))

end_obj ==
  /\ Expects({"members", "more_members"}) /\ At(p) = CloseObj
  /\ it' = p
  /\ end_compound
  /\ Enter(Front(rules))

\* A mutant of end_array: a comma may come before the bracket.
end_array_after_comma ==
  /\ Expects({"elements", "element", "more_elements"}) /\ At(p) = CloseArray
  /\ it' = p
  /\ end_compound
  /\ Enter(Front(rules))

end_array ==
  /\ Expects({"elements", "more_elements"}) /\ At(p) = CloseArray
  /\ it' = p
  /\ end_compound
  /\ Enter(Front(rules))

NewName ==
  /\ Expects({"members", "pair"}) /\ At(p) = Quote /\ ClosingQuote(p + 1) # 0
  /\ it' = ClosingQuote(p + 1)
  /\ new_name(p, ClosingQuote(p + 1))
  /\ Enter(Front(rules) \o <<"more_members", "colon">>)

Punctuation(rule, byte, next) ==
  /\ Expects({rule}) /\ At(p) = byte
  /\ it' = p
  /\ Enter(Append(Front(rules), next))
  /\ UNCHANGED <<value_, current_p_, stack_, name_>>

ColonOfPair == Punctuation("colon", Colon, "value")

NextPair == Punctuation("more_members", Comma, "pair")

NextElement == Punctuation("more_elements", Comma, "element")

StartsValue ==
  \/ At(p) = Quote /\ ClosingQuote(p + 1) # 0
  \/ Number(p) # NoNumber
  \/ \E word \in {true, false, null} : is_eq(p, word)
  \/ At(p) \in {OpenObj, OpenArray}

\* throw_not_value, throw_not_array, throw_not_object, throw_not_colon.
throw_error ==
  /\ status = "reading"
  /\ CASE Last(rules) \in {"value", "element"} -> ~StartsValue
       [] Last(rules) = "elements" -> ~StartsValue /\ At(p) # CloseArray
       [] Last(rules) = "more_elements" -> At(p) \notin {Comma, CloseArray}
       [] Last(rules) = "members" ->
            At(p) # CloseObj /\ (At(p) = Quote => ClosingQuote(p + 1) = 0)
       [] Last(rules) = "pair" -> At(p) = Quote => ClosingQuote(p + 1) = 0
       [] Last(rules) = "more_members" -> At(p) \notin {Comma, CloseObj}
       [] Last(rules) = "colon" -> At(p) # Colon
  /\ status' = "thrown"
  /\ UNCHANGED <<sent, edit, text, it, rules, value_, current_p_, stack_, name_, page>>

\* Sync::parse_sync_enumeration, once json_spirit::read has returned.
TakePage ==
  /\ status # "reading" /\ page = NullPtr
  /\ page' = IF status = "hit" THEN parse_sync_enumeration(value_) ELSE NoPage
  /\ UNCHANGED <<sent, edit, text, it, rules, status, value_, current_p_, stack_, name_>>

------------------------------------------------------------------------------
Replaced(s, i, lexeme) == SubSeq(s, 1, i - 1) \o lexeme \o SubSeq(s, i + 1, Len(s))

(* The answers to an enumeration and to a stat that hold a page. *)
PageValues(pg) ==
  {EnumerationValue(pg.refs, pg.last, PageSize)}
  \cup (IF pg.last = <<>> THEN {StatValue(pg.refs, PageSize)} ELSE {})

Init ==
  /\ sent \in Values \cup UNION {PageValues(pg) : pg \in Pages}
  /\ \E pretty \in BOOLEAN, kind \in {"whole", "cut", "followed", "replaced"} :
       \E written \in {write_string(sent, pretty)} :
         /\ edit = kind
         /\ CASE kind = "whole" -> text = written
              [] kind = "cut" -> \E n \in 0 .. Len(written) - 1 : text = SubSeq(written, 1, n)
              [] kind = "followed" -> \E more \in Lexemes : text = written \o more
              [] kind = "replaced" ->
                   \E i \in 1 .. Len(written), lexeme \in Lexemes :
                     text = Replaced(written, i, lexeme)
  /\ it = 0
  /\ rules = <<"value">>
  /\ status = "reading"
  /\ value_ = Null
  /\ current_p_ = NullPtr
  /\ stack_ = <<>>
  /\ name_ = <<>>
  /\ page = NullPtr

Next ==
  \/ new_str \/ new_int \/ new_true \/ new_false \/ new_null
  \/ begin_obj \/ begin_array \/ end_obj \/ end_array \/ NewName
  \/ ColonOfPair \/ NextPair \/ NextElement
  \/ throw_error
  \/ TakePage

Spec == Init /\ [][Next]_vars

------------------------------------------------------------------------------
(***************************************************************************)
(* The raw pointers stay valid.  Those on stack_ are the ancestors of      *)
(* current_p_, outermost first, and each points to the last element of the *)
(* vector it is in: a push_back, which may move that vector, only ever     *)
(* moves values nobody points into.  There is one pointer for each array   *)
(* or object the grammar is inside of.                                     *)
(***************************************************************************)
Compounds == {"elements", "element", "more_elements", "members", "pair", "more_members"}

PointersValid ==
  current_p_ # NullPtr =>
    /\ stack_ = [i \in 1 .. Len(current_p_) |-> SubSeq(current_p_, 1, i - 1)]
    /\ \A i \in 1 .. Len(current_p_) : current_p_[i] = Width(ValueAt(stack_[i]))
    /\ status = "reading" =>
         Len(SelectSeq(rules, LAMBDA r : r \in Compounds)) = Len(stack_) + 1

(***************************************************************************)
(* What Generator writes, pretty or not, is read back as a value that      *)
(* operator== finds equal, with all its escapes and its unsigned numbers,  *)
(* whatever follows it; cut short anywhere it is refused.  (A number may   *)
(* be cut to a shorter one, or go on.)                                     *)
(***************************************************************************)
ReadBack ==
  status # "reading" =>
    /\ edit = "whole" \/ (edit = "followed" /\ ~HasType(sent, "int")) =>
         status = "hit" /\ Same(value_, sent)
    /\ edit = "cut" /\ ~HasType(sent, "int") => status = "thrown"

(***************************************************************************)
(* The page of blobrefs that HandleEnumerate or HandleStat wrote is the    *)
(* page that parse_sync_enumeration takes from the text; from a text cut   *)
(* short it takes none.                                                    *)
(***************************************************************************)
PageAsWritten ==
  page # NullPtr =>
    \A pg \in Pages :
      sent \in PageValues(pg) =>
        /\ edit \in {"whole", "followed"} => page = pg
        /\ edit = "cut" => page = NoPage

(***************************************************************************)
(* What a number may have that the generator never writes: int64_p takes a *)
(* plus sign and leading zeros, which JSON has not, and -0, which it has.  *)
(* (Outside strings; the texts looked at have no escaped quotes.)          *)
(***************************************************************************)
InString(s, i) == Len(SelectSeq(SubSeq(s, 1, i - 1), LAMBDA c : c = Quote)) % 2 = 1

AllDigits(s, i, j) == \A k \in i .. j : s[k] \in Digits

Superfluous(s, i) ==
  /\ ~InString(s, i)
  /\ i < Len(s) /\ s[i + 1] \in Digits
  /\ \/ s[i] = Plus
     \/ s[i] = Minus /\ ~\E j \in i + 1 .. Len(s) : AllDigits(s, i + 1, j) /\ s[j] # Zero
     \/ s[i] = Zero /\ ~\E j \in 1 .. i - 1 : AllDigits(s, j, i - 1) /\ s[j] # Zero

PlainNumbers(s) ==
  LET kept == SelectSeq([i \in DOMAIN s |-> i], LAMBDA i : ~Superfluous(s, i))
  IN  [k \in DOMAIN kept |-> s[kept[k]]]

(***************************************************************************)
(* The reader accepts JSON and, besides it, only integers with a plus sign *)
(* or leading zeros: what it consumed of the text is, but for these and    *)
(* for spaces, what the generator writes for the value it built, and a     *)
(* text it throws at has no prefix that the generator writes for one of    *)
(* the values.  (Left out: texts with escapes, as one character has        *)
(* several; texts with line ends, which the reader takes raw in a string;  *)
(* and a number that goes on, which is another number.)                    *)
(***************************************************************************)
NoSpaces(s) == SelectSeq(s, LAMBDA c : c \notin Spaces)

Written == {NoSpaces(write_string(v, FALSE)) : v \in Values}

AcceptsJson ==
  ToSet(text) \cap {Backslash, LF} = {} =>
    /\ status = "hit" =>
         NoSpaces(PlainNumbers(SubSeq(text, 1, it))) = NoSpaces(write_string(value_, FALSE))
    /\ status = "thrown" =>
         \A n \in 0 .. Len(text) :
           At(n + 1) \notin Digits => NoSpaces(SubSeq(text, 1, n)) \notin Written
==============================================================================
