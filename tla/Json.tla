-------------------------------- MODULE Json ---------------------------------
(***************************************************************************)
(* JSON values, the text they are written as, and what the peer            *)
(* synchronisation takes from one (src/3rd/json/json_spirit_value.h,       *)
(* json_spirit_writer_template.h, Sync.cpp).                               *)
(*                                                                         *)
(* A text is a sequence of bytes.  Numbers have IntMax in place of         *)
(* 2^63 - 1; reals are left out: the server neither writes nor reads any.  *)
(***************************************************************************)
EXTENDS Integers, Sequences, FiniteSets, SequencesExt

CONSTANT IntMax   \* the largest int64_t

ASSUME IntMaxAssumption == IntMax \in Nat \ {0}

LF == 10
Space == 32
Quote == 34
Plus == 43
Comma == 44
Minus == 45
Slash == 47
Zero == 48
Colon == 58
OpenArray == 91
Backslash == 92
CloseArray == 93
OpenObj == 123
CloseObj == 125

Digits == Zero .. Zero + 9

true == <<116, 114, 117, 101>>

false == <<102, 97, 108, 115, 101>>

null == <<110, 117, 108, 108>>

------------------------------------------------------------------------------
(***************************************************************************)
(* Value_impl.  A uint64_t is kept as an int64_t, with a flag.             *)
(***************************************************************************)
Null == [null |-> TRUE]

Bool(b) == [bool |-> b]

Str(s) == [str |-> s]

Int64(i) == [int |-> i, is_uint64_ |-> FALSE]

Uint64(i) ==
  [int |-> IF i > IntMax THEN i - 2 * (IntMax + 1) ELSE i, is_uint64_ |-> TRUE]

Array(values) == [array |-> values]

Pair(name, value) == [name_ |-> name, value_ |-> value]

Obj(pairs) == [obj |-> pairs]

(***************************************************************************)
(* type() and check_type: a getter throws when the value has another type. *)
(***************************************************************************)
HasType(v, type) == type \in DOMAIN v

get_uint64(v) == IF v.int < 0 THEN v.int + 2 * (IntMax + 1) ELSE v.int

(***************************************************************************)
(* operator== does not look at is_uint64_.                                 *)
(***************************************************************************)
RECURSIVE Same(_, _)
Same(v, w) ==
  /\ DOMAIN v = DOMAIN w
  /\ CASE HasType(v, "int") -> v.int = w.int
       [] HasType(v, "array") ->
            /\ Len(v.array) = Len(w.array)
            /\ \A i \in DOMAIN v.array : Same(v.array[i], w.array[i])
       [] HasType(v, "obj") ->
            /\ Len(v.obj) = Len(w.obj)
            /\ \A i \in DOMAIN v.obj :
                 /\ v.obj[i].name_ = w.obj[i].name_
                 /\ Same(v.obj[i].value_, w.obj[i].value_)
       [] OTHER -> v = w

------------------------------------------------------------------------------
(***************************************************************************)
(* add_esc_chars: in the "C" locale iswprint holds of the bytes 32 to 126. *)
(***************************************************************************)
EscapeLetter == [c \in {Quote, Backslash, 8, 12, 10, 13, 9} |->
  CASE c \in {Quote, Backslash} -> c
    [] c = 8 -> 98 [] c = 12 -> 102 [] c = 10 -> 110 [] c = 13 -> 114
    [] c = 9 -> 116]

to_hex_char(c) == IF c < 10 THEN Zero + c ELSE 65 - 10 + c

non_printable_to_string(c) ==
  <<Backslash, 117, to_hex_char(0), to_hex_char(0),
    to_hex_char(c \div 16), to_hex_char(c % 16)>>

\* A mutant of EscapedChar: the backslash is not escaped.
EscapedCharButBackslash(c) ==
  IF c = Backslash THEN <<c>>
  ELSE IF c \in DOMAIN EscapeLetter THEN <<Backslash, EscapeLetter[c]>>
  ELSE IF c \in 32 .. 126 THEN <<c>>
  ELSE non_printable_to_string(c)

EscapedChar(c) ==
  IF c \in DOMAIN EscapeLetter THEN <<Backslash, EscapeLetter[c]>>
  ELSE IF c \in 32 .. 126 THEN <<c>>
  ELSE non_printable_to_string(c)

add_esc_chars(s) == FlattenSeq([i \in DOMAIN s |-> EscapedChar(s[i])])

RECURSIVE Decimal(_)
Decimal(n) ==
  IF n < 0 THEN <<Minus>> \o Decimal(-n)
  ELSE (IF n < 10 THEN <<>> ELSE Decimal(n \div 10)) \o <<Zero + (n % 10)>>

QuotedString(s) == <<Quote>> \o add_esc_chars(s) \o <<Quote>>

(***************************************************************************)
(* Generator, with its indentation level; `pretty' is what sets            *)
(* write_formatted apart from write.                                       *)
(***************************************************************************)
indent(level, pretty) == IF pretty THEN [i \in 1 .. 4 * level |-> Space] ELSE <<>>

space(pretty) == IF pretty THEN <<Space>> ELSE <<>>

new_line(pretty) == IF pretty THEN <<LF>> ELSE <<>>

output_int(v) == Decimal(IF v.is_uint64_ THEN get_uint64(v) ELSE v.int)

output_array_or_obj(items, open, close, level, pretty) ==
  LET Item(i) == indent(level + 1, pretty) \o items[i]
                 \o (IF i < Len(items) THEN <<Comma>> ELSE <<>>)
                 \o new_line(pretty)
  IN  <<open>> \o new_line(pretty)
      \o FlattenSeq([i \in DOMAIN items |-> Item(i)])
      \o indent(level, pretty) \o <<close>>

RECURSIVE output(_, _, _)
output(v, level, pretty) ==
  CASE HasType(v, "obj") ->
         output_array_or_obj(
           [i \in DOMAIN v.obj |->
              QuotedString(v.obj[i].name_) \o space(pretty) \o <<Colon>>
              \o space(pretty) \o output(v.obj[i].value_, level + 1, pretty)],
           OpenObj, CloseObj, level, pretty)
    [] HasType(v, "array") ->
         output_array_or_obj(
           [i \in DOMAIN v.array |-> output(v.array[i], level + 1, pretty)],
           OpenArray, CloseArray, level, pretty)
    [] HasType(v, "str") -> QuotedString(v.str)
    [] HasType(v, "bool") -> IF v.bool THEN true ELSE false
    [] HasType(v, "int") -> output_int(v)
    [] HasType(v, "null") -> null

write_string(v, pretty) == output(v, 0, pretty)

------------------------------------------------------------------------------
(***************************************************************************)
(* The names in the answers to an enumeration and to a stat, as one letter *)
(* each, the two answers, and what parse_sync_enumeration takes from a     *)
(* value: nothing, an exception of a getter, or a page of blobrefs with    *)
(* the one to continue after.                                              *)
(***************************************************************************)
BlobRefName == <<98>>

BlobsName == <<66>>

StatName == <<115>>

ContinueAfterName == <<99>>

CanLongPollName == <<108>>

SizeName == <<122>>

BlobValues(refs, size) ==
  Array([i \in DOMAIN refs |->
           Obj(<<Pair(BlobRefName, Str(refs[i])), Pair(SizeName, Uint64(size))>>)])

EnumerationValue(refs, last, size) ==
  Obj(<<Pair(BlobsName, BlobValues(refs, size))>>
      \o (IF last = <<>> THEN <<>> ELSE <<Pair(ContinueAfterName, Str(last))>>)
      \o <<Pair(CanLongPollName, Str(false))>>)

StatValue(refs, size) ==
  Obj(<<Pair(StatName, BlobValues(refs, size)), Pair(CanLongPollName, Bool(FALSE))>>)

NoPage == [none |-> TRUE]

Thrown == [throws |-> TRUE]

BlobRefs(blob) == SelectSeq(blob.obj, LAMBDA p : p.name_ = BlobRefName)

\* A mutant of RefValues: the list of a stat is not looked at.
RefValuesOfBlobs(obj) ==
  FlattenSeq([i \in DOMAIN obj |->
    IF obj[i].name_ = BlobsName
    THEN FlattenSeq([j \in DOMAIN obj[i].value_.array |->
                       BlobRefs(obj[i].value_.array[j])])
    ELSE <<>>])

RefValues(obj) ==
  FlattenSeq([i \in DOMAIN obj |->
    IF obj[i].name_ \in {BlobsName, StatName}
    THEN FlattenSeq([j \in DOMAIN obj[i].value_.array |->
                       BlobRefs(obj[i].value_.array[j])])
    ELSE <<>>])

parse_sync_enumeration(v) ==
  IF ~HasType(v, "obj") THEN NoPage
  ELSE LET lasts == {i \in DOMAIN v.obj : v.obj[i].name_ = ContinueAfterName}
           lists == {i \in DOMAIN v.obj : v.obj[i].name_ \in {BlobsName, StatName}}
       IN  IF \/ \E i \in lasts : ~HasType(v.obj[i].value_, "str")
              \/ \E i \in lists :
                   LET list == v.obj[i].value_
                   IN  \/ ~HasType(list, "array")
                       \/ \E j \in DOMAIN list.array :
                            \/ ~HasType(list.array[j], "obj")
                            \/ \E p \in ToSet(list.array[j].obj) :
                                 p.name_ = BlobRefName /\ ~HasType(p.value_, "str")
           THEN Thrown
           ELSE [last |-> IF lasts = {} THEN <<>>
                          ELSE LET i == CHOOSE i \in lasts : \A j \in lasts : j <= i
                               IN  v.obj[i].value_.str,
                 refs |-> LET rs == RefValues(v.obj)
                          IN  [i \in DOMAIN rs |-> rs[i].value_.str]]
==============================================================================
