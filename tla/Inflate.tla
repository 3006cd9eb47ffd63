------------------------------- MODULE Inflate -------------------------------
(***************************************************************************)
(* What a client makes of the compressed bytes: a decoder written from the *)
(* formats (RFC 1951, 1950 and 1952), not from the encoder.  It is the     *)
(* reference the compressor is checked against.  A decoder's result is a   *)
(* record with the bytes `out', the next position `pos' and `ok'.          *)
(***************************************************************************)
EXTENDS Integers, Sequences, FiniteSets, SequencesExt, FiniteSetsExt, Bitwise, Strict

(* The number in the n bits from pos on, least significant bit first. *)
Number(bits, pos, n) ==
  LET from[k \in 0 .. n] == IF k = n THEN 0 ELSE bits[pos + k] + 2 * from[k + 1]
  IN  from[0]

Failed(out) == [ok |-> FALSE, pos |-> 0, out |-> out]

------------------------------------------------------------------------------
(***************************************************************************)
(* The codeword of symbol s: codes are given out by length, then symbol,   *)
(* each the smallest that has none of the earlier ones as a prefix.        *)
(***************************************************************************)
Codeword(lengths, used, s) ==
  LET Count(l) == Cardinality({t \in used : lengths[t] = l})
      before == {t \in used : lengths[t] = lengths[s] /\ t < s}
      number == MapThenSumSet(LAMBDA l : Count(l) * 2 ^ (lengths[s] - l), 1 .. lengths[s] - 1)
                  + Cardinality(before)
  IN  [i \in 1 .. lengths[s] |-> (number \div 2 ^ (lengths[s] - i)) % 2]

CodeBook(lengths) ==
  LET used == {s \in DOMAIN lengths : lengths[s] > 0}
      word == Tabulated([s \in used |-> Tabulated(Codeword(lengths, used, s))])
  IN  Tabulated([w \in {word[s] : s \in used} |-> CHOOSE s \in used : word[s] = w])

(* The codewords that start at pos: one, if the code is a prefix code. *)
WordsAt(bits, pos, book) ==
  {w \in DOMAIN book : pos + Len(w) - 1 <= Len(bits) /\ SubSeq(bits, pos, pos + Len(w) - 1) = w}

LengthBase == <<3, 4, 5, 6, 7, 8, 9, 10, 11, 13, 15, 17, 19, 23, 27, 31, 35, 43, 51, 59, 67, 83,
                99, 115, 131, 163, 195, 227, 258>>
LengthExtra(symbol) == IF symbol < 265 \/ symbol = 285 THEN 0 ELSE (symbol - 261) \div 4

DistBase == <<1, 2, 3, 4, 5, 7, 9, 13, 17, 25, 33, 49, 65, 97, 129, 193, 257, 385, 513, 769, 1025,
              1537, 2049, 3073, 4097, 6145, 8193, 12289, 16385, 24577>>
DistExtra(symbol) == IF symbol < 4 THEN 0 ELSE (symbol - 2) \div 2

Copied(out, length, dist) ==
  out \o [k \in 1 .. length |-> out[Len(out) - dist + 1 + ((k - 1) % dist)]]

RECURSIVE ReadSymbols(_, _, _, _, _)
ReadSymbols(bits, pos, ll, d, out) ==
  LET words == WordsAt(bits, pos, ll)
      word == CHOOSE w \in words : TRUE
      symbol == ll[word]
      after == pos + Len(word)
      afterLength == after + LengthExtra(symbol)
      length == LengthBase[symbol - 256] + Number(bits, after, LengthExtra(symbol))
      dwords == WordsAt(bits, afterLength, d)
      dword == CHOOSE w \in dwords : TRUE
      dsymbol == d[dword]
      afterDword == afterLength + Len(dword)
      dist == DistBase[dsymbol + 1] + Number(bits, afterDword, DistExtra(dsymbol))
  IN  CASE Cardinality(words) # 1 -> Failed(out)
        [] Cardinality(words) = 1 /\ symbol < 256 ->
             With([pos |-> after, out |-> Append(out, symbol)], LAMBDA r :
               ReadSymbols(bits, r.pos, ll, d, r.out))
        [] Cardinality(words) = 1 /\ symbol = 256 ->
             [ok |-> TRUE, pos |-> after, out |-> out]
        [] Cardinality(words) = 1 /\ symbol > 256 ->
             IF Cardinality(dwords) # 1 \/ dist > Len(out) THEN Failed(out)
             ELSE With([pos |-> afterDword + DistExtra(dsymbol), out |-> Copied(out, length, dist)],
                       LAMBDA r : ReadSymbols(bits, r.pos, ll, d, r.out))

------------------------------------------------------------------------------
FixedLitLen == CodeBook([s \in 0 .. 287 |-> IF s < 144 THEN 8 ELSE IF s < 256 THEN 9
                                            ELSE IF s < 280 THEN 7 ELSE 8])
FixedDist == CodeBook([s \in 0 .. 29 |-> 5])

CodeOrder == <<16, 17, 18, 0, 8, 7, 9, 6, 10, 5, 11, 4, 12, 3, 13, 2, 14, 1, 15>>

(* n code lengths, written with the 19 symbols of book. *)
RECURSIVE ReadLengths(_, _, _, _, _)
ReadLengths(bits, pos, book, n, lengths) ==
  LET words == WordsAt(bits, pos, book)
      word == CHOOSE w \in words : TRUE
      symbol == book[word]
      after == pos + Len(word)
      extra == CASE symbol = 16 -> 2 [] symbol = 17 -> 3 [] symbol = 18 -> 7 [] OTHER -> 0
      count == CASE symbol < 16 -> 1
                 [] symbol \in {16, 17} -> 3 + Number(bits, after, extra)
                 [] symbol = 18 -> 11 + Number(bits, after, extra)
      value == CASE symbol < 16 -> symbol
                 [] symbol = 16 -> lengths[Len(lengths)]
                 [] symbol > 16 -> 0
  IN  IF Len(lengths) = n THEN [ok |-> TRUE, pos |-> pos, out |-> lengths]
      ELSE IF Cardinality(words) # 1 \/ Len(lengths) > n THEN Failed(lengths)
      ELSE With([pos |-> after + extra, out |-> lengths \o [k \in 1 .. count |-> value]],
                LAMBDA r : ReadLengths(bits, r.pos, book, n, r.out))

ReadDynamic(bits, pos, out) ==
  LET lit == 257 + Number(bits, pos, 5)
      dists == 1 + Number(bits, pos + 5, 5)
      codes == 4 + Number(bits, pos + 10, 4)
      Length(s) == LET i == CHOOSE i \in 1 .. 19 : CodeOrder[i] = s
                   IN  IF i > codes THEN 0 ELSE Number(bits, pos + 14 + 3 * (i - 1), 3)
      LitLens(lengths) == CodeBook(Tabulated([s \in 0 .. lit - 1 |-> lengths[s + 1]]))
      Dists(lengths) == CodeBook(Tabulated([s \in 0 .. dists - 1 |-> lengths[lit + s + 1]]))
  IN  With(CodeBook(Tabulated([s \in 0 .. 18 |-> Length(s)])), LAMBDA book :
        With(ReadLengths(bits, pos + 14 + 3 * codes, book, lit + dists, <<>>), LAMBDA read :
          IF ~read.ok THEN Failed(out)
          ELSE With(<<LitLens(read.out), Dists(read.out)>>, LAMBDA books :
                 ReadSymbols(bits, read.pos, books[1], books[2], out))))

ReadStored(bits, pos, out) ==
  LET start == pos + ((1 - pos) % 8)
      size == Number(bits, start, 16)
  IN  IF size + Number(bits, start + 16, 16) # 65535 THEN Failed(out)
      ELSE [ok |-> TRUE, pos |-> start + 32 + 8 * size,
            out |-> out \o [k \in 1 .. size |-> Number(bits, start + 24 + 8 * k, 8)]]

(* The blocks from pos on, up to the one that is marked as the last. *)
RECURSIVE ReadBlocks(_, _, _)
ReadBlocks(bits, pos, out) ==
  LET btype == Number(bits, pos + 1, 2)
      Block == CASE btype = 0 -> ReadStored(bits, pos + 3, out)
                 [] btype = 1 -> ReadSymbols(bits, pos + 3, FixedLitLen, FixedDist, out)
                 [] btype = 2 -> ReadDynamic(bits, pos + 3, out)
                 [] btype = 3 -> Failed(out)
  IN  IF pos + 2 > Len(bits) THEN Failed(out)
      ELSE With(Block, LAMBDA read :
             IF ~read.ok \/ bits[pos] = 1 THEN read ELSE ReadBlocks(bits, read.pos, read.out))

------------------------------------------------------------------------------
(* The containers.  A checksum is a pair of 16-bit halves, the high one first. *)

BitsOf(bytes) ==
  Tabulated([j \in 1 .. 8 * Len(bytes) |-> (bytes[((j - 1) \div 8) + 1] \div 2 ^ ((j - 1) % 8)) % 2])

(* The remainder of the data's bits, divided bit by bit. *)
Crc32(data) ==
  LET bits == BitsOf(data)
      Half(c) == <<c[1] \div 2, (c[2] \div 2) + 32768 * (c[1] % 2)>>
      Divide(crc, i) ==
        With(crc, LAMBDA c : IF (c[2] + bits[i]) % 2 = 0 THEN Half(c)
                             ELSE <<Half(c)[1] ^^ 60856, Half(c)[2] ^^ 33568>>)
      DivideByte(crc, byte) == FoldLeft(Divide, crc, [k \in 1 .. 8 |-> 8 * (byte - 1) + k])
      crcs[i \in 0 .. Len(data)] ==
        IF i = 0 THEN <<65535, 65535>> ELSE With(crcs[i - 1], LAMBDA c : DivideByte(c, i))
  IN  With(crcs[Len(data)], LAMBDA c : <<65535 - c[1], 65535 - c[2]>>)

Adler32(data) ==
  LET sums[i \in 0 .. Len(data)] ==
        IF i = 0 THEN <<0, 1>>
        ELSE With(sums[i - 1], LAMBDA s : <<(s[1] + s[2] + data[i]) % 65521, (s[2] + data[i]) % 65521>>)
  IN  sums[Len(data)]

Little(bytes) == <<bytes[4] * 256 + bytes[3], bytes[2] * 256 + bytes[1]>>
Big(bytes) == <<bytes[1] * 256 + bytes[2], bytes[3] * 256 + bytes[4]>>

(* What a reader of this format gets out of the bytes: ok is false for a broken stream. *)
Decode(format, bytes) ==
  LET header == CASE format = "gzip" -> 10 [] format = "zlib" -> 2 [] format = "deflate" -> 0
      trailer == CASE format = "gzip" -> 8 [] format = "zlib" -> 4 [] format = "deflate" -> 0
      blocks == BitsOf(SubSeq(bytes, header + 1, Len(bytes) - trailer))
      rest == SubSeq(bytes, Len(bytes) - trailer + 1, Len(bytes))
      Sound(data) ==
        CASE format = "gzip" ->
               /\ SubSeq(bytes, 1, 4) = <<31, 139, 8, 0>>
               /\ Little(SubSeq(rest, 1, 4)) = Crc32(data)
               /\ Little(SubSeq(rest, 5, 8)) = <<0, Len(data)>>
          [] format = "zlib" ->
               /\ bytes[1] % 16 = 8
               /\ (bytes[1] * 256 + bytes[2]) % 31 = 0
               /\ Big(rest) = Adler32(data)
          [] format = "deflate" -> TRUE
  IN  With(With(blocks, LAMBDA bits : ReadBlocks(bits, 1, <<>>)), LAMBDA read :
        [ok |-> /\ read.ok
                /\ Len(bytes) = header + ((read.pos + 6) \div 8) + trailer
                /\ Sound(read.out),
         out |-> read.out])
==============================================================================
