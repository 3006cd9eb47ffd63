---------------------------- MODULE DeflateFormat ----------------------------
(***************************************************************************)
(* How zopfli writes an LZ77 store as a DEFLATE block: the symbols for     *)
(* lengths and distances (src/3rd/zopfli/util.cc), the code trees, their   *)
(* run-length encoding and the block itself (deflate.cc), and the          *)
(* containers around the blocks (gzip_container.cc, zlib_container.cc).    *)
(* The output is a sequence of bits until a container makes bytes of it.   *)
(***************************************************************************)
EXTENDS Huffman, Lz77

Log2(n) == Max({k \in 0 .. 15 : 2 ^ k <= n})

ZopfliGetDistExtraBits(dist) == IF dist < 5 THEN 0 ELSE Log2(dist - 1) - 1

ZopfliGetDistExtraBitsValue(dist) ==
  IF dist < 5 THEN 0
  ELSE (dist - (1 + 2 ^ Log2(dist - 1))) % 2 ^ (Log2(dist - 1) - 1)

ZopfliGetDistSymbol(dist) ==
  IF dist < 5 THEN dist - 1
  ELSE 2 * Log2(dist - 1) + (((dist - 1) \div 2 ^ (Log2(dist - 1) - 1)) % 2)

(* The three tables over lengths, row by row: 2 ^ bits lengths per symbol. *)
ZopfliGetLengthExtraBits(l) ==
  CASE l < 11 \/ l = 258 -> 0
    [] l \in 11 .. 18 -> 1
    [] l \in 19 .. 34 -> 2
    [] l \in 35 .. 66 -> 3
    [] l \in 67 .. 130 -> 4
    [] l \in 131 .. 257 -> 5

ZopfliGetLengthExtraBitsValue(l) == (l - 3) % 2 ^ ZopfliGetLengthExtraBits(l)

ZopfliGetLengthSymbol(l) ==
  LET bits == ZopfliGetLengthExtraBits(l)
  IN  IF l = 258 THEN 285
      ELSE IF bits = 0 THEN 254 + l
      ELSE 257 + 4 * bits + ((l - 3) \div 2 ^ bits)

------------------------------------------------------------------------------
AddBits(symbol, length) == [i \in 1 .. length |-> (symbol \div 2 ^ (i - 1)) % 2]

AddHuffmanBits(symbol, length) == [i \in 1 .. length |-> (symbol \div 2 ^ (length - i)) % 2]

Bytes(bytes) ==
  [j \in 1 .. 8 * Len(bytes) |-> AddBits(bytes[((j - 1) \div 8) + 1], 8)[((j - 1) % 8) + 1]]

(* Zeros up to the next byte boundary. *)
Padding(bits) == [i \in 1 .. (8 - (Len(bits) % 8)) % 8 |-> 0]

------------------------------------------------------------------------------
(* The trees *)

ZopfliLZ77Counts(store) ==
  LET LitLen(e) == IF e.dist = 0 THEN e.litlen ELSE ZopfliGetLengthSymbol(e.litlen)
      matches == {k \in DOMAIN store : store[k].dist # 0}
      ll == Tabulated([k \in DOMAIN store |-> LitLen(store[k])])
      d == Tabulated([k \in matches |-> ZopfliGetDistSymbol(store[k].dist)])
      Occurs(f, s) == Cardinality({k \in DOMAIN f : f[k] = s})
  IN  [ll |-> Tabulated([s \in 0 .. 287 |-> IF s = 256 THEN 1 ELSE Occurs(ll, s)]),
       d |-> Tabulated([s \in 0 .. 31 |-> Occurs(d, s)])]

PatchDistanceCodesForBuggyDecoders(d_lengths) ==
  LET codes == {s \in 0 .. 29 : d_lengths[s] > 0}
  IN  IF codes = {} THEN [d_lengths EXCEPT ![0] = 1, ![1] = 1]
      ELSE IF Cardinality(codes) = 1
      THEN [d_lengths EXCEPT ![IF d_lengths[0] > 0 THEN 1 ELSE 0] = 1]
      ELSE d_lengths

GetFixedTree ==
  [ll |-> [s \in 0 .. 287 |-> IF s < 144 THEN 8 ELSE IF s < 256 THEN 9
                              ELSE IF s < 280 THEN 7 ELSE 8],
   d |-> [s \in 0 .. 31 |-> 5]]

DynamicTree(store) ==
  LET counts == ZopfliLZ77Counts(store)
  IN  [ll |-> ZopfliCalculateBitLengths(counts.ll, 15),
       d |-> PatchDistanceCodesForBuggyDecoders(ZopfliCalculateBitLengths(counts.d, 15))]

------------------------------------------------------------------------------
(***************************************************************************)
(* AddDynamicTree.  hlit and hdist cut the zeros at the end; the lengths   *)
(* of both trees are one sequence, run-length encoded over 19 symbols that *)
(* have a code of their own.                                               *)
(***************************************************************************)
hlit(tree) == Max({0} \cup {k \in 1 .. 29 : tree.ll[256 + k] # 0})
hdist(tree) == Max({0} \cup {k \in 1 .. 29 : tree.d[k] # 0})

lld_lengths(tree) ==
  LET lit == 257 + hlit(tree)
  IN  Tabulated([i \in 1 .. lit + hdist(tree) + 1 |->
                   IF i <= lit THEN tree.ll[i - 1] ELSE tree.d[i - 1 - lit]])

Code(symbol, extra) == [symbol |-> symbol, extra |-> extra]

Times(n, code) == [i \in 1 .. n |-> code]

(* The codes for a run of `count' equal lengths. *)
Run(value, count) ==
  LET repeat == count - 1
      three == IF repeat % 6 >= 3 THEN 1 ELSE 0
  IN  CASE value = 0 /\ count > 10 -> <<Code(18, count - 11)>>
        [] value = 0 /\ count \in 3 .. 10 -> <<Code(17, count - 3)>>
        [] value # 0 /\ count >= 4 ->
             <<Code(value, 0)>> \o Times(repeat \div 6, Code(16, 3)) \o Times(three, Code(16, 0))
               \o Times((repeat % 6) - 3 * three, Code(value, 0))
        [] OTHER -> Times(count, Code(value, 0))

RECURSIVE Rle(_, _)
Rle(lengths, i) ==
  IF i > Len(lengths) THEN <<>>
  ELSE LET next == Min({j \in i .. Len(lengths) + 1 :
                          j > Len(lengths) \/ lengths[IF j > Len(lengths) THEN i ELSE j] # lengths[i]})
           count == IF lengths[i] = 0 THEN Min({next - i, 138}) ELSE next - i
       IN  Run(lengths[i], count) \o Rle(lengths, i + count)

order == <<16, 17, 18, 0, 8, 7, 9, 6, 10, 5, 11, 4, 12, 3, 13, 2, 14, 1, 15>>

ExtraBits(symbol) == CASE symbol = 16 -> 2 [] symbol = 17 -> 3 [] symbol = 18 -> 7 [] OTHER -> 0

AddDynamicTree(tree) ==
  LET clcounts(rle) ==
        Tabulated([s \in 0 .. 18 |-> Cardinality({i \in DOMAIN rle : rle[i].symbol = s})])
      hclen(clcl) == Max({0} \cup {k \in 1 .. 15 : clcl[order[k + 4]] # 0})
      Written(rle, clcl, clsymbols) ==
        FlattenSeq([i \in DOMAIN rle |->
          AddHuffmanBits(clsymbols[rle[i].symbol], clcl[rle[i].symbol])
            \o AddBits(rle[i].extra, ExtraBits(rle[i].symbol))])
  IN  With(With(lld_lengths(tree), LAMBDA lengths : Rle(lengths, 1)), LAMBDA rle :
        With(ZopfliCalculateBitLengths(clcounts(rle), 7), LAMBDA clcl :
          AddBits(hlit(tree), 5) \o AddBits(hdist(tree), 5) \o AddBits(hclen(clcl), 4)
            \o FlattenSeq([i \in 1 .. hclen(clcl) + 4 |-> AddBits(clcl[order[i]], 3)])
            \o With(ZopfliLengthsToSymbols(clcl), LAMBDA symbols : Written(rle, clcl, symbols))))

(* The bytes begun, in bits, and the bits of the last one again. *)
CalculateTreeSize(tree) ==
  LET bits == Len(AddDynamicTree(tree))
  IN  8 * ((bits + 7) \div 8) + (bits % 8)

CalculateBlockSymbolSize(tree, store) ==
  LET Size(e) ==
        IF e.dist = 0 THEN tree.ll[e.litlen]
        ELSE tree.ll[ZopfliGetLengthSymbol(e.litlen)] + ZopfliGetLengthExtraBits(e.litlen)
               + tree.d[ZopfliGetDistSymbol(e.dist)] + ZopfliGetDistExtraBits(e.dist)
  IN  MapThenSumSet(LAMBDA k : Size(store[k]), DOMAIN store) + tree.ll[256]

ZopfliCalculateBlockSize(store, btype) ==
  IF btype = 1 THEN 3 + CalculateBlockSymbolSize(GetFixedTree, store)
  ELSE With(DynamicTree(store), LAMBDA tree :
         3 + CalculateTreeSize(tree) + CalculateBlockSymbolSize(tree, store))

------------------------------------------------------------------------------
(* The blocks *)

WithSymbols(tree) ==
  [ll |-> tree.ll, ll_symbols |-> ZopfliLengthsToSymbols(tree.ll),
   d |-> tree.d, d_symbols |-> ZopfliLengthsToSymbols(tree.d)]

FixedSymbols == WithSymbols(GetFixedTree)

BlockHeader(final, btype) == <<IF final THEN 1 ELSE 0>> \o AddBits(btype, 2)

AddLZ77Data(tree, store) ==
  LET LitLen(symbol) == AddHuffmanBits(tree.ll_symbols[symbol], tree.ll[symbol])
      Distance(symbol) == AddHuffmanBits(tree.d_symbols[symbol], tree.d[symbol])
      Entry(e) ==
        IF e.dist = 0 THEN LitLen(e.litlen)
        ELSE LitLen(ZopfliGetLengthSymbol(e.litlen))
               \o AddBits(ZopfliGetLengthExtraBitsValue(e.litlen), ZopfliGetLengthExtraBits(e.litlen))
               \o Distance(ZopfliGetDistSymbol(e.dist))
               \o AddBits(ZopfliGetDistExtraBitsValue(e.dist), ZopfliGetDistExtraBits(e.dist))
  IN  FlattenSeq([k \in DOMAIN store |-> Entry(store[k])]) \o LitLen(256)

AddLZ77Block(btype, final, store) ==
  BlockHeader(final, btype) \o
    IF btype = 1 THEN AddLZ77Data(FixedSymbols, store)
    ELSE With(WithSymbols(DynamicTree(store)), LAMBDA tree :
           AddDynamicTree(tree) \o AddLZ77Data(tree, store))

(* A stored block, after what is written already. *)
DeflateNonCompressedBlock(bits, final, data) ==
  LET header == bits \o BlockHeader(final, 0)
      size == Len(data)
      nlen == 65535 - size
  IN  header \o Padding(header)
        \o Bytes(<<size % 256, size \div 256, nlen % 256, nlen \div 256>>) \o Bytes(data)

(* The output in bytes: the last one is filled with zeros. *)
InBytes(bits) ==
  LET whole == bits \o Padding(bits)
  IN  [i \in 1 .. Len(whole) \div 8 |->
         MapThenSumSet(LAMBDA k : whole[8 * (i - 1) + k] * 2 ^ (k - 1), 1 .. 8)]

------------------------------------------------------------------------------
(***************************************************************************)
(* The containers.  A 32-bit word is the set of its bits that are 1, so    *)
(* exclusive or is the symmetric difference.                               *)
(***************************************************************************)
Word(n) == {b \in 0 .. 15 : (n \div 2 ^ b) % 2 = 1}

ByteOf(word, i) == MapThenSumSet(LAMBDA b : 2 ^ (b - 8 * i), word \cap (8 * i .. 8 * i + 7))

ShiftRight(word, k) == {b - k : b \in {b \in word : b >= k}}

(* 0xedb88320 *)
Polynomial == {5, 8, 9, 15, 19, 20, 21, 23, 24, 26, 27, 29, 30, 31}

crc_table ==
  Tabulated([n \in 0 .. 255 |->
    LET c[k \in 0 .. 8] ==
          IF k = 0 THEN Word(n)
          ELSE With(c[k - 1], LAMBDA before :
                 IF 0 \in before THEN SymDiff(Polynomial, ShiftRight(before, 1))
                 ELSE ShiftRight(before, 1))
    IN  c[8]])

CRC(data) ==
  LET crc[i \in 0 .. Len(data)] ==
        IF i = 0 THEN 0 .. 31
        ELSE With(crc[i - 1], LAMBDA c :
               SymDiff(crc_table[ByteOf(SymDiff(c, Word(data[i])), 0)], ShiftRight(c, 8)))
  IN  SymDiff(crc[Len(data)], 0 .. 31)

(* For data of at most sums_overflow = 5550 bytes: the sums are reduced once. *)
adler32(data) ==
  LET sums[i \in 0 .. Len(data)] ==
        IF i = 0 THEN <<1, 0>>
        ELSE With(sums[i - 1], LAMBDA s : <<s[1] + data[i], s[2] + s[1] + data[i]>>)
  IN  With(sums[Len(data)], LAMBDA s :
        {b + 16 : b \in Word(s[2] % 65521)} \cup Word(s[1] % 65521))

(* The four bytes of a word, lowest first. *)
LittleEndian(word) == [i \in 1 .. 4 |-> ByteOf(word, i - 1)]

ZopfliGzipCompress(data, bits) ==
  <<31, 139, 8, 0, 0, 0, 0, 0, 2, 3>> \o InBytes(bits)
    \o LittleEndian(CRC(data)) \o LittleEndian(Word(Len(data)))

ZopfliZlibCompress(data, bits) ==
  LET cmfflg == 256 * 120
      checked == cmfflg + (31 - (cmfflg % 31))
  IN  <<checked \div 256, checked % 256>> \o InBytes(bits) \o Reverse(LittleEndian(adler32(data)))

ZopfliCompress(format, data, bits) ==
  CASE format = "gzip" -> ZopfliGzipCompress(data, bits)
    [] format = "zlib" -> ZopfliZlibCompress(data, bits)
    [] format = "deflate" -> InBytes(bits)
==============================================================================
