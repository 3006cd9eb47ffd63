-------------------------------- MODULE Squeeze --------------------------------
(***************************************************************************)
(* The optimal LZ77 pass of zopfli (src/3rd/zopfli/squeeze.cc) and its     *)
(* block splitter (blocksplitter.cc), one turn of a loop at a time.        *)
(*                                                                         *)
(* Costs are integers.  The symbol statistics the code derives its cost    *)
(* models from (entropies, in floating point, partly randomised) are left  *)
(* open: a model is given by the bits of each symbol.                      *)
(***************************************************************************)
EXTENDS DeflateFormat

CONSTANTS
  MinSplit,     \* the 10 of ZopfliBlockSplitLZ77: fewer entries are not split
  MaxBlocks     \* blocksplittingmax

(* ZOPFLI_LARGE_FLOAT *)
Large == 1000000

------------------------------------------------------------------------------
GetCostFixed(litlen, dist) ==
  IF dist = 0 THEN IF litlen <= 143 THEN 8 ELSE 9
  ELSE (IF ZopfliGetLengthSymbol(litlen) <= 279 THEN 7 ELSE 8) + 5
         + ZopfliGetDistExtraBits(dist) + ZopfliGetLengthExtraBits(litlen)

(* stats: the bits of each literal, length symbol and distance symbol. *)
GetCostStat(stats, litlen, dist) ==
  IF dist = 0 THEN stats.lit[litlen]
  ELSE stats.len[ZopfliGetLengthSymbol(litlen)] + ZopfliGetLengthExtraBits(litlen)
         + stats.dist[ZopfliGetDistSymbol(dist)] + ZopfliGetDistExtraBits(dist)

FixedModel == [fixed |-> TRUE]
StatModel(stats) == [fixed |-> FALSE, stats |-> stats]

costmodel(model, litlen, dist) ==
  IF model.fixed THEN GetCostFixed(litlen, dist) ELSE GetCostStat(model.stats, litlen, dist)

(* The first distance of each distance symbol. *)
dsymbols == {1, 2, 3, 4, 5, 7, 9, 13, 17, 25, 33, 49, 65, 97, 129, 193, 257, 385, 513, 769, 1025,
             1537, 2049, 3073, 4097, 6145, 8193, 12289, 16385, 24577}

(* Mutant: the longest match, taken for the cheapest. *)
GetCostModelMinCostOfLongest(model) == costmodel(model, 258, 1)

GetCostModelMinCost(model) ==
  LET LengthCost(l) == costmodel(model, l, 1)
      DistCost(d) == costmodel(model, 3, d)
      bestlength == CHOOSE l \in 3 .. 258 : \A k \in 3 .. 258 : LengthCost(l) <= LengthCost(k)
      bestdist == CHOOSE d \in dsymbols : \A e \in dsymbols : DistCost(d) <= DistCost(e)
  IN  costmodel(model, bestlength, bestdist)

------------------------------------------------------------------------------
(***************************************************************************)
(* GetBestLengths.  b is the state of its loop: the position i, the hash,  *)
(* the cache, costs and length_array by offset in the block, and whether   *)
(* the shortcut for long repetitions was ever taken.                       *)
(***************************************************************************)
StartBest(in, start, end, lmc, model, beyond) ==
  [i |-> start, h |-> StartHash(in, start, end, beyond), lmc |-> lmc, ok |-> TRUE,
   costs |-> [n \in 0 .. end - start |-> IF n = 0 THEN 0 ELSE Large],
   lengths |-> [n \in 0 .. end - start |-> 0],
   model |-> model, mincost |-> GetCostModelMinCost(model), shortcut |-> FALSE]

InLongRepetition(h, i, start, end) ==
  /\ h.same[i % WindowSize] > 2 * MaxMatch
  /\ i > start + MaxMatch + 1
  /\ i + 2 * MaxMatch + 1 < end
  /\ h.same[(i - MaxMatch) % WindowSize] > MaxMatch

(* Each of the next MaxMatch positions is reached from MaxMatch before it. *)
Shortcut(b, in, start, end) ==
  LET j == b.i - start
      skipped == j + MaxMatch .. j + 2 * MaxMatch - 1
      cost == costmodel(b.model, MaxMatch, 1)
  IN  [b EXCEPT !.costs = [n \in DOMAIN @ |-> IF n \in skipped THEN @[n - MaxMatch] + cost ELSE @[n]],
                !.lengths = [n \in DOMAIN @ |-> IF n \in skipped THEN MaxMatch ELSE @[n]],
                !.h = UpdateTo(in, b.i + 1, b.i + MaxMatch + 1, end, @),
                !.i = @ + MaxMatch,
                !.shortcut = TRUE]

(* The literal and the lengths from here that are cheaper than what was found before. *)
Relaxed(b, in, start, end, found) ==
  LET j == b.i - start
      Reach(k) == b.costs[j] + (IF k = 1 THEN costmodel(b.model, Byte(in, b.i), 0)
                                ELSE costmodel(b.model, k, found.sublen[k]))
      tried == {1} \cup {k \in 3 .. found.length : /\ b.i + k <= end
                                                    /\ b.costs[j + k] - b.costs[j] > b.mincost}
      better == {k \in tried : Reach(k) < b.costs[j + k]}
  IN  [b EXCEPT !.costs = Tabulated([n \in DOMAIN @ |-> IF n - j \in better THEN Reach(n - j) ELSE @[n]]),
                !.lengths = Tabulated([n \in DOMAIN @ |-> IF n - j \in better THEN n - j ELSE @[n]]),
                !.i = @ + 1]

BestTurn(before, in, start, end, beyond) ==
  With([before EXCEPT !.h = ZopfliUpdateHash(in, before.i, end, @)], LAMBDA hashed :
    With(IF InLongRepetition(hashed.h, hashed.i, start, end) THEN Shortcut(hashed, in, start, end)
         ELSE hashed, LAMBDA b :
      With(ZopfliFindLongestMatch(b.lmc, start, b.h, in, b.i, end, MaxMatch, TRUE, beyond),
           LAMBDA found :
        Relaxed([b EXCEPT !.lmc = found.lmc, !.ok = @ /\ found.ok], in, start, end, found))))

(* TraceBackwards: the lengths on the way to index, first one first. *)
RECURSIVE TraceBackwards(_, _)
TraceBackwards(lengths, index) ==
  IF index = 0 THEN <<>>
  ELSE Append(TraceBackwards(lengths, index - lengths[index]), lengths[index])

Traceable(lengths) ==
  \A n \in DOMAIN lengths : n > 0 => lengths[n] \in 1 .. Min({n, MaxMatch})

------------------------------------------------------------------------------
(* FollowPath, one length of the path at a time; f is the state of its loop. *)
StartFollow(in, start, end, lmc, path, beyond) ==
  [i |-> start, h |-> StartHash(in, start, end, beyond), lmc |-> lmc, ok |-> TRUE,
   path |-> path, store |-> <<>>]

FollowTurn(before, in, start, end, beyond) ==
  LET length == Head(before.path)
      h == ZopfliUpdateHash(in, before.i, end, before.h)
      Stored(entry, good) ==
        [before EXCEPT !.store = Append(@, entry), !.path = Tail(@),
                       !.ok = @ /\ good /\ before.i + LengthOf(entry) <= end,
                       !.h = UpdateTo(in, before.i + 1, before.i + length, end, h),
                       !.i = @ + length]
  IN  IF length < MinMatch THEN Stored(Literal(Byte(in, before.i)), TRUE)
      ELSE With(ZopfliFindLongestMatch(before.lmc, start, h, in, before.i, end, length, FALSE, beyond),
                LAMBDA found :
             Stored(Match(length, found.dist),
                    /\ found.ok
                    /\ found.length # length => found.length <= 2
                    /\ ZopfliVerifyLenDist(in, end, before.i, found.dist, length)))

------------------------------------------------------------------------------
(***************************************************************************)
(* ZopfliBlockSplitLZ77.  sp is the state of its loop: the range of the    *)
(* store to split, the starts of ranges that are done, the points found,   *)
(* in order, and whether the loop is over.                                 *)
(***************************************************************************)
StartSplit(store) ==
  [lstart |-> 0, lend |-> Len(store), done |-> {}, points |-> <<>>,
   over |-> Len(store) < MinSplit]

(***************************************************************************)
(* Which point FindMinimum takes for the cheapest, and whether the two     *)
(* estimated sizes come to less than the one, are left open: they depend   *)
(* on statistics that blocks of a few entries do not have.                 *)
(***************************************************************************)
FindMinimum(start, end) == start .. end - 1

(* Mutant: points are kept in the order they are found. *)
AddLast(value, points) == Append(points, value)

AddSorted(value, points) ==
  SelectSeq(points, LAMBDA p : p <= value) \o <<value>> \o SelectSeq(points, LAMBDA p : p > value)

(* The ranges that can be split still: the last one leaves the last entry out. *)
Splittable(sp, llsize) ==
  LET bounds == <<0>> \o sp.points \o <<llsize - 1>>
  IN  {r \in {<<bounds[k], bounds[k + 1]>> : k \in 1 .. Len(bounds) - 1} :
         r[1] \notin sp.done /\ r[2] > r[1]}

FindLargestSplittableBlock(sp, llsize) ==
  LET ranges == Splittable(sp, llsize)
      Size(r) == r[2] - r[1]
      largest == CHOOSE r \in ranges : \A q \in ranges :
                   Size(q) < Size(r) \/ (Size(q) = Size(r) /\ r[1] <= q[1])
  IN  IF ranges = {} \/ Size(largest) < MinSplit THEN [sp EXCEPT !.over = TRUE]
      ELSE [sp EXCEPT !.lstart = largest[1], !.lend = largest[2]]

(* What a turn of the loop may come to. *)
SplitTurns(sp, llsize) ==
  IF MaxBlocks > 0 /\ Len(sp.points) + 1 >= MaxBlocks THEN {[sp EXCEPT !.over = TRUE]}
  ELSE {FindLargestSplittableBlock([sp EXCEPT !.done = @ \cup {sp.lstart}], llsize)}
         \cup {FindLargestSplittableBlock([sp EXCEPT !.points = AddSorted(llpos, @)], llsize) :
                  llpos \in FindMinimum(sp.lstart + 1, sp.lend) \ {sp.lstart + 1}}

(* ZopfliBlockSplit: the points as positions in the input. *)
InputPositions(store, points, instart) ==
  [k \in DOMAIN points |->
     instart + MapThenSumSet(LAMBDA e : LengthOf(store[e]), 1 .. points[k])]

(* ZopfliBlockSplitSimple *)
RECURSIVE ZopfliBlockSplitSimple(_, _, _)
ZopfliBlockSplitSimple(i, inend, blocksize) ==
  IF i >= inend THEN <<>>
  ELSE <<i>> \o ZopfliBlockSplitSimple(i + blocksize, inend, blocksize)
==============================================================================
