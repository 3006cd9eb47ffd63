--------------------------------- MODULE Lz77 ---------------------------------
(***************************************************************************)
(* The match finder of the zopfli compressor: the sliding-window hash      *)
(* (src/3rd/zopfli/hash.cc), the cache of longest matches (cache.cc), the  *)
(* search for the longest match and the greedy LZ77 pass (lz77.cc).        *)
(*                                                                         *)
(* The input is a sequence of bytes, read from index 0 as in the code.  An *)
(* LZ77 store is a sequence of [litlen, dist]: a literal when dist is 0.   *)
(* A result's `ok' says whether the assertions on the way to it held.      *)
(***************************************************************************)
EXTENDS Integers, Sequences, FiniteSets, SequencesExt, FiniteSetsExt, Bitwise, TLC, Strict

CONSTANTS
  WindowSize,     \* ZOPFLI_WINDOW_SIZE
  MaxMatch,       \* ZOPFLI_MAX_MATCH
  CacheLength,    \* ZOPFLI_CACHE_LENGTH
  MaxChainHits,   \* ZOPFLI_MAX_CHAIN_HITS
  FarDistance     \* the 1024 of GetLengthValue

MinMatch == 3

ASSUME ScaleAssumption ==
  /\ WindowSize \in {2 ^ k : k \in 1 .. 15}
  /\ MaxMatch > MinMatch /\ MaxMatch < WindowSize
  /\ CacheLength > 0
  /\ MaxChainHits > 0 /\ MaxChainHits < WindowSize

Byte(in, i) == in[i + 1]

Literal(byte) == [litlen |-> byte, dist |-> 0]
Match(length, dist) == [litlen |-> length, dist |-> dist]
LengthOf(entry) == IF entry.dist = 0 THEN 1 ELSE entry.litlen

------------------------------------------------------------------------------
(* The hash.  A `head' of -1 is a value outside the domain of head. *)

UpdateHashValue(val, c) == ((val * 32) ^^ c) % 32768

Window(f) == [p \in 0 .. WindowSize - 1 |-> f]

ZopfliInitHash ==
  [val |-> 0, head |-> <<>>, prev |-> [p \in 0 .. WindowSize - 1 |-> p], hashval |-> Window(-1),
   val2 |-> 0, head2 |-> <<>>, prev2 |-> [p \in 0 .. WindowSize - 1 |-> p], hashval2 |-> Window(-1),
   same |-> Window(0)]

(* How many bytes after pos repeat the byte at pos, counted on from the last result. *)
Same(in, pos, end, before) ==
  LET from == IF before > 1 THEN before - 1 ELSE 0
  IN  Min({a \in from .. end - pos : \/ pos + a + 1 >= end
                                     \/ Byte(in, pos) # Byte(in, pos + a + 1)})

(* Mutant: the head may have been overwritten. *)
ChainedUnchecked(head, hashval, val, hpos) == IF val \in DOMAIN head THEN head[val] ELSE hpos

(* The position before hpos on its hash chain, or hpos itself. *)
Chained(head, hashval, val, hpos) ==
  IF val \in DOMAIN head /\ hashval[head[val]] = val THEN head[val] ELSE hpos

ZopfliUpdateHash(in, pos, end, h) ==
  LET hpos == pos % WindowSize
      val == UpdateHashValue(h.val, IF pos + MinMatch <= end THEN Byte(in, pos + 2) ELSE 0)
      hashval == [h.hashval EXCEPT ![hpos] = val]
      same == Same(in, pos, end, h.same[(pos - 1) % WindowSize])
      val2 == ((same - MinMatch) % 256) ^^ val
      hashval2 == [h.hashval2 EXCEPT ![hpos] = val2]
  IN  [val |-> val, head |-> (val :> hpos) @@ h.head,
       prev |-> [h.prev EXCEPT ![hpos] = Chained(h.head, hashval, val, hpos)],
       hashval |-> hashval,
       val2 |-> val2, head2 |-> (val2 :> hpos) @@ h.head2,
       prev2 |-> [h.prev2 EXCEPT ![hpos] = Chained(h.head2, hashval2, val2, hpos)],
       hashval2 |-> hashval2,
       same |-> [h.same EXCEPT ![hpos] = same]]

(* Positions from .. to - 1 enter the hash. *)
RECURSIVE UpdateTo(_, _, _, _, _)
UpdateTo(in, from, to, end, h) ==
  IF from >= to THEN h
  ELSE UpdateTo(in, from + 1, to, end, ZopfliUpdateHash(in, from, end, h))

(***************************************************************************)
(* The hash at the start of a pass over instart .. inend - 1: warmed up    *)
(* with two bytes and filled with the window before the block.  For an     *)
(* input of one byte the second one is read past it: `beyond'.             *)
(***************************************************************************)
StartHash(in, instart, inend, beyond) ==
  LET windowstart == IF instart > WindowSize THEN instart - WindowSize ELSE 0
      second == IF windowstart + 1 < Len(in) THEN Byte(in, windowstart + 1) ELSE beyond
      warm == UpdateHashValue(UpdateHashValue(0, Byte(in, windowstart)), second)
  IN  UpdateTo(in, windowstart, instart, inend, [ZopfliInitHash EXCEPT !.val = warm])

------------------------------------------------------------------------------
(***************************************************************************)
(* The longest-match cache of a block: for each position a length, a       *)
(* distance and CacheLength pairs [l, d]: the distance for lengths up to   *)
(* l + 3.  `on' is false where the code has no cache.                      *)
(***************************************************************************)
NoCache == [on |-> FALSE]

ZopfliInitCache(blocksize) ==
  [on |-> TRUE,
   length |-> [p \in 0 .. blocksize - 1 |-> 1],
   dist |-> [p \in 0 .. blocksize - 1 |-> 0],
   sublen |-> [p \in 0 .. blocksize - 1 |-> [j \in 1 .. CacheLength |-> [l |-> 0, d |-> 0]]]]

ZopfliMaxCachedSublen(lmc, p) ==
  IF lmc.sublen[p][1].d = 0 THEN 0 ELSE lmc.sublen[p][CacheLength].l + 3

ZopfliSublenToCache(sublen, p, length, lmc) ==
  IF length < 3 THEN lmc
  ELSE LET ends == {i \in 3 .. length : i = length \/ sublen[i] # sublen[i + 1]}
           Nth(j) == CHOOSE i \in ends : Cardinality({e \in ends : e <= i}) = j
           Entry(j) ==
             IF j <= Cardinality(ends) THEN [l |-> Nth(j) - 3, d |-> sublen[Nth(j)]]
             ELSE IF j = CacheLength THEN [l |-> Max(ends) - 3, d |-> lmc.sublen[p][j].d]
             ELSE lmc.sublen[p][j]
       IN  [lmc EXCEPT !.sublen[p] = [j \in 1 .. CacheLength |-> Entry(j)]]

ZopfliCacheToSublen(lmc, p, length, sublen) ==
  LET cached == lmc.sublen[p]
      For(i) == Min({j \in 1 .. CacheLength : i <= cached[j].l + 3})
  IN  IF length < 3 THEN sublen
      ELSE [i \in DOMAIN sublen |->
              IF i <= ZopfliMaxCachedSublen(lmc, p) THEN cached[For(i)].d ELSE sublen[i]]

(* A length of 1 with distance 0 marks an entry that is not filled in. *)
Filled(lmc, p) == lmc.on /\ (lmc.length[p] = 0 \/ lmc.dist[p] # 0)

(* Mutant: a shorter match is taken to be at the distance of the longest. *)
LimitOkIfFilled(lmc, p, limit, wantsub) == Filled(lmc, p)

(* TryGetFromLongestMatchCache: the cache's limit and lengths suffice. *)
LimitOk(lmc, p, limit, wantsub) ==
  /\ Filled(lmc, p)
  /\ \/ limit = MaxMatch
     \/ lmc.length[p] <= limit
     \/ wantsub /\ ZopfliMaxCachedSublen(lmc, p) >= limit

FromCache(lmc, p, limit, wantsub) ==
  /\ LimitOk(lmc, p, limit, wantsub)
  /\ wantsub => lmc.length[p] <= ZopfliMaxCachedSublen(lmc, p)

Cached(lmc, p, limit, wantsub, sublen) ==
  LET length == Min({lmc.length[p], limit})
      sub == IF wantsub THEN ZopfliCacheToSublen(lmc, p, length, sublen) ELSE sublen
  IN  [length |-> length, sublen |-> sub,
       dist |-> IF wantsub THEN sub[length] ELSE lmc.dist[p],
       ok |-> wantsub /\ limit = MaxMatch /\ length >= MinMatch => sub[length] = lmc.dist[p]]

StoreInLongestMatchCache(lmc, p, limit, wantsub, sublen, dist, length) ==
  IF lmc.on /\ limit = MaxMatch /\ wantsub /\ ~Filled(lmc, p)
  THEN ZopfliSublenToCache(sublen, p, length,
         [lmc EXCEPT !.dist[p] = IF length < MinMatch THEN 0 ELSE dist,
                     !.length[p] = IF length < MinMatch THEN 0 ELSE length])
  ELSE lmc

------------------------------------------------------------------------------
(***************************************************************************)
(* The search.  w is its state: p, the position on the hash chain; dist,   *)
(* its distance; length and bestdist, the best match; sublen, the distance *)
(* for every length; second, whether the chain is now that of the second   *)
(* hash; hits, how many positions may still be tried.                      *)
(***************************************************************************)
RingDistance(p, pp) == IF p < pp THEN pp - p ELSE (WindowSize - p) + pp

(* The bytes that match at this distance, trusting `same' for the first ones. *)
GetMatch(in, h, pos, dist, limit) ==
  LET same0 == h.same[pos % WindowSize]
      same1 == h.same[(pos - dist) % WindowSize]
      skip == IF same0 > 2 /\ Byte(in, pos) = Byte(in, pos - dist)
              THEN Min({same0, same1, limit}) ELSE 0
  IN  Min({n \in skip .. limit :
             n = limit \/ Byte(in, pos + n) # Byte(in, pos - dist + n)})

CurrentLength(in, h, pos, size, limit, w) ==
  IF w.dist > 0 /\ (\/ pos + w.length >= size
                    \/ Byte(in, pos + w.length) = Byte(in, pos - w.dist + w.length))
  THEN GetMatch(in, h, pos, w.dist, limit)
  ELSE 0

Improved(w, length) ==
  IF length > w.length
  THEN [w EXCEPT !.length = length, !.bestdist = w.dist,
                 !.sublen = [k \in DOMAIN @ |-> IF k \in w.length + 1 .. length THEN w.dist ELSE @[k]]]
  ELSE w

OnChain(h, pos, w) ==
  /\ w.dist <= pos
  /\ IF w.second THEN h.hashval2[w.p] = h.val2 ELSE h.hashval[w.p] = h.val

RECURSIVE Walk(_, _, _, _, _, _)
Walk(in, h, pos, size, limit, w) ==
  IF w.dist >= WindowSize THEN w
  ELSE IF ~OnChain(h, pos, w) THEN [w EXCEPT !.ok = FALSE]
  ELSE LET found == Improved(w, CurrentLength(in, h, pos, size, limit, w))
           second == \/ found.second
                     \/ /\ found.length >= h.same[pos % WindowSize]
                        /\ h.val2 = h.hashval2[w.p]
           p == IF second THEN h.prev2[w.p] ELSE h.prev[w.p]
       IN  IF \/ found.length > w.length /\ found.length >= limit
              \/ p = w.p
              \/ w.hits = 1
           THEN found
           ELSE Walk(in, h, pos, size, limit,
                     [found EXCEPT !.p = p, !.second = second, !.hits = @ - 1,
                                   !.dist = @ + RingDistance(p, w.p)])

(* The search without the cache; the limit is cut at the end of the input. *)
Search(in, h, pos, size, limit, sublen) ==
  LET p == h.prev[h.head[h.val]]
  IN  Walk(in, h, pos, size, Min({limit, size - pos}),
           [p |-> p, dist |-> RingDistance(p, h.head[h.val]), length |-> 1, bestdist |-> 0,
            sublen |-> sublen, second |-> FALSE, hits |-> MaxChainHits,
            ok |-> h.head[h.val] = pos % WindowSize])

(***************************************************************************)
(* ZopfliFindLongestMatch.  The array for the sublens starts with whatever *)
(* is in memory, `beyond'; start is where the block and its cache begin.   *)
(***************************************************************************)
ZopfliFindLongestMatch(lmc, start, h, in, pos, size, limit, wantsub, beyond) ==
  LET p == pos - start
      sublen == [k \in 0 .. MaxMatch |-> beyond]
      bound == IF LimitOk(lmc, p, limit, wantsub) THEN lmc.length[p] ELSE limit
      Found(length, dist, sub, cache, ok) ==
        [length |-> length, dist |-> dist, sublen |-> sub, lmc |-> cache,
         ok |-> ok /\ pos + length <= size]
  IN  IF FromCache(lmc, p, limit, wantsub)
      THEN With(Cached(lmc, p, limit, wantsub, sublen), LAMBDA c :
             Found(c.length, c.dist, c.sublen, lmc, c.ok))
      ELSE IF size - pos < MinMatch THEN Found(0, 0, sublen, lmc, bound >= MinMatch)
      ELSE With(Search(in, h, pos, size, bound, sublen), LAMBDA w :
             Found(w.length, w.bestdist, w.sublen,
                   StoreInLongestMatchCache(lmc, p, Min({bound, size - pos}), wantsub,
                                            w.sublen, w.bestdist, w.length),
                   w.ok /\ bound \in MinMatch .. MaxMatch))

(* ZopfliVerifyLenDist *)
ZopfliVerifyLenDist(in, size, pos, dist, length) ==
  /\ pos + length <= size
  /\ dist <= pos
  /\ \A i \in 0 .. length - 1 : Byte(in, pos - dist + i) = Byte(in, pos + i)

------------------------------------------------------------------------------
(***************************************************************************)
(* ZopfliLZ77Greedy, one turn of its loop at a time.  g is the state of    *)
(* the loop: the position i, the hash, the cache, the store and `lazy',    *)
(* the match found at the position before that is held back in case the    *)
(* one here is better (Match(0, 0) when there is none).                    *)
(***************************************************************************)
GetLengthValue(length, dist) == IF dist > FarDistance THEN length - 1 ELSE length

Put(g, in, end, at, entry, next) ==
  [g EXCEPT !.store = Append(@, entry), !.lazy = Match(0, 0), !.i = next,
            !.h = UpdateTo(in, g.i + 1, next, end, g.h),
            !.ok = /\ @
                  /\ entry.dist > 0 =>
                       ZopfliVerifyLenDist(in, end, at, entry.dist, entry.litlen)]

(* The match here is not held back: it, or a literal, goes to the store. *)
PutHere(g, in, end, found) ==
  IF GetLengthValue(found.length, found.dist) >= MinMatch
  THEN Put(g, in, end, g.i, Match(found.length, found.dist), g.i + found.length)
  ELSE Put(g, in, end, g.i, Literal(Byte(in, g.i)), g.i + 1)

HoldBack(g, found) == [g EXCEPT !.lazy = Match(found.length, found.dist), !.i = @ + 1]

(* The loop's body once the match at g.i is found; value is its length's value. *)
LazyMatching(g, in, end, found, value) ==
  LET held == g.lazy.litlen > 0
      better == value > GetLengthValue(g.lazy.litlen, g.lazy.dist) + 1
      literal == [g EXCEPT !.store = Append(@, Literal(Byte(in, g.i - 1))), !.lazy = Match(0, 0)]
  IN  CASE held /\ better /\ value \in MinMatch .. MaxMatch - 1 -> HoldBack(literal, found)
        [] held /\ better /\ value \notin MinMatch .. MaxMatch - 1 -> PutHere(literal, in, end, found)
        [] held /\ ~better -> Put(g, in, end, g.i - 1, g.lazy, g.i - 1 + g.lazy.litlen)
        [] ~held /\ value >= MinMatch /\ found.length < MaxMatch -> HoldBack(g, found)
        [] ~held /\ ~(value >= MinMatch /\ found.length < MaxMatch) -> PutHere(g, in, end, found)

GreedyTurn(g, in, start, end, beyond) ==
  With(ZopfliUpdateHash(in, g.i, end, g.h), LAMBDA h :
    With(ZopfliFindLongestMatch(g.lmc, start, h, in, g.i, end, MaxMatch, TRUE, beyond), LAMBDA found :
      LazyMatching([g EXCEPT !.h = h, !.lmc = found.lmc, !.ok = @ /\ found.ok], in, end, found,
                   GetLengthValue(found.length, found.dist))))
==============================================================================
