------------------------ MODULE RequestHandlerProofs ------------------------
(***************************************************************************)
(* Theorems about RequestHandler, for every number of threads, every set   *)
(* of contents and every set of keys that clients ask for: what handlers   *)
(* find in the requests of clients, and, with the invariants of            *)
(* RequestHandlerInvariants, what the replies say.                         *)
(***************************************************************************)
EXTENDS RequestHandlerInvariants, MultipartProofs

(***************************************************************************)
(* The query of a URI: the recursive function of QueryPairs exists, and so *)
(* its values are what its definition says.                                *)
(***************************************************************************)
Pairs(S) == [name : S, value : Seq(S)]

ValueEnd(text, i) == RunEnd(text, i + 2, IsValue)

HasValue(text, i) == Is(text, i + 1, "=") /\ ValueEnd(text, i) > i + 2

PairEnd(text, i) == IF HasValue(text, i) THEN ValueEnd(text, i) ELSE i + 1

PairAt(text, i) ==
  [name |-> text[i],
   value |-> IF HasValue(text, i) THEN SubSeq(text, i + 2, ValueEnd(text, i) - 1) ELSE NoText]

QueryAt(text, i, from) ==
  IF i > Len(text) \/ text[i] \notin Range(Names) THEN <<>>
  ELSE <<PairAt(text, i)>>
       \o (IF PairEnd(text, i) <= Len(text) /\ text[PairEnd(text, i)] \in Separators
           THEN from[PairEnd(text, i) + 1] ELSE <<>>)

(***************************************************************************)
(* A pair of a query ends behind its beginning.                            *)
(***************************************************************************)
LEMMA PairFacts ==
  ASSUME NEW S, NEW text \in Seq(S), NEW i \in 1 .. Len(text)
  PROVE  /\ PairEnd(text, i) \in i + 1 .. Len(text) + 1
         /\ PairAt(text, i) \in Pairs(S)
<1>1. CASE ~ HasValue(text, i)
  BY <1>1 DEF PairEnd, PairAt, Pairs, NoText
<1>2. CASE HasValue(text, i)
  <2> DEFINE J == {j \in i + 2 .. Len(text) + 1 : j = Len(text) + 1 \/ ~ IsValue(text[j])}
             e == ValueEnd(text, i)
  <2>1. i + 2 <= Len(text) + 1
    BY <1>2 DEF HasValue, Is
  <2>2. J \in SUBSET Nat /\ Len(text) + 1 \in J
    BY <2>1
  <2>3. Min(J) \in J
    BY <2>2, MinFacts, Zenon
  <2>4. e \in i + 2 .. Len(text) + 1
    BY <2>3, Zenon DEF ValueEnd, RunEnd
  <2> HIDE DEF e
  <2>5. SubSeq(text, i + 2, e - 1) \in Seq(S)
    BY <2>4
  <2> QED
    BY <1>2, <2>4, <2>5 DEF PairEnd, PairAt, Pairs, e
<1> QED
  BY <1>1, <1>2, Zenon

(***************************************************************************)
(* The pairs of a query, one after the other.                              *)
(***************************************************************************)
LEMMA QueryUnfold ==
  ASSUME NEW S, NEW text \in Seq(S)
  PROVE  \E from \in [1 .. Len(text) + 1 -> Seq(Pairs(S))] :
           /\ QueryPairs(text) = from[1]
           /\ \A i \in 1 .. Len(text) + 1 : from[i] = QueryAt(text, i, from)
<1> DEFINE L == Len(text) + 1
           V == Seq(Pairs(S))
           More(i) == /\ i <= Len(text) /\ text[i] \in Range(Names)
                      /\ PairEnd(text, i) <= Len(text) /\ text[PairEnd(text, i)] \in Separators
           next == [i \in 1 .. L |-> IF More(i) THEN PairEnd(text, i) + 1 ELSE L + 1]
           base == [i \in 1 .. L |-> IF i > Len(text) \/ text[i] \notin Range(Names) THEN <<>>
                                     ELSE <<PairAt(text, i)>>]
           step == [i \in 1 .. L |-> [v \in V |-> IF More(i) THEN <<PairAt(text, i)>> \o v ELSE v]]
           Value(f, i) == IF next[i] > L THEN base[i] ELSE step[i][f[next[i]]]
<1>1. L \in Nat /\ \A i \in 1 .. L : i <= Len(text) <=> i \in 1 .. Len(text)
  OBVIOUS
<1>2. \A i \in 1 .. L : i <= Len(text) =>
        PairEnd(text, i) \in i + 1 .. L /\ PairAt(text, i) \in Pairs(S)
  BY PairFacts
<1>3. next \in [1 .. L -> Nat] /\ \A i \in 1 .. L : next[i] > i
  BY <1>2
<1>4. base \in [1 .. L -> V]
  BY <1>2
<1>5. step \in [1 .. L -> [V -> V]]
  <2>1. ASSUME NEW i \in 1 .. L, More(i), NEW v \in V PROVE <<PairAt(text, i)>> \o v \in V
    <3>1. PairAt(text, i) \in Pairs(S)
      BY <1>2, <2>1, Zenon
    <3> QED
      BY <3>1
  <2> QED
    BY <2>1, Zenon
<1> HIDE DEF V
<1>6. PICK f \in [1 .. L -> V] : \A i \in 1 .. L : f[i] = Value(f, i)
  <2> HIDE DEF L, next, base, step
  <2> QED
    <3>1. Recursive(L, V, next, base, step)
      BY <1>1, <1>3, <1>4, <1>5, Zenon DEF Recursive
    <3> QED
      BY <3>1, Recursion
<1>7. ASSUME NEW i \in 1 .. L PROVE f[i] = QueryAt(text, i, f)
  <2>1. CASE More(i)
    <3>1. next[i] = PairEnd(text, i) + 1 /\ next[i] <= L
      BY <1>2, <2>1
    <3>2. f[next[i]] \in V
      BY <1>3, <3>1
    <3>3. f[i] = <<PairAt(text, i)>> \o f[next[i]]
      <4>1. \A v \in V : step[i][v] = <<PairAt(text, i)>> \o v
        BY <2>1, Zenon
      <4>2. ~ (next[i] > L)
        BY <1>3, <3>1
      <4> HIDE DEF next, step, base, L
      <4> QED
        BY <1>6, <3>2, <4>1, <4>2, Zenon
    <3> QED
      BY <2>1, <3>1, <3>3 DEF QueryAt
  <2>2. CASE ~ More(i)
    <3>1. f[i] = base[i]
      <4>1. next[i] > L
        BY <2>2
      <4> HIDE DEF next, step, base, L
      <4> QED
        BY <1>6, <4>1, Zenon
    <3>2. CASE i > Len(text) \/ text[i] \notin Range(Names)
      BY <3>1, <3>2, Zenon DEF QueryAt
    <3>3. CASE ~ (i > Len(text) \/ text[i] \notin Range(Names))
      <4>1. QueryAt(text, i, f) = <<PairAt(text, i)>> \o <<>>
        <5>1. ~ (PairEnd(text, i) <= Len(text) /\ text[PairEnd(text, i)] \in Separators)
          BY <2>2, <3>3
        <5> QED
          BY <3>3, <5>1, Zenon DEF QueryAt
      <4> QED
        BY <1>2, <3>1, <3>3, <4>1
    <3> QED
      BY <3>2, <3>3, Zenon
  <2> QED
    BY <2>1, <2>2, Zenon
<1> DEFINE Eqn(g) == g = [i \in 1 .. L |-> QueryAt(text, i, g)]
           chosen == CHOOSE g : Eqn(g)
<1>8. Eqn(f)
  BY <1>7, Zenon
<1>9. Eqn(chosen)
  BY <1>8, Zenon
<1>10. chosen = f
  <2>1. \A i \in 1 .. L : chosen[i] = QueryAt(text, i, chosen)
    BY <1>9, Zenon
  <2>2. \A i \in 1 .. L : (next[i] <= L => f[next[i]] = chosen[next[i]]) => f[i] = chosen[i]
    <3> SUFFICES ASSUME NEW i \in 1 .. L, next[i] <= L => f[next[i]] = chosen[next[i]]
                 PROVE  f[i] = chosen[i]
      BY Zenon
    <3>1. CASE More(i)
      <4>1. next[i] = PairEnd(text, i) + 1 /\ next[i] <= L
        BY <1>2, <3>1
      <4> HIDE DEF chosen, next, L
      <4> QED
        BY <1>7, <2>1, <4>1, Zenon DEF QueryAt
    <3>2. CASE ~ More(i)
      <4>1. \A g : QueryAt(text, i, g) = QueryAt(text, i, f)
        BY <1>1, <3>2 DEF QueryAt
      <4> HIDE DEF chosen, More
      <4> QED
        BY <1>7, <2>1, <4>1, Zenon
    <3> QED
      BY <3>1, <3>2, Zenon
  <2> HIDE DEF L, next, More
  <2>3. \A i \in 1 .. L : f[i] = chosen[i]
    <3> DEFINE ff == f
    <3> HIDE DEF chosen
    <3>1. Agreeing(L, next, ff, chosen)
      BY <1>1, <1>3, <2>2, Zenon DEF Agreeing
    <3> HIDE DEF ff
    <3>2. \A i \in 1 .. L : ff[i] = chosen[i]
      BY <3>1, Agreement
    <3> QED
      BY <3>2, Zenon DEF ff
  <2> QED
    BY <1>8, <1>9, <2>3, Zenon
<1>11. QueryPairs(text) = chosen[1]
  BY Zenon DEF QueryPairs, QueryAt, PairAt, PairEnd, HasValue, ValueEnd
<1> QED
  BY <1>7, <1>10, <1>11, Zenon DEF V

(***************************************************************************)
(* A name, "=" and a value of one word are one pair.                       *)
(***************************************************************************)
LEMMA OneWordPair ==
  ASSUME NEW S, NEW text \in Seq(S), NEW i \in 1 .. Len(text), i + 2 <= Len(text),
         text[i + 1] = "=", IsValue(text[i + 2]),
         i + 2 = Len(text) \/ ~ IsValue(text[i + 3])
  PROVE  /\ PairEnd(text, i) = i + 3
         /\ PairAt(text, i) = [name |-> text[i], value |-> <<text[i + 2]>>]
<1> DEFINE J == {j \in i + 2 .. Len(text) + 1 : j = Len(text) + 1 \/ ~ IsValue(text[j])}
<1>1. J \in SUBSET Nat /\ i + 3 \in J /\ \A j \in J : i + 3 <= j
  OBVIOUS
<1>2. Min(J) = i + 3
  BY <1>1, MinIs, Zenon
<1>3. ValueEnd(text, i) = i + 3
  BY <1>2, Zenon DEF ValueEnd, RunEnd
<1>4. HasValue(text, i)
  BY <1>3 DEF HasValue, Is
<1>5. SubSeq(text, i + 2, i + 2) = <<text[i + 2]>>
  BY OneElement
<1>6. ValueEnd(text, i) - 1 = i + 2
  BY <1>3
<1>7. PairEnd(text, i) = i + 3
  BY <1>3, <1>4, Zenon DEF PairEnd
<1>8. PairAt(text, i) = [name |-> text[i], value |-> SubSeq(text, i + 2, ValueEnd(text, i) - 1)]
  BY <1>4, Zenon DEF PairAt
<1>9. PairAt(text, i) = [name |-> text[i], value |-> SubSeq(text, i + 2, i + 2)]
  BY <1>6, <1>8, Zenon
<1> QED
  BY <1>5, <1>7, <1>9, Zenon

(***************************************************************************)
(* The query Sync writes is a row of pairs, camliversion=1 first, with '&' *)
(* between them.                                                           *)
(***************************************************************************)
Words == Plain \cup Refs

OnePair(name, word) == [name |-> name, value |-> <<word>>]

StatName(j) == IF j = 0 THEN "camliversion" ELSE BlobName[j]

StatValue(ks, j) == IF j = 0 THEN "1" ELSE BlobRef[ks[j]]

StatPairs(ks) == [i \in 1 .. Len(ks) + 1 |-> OnePair(StatName(i - 1), StatValue(ks, i - 1))]

StatWords(ks, n, text) ==
  /\ text \in Seq(Words) /\ Len(text) = 4 * n + 3
  /\ \A j \in 0 .. n : /\ text[4 * j + 1] = StatName(j)
                       /\ text[4 * j + 2] = "="
                       /\ text[4 * j + 3] = StatValue(ks, j)
  /\ \A j \in 1 .. n : text[4 * j] = "&"
  /\ \A i \in 1 .. Len(text) : text[i] # "?"

MayAsk(ks) == ks \in Seq(Keys) /\ Len(ks) <= Len(BlobName)

(***************************************************************************)
(* The names and values of these pairs.                                    *)
(***************************************************************************)
LEMMA StatPairFacts ==
  ASSUME NEW ks, MayAsk(ks), NEW j \in 0 .. Len(ks)
  PROVE  /\ StatName(j) \in Words /\ StatName(j) \in Range(Names) /\ StatName(j) # "?"
         /\ StatValue(ks, j) \in Words /\ IsValue(StatValue(ks, j)) /\ StatValue(ks, j) # "?"
         /\ OnePair(StatName(j), StatValue(ks, j)) \in Pairs(Words)
<1>1. StatName(j) \in Words /\ StatName(j) \in Range(Names) /\ StatName(j) # "?"
  <2>1. CASE j = 0
    <3>1. StatName(j) = "camliversion"
      BY <2>1, Zenon DEF StatName
    <3> QED
      BY <3>1, NamesAssumption, Zenon DEF Words, Plain
  <2>2. CASE j # 0
    <3>1. BlobName \in Seq(Range(BlobName)) /\ j \in 1 .. Len(BlobName)
      BY <2>2, NamesAssumption DEF MayAsk
    <3>2. BlobName[j] \in Range(BlobName)
      BY <3>1
    <3>3. StatName(j) \in Range(BlobName)
      BY <2>2, <3>2, Zenon DEF StatName
    <3> QED
      BY <3>3, NamesAssumption, Zenon DEF Words, Plain, Reserved
  <2> QED
    BY <2>1, <2>2, Zenon
<1>2. StatValue(ks, j) \in Words /\ IsValue(StatValue(ks, j)) /\ StatValue(ks, j) # "?"
  <2>1. CASE j = 0
    <3>1. StatValue(ks, j) = "1"
      BY <2>1, Zenon DEF StatValue
    <3> QED
      BY <3>1, Zenon DEF Words, Plain, IsValue, Separators
  <2>2. CASE j # 0
    <3>1. ks[j] \in Keys
      BY <2>2 DEF MayAsk
    <3>2. BlobRef[ks[j]] \notin Reserved /\ BlobRef[ks[j]] \in Refs
      BY <3>1, RefFacts, Zenon DEF Refs
    <3>3. StatValue(ks, j) = BlobRef[ks[j]]
      BY <2>2, Zenon DEF StatValue
    <3> QED
      BY <3>2, <3>3, Zenon DEF Words, IsValue, Reserved, Separators
  <2> QED
    BY <2>1, <2>2, Zenon
<1>3. OnePair(StatName(j), StatValue(ks, j)) \in Pairs(Words)
  <2> DEFINE a == StatName(j)
             b == StatValue(ks, j)
  <2>1. a \in Words /\ b \in Words
    BY <1>1, <1>2, Zenon
  <2> HIDE DEF a, b
  <2>2. OnePair(a, b) \in Pairs(Words)
    BY <2>1 DEF OnePair, Pairs
  <2> QED
    BY <2>2, Zenon DEF a, b
<1> QED
  BY <1>1, <1>2, <1>3, Zenon

(***************************************************************************)
(* Every reference adds its pair.                                          *)
(***************************************************************************)
LEMMA StatWordsGrow ==
  ASSUME NEW ks, MayAsk(ks), NEW n \in Nat, n + 1 <= Len(ks), NEW text, StatWords(ks, n, text)
  PROVE  StatWords(ks, n + 1, text \o <<"&", BlobName[n + 1], "=", BlobRef[ks[n + 1]]>>)
<1> DEFINE a == BlobName[n + 1]
           b == BlobRef[ks[n + 1]]
           p == <<"&", a, "=", b>>
           u == text \o p
<1>1. n + 1 \in 0 .. Len(ks) /\ n + 1 # 0
  BY DEF MayAsk
<1>2. a = StatName(n + 1) /\ b = StatValue(ks, n + 1)
  BY <1>1, Zenon DEF StatName, StatValue
<1>3. a \in Words /\ b \in Words /\ a # "?" /\ b # "?"
  BY <1>1, <1>2, StatPairFacts, Zenon
<1> HIDE DEF a, b
<1>4. {"&", "="} \subseteq Words
  BY Zenon DEF Words, Plain
<1>5. /\ p \in Seq(Words) /\ Len(p) = 4
      /\ p[1] = "&" /\ p[2] = a /\ p[3] = "=" /\ p[4] = b
      /\ \A i \in 1 .. 4 : p[i] # "?"
  BY <1>3, <1>4
<1> HIDE DEF p
<1>6. text \in Seq(Words) /\ Len(text) = 4 * n + 3
  BY Zenon DEF StatWords
<1>7. /\ u \in Seq(Words) /\ Len(u) = Len(text) + Len(p)
      /\ \A i \in 1 .. Len(text) : u[i] = text[i]
      /\ \A i \in 1 .. Len(p) : u[Len(text) + i] = p[i]
  <2>1. text \in Seq(Words) /\ p \in Seq(Words)
    BY <1>5, <1>6, Zenon
  <2> QED
    BY <2>1, ConcatFacts
<1> HIDE DEF u
<1>8. Len(u) = 4 * (n + 1) + 3
  BY <1>5, <1>6, <1>7
<1>9. /\ u[4 * (n + 1)] = "&" /\ u[4 * (n + 1) + 1] = a
      /\ u[4 * (n + 1) + 2] = "=" /\ u[4 * (n + 1) + 3] = b
  <2>1. 1 \in 1 .. Len(p) /\ 2 \in 1 .. Len(p) /\ 3 \in 1 .. Len(p) /\ 4 \in 1 .. Len(p)
    BY <1>5
  <2>2. /\ u[Len(text) + 1] = "&" /\ u[Len(text) + 2] = a
        /\ u[Len(text) + 3] = "=" /\ u[Len(text) + 4] = b
    BY <1>5, <1>7, <2>1, Zenon
  <2>3. /\ Len(text) + 1 = 4 * (n + 1) /\ Len(text) + 2 = 4 * (n + 1) + 1
        /\ Len(text) + 3 = 4 * (n + 1) + 2 /\ Len(text) + 4 = 4 * (n + 1) + 3
    BY <1>6
  <2> QED
    BY <2>2, <2>3, Zenon
<1>10. ASSUME NEW j \in 0 .. n + 1
       PROVE  /\ u[4 * j + 1] = StatName(j)
              /\ u[4 * j + 2] = "="
              /\ u[4 * j + 3] = StatValue(ks, j)
  <2>1. CASE j = n + 1
    BY <1>2, <1>9, <2>1, Zenon
  <2>2. CASE j # n + 1
    <3>1. j \in 0 .. n
      BY <2>2
    <3>2. 4 * j + 1 \in 1 .. Len(text) /\ 4 * j + 2 \in 1 .. Len(text) /\ 4 * j + 3 \in 1 .. Len(text)
      BY <1>6, <3>1
    <3> QED
      BY <1>7, <3>1, <3>2, Zenon DEF StatWords
  <2> QED
    BY <2>1, <2>2, Zenon
<1>11. ASSUME NEW j \in 1 .. n + 1 PROVE u[4 * j] = "&"
  <2>1. CASE j = n + 1
    BY <1>9, <2>1, Zenon
  <2>2. CASE j # n + 1
    <3>1. j \in 1 .. n
      BY <2>2
    <3>2. 4 * j \in 1 .. Len(text)
      BY <1>6, <3>1
    <3> QED
      BY <1>7, <3>1, <3>2, Zenon DEF StatWords
  <2> QED
    BY <2>1, <2>2, Zenon
<1>12. ASSUME NEW i \in 1 .. Len(u) PROVE u[i] # "?"
  <2>1. CASE i \in 1 .. Len(text)
    BY <1>7, <2>1, Zenon DEF StatWords
  <2>2. CASE i \notin 1 .. Len(text)
    <3>1. PICK k \in 1 .. 4 : i = Len(text) + k
      <4>1. i - Len(text) \in 1 .. 4 /\ i = Len(text) + (i - Len(text))
        BY <1>5, <1>6, <1>7, <2>2
      <4> QED
        BY <4>1, Zenon
    <3> QED
      BY <1>5, <1>7, <3>1, Zenon
  <2> QED
    BY <2>1, <2>2, Zenon
<1>13. StatWords(ks, n + 1, u)
  BY <1>7, <1>8, <1>10, <1>11, <1>12, Zenon DEF StatWords
<1> QED
  BY <1>13, Zenon DEF u, p, a, b

(***************************************************************************)
(* The whole query: stat_request's recursive function exists, and has one  *)
(* pair more at every step.                                                *)
(***************************************************************************)
LEMMA StatText ==
  ASSUME NEW ks, MayAsk(ks)
  PROVE  StatWords(ks, Len(ks), stat_request(ks))
<1> DEFINE L == Len(ks)
           V == Seq(Words)
           first == <<"camliversion", "=", "1">>
           P(n) == <<"&", BlobName[n], "=", BlobRef[ks[n]]>>
           Body(g, n) == IF n = 0 THEN first ELSE g[n - 1] \o P(n)
           Eqn(g) == g = [n \in 0 .. L |-> Body(g, n)]
           chosen == CHOOSE g : Eqn(g)
           step == [n \in 1 .. L |-> [v \in V |-> v \o P(n)]]
<1>1. L \in Nat
  BY DEF MayAsk
<1>2. first \in V /\ {"&", "="} \subseteq Words
  <2>1. {"camliversion", "=", "1", "&"} \subseteq Words
    BY Zenon DEF Words, Plain
  <2> QED
    BY <2>1
<1>3. ASSUME NEW n \in 1 .. L PROVE P(n) \in V
  <2> DEFINE a == BlobName[n]
             b == BlobRef[ks[n]]
  <2>1. n \in 0 .. Len(ks) /\ n # 0
    BY <1>1
  <2>2. a \in Words /\ b \in Words
    BY <2>1, StatPairFacts, Zenon DEF StatName, StatValue
  <2> HIDE DEF a, b
  <2>3. <<"&", a, "=", b>> \in Seq(Words)
    BY <1>2, <2>2
  <2> QED
    BY <2>3, Zenon DEF a, b
<1>4. ASSUME NEW v \in V, NEW w \in V PROVE v \o w \in V
  BY ConcatFacts, Zenon
<1>5. Iterative(L, V, first, step)
  <2> HIDE DEF V, P, first
  <2>1. step \in [1 .. L -> [V -> V]]
    BY <1>3, <1>4, Zenon
  <2> QED
    BY <1>1, <1>2, <2>1, Zenon DEF Iterative
<1>6. PICK f \in [0 .. L -> V] : f[0] = first /\ \A n \in 1 .. L : f[n] = step[n][f[n - 1]]
  <2> HIDE DEF L, V, first, step
  <2> QED
    BY <1>5, Iteration
<1>7. Eqn(f)
  <2> HIDE DEF V, P, first
  <2>1. ASSUME NEW n \in 0 .. L PROVE f[n] = Body(f, n)
    <3>1. CASE n = 0
      BY <1>6, <3>1, Zenon
    <3>2. CASE n # 0
      <4>1. n \in 1 .. L /\ n - 1 \in 0 .. L
        BY <1>1, <3>2
      <4> QED
        BY <1>6, <3>2, <4>1, Zenon
    <3> QED
      BY <3>1, <3>2, Zenon
  <2> QED
    BY <2>1, Zenon
<1>8. Eqn(chosen)
  BY <1>7, Zenon
<1>9. stat_request(ks) = chosen[L]
  BY Zenon DEF stat_request
<1>10. \A n \in 0 .. L : chosen[n] = Body(chosen, n)
  <2> HIDE DEF Body, chosen
  <2> QED
    BY <1>8, Zenon
<1> DEFINE S == {n \in Nat : n <= L => StatWords(ks, n, chosen[n])}
<1>11. 0 \in S
  <2>1. chosen[0] = first
    <3>1. 0 \in 0 .. L
      BY <1>1
    <3> HIDE DEF chosen
    <3> QED
      BY <1>10, <3>1, Zenon
  <2>2. StatName(0) = "camliversion" /\ StatValue(ks, 0) = "1"
    BY Zenon DEF StatName, StatValue
  <2>3. StatWords(ks, 0, first)
    <3>1. /\ first \in Seq(Words) /\ Len(first) = 4 * 0 + 3
          /\ first[1] = "camliversion" /\ first[2] = "=" /\ first[3] = "1"
      BY <1>2
    <3>2. \A i \in 1 .. Len(first) : first[i] # "?"
      OBVIOUS
    <3>3. \A j \in 0 .. 0 : 4 * j + 1 = 1 /\ 4 * j + 2 = 2 /\ 4 * j + 3 = 3 /\ j = 0
      OBVIOUS
    <3>4. 1 .. 0 = {}
      OBVIOUS
    <3> HIDE DEF first
    <3> QED
      BY <2>2, <3>1, <3>2, <3>3, <3>4, Zenon DEF StatWords
  <2> HIDE DEF chosen, first
  <2>4. StatWords(ks, 0, chosen[0])
    BY <2>1, <2>3, Zenon
  <2> QED
    BY <2>4
<1>12. ASSUME NEW n \in S PROVE n + 1 \in S
  <2> HIDE DEF chosen
  <2>1. n \in Nat /\ n + 1 \in Nat /\ n + 1 - 1 = n
    OBVIOUS
  <2>2. ASSUME n + 1 <= L PROVE StatWords(ks, n + 1, chosen[n + 1])
    <3>1. n + 1 \in 0 .. L /\ n + 1 # 0 /\ n <= L
      BY <1>1, <2>2
    <3>2. StatWords(ks, n, chosen[n])
      BY <3>1, Zenon
    <3>3. chosen[n + 1] = chosen[n] \o P(n + 1)
      <4> DEFINE k == n + 1
      <4>1. k \in 0 .. L /\ k # 0 /\ k - 1 = n
        BY <2>1, <3>1
      <4> HIDE DEF k, P, first
      <4>2. chosen[k] = chosen[k - 1] \o P(k)
        BY <1>10, <4>1, Zenon
      <4> QED
        BY <4>1, <4>2, Zenon DEF k
    <3>4. StatWords(ks, n + 1, chosen[n] \o P(n + 1))
      BY <2>1, <2>2, <3>2, StatWordsGrow, Zenon
    <3> QED
      BY <3>3, <3>4, Zenon
  <2> QED
    BY <2>1, <2>2, Zenon
<1>13. L \in S
  <2> HIDE DEF S
  <2>1. S \in SUBSET Nat
    BY Zenon DEF S
  <2> QED
    BY <1>1, <1>11, <1>12, <2>1, Induction, Zenon
<1> HIDE DEF chosen
<1>14. L <= L
  BY <1>1
<1> QED
  BY <1>9, <1>13, <1>14, Zenon

(***************************************************************************)
(* The query is parsed into these pairs, the last one first.               *)
(***************************************************************************)
LEMMA StatParsed ==
  ASSUME NEW ks, MayAsk(ks), NEW text, StatWords(ks, Len(ks), text)
  PROVE  QueryPairs(text) = StatPairs(ks)
<1> DEFINE n == Len(ks)
           pair(j) == OnePair(StatName(j), StatValue(ks, j))
           rest(j) == [i \in 1 .. n - j + 1 |-> pair(j + i - 1)]
<1>1. n \in Nat /\ text \in Seq(Words) /\ Len(text) = 4 * n + 3
  BY DEF MayAsk, StatWords
<1>2. PICK from : /\ QueryPairs(text) = from[1]
                  /\ \A i \in 1 .. Len(text) + 1 : from[i] = QueryAt(text, i, from)
  BY <1>1, QueryUnfold, Zenon
<1>3. \A j \in 0 .. n : pair(j) \in Pairs(Words)
  BY StatPairFacts, Zenon
<1>4. ASSUME NEW j \in 0 .. n
      PROVE  /\ PairEnd(text, 4 * j + 1) = 4 * j + 4
             /\ PairAt(text, 4 * j + 1) = pair(j)
             /\ ~ (4 * j + 1 > Len(text) \/ text[4 * j + 1] \notin Range(Names))
             /\ from[4 * j + 1] = QueryAt(text, 4 * j + 1, from)
  <2> DEFINE i == 4 * j + 1
  <2>1. /\ i \in 1 .. Len(text) /\ i \in 1 .. Len(text) + 1 /\ i + 2 <= Len(text)
        /\ i + 1 = 4 * j + 2 /\ i + 2 = 4 * j + 3 /\ i + 3 = 4 * j + 4 /\ ~ (i > Len(text))
    BY <1>1
  <2>2. /\ text[i] = StatName(j) /\ text[i + 1] = "=" /\ text[i + 2] = StatValue(ks, j)
    BY <2>1, Zenon DEF StatWords
  <2>3. IsValue(text[i + 2]) /\ text[i] \in Range(Names)
    BY <2>2, StatPairFacts, Zenon
  <2>4. i + 2 = Len(text) \/ ~ IsValue(text[i + 3])
    <3>1. CASE j = n
      BY <1>1, <3>1
    <3>2. CASE j # n
      <4>1. j + 1 \in 1 .. n /\ i + 3 = 4 * (j + 1)
        BY <1>1, <3>2
      <4>2. text[i + 3] = "&"
        BY <4>1, Zenon DEF StatWords
      <4> QED
        BY <4>2, Zenon DEF IsValue, Separators
    <3> QED
      BY <3>1, <3>2, Zenon
  <2>5. from[i] = QueryAt(text, i, from)
    BY <1>2, <2>1, Zenon
  <2> HIDE DEF i
  <2>6. PairEnd(text, i) = i + 3 /\ PairAt(text, i) = [name |-> text[i], value |-> <<text[i + 2]>>]
    BY <1>1, <2>1, <2>2, <2>3, <2>4, OneWordPair, Zenon
  <2>7. PairEnd(text, i) = 4 * j + 4 /\ PairAt(text, i) = pair(j)
    BY <2>1, <2>2, <2>6, Zenon DEF OnePair
  <2> QED
    BY <2>1, <2>3, <2>5, <2>7, Zenon DEF i
<1>5. from[4 * n + 1] = <<pair(n)>> \o <<>>
  <2>1. n \in 0 .. n /\ ~ (4 * n + 4 <= Len(text))
    BY <1>1
  <2> HIDE DEF n, pair
  <2> QED
    BY <1>4, <2>1, Zenon DEF QueryAt
<1>6. ASSUME NEW j \in 0 .. n, j # n
      PROVE  from[4 * j + 1] = <<pair(j)>> \o from[4 * (j + 1) + 1]
  <2>1. j + 1 \in 1 .. n /\ 4 * j + 4 = 4 * (j + 1) /\ 4 * j + 4 <= Len(text)
    BY <1>1, <1>6
  <2>2. text[4 * j + 4] \in Separators
    BY <2>1, Zenon DEF StatWords, Separators
  <2> HIDE DEF n, pair
  <2> QED
    BY <1>4, <2>1, <2>2, Zenon DEF QueryAt
<1>7. ASSUME NEW j \in 0 .. n
      PROVE  /\ rest(j) \in Seq(Pairs(Words)) /\ Len(rest(j)) = n - j + 1
             /\ \A i \in 1 .. n - j + 1 : rest(j)[i] = pair(j + i - 1)
  <2>1. n - j + 1 \in Nat /\ \A i \in 1 .. n - j + 1 : j + i - 1 \in 0 .. n
    BY <1>1
  <2> HIDE DEF n, pair
  <2>2. rest(j) \in [1 .. n - j + 1 -> Pairs(Words)]
    BY <1>3, <2>1, Zenon
  <2> QED
    BY <2>1, <2>2
<1> HIDE DEF rest
<1>8. <<pair(n)>> \o <<>> = rest(n)
  <2>1. n \in 0 .. n /\ n - n + 1 = 1 /\ n + 1 - 1 = n /\ 1 \in 1 .. 1
    BY <1>1
  <2> DEFINE r == rest(n)
             p == pair(n)
  <2>2. r \in Seq(Pairs(Words)) /\ Len(r) = 1 /\ r[1] = p /\ p \in Pairs(Words)
    BY <1>3, <1>7, <2>1, Zenon
  <2> HIDE DEF r, p
  <2>3. <<p>> \o <<>> = r
    <3>1. <<p>> \o <<>> = <<p>>
      BY <2>2, JoinedOne, Zenon
    <3>2. <<p>> \in Seq(Pairs(Words)) /\ Len(<<p>>) = Len(r) /\ \A i \in 1 .. Len(<<p>>) : <<p>>[i] = r[i]
      BY <2>2
    <3> DEFINE s == <<p>>
    <3> HIDE DEF s
    <3>3. s = r
      BY <2>2, <3>2, SameSequence, Zenon DEF s
    <3> QED
      BY <3>1, <3>3, Zenon DEF s
  <2> QED
    BY <2>3, Zenon DEF r, p
<1>9. ASSUME NEW j \in 0 .. n, j # n PROVE <<pair(j)>> \o rest(j + 1) = rest(j)
  <2> DEFINE s == <<pair(j)>>
             t == rest(j + 1)
             u == rest(j)
  <2>1. j + 1 \in 0 .. n /\ 1 \in 1 .. n - j + 1 /\ j + 1 - 1 = j
    BY <1>1, <1>9
  <2>2. u \in Seq(Pairs(Words)) /\ Len(u) = n - j + 1 /\ u[1] = pair(j)
    BY <1>7, <2>1, Zenon
  <2>3. t \in Seq(Pairs(Words)) /\ Len(t) = n - (j + 1) + 1
    BY <1>7, <2>1, Zenon
  <2>4. ASSUME NEW i \in 1 .. Len(t) PROVE u[1 + i] = t[i]
    <3>1. i \in 1 .. n - (j + 1) + 1 /\ 1 + i \in 1 .. n - j + 1 /\ j + (1 + i) - 1 = (j + 1) + i - 1
      BY <1>1, <2>3
    <3>2. t[i] = pair((j + 1) + i - 1)
      BY <1>7, <2>1, <3>1, Zenon
    <3>3. u[1 + i] = pair(j + (1 + i) - 1)
      BY <1>7, <3>1, Zenon
    <3> QED
      BY <3>1, <3>2, <3>3, Zenon
  <2>5. s \in Seq(Pairs(Words)) /\ Len(s) = 1 /\ s[1] = pair(j)
    <3> DEFINE p == pair(j)
    <3>1. p \in Pairs(Words)
      BY <1>3, Zenon
    <3> HIDE DEF p
    <3>2. <<p>> \in Seq(Pairs(Words)) /\ Len(<<p>>) = 1 /\ <<p>>[1] = p
      BY <3>1
    <3> QED
      BY <3>2, Zenon DEF p
  <2> HIDE DEF s, t, u
  <2>6. /\ Len(u) = Len(s) + Len(t)
        /\ \A i \in 1 .. Len(s) : u[i] = s[i]
        /\ \A i \in 1 .. Len(t) : u[Len(s) + i] = t[i]
    <3>1. Len(u) = Len(s) + Len(t)
      BY <1>1, <2>2, <2>3, <2>5
    <3>2. \A i \in 1 .. Len(s) : i = 1
      BY <2>5
    <3> QED
      BY <2>2, <2>4, <2>5, <3>1, <3>2, Zenon
  <2>7. s \o t = u
    BY <2>2, <2>3, <2>5, <2>6, Joined, Zenon
  <2> QED
    BY <2>7, Zenon DEF s, t, u
<1> DEFINE S == {d \in Nat : d <= n => from[4 * (n - d) + 1] = rest(n - d)}
<1>10. 0 \in S
  <2>1. n - 0 = n
    BY <1>1
  <2>2. from[4 * (n - 0) + 1] = rest(n - 0)
    BY <1>5, <1>8, <2>1, Zenon
  <2> QED
    BY <2>2
<1>11. ASSUME NEW d \in S PROVE d + 1 \in S
  <2>1. ASSUME d + 1 <= n PROVE from[4 * (n - (d + 1)) + 1] = rest(n - (d + 1))
    <3> DEFINE j == n - (d + 1)
    <3>1. j \in 0 .. n /\ j # n /\ j + 1 = n - d /\ d <= n
      BY <1>1, <2>1
    <3>2. from[4 * (j + 1) + 1] = rest(j + 1)
      BY <3>1, Zenon
    <3> HIDE DEF j
    <3>3. from[4 * j + 1] = rest(j)
      BY <1>6, <1>9, <3>1, <3>2, Zenon
    <3> QED
      BY <3>3, Zenon DEF j
  <2>2. d + 1 \in Nat
    OBVIOUS
  <2> QED
    BY <2>1, <2>2, Zenon
<1>12. n \in S
  <2> HIDE DEF S
  <2>1. S \in SUBSET Nat
    BY Zenon DEF S
  <2> QED
    BY <1>1, <1>10, <1>11, <2>1, Induction, Zenon
<1>13. n <= n /\ n - n = 0 /\ 4 * 0 + 1 = 1
  BY <1>1
<1>14. from[1] = rest(0)
  BY <1>12, <1>13, Zenon
<1>15. rest(0) = StatPairs(ks)
  <2>1. n - 0 + 1 = n + 1 /\ \A i \in 1 .. n + 1 : 0 + i - 1 = i - 1
    BY <1>1
  <2> QED
    BY <2>1, Zenon DEF rest, StatPairs
<1> QED
  BY <1>2, <1>14, <1>15, Zenon

(***************************************************************************)
(* The query of a body and of a path.                                      *)
(***************************************************************************)
LEMMA QueryFacts ==
  ASSUME NEW text \in Seq(Words), \A i \in 1 .. Len(text) : text[i] # "?"
  PROVE  /\ Query(text) = text
         /\ Query(<<"/", "stat", "?">> \o text) = text
<1>1. Query(text) = text
  <2>1. Find(text, "?") = 0
    BY DEF Find
  <2> DEFINE s == SubSeq(text, 1, Len(text))
  <2>2. s \in Seq(Words) /\ Len(s) = Len(text) /\ \A i \in 1 .. Len(s) : s[i] = text[i]
    OBVIOUS
  <2> HIDE DEF s
  <2>3. s = text
    BY <2>2, SameSequence, Zenon
  <2>4. 0 + 1 = 1
    OBVIOUS
  <2> QED
    BY <2>1, <2>3, <2>4, Zenon DEF Query, After, s
<1>2. Query(<<"/", "stat", "?">> \o text) = text
  <2> DEFINE h == <<"/", "stat", "?">>
             u == h \o text
             I == {i \in 1 .. Len(u) : u[i] = "?"}
             s == SubSeq(u, 4, Len(u))
  <2>1. h \in Seq(Words) /\ Len(h) = 3 /\ h[1] # "?" /\ h[2] # "?" /\ h[3] = "?"
    BY DEF Words, Plain
  <2> HIDE DEF h
  <2>a. h \in Seq(Words)
    BY <2>1, Zenon
  <2>2. /\ u \in Seq(Words) /\ Len(u) = Len(h) + Len(text)
        /\ \A i \in 1 .. Len(h) : u[i] = h[i]
        /\ \A i \in 1 .. Len(text) : u[Len(h) + i] = text[i]
    BY <2>a, ConcatFacts
  <2> HIDE DEF u
  <2>3. Len(text) \in Nat /\ Len(u) = 3 + Len(text)
    BY <2>1, <2>2, SMTT(20)
  <2>4. I \in SUBSET Nat /\ 3 \in I
    BY <2>1, <2>2, <2>3, SMTT(20)
  <2>5. u[1] # "?" /\ u[2] # "?"
    BY <2>1, <2>2
  <2>6. \A i \in I : 3 <= i
    BY <2>5
  <2> HIDE DEF I
  <2>7. Min(I) = 3
    BY <2>4, <2>6, MinIs, Zenon
  <2>8. Find(u, "?") = 3
    <3>1. {i \in DOMAIN u : u[i] = "?"} = I
      BY <2>2 DEF I
    <3> QED
      BY <2>4, <2>7, <3>1, Zenon DEF Find
  <2>9. s \in Seq(Words) /\ Len(s) = Len(text)
    BY <2>2, <2>3
  <2>10. \A i \in 1 .. Len(text) : s[i] = u[3 + i]
    BY <2>2, <2>3, SMTT(20)
  <2>11. \A i \in 1 .. Len(s) : s[i] = text[i]
    BY <2>1, <2>2, <2>9, <2>10, ZenonT(30)
  <2>b. Query(u) = s
    BY <2>8 DEF Query, After
  <2> HIDE DEF s
  <2>12. s = text
    BY <2>9, <2>11, SameSequence, Zenon
  <2> QED
    BY <2>12, <2>b, Zenon DEF u, h
<1> QED
  BY <1>1, <1>2, Zenon

(***************************************************************************)
(* What the handlers pick out of the map, name by name: the values of the  *)
(* names they look for, all of them and nothing else.                      *)
(***************************************************************************)
Mapping(m, D, T) == m \in [D -> T]

LEMMA ValuesFound ==
  ASSUME NEW T, NEW D, NEW m, Mapping(m, D, T), NEW words, words \cap D \subseteq Range(Names)
  PROVE  /\ ValuesIn(m, words) \in Seq({m[w] : w \in words \cap D})
         /\ \A w \in words \cap D : m[w] \in Range(ValuesIn(m, words))
<1> DEFINE L == Len(Names)
           W == words \cap D
           M == {m[w] : w \in W}
           V == Seq(M)
           first == <<>>
           step == [i \in 1 .. L |-> [v \in V |-> IF Names[i] \in W THEN Append(v, m[Names[i]]) ELSE v]]
           Body(g, i) == IF i = 0 THEN <<>>
                         ELSE IF Names[i] \in W THEN Append(g[i - 1], m[Names[i]])
                         ELSE g[i - 1]
           Eqn(g) == g = [i \in 0 .. L |-> Body(g, i)]
           chosen == CHOOSE g : Eqn(g)
<1>1. L \in Nat /\ DOMAIN Names = 1 .. L
  BY NamesAssumption
<1>2. ASSUME NEW v \in V, NEW e \in M
      PROVE  /\ Append(v, e) \in V
             /\ e \in Range(Append(v, e))
             /\ Range(v) \subseteq Range(Append(v, e))
  <2> HIDE DEF M
  <2>1. /\ Append(v, e) \in Seq(M) /\ Len(Append(v, e)) = Len(v) + 1
        /\ \A i \in 1 .. Len(v) : Append(v, e)[i] = v[i]
        /\ Append(v, e)[Len(v) + 1] = e
    BY AppendFacts
  <2> DEFINE a == Append(v, e)
  <2> HIDE DEF a
  <2>2. /\ a \in Seq(M) /\ Len(a) = Len(v) + 1
        /\ \A i \in 1 .. Len(v) : a[i] = v[i]
        /\ a[Len(v) + 1] = e
    BY <2>1, Zenon DEF a
  <2>3. /\ DOMAIN v = 1 .. Len(v) /\ DOMAIN a = 1 .. Len(v) + 1
        /\ Len(v) + 1 \in 1 .. Len(v) + 1 /\ \A i \in 1 .. Len(v) : i \in 1 .. Len(v) + 1
    BY <2>2
  <2>4. e \in Range(a) /\ Range(v) \subseteq Range(a)
    BY <2>2, <2>3, Zenon DEF Range
  <2> QED
    BY <2>2, <2>4, Zenon DEF a
<1>3. Iterative(L, V, first, step)
  <2>1. first \in V
    OBVIOUS
  <2>2. step \in [1 .. L -> [V -> V]]
    <3> HIDE DEF V
    <3> QED
      BY <1>2, Zenon
  <2> QED
    BY <1>1, <2>1, <2>2, Zenon DEF Iterative
<1>4. PICK f \in [0 .. L -> V] : f[0] = first /\ \A i \in 1 .. L : f[i] = step[i][f[i - 1]]
  <2> HIDE DEF L, V, first, step
  <2> QED
    BY <1>3, Iteration
<1>5. \A i \in 1 .. L : i \in 0 .. L /\ i - 1 \in 0 .. L /\ i # 0
  BY <1>1
<1> HIDE DEF V
<1>6. ASSUME NEW i \in 1 .. L
      PROVE  f[i - 1] \in V /\ f[i] = IF Names[i] \in W THEN Append(f[i - 1], m[Names[i]]) ELSE f[i - 1]
  BY <1>4, <1>5, Zenon
<1>7. Eqn(f)
  <2>1. \A i \in 0 .. L : i = 0 \/ i \in 1 .. L
    BY <1>1
  <2>2. \A i \in 0 .. L : f[i] = Body(f, i)
    BY <1>4, <1>5, <1>6, <2>1, Zenon
  <2> QED
    BY <2>2, Zenon
<1>8. Eqn(chosen)
  BY <1>7, Zenon
<1>9. \A i \in 0 .. L : chosen[i] = Body(chosen, i)
  <2> HIDE DEF Body, chosen
  <2> QED
    BY <1>8, Zenon
<1>10. ValuesIn(m, words) = chosen[L]
  <2>1. DOMAIN m = D
    BY Zenon DEF Mapping
  <2> QED
    BY <2>1, Zenon DEF ValuesIn
<1> HIDE DEF chosen
<1> DEFINE Has(n) == chosen[n] \in V /\ \A i \in 1 .. n : Names[i] \in W => m[Names[i]] \in Range(chosen[n])
           S == {n \in Nat : n <= L => Has(n)}
<1>11. 0 \in S
  <2>1. 0 \in 0 .. L /\ 1 .. 0 = {}
    BY <1>1
  <2>2. chosen[0] = <<>>
    BY <1>9, <2>1, Zenon
  <2>3. Has(0)
    BY <1>4, <2>1, <2>2, Zenon
  <2> QED
    BY <2>3
<1>12. ASSUME NEW n \in S PROVE n + 1 \in S
  <2>1. n \in Nat /\ n + 1 \in Nat
    OBVIOUS
  <2>2. ASSUME n + 1 <= L PROVE Has(n + 1)
    <3> DEFINE k == n + 1
               v == chosen[n]
               w == Names[k]
    <3>1. n <= L /\ k \in 0 .. L /\ k \in 1 .. L /\ k # 0 /\ k - 1 = n
      BY <1>1, <2>1, <2>2
    <3>2. v \in V /\ \A i \in 1 .. n : Names[i] \in W => m[Names[i]] \in Range(v)
      BY <3>1, Zenon
    <3>3. chosen[k] = IF w \in W THEN Append(v, m[w]) ELSE v
      BY <1>9, <3>1, Zenon
    <3>4. \A i \in 1 .. k : i = k \/ i \in 1 .. n
      BY <2>1
    <3> HIDE DEF k, v
    <3>5. CASE w \in W
      <4>1. m[w] \in M
        BY <3>5, Zenon
      <4>2. chosen[k] \in V /\ m[w] \in Range(chosen[k]) /\ Range(v) \subseteq Range(chosen[k])
        BY <1>2, <3>2, <3>3, <3>5, <4>1, Zenon
      <4> QED
        BY <3>2, <3>4, <4>2, Zenon DEF k
    <3>6. CASE w \notin W
      BY <3>2, <3>3, <3>4, <3>6, Zenon DEF k
    <3> QED
      BY <3>5, <3>6, Zenon
  <2> QED
    BY <2>1, <2>2, Zenon
<1>13. L \in S
  <2> HIDE DEF S
  <2>1. S \in SUBSET Nat
    BY Zenon DEF S
  <2> QED
    BY <1>1, <1>11, <1>12, <2>1, Induction, Zenon
<1>14. Has(L)
  <2>1. L <= L
    BY <1>1
  <2> QED
    BY <1>13, <2>1, Zenon
<1>15. ASSUME NEW w \in W PROVE m[w] \in Range(chosen[L])
  <2>1. PICK i \in 1 .. L : w = Names[i]
    BY <1>1, Zenon DEF Range
  <2> QED
    BY <1>14, <2>1, Zenon
<1> QED
  BY <1>10, <1>14, <1>15, Zenon DEF V

(***************************************************************************)
(* The references of a query are found, each of them and nothing else.     *)
(***************************************************************************)
LEMMA DecodedBlobs ==
  ASSUME NEW ks, MayAsk(ks), NEW text, QueryPairs(text) = StatPairs(ks)
  PROVE  AllOf(ks, ValuesOf(text, Range(BlobName)))
<1> DEFINE n == Len(ks)
           ps == StatPairs(ks)
           P == Pairs(Words)
           T == Seq(Words)
           m == MapOf(ps)
           D == {ps[i].name : i \in 1 .. Len(ps)}
           words == Range(BlobName)
<1>1. n \in Nat /\ ks \in Seq(Keys) /\ n <= Len(BlobName) /\ DOMAIN ks = 1 .. n
  BY DEF MayAsk
<1>2. ps \in Seq(P) /\ Len(ps) = n + 1
  <2>1. \A i \in 1 .. n + 1 : i - 1 \in 0 .. Len(ks)
    BY <1>1
  <2>2. ps \in [1 .. n + 1 -> P]
    BY <2>1, StatPairFacts, Zenon DEF StatPairs
  <2> HIDE DEF ps, P, n
  <2> QED
    BY <1>1, <2>2
<1>3. \A i \in 1 .. n + 1 : /\ ps[i].name = StatName(i - 1)
                            /\ ps[i].value = <<StatValue(ks, i - 1)>>
  BY Zenon DEF StatPairs, OnePair
<1>4. DOMAIN BlobName = 1 .. Len(BlobName) /\ Len(BlobName) \in Nat
  BY NamesAssumption
<1>5. \A i, j \in 1 .. Len(ps) : ps[i].name = ps[j].name => i = j
  <2> SUFFICES ASSUME NEW i \in 1 .. n + 1, NEW j \in 1 .. n + 1, StatName(i - 1) = StatName(j - 1)
               PROVE  i = j
    BY <1>2, <1>3, Zenon
  <2>1. \A x \in 1 .. n : BlobName[x] # "camliversion"
    <3>1. \A x \in 1 .. n : x \in DOMAIN BlobName
      BY <1>1, <1>4
    <3>2. \A x \in 1 .. n : BlobName[x] \in Range(BlobName)
      BY <3>1, Zenon DEF Range
    <3> QED
      BY <3>2, NamesAssumption, Zenon
  <2>2. \A x, y \in 1 .. n : BlobName[x] = BlobName[y] => x = y
    <3>1. \A x \in 1 .. n : x \in DOMAIN BlobName
      BY <1>1, <1>4
    <3> QED
      BY <3>1, NamesAssumption, Zenon
  <2>3. /\ i - 1 = 0 \/ i - 1 \in 1 .. n
        /\ j - 1 = 0 \/ j - 1 \in 1 .. n
        /\ 0 \notin 1 .. n
    BY <1>1
  <2>4. i - 1 = j - 1
    BY <2>1, <2>2, <2>3, Zenon DEF StatName
  <2> QED
    BY <2>4
<1>6. DistinctNames(ps, P, T)
  <2>1. \A q \in P : q.value \in T
    BY Zenon DEF Pairs
  <2> HIDE DEF ps, P, T
  <2> QED
    BY <1>2, <1>5, <2>1, Zenon DEF DistinctNames
<1>7. ValuesOf(text, words) = ValuesIn(m, words)
  BY Zenon DEF ValuesOf
<1> HIDE DEF P, T, ps
<1>8. Mapping(m, D, T)
  BY <1>6, MapOfFacts, Zenon DEF Mapping
<1>9. ASSUME NEW j \in 1 .. n
      PROVE  /\ BlobName[j] \in words \cap D
             /\ m[BlobName[j]] = <<BlobRef[ks[j]]>>
             /\ <<BlobRef[ks[j]]>> \in RefsOf(Range(ks))
  <2> DEFINE i == j + 1
             name == BlobName[j]
  <2>1. i \in 1 .. n + 1 /\ i - 1 = j /\ j # 0 /\ j \in DOMAIN BlobName
    BY <1>1, <1>4
  <2>2. StatName(j) = name /\ StatValue(ks, j) = BlobRef[ks[j]]
    BY <2>1, Zenon DEF StatName, StatValue
  <2>3. ps[i].name = name /\ ps[i].value = <<BlobRef[ks[j]]>>
    BY <1>3, <2>1, <2>2, Zenon
  <2>4. i \in 1 .. Len(ps)
    BY <1>2, <2>1, Zenon
  <2>5. name \in words
    BY <2>1, Zenon DEF Range
  <2>6. <<BlobRef[ks[j]]>> \in RefsOf(Range(ks))
    BY <1>1, Zenon DEF RefsOf, Range
  <2> HIDE DEF i, name
  <2>7. MapOf(ps)[name] = ps[i].value
    BY <1>6, <2>3, <2>4, MapOfValue
  <2>8. name \in D
    BY <2>3, <2>4, Zenon
  <2> QED
    BY <2>3, <2>5, <2>6, <2>7, <2>8, Zenon DEF name
<1>10. ASSUME NEW w \in words \cap D PROVE \E j \in 1 .. n : w = BlobName[j]
  <2>1. PICK i \in 1 .. n + 1 : w = StatName(i - 1)
    BY <1>2, <1>3, Zenon
  <2>2. w # "camliversion"
    BY NamesAssumption, Zenon
  <2>3. i - 1 # 0
    BY <2>1, <2>2, Zenon DEF StatName
  <2>4. i - 1 \in 1 .. n
    BY <1>1, <2>3
  <2> QED
    BY <2>1, <2>3, <2>4, Zenon DEF StatName
<1>11. words \cap D \subseteq Range(Names)
  BY NamesAssumption, Zenon
<1> HIDE DEF m, D, words
<1>12. /\ ValuesIn(m, words) \in Seq({m[w] : w \in words \cap D})
       /\ \A w \in words \cap D : m[w] \in Range(ValuesIn(m, words))
  BY <1>8, <1>11, ValuesFound, Zenon
<1>13. {m[w] : w \in words \cap D} = RefsOf(Range(ks))
  <2>1. \A w \in words \cap D : m[w] \in RefsOf(Range(ks))
    BY <1>9, <1>10, Zenon
  <2>2. \A k \in Range(ks) : \E w \in words \cap D : m[w] = <<BlobRef[k]>>
    <3>1. \A k \in Range(ks) : \E j \in 1 .. n : k = ks[j]
      BY <1>1, Zenon DEF Range
    <3>2. ASSUME NEW k \in Range(ks) PROVE \E w \in words \cap D : m[w] = <<BlobRef[k]>>
      <4>1. PICK j \in 1 .. n : k = ks[j]
        BY <3>1, Zenon
      <4>2. BlobName[j] \in words \cap D /\ m[BlobName[j]] = <<BlobRef[k]>>
        BY <1>9, <4>1, Zenon
      <4> QED
        BY <4>2, Zenon
    <3> QED
      BY <3>2, Zenon
  <2>3. {m[w] : w \in words \cap D} \subseteq RefsOf(Range(ks))
    BY <2>1, Zenon
  <2>4. RefsOf(Range(ks)) \subseteq {m[w] : w \in words \cap D}
    BY <2>2, Zenon DEF RefsOf
  <2> QED
    BY <2>3, <2>4, Zenon
<1>14. ValuesIn(m, words) \in Seq(RefsOf(Range(ks)))
  BY <1>12, <1>13, Zenon
<1>15. RefsOf(Range(ks)) \subseteq Range(ValuesIn(m, words))
  BY <1>12, <1>13, Zenon
<1> QED
  BY <1>7, <1>14, <1>15, Zenon DEF AllOf, words

(***************************************************************************)
(* A stat request about any number of keys (up to the names there are), by *)
(* POST and by GET, goes to handle_stat.  Its query is parsed into         *)
(* camliversion and one pair per key, in their order, and handle_stat      *)
(* looks up the reference of each of these keys and nothing else: in the   *)
(* order of the std::map, which from the tenth key on is not theirs.       *)
(***************************************************************************)
THEOREM StatDecoded ==
  ASSUME NEW ks \in Seq(Keys), Len(ks) <= Len(BlobName)
  PROVE  /\ Route(StatPost(ks)) = "stat" /\ StatPost(ks).method = "POST"
         /\ Route(StatGet(ks)) = "stat" /\ StatGet(ks).method = "GET"
         /\ QueryPairs(stat_request(ks)) = StatPairs(ks)
         /\ AllOf(ks, decode_query_string_blobs(StatPost(ks).content))
         /\ AllOf(ks, decode_query_string_blobs(Path(StatGet(ks))))
<1> DEFINE text == stat_request(ks)
           refs == ValuesOf(text, Range(BlobName))
<1>1. /\ text \in Seq(Words)
      /\ \A i \in 1 .. Len(text) : text[i] # "?"
      /\ QueryPairs(text) = StatPairs(ks)
      /\ AllOf(ks, refs)
  <2>1. MayAsk(ks)
    BY Zenon DEF MayAsk
  <2>2. StatWords(ks, Len(ks), text)
    BY <2>1, StatText, Zenon
  <2>3. QueryPairs(text) = StatPairs(ks)
    BY <2>1, <2>2, StatParsed, Zenon
  <2>4. AllOf(ks, refs)
    BY <2>1, <2>3, DecodedBlobs, Zenon
  <2> HIDE DEF text, refs
  <2> QED
    BY <2>2, <2>3, <2>4, Zenon DEF StatWords
<1> HIDE DEF text
<1>2. Query(text) = text /\ Query(<<"/", "stat", "?">> \o text) = text
  BY <1>1, QueryFacts, Zenon
<1>3. StatPost(ks).uri = <<"/", "stat">> /\ StatPost(ks).method = "POST" /\ StatPost(ks).content = text
  BY Zenon DEF StatPost, Request, text
<1>4. StatGet(ks).uri = <<"/", "stat", "?">> \o text /\ StatGet(ks).method = "GET"
  BY Zenon DEF StatGet, Request, text
<1>5. Route(StatPost(ks)) = "stat"
  <2> DEFINE uri == <<"/", "stat">>
  <2>1. uri \in Seq(Plain \cup Refs) /\ Len(uri) > 1 /\ uri[1] = "/" /\ uri[2] = "stat"
    BY DEF Plain
  <2> HIDE DEF uri
  <2>2. StatPost(ks).uri = uri
    BY <1>3, Zenon DEF uri
  <2> QED
    BY <2>1, <2>2, RouteFacts, Zenon
<1>6. Route(StatGet(ks)) = "stat" /\ Path(StatGet(ks)) = <<"/", "stat", "?">> \o text
  <2> DEFINE h == <<"/", "stat", "?">>
             uri == h \o text
  <2>1. h \in Seq(Words)
    BY DEF Words, Plain
  <2>2. Len(h) = 3 /\ h[1] = "/" /\ h[2] = "stat"
    BY Zenon
  <2> HIDE DEF h
  <2>3. uri \in Seq(Words) /\ Len(uri) = Len(h) + Len(text) /\ \A i \in 1 .. Len(h) : uri[i] = h[i]
    BY <1>1, <2>1, ConcatFacts
  <2>4. Len(text) \in Nat
    BY <1>1
  <2> HIDE DEF uri
  <2>5. Len(uri) > 1 /\ uri[1] = "/" /\ uri[2] = "stat"
    BY <2>2, <2>3, <2>4
  <2>6. StatGet(ks).uri = uri
    BY <1>4, Zenon DEF uri, h
  <2>7. Path(StatGet(ks)) = uri /\ Route(StatGet(ks)) = "stat"
    BY <2>3, <2>5, <2>6, RouteFacts, Zenon DEF Words
  <2> QED
    BY <2>7, Zenon DEF uri, h
<1>7. /\ decode_query_string_blobs(text) = refs
      /\ decode_query_string_blobs(<<"/", "stat", "?">> \o text) = refs
  BY <1>1, <1>2, Zenon DEF decode_query_string_blobs
<1> HIDE DEF refs
<1> QED
  BY <1>1, <1>3, <1>4, <1>5, <1>6, <1>7, Zenon DEF text

------------------------------------------------------------------------------
(***************************************************************************)
(* handle_put finds the payloads of an upload in its form.                 *)
(***************************************************************************)
THEOREM UploadDecoded ==
  ASSUME NEW ps, Carried(ps)
  PROVE  Payloads(FormType, Form(ps)) = ps
<1> DEFINE form == MultiPartFormData(Boundary, Form(ps))
           boundaries == attributeValue(MapOf(HeaderPairs(FormType)), <<98>>)
           result == [i \in DOMAIN form |-> form[i].payload]
<1>1. boundaries = {Boundary}
  BY FormBoundary, Zenon
<1>2. DOMAIN form = 1 .. Len(ps) /\ \A k \in 1 .. Len(ps) : form[k].payload = ps[k]
  BY FormReadBack, Zenon
<1>3. boundaries # {} /\ (CHOOSE x \in boundaries : TRUE) = Boundary
  <2> HIDE DEF boundaries
  <2> QED
    BY <1>1, Zenon
<1>4. Payloads(FormType, Form(ps)) = result
  <2>1. Payloads(FormType, Form(ps)) =
          LET f == IF boundaries = {} THEN <<>>
                   ELSE MultiPartFormData(CHOOSE x \in boundaries : TRUE, Form(ps))
          IN  [i \in DOMAIN f |-> f[i].payload]
    BY Zenon DEF Payloads
  <2> HIDE DEF boundaries
  <2> QED
    BY <1>3, <2>1, Zenon
<1> HIDE DEF form
<1>5. result = [i \in 1 .. Len(ps) |-> ps[i]]
  BY <1>2, Zenon
<1>6. ps \in Seq(Seq(Nat))
  BY Zenon DEF Carried
<1>7. [i \in 1 .. Len(ps) |-> ps[i]] = ps
  BY <1>6
<1> QED
  BY <1>4, <1>5, <1>7, Zenon

------------------------------------------------------------------------------
(***************************************************************************)
(* Every upload is one whose payloads a form carries: of ASCII characters, *)
(* and without the boundary (Sendable, in MultipartProofs).                *)
(***************************************************************************)
AllCarried == \A ps \in Uploads : Carried(ps)

(***************************************************************************)
(* The requests of clients are decoded.                                    *)
(***************************************************************************)
LEMMA Decoded ==
  /\ StatsDecoded
  /\ AllCarried => AllDecoded
<1>1. ASSUME NEW ks \in Batches PROVE StatIsDecoded(ks)
  <2>1. ks \in Seq(Keys) /\ Len(ks) <= Len(BlobName)
    BY BatchesAssumption, Zenon
  <2> QED
    BY <2>1, StatDecoded, Zenon DEF StatIsDecoded
<1>2. AllCarried => AllDecoded
  BY UploadDecoded, Zenon DEF AllCarried, AllDecoded
<1> QED
  BY <1>1, <1>2, Zenon DEF StatsDecoded

(***************************************************************************)
(* An upload that was answered 200 is in the index, byte for byte and line *)
(* ends included, and nothing is in the index that no client sent: however *)
(* many threads run handle_put at the same time, and whatever the number,  *)
(* order and repetition of the payloads in a form.                         *)
(***************************************************************************)
THEOREM UploadsAreStored ==
  ASSUME AllCarried
  PROVE  Spec => []UploadsStored
<1>1. StatsDecoded
  BY Decoded, Zenon
<1>2. AllDecoded
  BY Decoded, Zenon
<1> QED
  BY <1>1, <1>2, UploadsStoredThen, Zenon

(***************************************************************************)
(* Every request that is answered is answered with a status it may be      *)
(* answered with, whatever the other threads do meanwhile: the requests    *)
(* Sync and curl build reach the handler they are meant for and are not    *)
(* rejected, and the others get the one status the routes have for them.   *)
(***************************************************************************)
THEOREM StatusesFit ==
  ASSUME OthersFit
  PROVE  Spec => []StatusFits
<1>1. StatsDecoded
  BY Decoded, Zenon
<1> QED
  BY <1>1, StatusesFitThen, Zenon

(***************************************************************************)
(* GET and HEAD find a reference from the moment its content is stored:    *)
(* they answer 200 when it was stored before the request came in (GET when *)
(* the file also opens), never for a content that is not stored, HEAD with *)
(* the length of the content and GET with the content in the encoding it   *)
(* names.                                                                  *)
(***************************************************************************)
THEOREM FoundAsItWasStored ==
  ASSUME AllCarried, DistinctCStrings
  PROVE  Spec => []FoundAsStored
<1>1. StatsDecoded
  BY Decoded, Zenon
<1>2. AllDecoded
  BY Decoded, Zenon
<1> QED
  BY <1>1, <1>2, FoundThen, Zenon

(***************************************************************************)
(* A stat reply, by GET and by POST, lists every reference asked for that  *)
(* was stored when the request came in, with its size, and none that is    *)
(* not stored, although handle_stat makes one lookup after the other while *)
(* other threads store blobs.                                              *)
(***************************************************************************)
THEOREM StatAnswersWhatWasAsked ==
  ASSUME AllCarried, DistinctCStrings
  PROVE  Spec => []StatAnswersAsked
<1>1. StatsDecoded
  BY Decoded
<1>2. AllDecoded
  BY Decoded, Zenon
<1> QED
  BY <1>1, <1>2, StatAnswersThen
=============================================================================
