---------------------------- MODULE CommonLemmas ----------------------------
(***************************************************************************)
(* What the proofs of several components rest on: induction over numbers   *)
(* and what it says of recursive functions, the elements of sequences, and *)
(* facts about blob keys: their order, and the keys of a set of contents.  *)
(***************************************************************************)
EXTENDS BlobKey, WellFoundedInduction, TLAPS

(***************************************************************************)
(* Induction, for the recursive functions of the model: a set of numbers   *)
(* that is not empty has a least one.                                      *)
(***************************************************************************)
LEMMA LeastNumber ==
  ASSUME NEW T \in SUBSET Nat, T # {}
  PROVE  \E m \in T : \A n \in T : m <= n
<1> DEFINE R == OpToRel(<, Nat)
<1>1. IsWellFoundedOn(R, Nat)
  BY NatLessThanWellFounded, Zenon
<1>2. \A x, y \in Nat : y < x => <<y, x>> \in R
  BY Zenon DEF OpToRel
<1> HIDE DEF R
<1>3. PICK x \in T : \A y \in T : ~ (<<y, x>> \in R)
  BY <1>1, WFMin, Zenon
<1>4. \A y \in T : ~ (y < x)
  BY <1>2, <1>3, Zenon
<1>5. \A y \in T : x <= y
  BY <1>4
<1> QED
  BY <1>5, Zenon

(***************************************************************************)
(* Induction, for a set of numbers.                                        *)
(***************************************************************************)
LEMMA Induction ==
  ASSUME NEW S \in SUBSET Nat, 0 \in S, \A n \in S : n + 1 \in S
  PROVE  \A n \in Nat : n \in S
<1> SUFFICES ASSUME Nat \ S # {} PROVE FALSE
  BY Zenon
<1>1. PICK m \in Nat \ S : \A n \in Nat \ S : m <= n
  BY LeastNumber, Zenon
<1>2. m - 1 \in S
  BY <1>1
<1> QED
  BY <1>1, <1>2

(***************************************************************************)
(* The least of a set of numbers.                                          *)
(***************************************************************************)
LEMMA MinFacts ==
  ASSUME NEW T \in SUBSET Nat, T # {}
  PROVE  /\ Min(T) \in T
         /\ \A n \in T : Min(T) <= n
<1>1. \E m \in T : \A n \in T : m <= n
  BY LeastNumber, Zenon
<1> QED
  BY <1>1, Zenon DEF Min

(***************************************************************************)
(* Which number is the least.                                              *)
(***************************************************************************)
LEMMA MinIs ==
  ASSUME NEW T \in SUBSET Nat, NEW m \in T, \A n \in T : m <= n
  PROVE  Min(T) = m
<1>1. Min(T) \in T /\ \A n \in T : Min(T) <= n
  BY MinFacts, Zenon
<1>2. Min(T) \in Nat /\ m \in Nat /\ Min(T) <= m /\ m <= Min(T)
  BY <1>1, Zenon
<1> QED
  BY <1>2

(***************************************************************************)
(* A function whose value at i is worked out from the one at i - 1.        *)
(***************************************************************************)
Iterative(L, V, first, step) == L \in Nat /\ first \in V /\ step \in [1 .. L -> [V -> V]]

(***************************************************************************)
(* A function that is computed step by step exists.                        *)
(***************************************************************************)
LEMMA Iteration ==
  ASSUME NEW L, NEW V, NEW first, NEW step, Iterative(L, V, first, step)
  PROVE  \E f \in [0 .. L -> V] :
           f[0] = first /\ \A i \in 1 .. L : f[i] = step[i][f[i - 1]]
<1> DEFINE Good(n) == \E f \in [0 .. n -> V] :
                         f[0] = first /\ \A i \in 1 .. n : f[i] = step[i][f[i - 1]]
           S == {n \in Nat : n <= L => Good(n)}
<1> USE DEF Iterative
<1>1. 0 \in S
  <2> DEFINE f == [i \in 0 .. 0 |-> first]
  <2>1. f \in [0 .. 0 -> V] /\ f[0] = first
    OBVIOUS
  <2>2. \A i \in 1 .. 0 : f[i] = step[i][f[i - 1]]
    OBVIOUS
  <2> HIDE DEF f
  <2>3. Good(0)
    BY <2>1, <2>2, Zenon
  <2> QED
    BY <2>3, Zenon
<1>2. ASSUME NEW n \in S PROVE n + 1 \in S
  <2> SUFFICES ASSUME n + 1 <= L PROVE Good(n + 1)
    OBVIOUS
  <2>1. PICK f \in [0 .. n -> V] : f[0] = first /\ \A i \in 1 .. n : f[i] = step[i][f[i - 1]]
    OBVIOUS
  <2> DEFINE g == [i \in 0 .. n + 1 |-> IF i = n + 1 THEN step[n + 1][f[n]] ELSE f[i]]
  <2>2. f[n] \in V /\ step[n + 1] \in [V -> V]
    OBVIOUS
  <2>3. g \in [0 .. n + 1 -> V]
    BY <2>2
  <2>4. g[0] = first
    BY <2>1
  <2>5. \A i \in 1 .. n + 1 : g[i] = step[i][g[i - 1]]
    BY <2>1
  <2> HIDE DEF g
  <2> QED
    BY <2>3, <2>4, <2>5, Zenon
<1> HIDE DEF S
<1>3. L \in S
  <2>1. S \in SUBSET Nat
    BY Zenon DEF S
  <2> QED
    BY <1>1, <1>2, <2>1, Induction, Zenon
<1> QED
  BY <1>3 DEF S

(***************************************************************************)
(* A function whose value at i is worked out from one further on, as a     *)
(* parser's is from the rest of its text.                                  *)
(***************************************************************************)
Recursive(L, V, next, base, step) ==
  /\ L \in Nat
  /\ next \in [1 .. L -> Nat]
  /\ \A i \in 1 .. L : next[i] > i
  /\ base \in [1 .. L -> V]
  /\ step \in [1 .. L -> [V -> V]]

(***************************************************************************)
(* A function that is computed from the end of a text exists.              *)
(***************************************************************************)
LEMMA Recursion ==
  ASSUME NEW L, NEW V, NEW next, NEW base, NEW step, Recursive(L, V, next, base, step)
  PROVE  \E f \in [1 .. L -> V] :
           \A i \in 1 .. L : f[i] = IF next[i] > L THEN base[i] ELSE step[i][f[next[i]]]
<1> DEFINE Value(f, i) == IF next[i] > L THEN base[i] ELSE step[i][f[next[i]]]
           Good(n) == \E f \in [n .. L -> V] : \A i \in n .. L : f[i] = Value(f, i)
           S == {n \in Nat : n <= L => Good(L - n + 1)}
<1> USE DEF Recursive
<1>1. 0 \in S
  <2>1. \A f : \A i \in L + 1 .. L : f[i] = Value(f, i)
    OBVIOUS
  <2>2. [i \in L + 1 .. L |-> base[i]] \in [L + 1 .. L -> V]
    OBVIOUS
  <2>3. Good(L + 1)
    BY <2>1, <2>2, Zenon
  <2> QED
    BY <2>3, SMTT(20)
<1>2. ASSUME NEW n \in S PROVE n + 1 \in S
  <2> SUFFICES ASSUME n + 1 <= L PROVE Good(L - n)
    OBVIOUS
  <2> DEFINE m == L - n
  <2>1. m \in 1 .. L /\ m + 1 = L - n + 1
    OBVIOUS
  <2>2. PICK f \in [m + 1 .. L -> V] : \A i \in m + 1 .. L : f[i] = Value(f, i)
    BY <2>1
  <2> DEFINE g == [i \in m .. L |-> IF i = m THEN Value(f, m) ELSE f[i]]
  <2>3. ASSUME NEW i \in m .. L PROVE Value(g, i) = Value(f, i)
    <3>1. CASE next[i] > L
      BY <3>1, Zenon
    <3>2. CASE ~ (next[i] > L)
      <4>1. next[i] \in m .. L /\ next[i] # m
        BY <2>1, <3>2
      <4> QED
        BY <4>1, Zenon
    <3> QED
      BY <3>1, <3>2, Zenon
  <2>4. Value(f, m) \in V
    <3>1. CASE next[m] > L
      BY <2>1, <3>1, Zenon
    <3>2. CASE ~ (next[m] > L)
      <4>1. next[m] \in m + 1 .. L
        BY <2>1, <3>2
      <4> QED
        BY <2>1, <3>2, <4>1
    <3> QED
      BY <3>1, <3>2, Zenon
  <2>5. g \in [m .. L -> V]
    BY <2>1, <2>4
  <2>6. \A i \in m .. L : g[i] = Value(f, i)
    BY <2>1, <2>2
  <2> HIDE DEF g, Value
  <2>7. \A i \in m .. L : g[i] = Value(g, i)
    BY <2>3, <2>6, Zenon
  <2> QED
    BY <2>5, <2>7, Zenon
<1> HIDE DEF S
<1>3. L \in S
  <2>1. S \in SUBSET Nat
    BY Zenon DEF S
  <2> QED
    BY <1>1, <1>2, <2>1, Induction, Zenon
<1>4. CASE L = 0
  BY <1>4, <1>1 DEF S
<1>5. CASE L # 0
  BY <1>3, <1>5 DEF S
<1> QED
  BY <1>4, <1>5, Zenon

(***************************************************************************)
(* There is only one such function.                                        *)
(***************************************************************************)
Agreeing(L, next, f, g) ==
  /\ L \in Nat
  /\ next \in [1 .. L -> Nat]
  /\ \A i \in 1 .. L : next[i] > i
  /\ \A i \in 1 .. L : (next[i] <= L => f[next[i]] = g[next[i]]) => f[i] = g[i]

(***************************************************************************)
(* Two functions that are computed in the same way are equal.              *)
(***************************************************************************)
LEMMA Agreement ==
  ASSUME NEW L, NEW next, NEW f, NEW g, Agreeing(L, next, f, g)
  PROVE  \A i \in 1 .. L : f[i] = g[i]
<1> USE DEF Agreeing
<1> DEFINE T == {n \in Nat : n < L /\ f[L - n] # g[L - n]}
<1> SUFFICES ASSUME NEW i \in 1 .. L, f[i] # g[i] PROVE FALSE
  BY Zenon
<1>1. L - i \in T
  OBVIOUS
<1>2. PICK m \in T : \A n \in T : m <= n
  BY <1>1, LeastNumber, Zenon
<1>3. L - m \in 1 .. L /\ f[L - m] # g[L - m]
  BY <1>2
<1>4. next[L - m] <= L => f[next[L - m]] = g[next[L - m]]
  <2> SUFFICES ASSUME next[L - m] <= L, f[next[L - m]] # g[next[L - m]] PROVE FALSE
    BY Zenon
  <2> DEFINE n == L - next[L - m]
  <2>1. n \in Nat /\ n < m /\ L - n = next[L - m]
    BY <1>3
  <2>2. n \in T
    BY <1>2, <2>1
  <2> QED
    BY <1>2, <2>1, <2>2
<1> QED
  BY <1>3, <1>4, Zenon

------------------------------------------------------------------------------
(***************************************************************************)
(* Functions, and so sequences, are equal if they agree everywhere.        *)
(***************************************************************************)
LEMMA SameFunction ==
  ASSUME NEW D, NEW S, NEW f \in [D -> S], NEW g \in [D -> S], \A x \in D : f[x] = g[x]
  PROVE  f = g
  OBVIOUS

(***************************************************************************)
(* Sequences with the same elements are equal.                             *)
(***************************************************************************)
LEMMA SameSequence ==
  ASSUME NEW S, NEW s \in Seq(S), NEW t \in Seq(S), Len(s) = Len(t),
         \A i \in 1 .. Len(s) : s[i] = t[i]
  PROVE  s = t
<1> DEFINE n == Len(s)
<1>1. s \in [1 .. n -> S]
  OBVIOUS
<1>2. t \in [1 .. n -> S]
  OBVIOUS
<1> HIDE DEF n
<1> QED
  BY <1>1, <1>2, SameFunction DEF n

(***************************************************************************)
(* What a part of a sequence is.                                           *)
(***************************************************************************)
LEMMA PartIs ==
  ASSUME NEW S, NEW text \in Seq(S), NEW word \in Seq(S), NEW i \in Nat \ {0},
         i + Len(word) <= Len(text) + 1
  PROVE  SubSeq(text, i, i + Len(word) - 1) = word <=>
           \A j \in 1 .. Len(word) : text[i + j - 1] = word[j]
<1> DEFINE n == i + Len(word) - 1
<1>1. Len(word) \in Nat /\ Len(text) \in Nat
  OBVIOUS
<1>2. \A j \in i .. n : text[j] \in S
  BY <1>1
<1>3. /\ SubSeq(text, i, n) \in Seq(S)
      /\ Len(SubSeq(text, i, n)) = Len(word)
      /\ \A j \in 1 .. Len(word) : SubSeq(text, i, n)[j] = text[i + j - 1]
  BY <1>1, <1>2
<1> DEFINE sub == SubSeq(text, i, n)
<1> HIDE DEF n, sub
<1>4. (sub = word) <=> \A j \in 1 .. Len(word) : sub[j] = word[j]
  BY <1>3, SameSequence, Zenon DEF sub
<1> QED
  BY <1>3, <1>4, Zenon DEF sub, n

(***************************************************************************)
(* The elements of a concatenation.                                        *)
(***************************************************************************)
LEMMA ConcatFacts ==
  ASSUME NEW S, NEW s \in Seq(S), NEW t \in Seq(S)
  PROVE  /\ s \o t \in Seq(S)
         /\ Len(s \o t) = Len(s) + Len(t)
         /\ \A i \in 1 .. Len(s) : (s \o t)[i] = s[i]
         /\ \A i \in 1 .. Len(t) : (s \o t)[Len(s) + i] = t[i]
  OBVIOUS

(***************************************************************************)
(* An element of the second of two sequences that are joined.              *)
(***************************************************************************)
LEMMA TailElement ==
  ASSUME NEW S, NEW s \in Seq(S), NEW t \in Seq(S), NEW i \in DOMAIN (s \o t), i \notin DOMAIN s
  PROVE  /\ Len(s \o t) = Len(s) + Len(t)
         /\ i - Len(s) \in DOMAIN t
         /\ (s \o t)[i] = t[i - Len(s)]
<1> DEFINE j == i - Len(s)
<1>1. s \o t \in Seq(S) /\ Len(s \o t) = Len(s) + Len(t) /\ Len(s) \in Nat /\ Len(t) \in Nat
  BY ConcatFacts
<1>2. i \in 1 .. Len(s) + Len(t) /\ i \notin 1 .. Len(s)
  BY <1>1
<1>3. j \in 1 .. Len(t) /\ Len(s) + j = i
  BY <1>1, <1>2
<1>4. (s \o t)[Len(s) + j] = t[j]
  BY <1>3, ConcatFacts
<1> QED
  BY <1>1, <1>3, <1>4

(***************************************************************************)
(* The part of a text that is one element long.                            *)
(***************************************************************************)
LEMMA OneElement ==
  ASSUME NEW S, NEW text \in Seq(S), NEW i \in 1 .. Len(text)
  PROVE  SubSeq(text, i, i) = <<text[i]>>
<1> DEFINE s == SubSeq(text, i, i)
           t == <<text[i]>>
<1>1. s \in Seq(S) /\ t \in Seq(S)
  OBVIOUS
<1>2. Len(s) = 1 /\ Len(t) = 1 /\ s[1] = t[1]
  OBVIOUS
<1> HIDE DEF s, t
<1>3. Len(s) = Len(t) /\ \A j \in 1 .. Len(s) : s[j] = t[j]
  BY <1>2
<1>4. s = t
  BY <1>1, <1>3, SameSequence, Zenon
<1> QED
  BY <1>4, Zenon DEF s, t

(***************************************************************************)
(* What a concatenation is.                                                *)
(***************************************************************************)
LEMMA Joined ==
  ASSUME NEW S, NEW s \in Seq(S), NEW t \in Seq(S), NEW u \in Seq(S),
         Len(u) = Len(s) + Len(t),
         \A i \in 1 .. Len(s) : u[i] = s[i],
         \A i \in 1 .. Len(t) : u[Len(s) + i] = t[i]
  PROVE  s \o t = u
<1> DEFINE st == s \o t
<1>1. /\ st \in Seq(S)
      /\ Len(st) = Len(s) + Len(t)
      /\ \A i \in 1 .. Len(s) : st[i] = s[i]
      /\ \A i \in 1 .. Len(t) : st[Len(s) + i] = t[i]
  BY ConcatFacts
<1> HIDE DEF st
<1>2. ASSUME NEW i \in 1 .. Len(st) PROVE st[i] = u[i]
  <2>1. CASE i \in 1 .. Len(s)
    BY <1>1, <2>1, Zenon
  <2>2. CASE i \notin 1 .. Len(s)
    <3>1. i - Len(s) \in 1 .. Len(t) /\ Len(s) + (i - Len(s)) = i
      BY <1>1, <2>2
    <3> QED
      BY <1>1, <3>1, Zenon
  <2> QED
    BY <2>1, <2>2, Zenon
<1>3. st = u
  BY <1>1, <1>2, SameSequence, Zenon
<1> QED
  BY <1>3, Zenon DEF st

(***************************************************************************)
(* Short concatenations.                                                   *)
(***************************************************************************)
LEMMA JoinedOne ==
  ASSUME NEW S, NEW p \in S, NEW q \in S, NEW r \in S
  PROVE  /\ <<p>> \o <<>> = <<p>>
         /\ <<p>> \o <<q>> = <<p, q>>
         /\ <<p>> \o <<q, r>> = <<p, q, r>>
<1>1. ASSUME NEW t \in Seq(S), NEW u \in Seq(S), Len(u) = 1 + Len(t), u[1] = p,
             \A i \in 1 .. Len(t) : u[1 + i] = t[i]
      PROVE  <<p>> \o t = u
  <2> DEFINE s == <<p>>
  <2>1. s \in Seq(S) /\ Len(s) = 1 /\ s[1] = p
    OBVIOUS
  <2> HIDE DEF s
  <2>2. \A i \in 1 .. Len(s) : u[i] = s[i]
    BY <1>1, <2>1
  <2>3. Len(u) = Len(s) + Len(t) /\ \A i \in 1 .. Len(t) : u[Len(s) + i] = t[i]
    BY <1>1, <2>1, Zenon
  <2>4. s \o t = u
    BY <2>1, <2>2, <2>3, Joined, Zenon
  <2> QED
    BY <2>4, Zenon DEF s
<1>2. <<p>> \o <<>> = <<p>>
  OBVIOUS
<1>3. <<p>> \o <<q>> = <<p, q>>
  <2> DEFINE t == <<q>>
             u == <<p, q>>
  <2>1. t \in Seq(S) /\ u \in Seq(S)
    OBVIOUS
  <2>2. Len(u) = 1 + Len(t) /\ u[1] = p /\ \A i \in 1 .. Len(t) : u[1 + i] = t[i]
    OBVIOUS
  <2> HIDE DEF t, u
  <2>3. <<p>> \o t = u
    BY <1>1, <2>1, <2>2, Zenon
  <2> QED
    BY <2>3, Zenon DEF t, u
<1>4. <<p>> \o <<q, r>> = <<p, q, r>>
  <2> DEFINE t == <<q, r>>
             u == <<p, q, r>>
  <2>1. t \in Seq(S) /\ u \in Seq(S)
    OBVIOUS
  <2>2. Len(u) = 1 + Len(t) /\ u[1] = p /\ \A i \in 1 .. Len(t) : u[1 + i] = t[i]
    OBVIOUS
  <2> HIDE DEF t, u
  <2>3. <<p>> \o t = u
    BY <1>1, <2>1, <2>2
  <2> QED
    BY <2>3, Zenon DEF t, u
<1> QED
  BY <1>2, <1>3, <1>4, Zenon

(***************************************************************************)
(* The elements of a sequence with one more at its end.                    *)
(***************************************************************************)
LEMMA AppendFacts ==
  ASSUME NEW S, NEW s \in Seq(S), NEW e \in S
  PROVE  /\ Append(s, e) \in Seq(S)
         /\ Len(Append(s, e)) = Len(s) + 1
         /\ \A i \in 1 .. Len(s) : Append(s, e)[i] = s[i]
         /\ Append(s, e)[Len(s) + 1] = e
  OBVIOUS

(***************************************************************************)
(* Two elements appended.                                                  *)
(***************************************************************************)
LEMMA AppendTwo ==
  ASSUME NEW x, NEW y
  PROVE  Append(Append(<<>>, x), y) = <<x, y>>
<1>1. <<>> \in Seq({x, y}) /\ Len(<<>>) = 0
  OBVIOUS
<1> DEFINE s == Append(<<>>, x)
           t == Append(s, y)
           u == <<x, y>>
<1>2. s \in Seq({x, y}) /\ Len(s) = 1 /\ s[1] = x
  OBVIOUS
<1> HIDE DEF s
<1>a. s \in Seq({x, y}) /\ y \in {x, y}
  BY <1>2, Zenon
<1>b. /\ t \in Seq({x, y}) /\ Len(t) = Len(s) + 1
      /\ \A i \in 1 .. Len(s) : t[i] = s[i]
      /\ t[Len(s) + 1] = y
  BY <1>a, AppendFacts
<1> HIDE DEF t
<1>3. t \in Seq({x, y}) /\ Len(t) = 2 /\ t[1] = x /\ t[2] = y
  BY <1>2, <1>b
<1>4. u \in Seq({x, y}) /\ Len(u) = 2 /\ u[1] = x /\ u[2] = y
  OBVIOUS
<1> HIDE DEF t, u
<1>5. Len(t) = Len(u) /\ \A i \in 1 .. Len(t) : t[i] = u[i]
  BY <1>3, <1>4
<1>6. t \in Seq({x, y}) /\ u \in Seq({x, y})
  BY <1>3, <1>4, Zenon
<1>7. t = u
  BY <1>5, <1>6, SameSequence, Zenon
<1> QED
  BY <1>7, Zenon DEF s, t, u

------------------------------------------------------------------------------
(***************************************************************************)
(* operator< of BlobKey is a strict total order on the keys.               *)
(***************************************************************************)
LEMMA KeyOrder ==
  ASSUME NEW x \in Keys, NEW y \in Keys
  PROVE  /\ ~ KeyLess(x, x)
         /\ KeyLess(x, y) \/ x = y \/ KeyLess(y, x)
         /\ KeyLess(x, y) => ~ KeyLess(y, x)
         /\ \A z \in Keys : KeyLess(x, y) /\ KeyLess(y, z) => KeyLess(x, z)
<1>1. \A k \in Keys : /\ k = [hash_type |-> k.hash_type, hash_value |-> k.hash_value]
                      /\ k.hash_type \in Int
                      /\ k.hash_value \in Int
  <2> SUFFICES ASSUME NEW h \in HashTypes, NEW c \in Contents,
                      NEW k, k = BlobKeyFor(h, c)
               PROVE  /\ k = [hash_type |-> k.hash_type, hash_value |-> k.hash_value]
                      /\ k.hash_type \in Int
                      /\ k.hash_value \in Int
    BY DEF Keys
  <2>1. CString(c) \in CStrings
    BY Zenon DEF CStrings
  <2>2. Sha1(c) \in Int /\ Sha256(c) \in Int
    BY <2>1, DigestAssumption DEF Sha1, Sha256
  <2> QED
    BY <2>2 DEF BlobKeyFor, HashTypes, sha1, sha256
<1> QED
  BY <1>1 DEF KeyLess

(***************************************************************************)
(* KeysOf gives the two keys of every content, and two contents share a    *)
(* key when they agree up to their first NUL.                              *)
(***************************************************************************)
LEMMA KeysOfFacts ==
  ASSUME NEW S \in SUBSET Contents
  PROVE  /\ KeysOf(S) \subseteq Keys
         /\ \A k : k \in KeysOf(S) <=> \E c \in S : k \in KeysOf({c})
         /\ \A c \in S, d \in Contents :
              (\E k : k \in KeysOf({c}) /\ k \in KeysOf({d})) => CString(c) = CString(d)
<1>1. \A c \in Contents : KeysOf({c}) = {BlobKeyFor(h, c) : h \in HashTypes}
  BY Zenon DEF KeysOf, KeysOfContent
<1>2. \A c \in Contents : KeysOf({c}) \subseteq Keys
  BY <1>1 DEF Keys
<1>3. \A k : k \in KeysOf(S) <=> \E c \in S : k \in KeysOf({c})
  BY Zenon DEF KeysOf
<1>4. ASSUME NEW c \in Contents, NEW d \in Contents, NEW k,
             k \in KeysOf({c}), k \in KeysOf({d})
      PROVE  CString(c) = CString(d)
  <2>1. PICK h \in HashTypes : k = BlobKeyFor(h, c)
    BY <1>1, <1>4, Zenon
  <2>2. PICK g \in HashTypes : k = BlobKeyFor(g, d)
    BY <1>1, <1>4, Zenon
  <2>3. CString(c) \in CStrings /\ CString(d) \in CStrings
    BY Zenon DEF CStrings
  <2>4. \/ Sha1Digest[CString(c)] = Sha1Digest[CString(d)]
        \/ Sha256Digest[CString(c)] = Sha256Digest[CString(d)]
    BY <2>1, <2>2 DEF BlobKeyFor, HashTypes, sha1, sha256, Sha1, Sha256
  <2> QED
    BY <2>3, <2>4, DigestAssumption, Zenon
<1> QED
  BY <1>2, <1>3, <1>4, Zenon
=============================================================================
