-------------------------- MODULE MultipartProofs --------------------------
(***************************************************************************)
(* What the rules of Multipart find in a form: the theorem that the form   *)
(* of a list of payloads is read back as these payloads.                   *)
(***************************************************************************)
EXTENDS Multipart, CommonLemmas

(***************************************************************************)
(* A word is at a position of a text if it agrees there element by         *)
(* element.                                                                *)
(***************************************************************************)
LEMMA HasAtFacts ==
  ASSUME NEW S, NEW text \in Seq(S), NEW word \in Seq(S), NEW i \in Nat \ {0}
  PROVE  HasAt(text, i, word) <=>
           /\ i + Len(word) <= Len(text) + 1
           /\ \A j \in 1 .. Len(word) : text[i + j - 1] = word[j]
<1>1. CASE i + Len(word) <= Len(text) + 1
  BY <1>1, PartIs DEF HasAt
<1> QED
  BY <1>1, Zenon DEF HasAt

(***************************************************************************)
(* A std::map of pairs with different names has the value of each.         *)
(***************************************************************************)
DistinctNames(pairs, P, T) ==
  /\ pairs \in Seq(P)
  /\ \A p \in P : p.value \in T
  /\ \A j, k \in 1 .. Len(pairs) : pairs[j].name = pairs[k].name => j = k

(***************************************************************************)
(* The value of a name that occurs once.                                   *)
(***************************************************************************)
LEMMA MapOfValue ==
  ASSUME NEW P, NEW T, NEW pairs, DistinctNames(pairs, P, T), NEW k \in 1 .. Len(pairs),
         NEW name, pairs[k].name = name
  PROVE  MapOf(pairs)[name] = pairs[k].value
<1> USE DEF DistinctNames
<1> DEFINE I == {i \in 1 .. Len(pairs) : pairs[i].name = name}
<1>1. DOMAIN pairs = 1 .. Len(pairs)
  OBVIOUS
<1>2. I = {k}
  BY Zenon
<1>3. Min(I) = k
  BY <1>2 DEF Min
<1>4. MapOf(pairs)[name] = pairs[Min(I)].value
  BY <1>1, Zenon DEF MapOf
<1> QED
  BY <1>3, <1>4, Zenon

(***************************************************************************)
(* The std::map of pairs with distinct names.                              *)
(***************************************************************************)
LEMMA MapOfFacts ==
  ASSUME NEW P, NEW T, NEW pairs, DistinctNames(pairs, P, T)
  PROVE  MapOf(pairs) \in [{pairs[k].name : k \in 1 .. Len(pairs)} -> T]
<1> USE DEF DistinctNames
<1>1. DOMAIN pairs = 1 .. Len(pairs)
  OBVIOUS
<1>2. ASSUME NEW k \in 1 .. Len(pairs) PROVE MapOf(pairs)[pairs[k].name] \in T
  <2> DEFINE name == pairs[k].name
  <2>1. pairs[k] \in P
    OBVIOUS
  <2>2. MapOf(pairs)[name] = pairs[k].value
    <3>1. pairs[k].name = name
      BY Zenon
    <3> HIDE DEF name, DistinctNames
    <3> QED
      BY <3>1, MapOfValue
  <2> QED
    BY <2>1, <2>2, Zenon
<1>3. DOMAIN MapOf(pairs) = {pairs[k].name : k \in 1 .. Len(pairs)}
  BY <1>1, Zenon DEF MapOf
<1>4. MapOf(pairs) = [n \in DOMAIN MapOf(pairs) |-> MapOf(pairs)[n]]
  BY Zenon DEF MapOf
<1>5. \A n \in DOMAIN MapOf(pairs) : MapOf(pairs)[n] \in T
  BY <1>2, <1>3, Zenon
<1> QED
  BY <1>3, <1>4, <1>5, Zenon

------------------------------------------------------------------------------
(***************************************************************************)
(* The parts of a form, byte by byte.                                      *)
(***************************************************************************)
PartHead == <<45, 45, 88, 13, 110, 58, 102, 13, 13>>

(***************************************************************************)
(* The bytes of a part of a form.                                          *)
(***************************************************************************)
LEMMA PartFacts ==
  ASSUME NEW p \in Seq(Nat)
  PROVE  /\ FormPart(p) \in Seq(Nat)
         /\ Len(FormPart(p)) = 10 + Len(p)
         /\ \A i \in 1 .. 9 : FormPart(p)[i] = PartHead[i]
         /\ \A i \in 1 .. Len(p) : FormPart(p)[9 + i] = p[i]
         /\ FormPart(p)[10 + Len(p)] = 13
<1> DEFINE a == <<45, 45>>
           b == <<88>>
           ab == <<45, 45, 88>>
           c == <<13, 110, 58, 102, 13, 13>>
           h == PartHead
           e == <<13>>
           hp == h \o p
           whole == hp \o e
<1>1. /\ a \in Seq(Nat) /\ b \in Seq(Nat) /\ ab \in Seq(Nat) /\ c \in Seq(Nat)
      /\ h \in Seq(Nat) /\ e \in Seq(Nat)
  BY DEF PartHead
<1>2. a \o b = ab
  <2>1. /\ Len(ab) = Len(a) + Len(b)
        /\ \A i \in 1 .. Len(a) : ab[i] = a[i]
        /\ \A i \in 1 .. Len(b) : ab[Len(a) + i] = b[i]
    OBVIOUS
  <2> HIDE DEF a, b, ab
  <2> QED
    BY <1>1, <2>1, Joined, Zenon
<1>3. ab \o c = h
  <2>1. /\ Len(h) = Len(ab) + Len(c)
        /\ \A i \in 1 .. Len(ab) : h[i] = ab[i]
        /\ \A i \in 1 .. Len(c) : h[Len(ab) + i] = c[i]
    BY DEF PartHead
  <2> HIDE DEF ab, c, h
  <2> QED
    BY <1>1, <2>1, Joined, ZenonT(30)
<1>4. FormPart(p) = ((a \o b) \o c) \o p \o e
  BY Zenon DEF FormPart, Dash, Boundary, CRLF, Colon
<1>5. FormPart(p) = whole
  <2> HIDE DEF a, b, c, ab, h, e
  <2> QED
    BY <1>2, <1>3, <1>4, Zenon
<1>6. Len(h) = 9 /\ Len(e) = 1 /\ e[1] = 13
  BY Zenon DEF PartHead
<1> HIDE DEF h, e
<1>7. /\ hp \in Seq(Nat) /\ Len(hp) = Len(h) + Len(p)
      /\ \A i \in 1 .. Len(h) : hp[i] = h[i]
      /\ \A i \in 1 .. Len(p) : hp[Len(h) + i] = p[i]
  BY <1>1, ConcatFacts
<1> HIDE DEF hp
<1>a. hp \in Seq(Nat) /\ e \in Seq(Nat)
  BY <1>1, <1>7, Zenon
<1>8. /\ whole \in Seq(Nat) /\ Len(whole) = Len(hp) + Len(e)
      /\ \A i \in 1 .. Len(hp) : whole[i] = hp[i]
      /\ \A i \in 1 .. Len(e) : whole[Len(hp) + i] = e[i]
  BY <1>a, ConcatFacts
<1> HIDE DEF whole
<1>9. Len(p) \in Nat
  OBVIOUS
<1>b. Len(hp) = 9 + Len(p) /\ Len(h) = 9
  BY <1>6, <1>7, Zenon
<1>10. \A i \in 1 .. 9 : whole[i] = h[i]
  <2> SUFFICES ASSUME NEW i \in 1 .. 9 PROVE whole[i] = h[i]
    BY Zenon
  <2>1. i \in 1 .. Len(hp) /\ i \in 1 .. Len(h)
    BY <1>9, <1>b
  <2> QED
    BY <1>7, <1>8, <2>1, Zenon
<1>11. \A i \in 1 .. Len(p) : whole[9 + i] = p[i]
  <2> SUFFICES ASSUME NEW i \in 1 .. Len(p) PROVE whole[9 + i] = p[i]
    BY Zenon
  <2>1. 9 + i \in 1 .. Len(hp)
    BY <1>6, <1>7, <1>9
  <2>2. whole[9 + i] = hp[9 + i]
    BY <1>8, <2>1, Zenon
  <2>3. hp[9 + i] = p[i]
    BY <1>7, <1>b, Zenon
  <2> QED
    BY <2>2, <2>3, Zenon
<1>12. whole[10 + Len(p)] = 13
  <2>1. 10 + Len(p) = Len(hp) + 1
    BY <1>6, <1>7, <1>9
  <2> QED
    BY <1>6, <1>8, <2>1
<1> QED
  BY <1>5, <1>6, <1>7, <1>8, <1>9, <1>10, <1>11, <1>12 DEF h

(***************************************************************************)
(* The bytes that end a form.                                              *)
(***************************************************************************)
LEMMA EndFacts ==
  /\ FormEnd \in Seq(Nat)
  /\ FormEnd = <<45, 45, 88, 45, 45, 13>>
<1> DEFINE a == <<45, 45>>
           b == <<88>>
           ab == <<45, 45, 88>>
           c == <<45, 45, 13>>
           h == <<45, 45, 88, 45, 45, 13>>
<1>1. a \in Seq(Nat) /\ b \in Seq(Nat) /\ ab \in Seq(Nat) /\ c \in Seq(Nat) /\ h \in Seq(Nat)
  OBVIOUS
<1>2. a \o b = ab
  <2>1. /\ Len(ab) = Len(a) + Len(b)
        /\ \A i \in 1 .. Len(a) : ab[i] = a[i]
        /\ \A i \in 1 .. Len(b) : ab[Len(a) + i] = b[i]
    OBVIOUS
  <2> HIDE DEF a, b, ab
  <2> QED
    BY <1>1, <2>1, Joined, Zenon
<1>3. ab \o c = h
  <2>1. /\ Len(h) = Len(ab) + Len(c)
        /\ \A i \in 1 .. Len(ab) : h[i] = ab[i]
        /\ \A i \in 1 .. Len(c) : h[Len(ab) + i] = c[i]
    OBVIOUS
  <2> HIDE DEF ab, c, h
  <2> QED
    BY <1>1, <2>1, Joined, Zenon
<1>4. FormEnd = (a \o b) \o c
  BY Zenon DEF FormEnd, Dash, Boundary, CRLF
<1>5. FormEnd = h
  <2> HIDE DEF a, b, c, ab, h
  <2> QED
    BY <1>2, <1>3, <1>4, Zenon
<1> QED
  BY <1>1, <1>5, Zenon

(***************************************************************************)
(* FormFrom(ps)[k] is what the form looks like from its k-th part on.      *)
(***************************************************************************)
LEMMA FormUnfold ==
  ASSUME NEW ps \in Seq(Seq(Nat))
  PROVE  /\ FormFrom(ps) \in [1 .. Len(ps) + 1 -> Seq(Nat)]
         /\ FormFrom(ps)[Len(ps) + 1] = FormEnd
         /\ \A k \in 1 .. Len(ps) : FormFrom(ps)[k] = FormPart(ps[k]) \o FormFrom(ps)[k + 1]
<1> DEFINE L == Len(ps) + 1
           V == Seq(Nat)
           next == [k \in 1 .. L |-> k + 1]
           base == [k \in 1 .. L |-> FormEnd]
           step == [k \in 1 .. L |-> [v \in V |-> IF k = L THEN v ELSE FormPart(ps[k]) \o v]]
           Body(g, k) == IF k > Len(ps) THEN FormEnd ELSE FormPart(ps[k]) \o g[k + 1]
           Eqn(g) == g = [k \in 1 .. L |-> Body(g, k)]
           chosen == CHOOSE g : Eqn(g)
<1>1. L \in Nat /\ Len(ps) \in Nat
  OBVIOUS
<1>2. next \in [1 .. L -> Nat] /\ \A k \in 1 .. L : next[k] > k
  BY <1>1
<1>3. base \in [1 .. L -> V]
  BY EndFacts, Zenon
<1>4. \A k \in 1 .. Len(ps) : FormPart(ps[k]) \in V
  <2>1. \A k \in 1 .. Len(ps) : ps[k] \in Seq(Nat)
    OBVIOUS
  <2> QED
    BY <2>1, PartFacts, Zenon
<1>5. step \in [1 .. L -> [V -> V]]
  <2>1. ASSUME NEW k \in 1 .. L, k # L, NEW v \in V PROVE FormPart(ps[k]) \o v \in V
    <3>1. FormPart(ps[k]) \in V
      BY <1>1, <1>4, <2>1
    <3> QED
      BY <3>1
  <2> QED
    BY <2>1, Zenon
<1>6. PICK f \in [1 .. L -> V] :
        \A k \in 1 .. L : f[k] = IF next[k] > L THEN base[k] ELSE step[k][f[next[k]]]
  <2> HIDE DEF L, V, next, base, step
  <2>1. Recursive(L, V, next, base, step)
    BY <1>1, <1>2, <1>3, <1>5, Zenon DEF Recursive
  <2> QED
    BY <2>1, Recursion
<1>7. ASSUME NEW k \in 1 .. L PROVE f[k] = Body(f, k)
  <2>1. CASE k = L
    <3>1. next[k] > L /\ k > Len(ps)
      BY <1>1, <2>1
    <3>2. f[k] = base[k]
      <4> HIDE DEF next, base, step, L
      <4> QED
        BY <1>6, <3>1, Zenon
    <3> QED
      BY <3>1, <3>2, Zenon
  <2>2. CASE k # L
    <3>1. ~ (next[k] > L) /\ next[k] = k + 1 /\ k + 1 \in 1 .. L /\ ~ (k > Len(ps))
      BY <1>1, <2>2
    <3>2. f[k + 1] \in V
      BY <3>1, Zenon
    <3>3. step[k][f[k + 1]] = FormPart(ps[k]) \o f[k + 1]
      BY <2>2, <3>2, Zenon
    <3>4. f[k] = step[k][f[k + 1]]
      <4> HIDE DEF next, base, step, L
      <4> QED
        BY <1>6, <3>1, Zenon
    <3> HIDE DEF step
    <3> QED
      BY <3>1, <3>3, <3>4, Zenon
  <2> QED
    BY <2>1, <2>2, Zenon
<1>8. Eqn(f)
  <2> HIDE DEF Body
  <2> QED
    BY <1>7, Zenon
<1>9. Eqn(chosen)
  BY <1>8, Zenon
<1>10. \A k \in 1 .. L : chosen[k] = Body(chosen, k)
  <2> HIDE DEF Body, chosen
  <2> QED
    BY <1>9, Zenon
<1>11. chosen = f
  <2> DEFINE ff == f
  <2> HIDE DEF chosen
  <2>1. \A k \in 1 .. L : (next[k] <= L => ff[next[k]] = chosen[next[k]]) => ff[k] = chosen[k]
    <3> SUFFICES ASSUME NEW k \in 1 .. L, next[k] <= L => f[next[k]] = chosen[next[k]]
                 PROVE  f[k] = chosen[k]
      BY Zenon
    <3>1. CASE k = L
      <4>1. k > Len(ps)
        BY <1>1, <3>1
      <4>2. f[k] = Body(f, k) /\ chosen[k] = Body(chosen, k)
        BY <1>7, <1>10, Zenon
      <4>3. Body(f, k) = FormEnd /\ Body(chosen, k) = FormEnd
        BY <4>1, Zenon
      <4> HIDE DEF Body
      <4> QED
        BY <4>2, <4>3, Zenon
    <3>2. CASE k # L
      <4>1. f[k + 1] = chosen[k + 1] /\ ~ (k > Len(ps))
        BY <1>1, <3>2
      <4>2. f[k] = Body(f, k) /\ chosen[k] = Body(chosen, k)
        BY <1>7, <1>10, Zenon
      <4>3. Body(f, k) = Body(chosen, k)
        BY <4>1, Zenon
      <4> QED
        BY <4>2, <4>3, Zenon
    <3> QED
      BY <3>1, <3>2, Zenon
  <2> HIDE DEF L, next
  <2>2. Agreeing(L, next, ff, chosen)
    BY <1>1, <1>2, <2>1, Zenon DEF Agreeing
  <2> HIDE DEF ff
  <2>3. \A k \in 1 .. L : ff[k] = chosen[k]
    BY <2>2, Agreement
  <2> HIDE DEF Body
  <2> QED
    BY <1>8, <1>9, <2>3, Zenon DEF ff
<1>12. FormFrom(ps) = chosen
  BY Zenon DEF FormFrom
<1>13. FormFrom(ps) = f
  BY <1>11, <1>12, Zenon
<1>14. f[L] = FormEnd /\ \A k \in 1 .. Len(ps) : f[k] = FormPart(ps[k]) \o f[k + 1]
  <2>a. \A k \in 1 .. L : f[k] = Body(f, k)
    BY <1>7, Zenon
  <2>b. L \in 1 .. L /\ L > Len(ps) /\ \A k \in 1 .. Len(ps) : k \in 1 .. L /\ ~ (k > Len(ps))
    BY <1>1
  <2>c. f[L] = Body(f, L) /\ \A k \in 1 .. Len(ps) : f[k] = Body(f, k)
    <3> HIDE DEF Body, L
    <3> QED
      BY <2>a, <2>b, Zenon
  <2>1. f[L] = Body(f, L) /\ L > Len(ps)
    BY <2>b, <2>c, Zenon
  <2>2. ASSUME NEW k \in 1 .. Len(ps) PROVE f[k] = FormPart(ps[k]) \o f[k + 1]
    <3>1. f[k] = Body(f, k) /\ ~ (k > Len(ps))
      BY <2>b, <2>c, Zenon
    <3> QED
      BY <3>1, Zenon
  <2> QED
    BY <2>1, <2>2, Zenon
<1> QED
  BY <1>13, <1>14, Zenon

(***************************************************************************)
(* Where the k-th part of a form begins, and what is there.                *)
(***************************************************************************)
Start(ps, k) == Len(Form(ps)) - Len(FormFrom(ps)[k]) + 1

(***************************************************************************)
(* The parts from one on are the end of the form.                          *)
(***************************************************************************)
LEMMA SuffixFacts ==
  ASSUME NEW ps \in Seq(Seq(Nat)), NEW k \in 1 .. Len(ps) + 1
  PROVE  /\ Len(FormFrom(ps)[k]) <= Len(Form(ps))
         /\ \A j \in 1 .. Len(FormFrom(ps)[k]) :
              Form(ps)[Len(Form(ps)) - Len(FormFrom(ps)[k]) + j] = FormFrom(ps)[k][j]
<1> DEFINE text == Form(ps)
           from == FormFrom(ps)
           Suffix(m) == /\ Len(from[m]) <= Len(text)
                        /\ \A j \in 1 .. Len(from[m]) : text[Len(text) - Len(from[m]) + j] = from[m][j]
           S == {m \in Nat : m <= Len(ps) => Suffix(m + 1)}
<1>1. Len(ps) \in Nat /\ \A m \in 1 .. Len(ps) + 1 : from[m] \in Seq(Nat) /\ Len(from[m]) \in Nat
  <2>1. from \in [1 .. Len(ps) + 1 -> Seq(Nat)]
    BY FormUnfold, Zenon
  <2> HIDE DEF from
  <2> QED
    BY <2>1
<1>2. text = from[1]
  BY Zenon DEF Form
<1>3. Suffix(1)
  <2>1. 1 \in 1 .. Len(ps) + 1
    BY <1>1
  <2> HIDE DEF from, text
  <2>2. Len(text) \in Nat
    BY <1>1, <1>2, <2>1, Zenon
  <2>3. \A j \in 1 .. Len(text) : Len(text) - Len(text) + j = j
    BY <2>2
  <2> QED
    BY <1>2, <2>2, <2>3
<1>4. 0 \in S
  <2> HIDE DEF Suffix
  <2>1. 0 + 1 = 1
    OBVIOUS
  <2> QED
    BY <1>3, <2>1, Zenon
<1>5. ASSUME NEW m \in S PROVE m + 1 \in S
  <2> SUFFICES ASSUME m + 1 <= Len(ps) PROVE Suffix(m + 2)
    <3>1. m + 1 + 1 = m + 2
      OBVIOUS
    <3> HIDE DEF Suffix
    <3> QED
      BY <3>1
  <2> DEFINE n == m + 1
             part == FormPart(ps[n])
             rest == from[n + 1]
             a == Len(part)
             b == Len(rest)
             c == Len(text)
  <2>1. n \in 1 .. Len(ps) /\ n \in 1 .. Len(ps) + 1 /\ n + 1 \in 1 .. Len(ps) + 1 /\ n + 1 = m + 2
    BY <1>1
  <2>2. Suffix(n)
    <3> HIDE DEF Suffix
    <3> QED
      BY <2>1
  <2>3. from[n] = part \o rest
    BY <2>1, FormUnfold, Zenon
  <2>4. part \in Seq(Nat)
    <3>1. ps[n] \in Seq(Nat)
      BY <2>1
    <3> QED
      BY <3>1, PartFacts, Zenon
  <2>5. rest \in Seq(Nat)
    BY <1>1, <2>1, Zenon
  <2>6. /\ Len(from[n]) = a + b
        /\ \A j \in 1 .. b : from[n][a + j] = rest[j]
    <3> HIDE DEF part, rest
    <3> QED
      BY <2>3, <2>4, <2>5, ConcatFacts
  <2>7. a \in Nat /\ b \in Nat /\ c \in Nat
    <3>1. text \in Seq(Nat)
      BY <1>1, <1>2
    <3> HIDE DEF part, rest, text
    <3> QED
      BY <2>4, <2>5, <3>1
  <2> HIDE DEF n, part, rest, text, from
  <2>8. a + b <= c /\ \A j \in 1 .. a + b : text[c - (a + b) + j] = from[n][j]
    BY <2>2, <2>6, Zenon
  <2> HIDE DEF a, b, c
  <2>9. ASSUME NEW j \in 1 .. b PROVE text[c - b + j] = rest[j]
    <3>1. a + j \in 1 .. a + b /\ c - (a + b) + (a + j) = c - b + j
      BY <2>7
    <3> QED
      BY <2>6, <2>8, <3>1, Zenon
  <2>10. b <= c
    BY <2>7, <2>8
  <2> QED
    BY <2>1, <2>9, <2>10, Zenon DEF b, c, rest
<1>6. S \in SUBSET Nat
  BY Zenon
<1>7. k - 1 \in Nat /\ k - 1 <= Len(ps) /\ k - 1 + 1 = k
  BY <1>1
<1> HIDE DEF S
<1>8. k - 1 \in S
  BY <1>4, <1>5, <1>6, <1>7, Induction, Zenon
<1>9. Suffix(k)
  <2> HIDE DEF Suffix
  <2> QED
    BY <1>7, <1>8, Zenon DEF S
<1> QED
  BY <1>9, Zenon

(***************************************************************************)
(* A form is a text, and its parts begin inside it.                        *)
(***************************************************************************)
LEMMA FormIsText ==
  ASSUME NEW ps \in Seq(Seq(Nat))
  PROVE  /\ Form(ps) \in Seq(Nat)
         /\ Start(ps, 1) = 1
         /\ \A k \in 1 .. Len(ps) + 1 : Start(ps, k) \in 1 .. Len(Form(ps)) + 1
<1> DEFINE from == FormFrom(ps)
           text == Form(ps)
<1>1. from \in [1 .. Len(ps) + 1 -> Seq(Nat)]
  BY FormUnfold, Zenon
<1>a. Len(ps) \in Nat
  OBVIOUS
<1>2. text = from[1]
  BY Zenon DEF Form
<1>3. \A k \in 1 .. Len(ps) + 1 : Len(from[k]) <= Len(text)
  BY SuffixFacts, Zenon
<1> HIDE DEF from, text
<1>4. text \in Seq(Nat)
  BY <1>1, <1>2, <1>a
<1>5. Len(text) \in Nat /\ \A k \in 1 .. Len(ps) + 1 : Len(from[k]) \in Nat
  BY <1>1, <1>4, <1>a
<1>6. Len(text) - Len(from[1]) + 1 = 1
  BY <1>2, <1>5
<1>7. \A k \in 1 .. Len(ps) + 1 : Len(text) - Len(from[k]) + 1 \in 1 .. Len(text) + 1
  <2> SUFFICES ASSUME NEW k \in 1 .. Len(ps) + 1
               PROVE  Len(text) - Len(from[k]) + 1 \in 1 .. Len(text) + 1
    BY Zenon
  <2> DEFINE a == Len(text)
             b == Len(from[k])
  <2>1. a \in Nat /\ b \in Nat /\ b <= a
    BY <1>3, <1>5, Zenon
  <2> HIDE DEF a, b
  <2>2. a - b + 1 \in 1 .. a + 1
    BY <2>1
  <2> QED
    BY <2>2, Zenon DEF a, b
<1> QED
  BY <1>4, <1>6, <1>7, Zenon DEF Start, text, from

(***************************************************************************)
(* The bytes of a part in its form.                                        *)
(***************************************************************************)
LEMMA PartAt ==
  ASSUME NEW ps \in Seq(Seq(Nat)), NEW k \in 1 .. Len(ps)
  PROVE  /\ Start(ps, k + 1) = Start(ps, k) + 10 + Len(ps[k])
         /\ \A j \in 1 .. 9 : Form(ps)[Start(ps, k) - 1 + j] = PartHead[j]
         /\ \A j \in 1 .. Len(ps[k]) : Form(ps)[Start(ps, k) + 8 + j] = ps[k][j]
         /\ Form(ps)[Start(ps, k) + 9 + Len(ps[k])] = 13
<1> DEFINE text == Form(ps)
           p == ps[k]
           part == FormPart(p)
           whole == FormFrom(ps)[k]
           rest == FormFrom(ps)[k + 1]
           i == Start(ps, k)
<1>1. /\ Len(ps) \in Nat /\ k \in 1 .. Len(ps) + 1 /\ k + 1 \in 1 .. Len(ps) + 1 /\ p \in Seq(Nat)
  OBVIOUS
<1>2. whole = part \o rest
  BY FormUnfold, Zenon
<1>3. FormFrom(ps) \in [1 .. Len(ps) + 1 -> Seq(Nat)]
  BY FormUnfold, Zenon
<1>4. whole \in Seq(Nat) /\ rest \in Seq(Nat)
  BY <1>1, <1>3, Zenon
<1>5. /\ part \in Seq(Nat)
      /\ Len(part) = 10 + Len(p)
      /\ \A j \in 1 .. 9 : part[j] = PartHead[j]
      /\ \A j \in 1 .. Len(p) : part[9 + j] = p[j]
      /\ part[10 + Len(p)] = 13
  BY <1>1, PartFacts, Zenon
<1>6. /\ Len(whole) <= Len(text)
      /\ \A j \in 1 .. Len(whole) : text[Len(text) - Len(whole) + j] = whole[j]
  BY <1>1, SuffixFacts, Zenon
<1>7. text \in Seq(Nat)
  BY FormIsText, Zenon
<1>8. i = Len(text) - Len(whole) + 1 /\ Start(ps, k + 1) = Len(text) - Len(rest) + 1
  BY Zenon DEF Start
<1> HIDE DEF text, p, part, whole, rest, i
<1>9. part \in Seq(Nat)
  BY <1>5, Zenon
<1>10. Len(whole) = Len(part) + Len(rest) /\ \A j \in 1 .. Len(part) : whole[j] = part[j]
  BY <1>2, <1>4, <1>9, ConcatFacts, ZenonT(30)
<1>11. Len(text) \in Nat /\ Len(whole) \in Nat /\ Len(part) \in Nat /\ Len(rest) \in Nat /\ Len(p) \in Nat
  BY <1>1, <1>4, <1>7, <1>9
<1>12. Start(ps, k + 1) = i + 10 + Len(p)
  BY <1>5, <1>8, <1>10, <1>11
<1>13. \A j \in 1 .. Len(part) : text[i - 1 + j] = part[j]
  <2> SUFFICES ASSUME NEW j \in 1 .. Len(part) PROVE text[i - 1 + j] = part[j]
    BY Zenon
  <2>1. j \in 1 .. Len(whole)
    BY <1>10, <1>11
  <2>2. i - 1 + j = Len(text) - Len(whole) + j
    BY <1>8, <1>11
  <2> QED
    BY <1>6, <1>10, <2>1, <2>2, Zenon
<1>a. i \in Int
  BY <1>8, <1>11
<1>b. Len(part) = 10 + Len(p)
  BY <1>5, Zenon
<1>14. \A j \in 1 .. 9 : text[i - 1 + j] = PartHead[j]
  <2> SUFFICES ASSUME NEW j \in 1 .. 9 PROVE text[i - 1 + j] = PartHead[j]
    BY Zenon
  <2>1. j \in 1 .. Len(part)
    BY <1>11, <1>b
  <2> QED
    BY <1>5, <1>13, <2>1, Zenon
<1>15. \A j \in 1 .. Len(p) : text[i + 8 + j] = p[j]
  <2> SUFFICES ASSUME NEW j \in 1 .. Len(p) PROVE text[i + 8 + j] = p[j]
    BY Zenon
  <2>1. 9 + j \in 1 .. Len(part) /\ i - 1 + (9 + j) = i + 8 + j
    BY <1>11, <1>a, <1>b
  <2> QED
    BY <1>5, <1>13, <2>1, Zenon
<1>16. text[i + 9 + Len(p)] = 13
  <2>1. 10 + Len(p) \in 1 .. Len(part) /\ i - 1 + (10 + Len(p)) = i + 9 + Len(p)
    BY <1>11, <1>a, <1>b
  <2> QED
    BY <1>5, <1>13, <2>1, Zenon
<1> QED
  BY <1>12, <1>14, <1>15, <1>16, Zenon DEF text, p, i

(***************************************************************************)
(* The bytes at the end of a form.                                         *)
(***************************************************************************)
LEMMA EndAt ==
  ASSUME NEW ps \in Seq(Seq(Nat))
  PROVE  LET i == Start(ps, Len(ps) + 1)
         IN  /\ i + 5 = Len(Form(ps))
             /\ Form(ps)[i] = 45 /\ Form(ps)[i + 1] = 45 /\ Form(ps)[i + 2] = 88
             /\ Form(ps)[i + 3] = 45 /\ Form(ps)[i + 4] = 45
<1> DEFINE text == Form(ps)
           e == FormEnd
           i == Start(ps, Len(ps) + 1)
<1>1. Len(ps) \in Nat /\ Len(ps) + 1 \in 1 .. Len(ps) + 1
  OBVIOUS
<1>2. FormFrom(ps)[Len(ps) + 1] = e
  BY FormUnfold, Zenon
<1>3. /\ Len(e) <= Len(text)
      /\ \A j \in 1 .. Len(e) : text[Len(text) - Len(e) + j] = e[j]
  BY <1>1, <1>2, SuffixFacts, Zenon
<1>4. i = Len(text) - Len(e) + 1
  BY <1>2, Zenon DEF Start
<1>5. Len(e) = 6 /\ e[1] = 45 /\ e[2] = 45 /\ e[3] = 88 /\ e[4] = 45 /\ e[5] = 45
  BY EndFacts, Zenon
<1>6. Len(text) \in Nat
  <2>1. text \in Seq(Nat)
    BY FormIsText, Zenon
  <2> HIDE DEF text
  <2> QED
    BY <2>1
<1> HIDE DEF text, e, i
<1>7. \A j \in 1 .. 6 : text[i - 1 + j] = e[j]
  <2> SUFFICES ASSUME NEW j \in 1 .. 6 PROVE text[i - 1 + j] = e[j]
    BY Zenon
  <2>1. j \in 1 .. Len(e) /\ i - 1 + j = Len(text) - Len(e) + j
    BY <1>4, <1>5, <1>6
  <2> QED
    BY <1>3, <2>1, Zenon
<1>8. i \in Int /\ i + 5 = Len(text)
  BY <1>4, <1>5, <1>6
<1>9. i - 1 + 1 = i /\ i - 1 + 2 = i + 1 /\ i - 1 + 3 = i + 2 /\ i - 1 + 4 = i + 3 /\ i - 1 + 5 = i + 4
  BY <1>8
<1>10. /\ text[i - 1 + 1] = 45 /\ text[i - 1 + 2] = 45 /\ text[i - 1 + 3] = 88
       /\ text[i - 1 + 4] = 45 /\ text[i - 1 + 5] = 45
  BY <1>5, <1>7
<1> QED
  BY <1>8, <1>9, <1>10, Zenon DEF text, i

------------------------------------------------------------------------------
(***************************************************************************)
(* The two rules that end a chunk, for the boundary 'X'.                   *)
(***************************************************************************)
HasBoundary(text, i) == HasAt(text, i, <<Dash, Dash>> \o Boundary)

Opening(text, i) ==
  i + 3 <= Len(text) /\ text[i] = 45 /\ text[i + 1] = 45 /\ text[i + 2] = 88 /\ IsEol(text[i + 3])

Closing(text, i) ==
  /\ i + 4 <= Len(text)
  /\ text[i] = 45 /\ text[i + 1] = 45 /\ text[i + 2] = 88 /\ text[i + 3] = 45 /\ text[i + 4] = 45

(***************************************************************************)
(* The lines that separate the parts and end the form.                     *)
(***************************************************************************)
LEMMA LineFacts ==
  /\ <<Dash, Dash>> \o Boundary = <<45, 45, 88>>
  /\ <<Dash, Dash>> \o Boundary \o <<Dash, Dash>> = <<45, 45, 88, 45, 45>>
<1> DEFINE a == <<45, 45>>
           b == <<88>>
           ab == <<45, 45, 88>>
           h == <<45, 45, 88, 45, 45>>
<1>1. a \in Seq(Nat) /\ b \in Seq(Nat) /\ ab \in Seq(Nat) /\ h \in Seq(Nat)
  OBVIOUS
<1>2. a \o b = ab
  <2>1. /\ Len(ab) = Len(a) + Len(b)
        /\ \A i \in 1 .. Len(a) : ab[i] = a[i]
        /\ \A i \in 1 .. Len(b) : ab[Len(a) + i] = b[i]
    OBVIOUS
  <2> HIDE DEF a, b, ab
  <2> QED
    BY <1>1, <2>1, Joined, Zenon
<1>3. ab \o a = h
  <2>1. /\ Len(h) = Len(ab) + Len(a)
        /\ \A i \in 1 .. Len(ab) : h[i] = ab[i]
        /\ \A i \in 1 .. Len(a) : h[Len(ab) + i] = a[i]
    OBVIOUS
  <2> HIDE DEF ab, a, h
  <2> QED
    BY <1>1, <2>1, Joined, Zenon
<1>4. <<Dash, Dash>> = a /\ Boundary = b
  BY Zenon DEF Dash, Boundary
<1> HIDE DEF a, b, ab, h
<1>5. a \o b = ab /\ (a \o b) \o a = h
  BY <1>2, <1>3, Zenon
<1> QED
  BY <1>4, <1>5, Zenon DEF ab, h

(***************************************************************************)
(* Where the grammar sees one of these lines.                              *)
(***************************************************************************)
LEMMA BoundaryFacts ==
  ASSUME NEW text \in Seq(Nat), NEW i \in Nat \ {0}
  PROVE  /\ HasBoundary(text, i) <=>
              i + 2 <= Len(text) /\ text[i] = 45 /\ text[i + 1] = 45 /\ text[i + 2] = 88
         /\ ChunkBoundary(text, i, Boundary) <=> Opening(text, i)
         /\ EndBoundary(text, i, Boundary) <=> Closing(text, i)
<1> DEFINE w == <<45, 45, 88>>
           v == <<45, 45, 88, 45, 45>>
           n == Len(text)
<1>1. w \in Seq(Nat) /\ v \in Seq(Nat) /\ n \in Nat
  OBVIOUS
<1>2. /\ Len(w) = 3 /\ w[1] = 45 /\ w[2] = 45 /\ w[3] = 88
      /\ Len(v) = 5 /\ v[1] = 45 /\ v[2] = 45 /\ v[3] = 88 /\ v[4] = 45 /\ v[5] = 45
  BY Zenon
<1>3. <<Dash, Dash>> \o Boundary = w /\ <<Dash, Dash>> \o Boundary \o <<Dash, Dash>> = v
  BY LineFacts, Zenon
<1> HIDE DEF w, v
<1>a. w \in Seq(Nat) /\ v \in Seq(Nat)
  BY <1>1, Zenon
<1>4. HasAt(text, i, w) <=>
           /\ i + Len(w) <= Len(text) + 1
           /\ \A j \in 1 .. Len(w) : text[i + j - 1] = w[j]
  BY <1>a, HasAtFacts
<1>5. HasAt(text, i, v) <=>
           /\ i + Len(v) <= Len(text) + 1
           /\ \A j \in 1 .. Len(v) : text[i + j - 1] = v[j]
  BY <1>a, HasAtFacts
<1>6. /\ i + 1 - 1 = i /\ i + 2 - 1 = i + 1 /\ i + 3 - 1 = i + 2
      /\ i + 4 - 1 = i + 3 /\ i + 5 - 1 = i + 4
  OBVIOUS
<1>7. (\A j \in 1 .. 3 : text[i + j - 1] = w[j]) <=>
        text[i + 1 - 1] = w[1] /\ text[i + 2 - 1] = w[2] /\ text[i + 3 - 1] = w[3]
  <2>1. \A j \in 1 .. 3 : j = 1 \/ j = 2 \/ j = 3
    OBVIOUS
  <2>2. 1 \in 1 .. 3 /\ 2 \in 1 .. 3 /\ 3 \in 1 .. 3
    OBVIOUS
  <2> QED
    BY <2>1, <2>2, Zenon
<1>8. (\A j \in 1 .. 5 : text[i + j - 1] = v[j]) <=>
        /\ text[i + 1 - 1] = v[1] /\ text[i + 2 - 1] = v[2] /\ text[i + 3 - 1] = v[3]
        /\ text[i + 4 - 1] = v[4] /\ text[i + 5 - 1] = v[5]
  <2>1. \A j \in 1 .. 5 : j = 1 \/ j = 2 \/ j = 3 \/ j = 4 \/ j = 5
    OBVIOUS
  <2>2. 1 \in 1 .. 5 /\ 2 \in 1 .. 5 /\ 3 \in 1 .. 5 /\ 4 \in 1 .. 5 /\ 5 \in 1 .. 5
    OBVIOUS
  <2> QED
    BY <2>1, <2>2, Zenon
<1>9. i + 3 <= n + 1 <=> i + 2 <= n
  BY <1>1
<1>10. i + 5 <= n + 1 <=> i + 4 <= n
  BY <1>1
<1>11. HasAt(text, i, w) <=>
         i + 2 <= Len(text) /\ text[i] = 45 /\ text[i + 1] = 45 /\ text[i + 2] = 88
  <2>1. (i + Len(w) <= Len(text) + 1) <=> i + 2 <= Len(text)
    BY <1>2, <1>9, Zenon
  <2>2. (\A j \in 1 .. Len(w) : text[i + j - 1] = w[j]) <=>
          text[i] = 45 /\ text[i + 1] = 45 /\ text[i + 2] = 88
    BY <1>2, <1>6, <1>7, ZenonT(30)
  <2> QED
    BY <1>4, <2>1, <2>2, Zenon
<1>12. HasAt(text, i, v) <=> Closing(text, i)
  <2>1. (i + Len(v) <= Len(text) + 1) <=> i + 4 <= Len(text)
    BY <1>2, <1>10, Zenon
  <2>2. (\A j \in 1 .. Len(v) : text[i + j - 1] = v[j]) <=>
          text[i] = 45 /\ text[i + 1] = 45 /\ text[i + 2] = 88 /\ text[i + 3] = 45 /\ text[i + 4] = 45
    BY <1>2, <1>6, <1>8, ZenonT(30)
  <2> QED
    BY <1>5, <2>1, <2>2, Zenon DEF Closing
<1>13. DOMAIN text = 1 .. n /\ (i + 3 \in 1 .. n <=> i + 3 <= n)
  BY <1>1
<1>14. ChunkBoundary(text, i, Boundary) <=>
         HasAt(text, i, w) /\ i + 3 \in DOMAIN text /\ IsEol(text[i + 3])
  BY <1>2, <1>3, Zenon DEF ChunkBoundary
<1>15. i + 3 <= n => i + 2 <= n
  BY <1>1
<1>16. ChunkBoundary(text, i, Boundary) <=> Opening(text, i)
  BY <1>11, <1>13, <1>14, <1>15, Zenon DEF Opening
<1>17. EndBoundary(text, i, Boundary) <=> HasAt(text, i, v)
  BY <1>3, Zenon DEF EndBoundary
<1> QED
  BY <1>3, <1>11, <1>12, <1>16, <1>17, Zenon DEF HasBoundary

(***************************************************************************)
(* The recursion of ChunkValues, one chunk at a time.                      *)
(***************************************************************************)
ChunkStart(i) == i + Len(Boundary) + 3

ChunkEnd(text, i) ==
  Min({j \in ChunkStart(i) .. Len(text) + 1 :
         \/ j = Len(text) + 1
         \/ ~ IsAscii(text[j])
         \/ ChunkBoundary(text, j, Boundary)
         \/ EndBoundary(text, j, Boundary)})

ChunkHere(text, i) == SubSeq(text, ChunkStart(i), ChunkEnd(text, i) - 1)

ChunksFrom(text, i, rest) ==
  IF ~ ChunkBoundary(text, i, Boundary) THEN <<>>
  ELSE IF ChunkEnd(text, i) = ChunkStart(i) THEN <<>>
  ELSE IF EndBoundary(text, ChunkEnd(text, i), Boundary) THEN <<ChunkHere(text, i)>>
  ELSE IF rest = <<>> THEN <<>>
  ELSE <<ChunkHere(text, i)>> \o rest

(***************************************************************************)
(* A chunk ends behind its beginning.                                      *)
(***************************************************************************)
LEMMA ChunkEndFacts ==
  ASSUME NEW text \in Seq(Nat), NEW i \in Nat \ {0}, i + 3 <= Len(text)
  PROVE  /\ ChunkStart(i) = i + 4
         /\ ChunkEnd(text, i) \in i + 4 .. Len(text) + 1
<1> DEFINE T == {j \in ChunkStart(i) .. Len(text) + 1 :
                   \/ j = Len(text) + 1
                   \/ ~ IsAscii(text[j])
                   \/ ChunkBoundary(text, j, Boundary)
                   \/ EndBoundary(text, j, Boundary)}
<1>1. ChunkStart(i) = i + 4
  BY DEF ChunkStart, Boundary
<1>2. Len(text) + 1 \in T /\ T \in SUBSET Nat
  BY <1>1
<1>3. \A j \in T : j \in i + 4 .. Len(text) + 1
  BY <1>1, Zenon
<1>4. ChunkEnd(text, i) = Min(T)
  BY Zenon DEF ChunkEnd
<1> HIDE DEF T
<1>5. Min(T) \in T
  BY <1>2, MinFacts, Zenon
<1> QED
  BY <1>1, <1>3, <1>4, <1>5, Zenon

(***************************************************************************)
(* chunk_values, one chunk after the other.                                *)
(***************************************************************************)
LEMMA ChunkUnfold ==
  ASSUME NEW text \in Seq(Nat)
  PROVE  \E values : /\ ChunkValues(text, Boundary) = values[1]
                     /\ \A i \in 1 .. Len(text) + 1 :
                          values[i] = ChunksFrom(text, i, values[ChunkEnd(text, i)])
<1> DEFINE L == Len(text) + 1
           V == Seq(Seq(Nat))
           CB(i) == ChunkBoundary(text, i, Boundary)
           E(i) == ChunkEnd(text, i)
           next == [i \in 1 .. L |-> IF CB(i) THEN E(i) ELSE L + 1]
           base == [i \in 1 .. L |-> <<>>]
           step == [i \in 1 .. L |-> [x \in V |-> ChunksFrom(text, i, x)]]
           Body(g, i) == ChunksFrom(text, i, g[ChunkEnd(text, i)])
           Eqn(g) == g = [i \in 1 .. L |-> Body(g, i)]
           chosen == CHOOSE g : Eqn(g)
<1>1. L \in Nat /\ Len(text) \in Nat
  OBVIOUS
<1>2. ASSUME NEW i \in 1 .. L, CB(i)
      PROVE  E(i) \in 1 .. L /\ E(i) > i /\ ChunkHere(text, i) \in Seq(Nat)
  <2>1. i \in Nat \ {0}
    OBVIOUS
  <2>2. Opening(text, i)
    BY <1>2, <2>1, BoundaryFacts, Zenon
  <2>3. i + 3 <= Len(text)
    BY <2>2, Zenon DEF Opening
  <2>4. E(i) \in i + 4 .. L /\ ChunkStart(i) = i + 4
    BY <2>1, <2>3, ChunkEndFacts, Zenon
  <2> HIDE DEF E
  <2>5. \A j \in i + 4 .. E(i) - 1 : text[j] \in Nat
    BY <1>1, <2>4
  <2>6. SubSeq(text, i + 4, E(i) - 1) \in Seq(Nat)
    BY <1>1, <2>4, <2>5
  <2> QED
    BY <1>1, <2>4, <2>6 DEF ChunkHere, E
<1>3. ASSUME NEW i \in 1 .. L, NEW x \in V PROVE ChunksFrom(text, i, x) \in V
  <2>1. CASE CB(i)
    <3> DEFINE c == ChunkHere(text, i)
    <3>1. c \in Seq(Nat)
      BY <1>2, <2>1, Zenon
    <3> HIDE DEF c
    <3>2. <<>> \in V /\ <<c>> \in V
      BY <3>1
    <3>3. <<c>> \o x \in V
      BY <3>2
    <3> QED
      BY <3>2, <3>3, Zenon DEF ChunksFrom, c
  <2>2. CASE ~ CB(i)
    BY <2>2 DEF ChunksFrom
  <2> QED
    BY <2>1, <2>2, Zenon
<1>4. next \in [1 .. L -> Nat] /\ \A i \in 1 .. L : next[i] > i
  <2> HIDE DEF E, CB
  <2>1. \A i \in 1 .. L : IF CB(i) THEN E(i) \in Nat /\ E(i) > i ELSE L + 1 > i
    BY <1>1, <1>2
  <2> QED
    BY <1>1, <2>1
<1>5. base \in [1 .. L -> V]
  OBVIOUS
<1>6. step \in [1 .. L -> [V -> V]]
  BY <1>3, Zenon
<1>7. PICK f \in [1 .. L -> V] :
        \A i \in 1 .. L : f[i] = IF next[i] > L THEN base[i] ELSE step[i][f[next[i]]]
  <2> HIDE DEF L, V, next, base, step
  <2>1. Recursive(L, V, next, base, step)
    BY <1>1, <1>4, <1>5, <1>6, Zenon DEF Recursive
  <2> QED
    BY <2>1, Recursion
<1>8. ASSUME NEW i \in 1 .. L PROVE f[i] = Body(f, i)
  <2>1. CASE CB(i)
    <3>1. E(i) \in 1 .. L
      BY <1>2, <2>1, Zenon
    <3>2. next[i] = E(i) /\ ~ (next[i] > L)
      BY <1>1, <2>1, <3>1
    <3>3. f[E(i)] \in V
      BY <3>1, Zenon
    <3>4. step[i][f[E(i)]] = ChunksFrom(text, i, f[E(i)])
      BY <3>3, Zenon
    <3>5. f[i] = step[i][f[E(i)]]
      <4> HIDE DEF next, base, step, L, E
      <4> QED
        BY <1>7, <3>2, Zenon
    <3> HIDE DEF step
    <3> QED
      BY <3>4, <3>5, Zenon
  <2>2. CASE ~ CB(i)
    <3>1. next[i] > L /\ base[i] = <<>>
      BY <1>1, <2>2
    <3>2. f[i] = base[i]
      <4> HIDE DEF next, base, step, L
      <4> QED
        BY <1>7, <3>1, Zenon
    <3>3. Body(f, i) = <<>>
      BY <2>2, Zenon DEF ChunksFrom
    <3> QED
      BY <3>1, <3>2, <3>3, Zenon
  <2> QED
    BY <2>1, <2>2, Zenon
<1>9. Eqn(f)
  <2> HIDE DEF Body
  <2> QED
    BY <1>8, Zenon
<1>10. Eqn(chosen)
  BY <1>9, Zenon
<1>11. \A i \in 1 .. L : chosen[i] = Body(chosen, i)
  <2> HIDE DEF Body, chosen
  <2> QED
    BY <1>10, Zenon
<1>12. ChunkValues(text, Boundary) = chosen[1]
  BY Zenon DEF ChunkValues, ChunksFrom, ChunkEnd, ChunkStart, ChunkHere
<1> HIDE DEF chosen
<1> QED
  BY <1>11, <1>12, Zenon

(***************************************************************************)
(* A payload that the grammar can carry: ASCII, without the boundary.      *)
(***************************************************************************)
Sendable(p) ==
  /\ p \in Seq(Nat)
  /\ \A i \in 1 .. Len(p) : IsAscii(p[i])
  /\ \A i \in 1 .. Len(p) : ~ HasBoundary(p, i)

(***************************************************************************)
(* The bytes before a payload.                                             *)
(***************************************************************************)
LEMMA PartBytes ==
  ASSUME NEW ps \in Seq(Seq(Nat)), NEW k \in 1 .. Len(ps)
  PROVE  LET text == Form(ps)
             i == Start(ps, k)
         IN  /\ text[i] = 45 /\ text[i + 1] = 45 /\ text[i + 2] = 88 /\ text[i + 3] = 13
             /\ text[i + 4] = 110 /\ text[i + 5] = 58 /\ text[i + 6] = 102
             /\ text[i + 7] = 13 /\ text[i + 8] = 13
<1> DEFINE text == Form(ps)
           i == Start(ps, k)
           h == PartHead
<1>1. \A j \in 1 .. 9 : text[i - 1 + j] = h[j]
  BY PartAt, Zenon
<1>2. i \in Int
  <2>1. k \in 1 .. Len(ps) + 1
    OBVIOUS
  <2>2. Start(ps, k) \in 1 .. Len(Form(ps)) + 1
    BY <2>1, FormIsText, Zenon
  <2> QED
    BY <2>2
<1>3. /\ h[1] = 45 /\ h[2] = 45 /\ h[3] = 88 /\ h[4] = 13 /\ h[5] = 110 /\ h[6] = 58 /\ h[7] = 102
      /\ h[8] = 13 /\ h[9] = 13
  BY Zenon DEF PartHead
<1> HIDE DEF text, i, h
<1>4. /\ i - 1 + 1 = i /\ i - 1 + 2 = i + 1 /\ i - 1 + 3 = i + 2 /\ i - 1 + 4 = i + 3
      /\ i - 1 + 5 = i + 4 /\ i - 1 + 6 = i + 5 /\ i - 1 + 7 = i + 6 /\ i - 1 + 8 = i + 7
      /\ i - 1 + 9 = i + 8
  BY <1>2
<1>5. /\ text[i - 1 + 1] = 45 /\ text[i - 1 + 2] = 45 /\ text[i - 1 + 3] = 88 /\ text[i - 1 + 4] = 13
      /\ text[i - 1 + 5] = 110 /\ text[i - 1 + 6] = 58 /\ text[i - 1 + 7] = 102
      /\ text[i - 1 + 8] = 13 /\ text[i - 1 + 9] = 13
  <2>1. /\ 1 \in 1 .. 9 /\ 2 \in 1 .. 9 /\ 3 \in 1 .. 9 /\ 4 \in 1 .. 9 /\ 5 \in 1 .. 9
        /\ 6 \in 1 .. 9 /\ 7 \in 1 .. 9 /\ 8 \in 1 .. 9 /\ 9 \in 1 .. 9
    OBVIOUS
  <2>2. /\ text[i - 1 + 1] = h[1] /\ text[i - 1 + 2] = h[2] /\ text[i - 1 + 3] = h[3]
        /\ text[i - 1 + 4] = h[4] /\ text[i - 1 + 5] = h[5] /\ text[i - 1 + 6] = h[6]
        /\ text[i - 1 + 7] = h[7] /\ text[i - 1 + 8] = h[8] /\ text[i - 1 + 9] = h[9]
    BY <1>1, <2>1, Zenon
  <2> QED
    BY <1>3, <2>2
<1> QED
  BY <1>4, <1>5 DEF text, i

(***************************************************************************)
(* Each part begins with a boundary line, and the end with the other one.  *)
(***************************************************************************)
LEMMA StopAt ==
  ASSUME NEW ps \in Seq(Seq(Nat)), NEW k \in 1 .. Len(ps) + 1
  PROVE  LET text == Form(ps)
             i == Start(ps, k)
         IN  /\ i \in Nat \ {0} /\ i + 3 <= Len(text)
             /\ text[i] = 45 /\ text[i + 1] = 45 /\ text[i + 2] = 88
             /\ k <= Len(ps) => Opening(text, i) /\ ~ Closing(text, i)
             /\ k = Len(ps) + 1 => Closing(text, i)
<1> DEFINE text == Form(ps)
           i == Start(ps, k)
           n == Len(text)
<1>1. i \in 1 .. n + 1
  BY FormIsText, Zenon
<1>2. n \in Nat
  <2>1. text \in Seq(Nat)
    BY FormIsText, Zenon
  <2> HIDE DEF text
  <2> QED
    BY <2>1
<1>3. CASE k <= Len(ps)
  <2>1. k \in 1 .. Len(ps)
    BY <1>3
  <2>2. text[i] = 45 /\ text[i + 1] = 45 /\ text[i + 2] = 88 /\ text[i + 3] = 13
    BY <2>1, PartBytes
  <2>3. Start(ps, k + 1) = i + 10 + Len(ps[k])
    BY <2>1, PartAt, ZenonT(30)
  <2>4. Start(ps, k + 1) \in 1 .. n + 1
    <3>1. k + 1 \in 1 .. Len(ps) + 1
      BY <2>1
    <3> QED
      BY <3>1, FormIsText, Zenon
  <2>5. Len(ps[k]) \in Nat
    BY <2>1
  <2> DEFINE e == Start(ps, k + 1)
             m == Len(ps[k])
  <2> HIDE DEF text, i, e, m, n
  <2>6. i + 3 <= n
    <3>1. e = i + 10 + m /\ e \in 1 .. n + 1 /\ m \in Nat
      BY <2>3, <2>4, <2>5, Zenon DEF e, m
    <3> QED
      BY <1>1, <1>2, <3>1
  <2>7. i + 3 <= Len(text)
    BY <2>6, Zenon DEF n
  <2>8. k # Len(ps) + 1
    BY <1>3
  <2>9. i \in Nat \ {0}
    BY <1>1
  <2> QED
    BY <2>2, <2>7, <2>8, <2>9 DEF Opening, Closing, IsEol, CRLF, text, i
<1>4. CASE k = Len(ps) + 1
  <2>1. /\ i + 5 = n
        /\ text[i] = 45 /\ text[i + 1] = 45 /\ text[i + 2] = 88
        /\ text[i + 3] = 45 /\ text[i + 4] = 45
    BY <1>4, EndAt, Zenon
  <2> HIDE DEF text, i
  <2>2. i + 3 <= n /\ i + 4 <= n /\ i \in Nat \ {0}
    BY <1>1, <1>2, <2>1
  <2>3. ~ (k <= Len(ps))
    BY <1>4
  <2> QED
    BY <1>4, <2>1, <2>2, <2>3, Zenon DEF Closing, text, i
<1> QED
  BY <1>3, <1>4

(***************************************************************************)
(* From behind the boundary line of a part to the next one, the chunk has  *)
(* neither a boundary nor a byte the grammar does not take.                *)
(***************************************************************************)
LEMMA NoStopInside ==
  ASSUME NEW ps \in Seq(Seq(Nat)), NEW k \in 1 .. Len(ps), Sendable(ps[k]),
         NEW j \in Start(ps, k) + 4 .. Start(ps, k + 1) - 1
  PROVE  /\ IsAscii(Form(ps)[j])
         /\ ~ (Form(ps)[j] = 45 /\ Form(ps)[j + 1] = 45 /\ Form(ps)[j + 2] = 88)
<1> DEFINE text == Form(ps)
           i == Start(ps, k)
           p == ps[k]
           n == Len(p)
<1>1. i \in Nat /\ n \in Nat
  <2>1. k \in 1 .. Len(ps) + 1
    OBVIOUS
  <2>2. Start(ps, k) \in 1 .. Len(Form(ps)) + 1
    BY <2>1, FormIsText, Zenon
  <2> QED
    BY <2>2
<1>2. Start(ps, k + 1) = i + 10 + n
  BY PartAt, Zenon
<1>3. /\ text[i + 4] = 110 /\ text[i + 5] = 58 /\ text[i + 6] = 102
      /\ text[i + 7] = 13 /\ text[i + 8] = 13
  BY PartBytes
<1>4. /\ \A m \in 1 .. n : text[i + 8 + m] = p[m]
      /\ text[i + 9 + n] = 13
  BY PartAt, Zenon
<1>a. j \in i + 4 .. Start(ps, k + 1) - 1
  BY Zenon
<1>6. p \in Seq(Nat)
  OBVIOUS
<1>7. /\ \A m \in 1 .. n : IsAscii(p[m])
      /\ \A m \in 1 .. n : ~ HasBoundary(p, m)
  BY Zenon DEF Sendable
<1>b. n = Len(p)
  BY Zenon
<1> HIDE DEF text, i, p, n
<1>c. \A l \in Nat \ {0} : HasBoundary(p, l) <=>
        l + 2 <= Len(p) /\ p[l] = 45 /\ p[l + 1] = 45 /\ p[l + 2] = 88
  BY <1>6, BoundaryFacts
<1>5. j \in i + 4 .. i + 9 + n
  BY <1>1, <1>2, <1>a
<1>8. CASE j \in i + 4 .. i + 8
  <2>1. j = i + 4 \/ j = i + 5 \/ j = i + 6 \/ j = i + 7 \/ j = i + 8
    BY <1>1, <1>8
  <2>2. j = i + 4 => text[j] = 110
    BY <1>3, Zenon
  <2>3. j = i + 5 => text[j] = 58
    BY <1>3, Zenon
  <2>4. j = i + 6 => text[j] = 102
    BY <1>3, Zenon
  <2>5. j = i + 7 \/ j = i + 8 => text[j] = 13
    BY <1>3, Zenon
  <2>6. text[j] = 110 \/ text[j] = 58 \/ text[j] = 102 \/ text[j] = 13
    BY <2>1, <2>2, <2>3, <2>4, <2>5, Zenon
  <2> DEFINE x == text[j]
  <2>7. x = 110 \/ x = 58 \/ x = 102 \/ x = 13
    BY <2>6, Zenon
  <2> HIDE DEF x
  <2>8. IsAscii(x) /\ x # 45
    BY <2>7 DEF IsAscii
  <2> QED
    BY <2>8, Zenon DEF text, x
<1>9. CASE j = i + 9 + n
  BY <1>4, <1>9 DEF IsAscii, text
<1>10. CASE j \in i + 9 .. i + 8 + n
  <2> DEFINE m == j - i - 8
  <2>1. m \in 1 .. n /\ j = i + 8 + m /\ j + 1 = i + 8 + (m + 1) /\ j + 2 = i + 8 + (m + 2)
    BY <1>1, <1>10
  <2> HIDE DEF m
  <2>2. text[j] = p[m] /\ IsAscii(p[m])
    BY <1>4, <1>7, <2>1, Zenon
  <2>3. ASSUME text[j] = 45, text[j + 1] = 45, text[j + 2] = 88 PROVE FALSE
    <3>1. CASE m + 2 <= n
      <4>1. m + 1 \in 1 .. n /\ m + 2 \in 1 .. n /\ m \in Nat \ {0}
        BY <1>1, <2>1, <3>1
      <4>2. text[i + 8 + (m + 1)] = p[m + 1] /\ text[i + 8 + (m + 2)] = p[m + 2]
        BY <1>4, <4>1, Zenon
      <4>3. p[m] = 45 /\ p[m + 1] = 45 /\ p[m + 2] = 88
        <5>1. text[j + 1] = p[m + 1] /\ text[j + 2] = p[m + 2]
          BY <2>1, <4>2, Zenon
        <5> QED
          BY <2>2, <2>3, <5>1, Zenon
      <4>a. m \in Nat \ {0}
        BY <4>1, Zenon
      <4>4. HasBoundary(p, m) <=>
              m + 2 <= Len(p) /\ p[m] = 45 /\ p[m + 1] = 45 /\ p[m + 2] = 88
        BY <1>c, <4>a, Zenon
      <4> QED
        BY <1>7, <1>b, <2>1, <3>1, <4>3, <4>4, Zenon
    <3>2. CASE m + 1 = n
      <4>1. j + 2 = i + 9 + n
        BY <1>1, <2>1, <3>2
      <4> QED
        BY <1>4, <2>3, <4>1
    <3>3. CASE m = n
      <4>1. j + 1 = i + 9 + n
        BY <1>1, <2>1, <3>3
      <4> QED
        BY <1>4, <2>3, <4>1
    <3> QED
      BY <1>1, <2>1, <3>1, <3>2, <3>3
  <2> QED
    BY <2>2, <2>3, Zenon DEF text
<1>11. j \in i + 4 .. i + 8 \/ j = i + 9 + n \/ j \in i + 9 .. i + 8 + n
  BY <1>1, <1>5
<1> QED
  BY <1>8, <1>9, <1>10, <1>11, Zenon

(***************************************************************************)
(* The chunk of a part: its header line, the empty line and the payload    *)
(* with the line end before the next boundary.                             *)
(***************************************************************************)
ChunkHead == <<110, 58, 102, 13, 13>>

Chunk(p) == ChunkHead \o p \o <<13>>

(***************************************************************************)
(* The bytes of a chunk.                                                   *)
(***************************************************************************)
LEMMA ChunkFacts ==
  ASSUME NEW p \in Seq(Nat)
  PROVE  /\ Chunk(p) \in Seq(Nat)
         /\ Len(Chunk(p)) = 6 + Len(p)
         /\ \A i \in 1 .. 5 : Chunk(p)[i] = ChunkHead[i]
         /\ \A i \in 1 .. Len(p) : Chunk(p)[5 + i] = p[i]
         /\ Chunk(p)[6 + Len(p)] = 13
<1> DEFINE h == ChunkHead
           e == <<13>>
           hp == h \o p
           whole == hp \o e
<1>1. h \in Seq(Nat) /\ e \in Seq(Nat)
  BY DEF ChunkHead
<1>5. Chunk(p) = whole
  BY Zenon DEF Chunk
<1>6. Len(h) = 5 /\ Len(e) = 1 /\ e[1] = 13
  BY Zenon DEF ChunkHead
<1> HIDE DEF h, e
<1>7. /\ hp \in Seq(Nat) /\ Len(hp) = Len(h) + Len(p)
      /\ \A i \in 1 .. Len(h) : hp[i] = h[i]
      /\ \A i \in 1 .. Len(p) : hp[Len(h) + i] = p[i]
  BY <1>1, ConcatFacts
<1> HIDE DEF hp
<1>a. hp \in Seq(Nat) /\ e \in Seq(Nat)
  BY <1>1, <1>7, Zenon
<1>8. /\ whole \in Seq(Nat) /\ Len(whole) = Len(hp) + Len(e)
      /\ \A i \in 1 .. Len(hp) : whole[i] = hp[i]
      /\ \A i \in 1 .. Len(e) : whole[Len(hp) + i] = e[i]
  BY <1>a, ConcatFacts
<1> HIDE DEF whole
<1>9. Len(p) \in Nat
  OBVIOUS
<1>b. Len(hp) = 5 + Len(p) /\ Len(h) = 5
  BY <1>6, <1>7, Zenon
<1>10. \A i \in 1 .. 5 : whole[i] = h[i]
  <2> SUFFICES ASSUME NEW i \in 1 .. 5 PROVE whole[i] = h[i]
    BY Zenon
  <2>1. i \in 1 .. Len(hp) /\ i \in 1 .. Len(h)
    BY <1>9, <1>b
  <2> QED
    BY <1>7, <1>8, <2>1, Zenon
<1>11. \A i \in 1 .. Len(p) : whole[5 + i] = p[i]
  <2> SUFFICES ASSUME NEW i \in 1 .. Len(p) PROVE whole[5 + i] = p[i]
    BY Zenon
  <2>1. 5 + i \in 1 .. Len(hp)
    BY <1>6, <1>7, <1>9
  <2> QED
    BY <1>6, <1>7, <1>8, <2>1
<1>12. whole[6 + Len(p)] = 13
  <2>1. 6 + Len(p) = Len(hp) + 1
    BY <1>6, <1>7, <1>9
  <2> QED
    BY <1>6, <1>8, <2>1
<1> QED
  BY <1>5, <1>6, <1>7, <1>8, <1>9, <1>10, <1>11, <1>12 DEF h

(***************************************************************************)
(* A chunk begins behind its boundary and ends at the next one.            *)
(***************************************************************************)
LEMMA ChunkAt ==
  ASSUME NEW ps \in Seq(Seq(Nat)), NEW k \in 1 .. Len(ps), Sendable(ps[k])
  PROVE  /\ ChunkEnd(Form(ps), Start(ps, k)) = Start(ps, k + 1)
         /\ ChunkStart(Start(ps, k)) = Start(ps, k) + 4
<1> DEFINE text == Form(ps)
           i == Start(ps, k)
           e == Start(ps, k + 1)
           T == {j \in ChunkStart(i) .. Len(text) + 1 :
                   \/ j = Len(text) + 1
                   \/ ~ IsAscii(text[j])
                   \/ ChunkBoundary(text, j, Boundary)
                   \/ EndBoundary(text, j, Boundary)}
<1>1. text \in Seq(Nat)
  BY FormIsText, Zenon
<1>2. Len(ps) \in Nat /\ k \in 1 .. Len(ps) + 1 /\ k + 1 \in 1 .. Len(ps) + 1
  OBVIOUS
<1>3. i \in Nat \ {0} /\ i + 3 <= Len(text)
  BY <1>2, StopAt, Zenon
<1>4. /\ e \in Nat \ {0} /\ e + 3 <= Len(text)
      /\ k + 1 <= Len(ps) => Opening(text, e)
      /\ k + 1 = Len(ps) + 1 => Closing(text, e)
  BY <1>2, StopAt, Zenon
<1>5. e = i + 10 + Len(ps[k]) /\ Len(ps[k]) \in Nat
  BY PartAt, SMTT(20)
<1>6. \A j \in i + 4 .. e - 1 :
        IsAscii(text[j]) /\ ~ (text[j] = 45 /\ text[j + 1] = 45 /\ text[j + 2] = 88)
  BY NoStopInside, ZenonT(30)
<1>7. Opening(text, e) \/ Closing(text, e)
  <2>1. k + 1 <= Len(ps) \/ k + 1 = Len(ps) + 1
    BY <1>2
  <2> QED
    BY <1>4, <2>1, Zenon
<1>8. ChunkEnd(text, i) = Min(T)
  BY Zenon DEF ChunkEnd
<1> HIDE DEF text, i, e
<1>9. ChunkStart(i) = i + 4
  <2>1. i \in Nat \ {0}
    BY <1>3, Zenon
  <2> QED
    BY <1>1, <1>3, <2>1, ChunkEndFacts, Zenon
<1>10. Len(text) \in Nat
  BY <1>1
<1>11. e \in T
  <2>1. e \in Nat \ {0}
    BY <1>4, Zenon
  <2>2. ChunkBoundary(text, e, Boundary) \/ EndBoundary(text, e, Boundary)
    BY <1>1, <1>7, <2>1, BoundaryFacts, Zenon
  <2>3. e \in ChunkStart(i) .. Len(text) + 1
    <3> DEFINE n == Len(text)
               m == Len(ps[k])
    <3>1. i \in Nat /\ n \in Nat /\ m \in Nat /\ e = i + 10 + m /\ e + 3 <= n
      BY <1>3, <1>4, <1>5, <1>10, Zenon
    <3> HIDE DEF n, m
    <3>2. e \in i + 4 .. n + 1
      BY <3>1
    <3> QED
      BY <1>9, <3>2, Zenon DEF n
  <2> QED
    BY <2>2, <2>3, Zenon
<1>12. T \in SUBSET Nat
  BY <1>3, <1>9
<1>13. ASSUME NEW j \in T, j < e PROVE FALSE
  <2>1. j \in i + 4 .. e - 1 /\ j # Len(text) + 1
    BY <1>3, <1>4, <1>9, <1>10, <1>13
  <2>2. IsAscii(text[j]) /\ ~ (text[j] = 45 /\ text[j + 1] = 45 /\ text[j + 2] = 88)
    BY <1>6, <2>1, Zenon
  <2>3. ~ Opening(text, j) /\ ~ Closing(text, j)
    BY <2>2, Zenon DEF Opening, Closing
  <2>4. j \in Nat \ {0}
    BY <1>3, <1>9, <2>1
  <2>5. ~ ChunkBoundary(text, j, Boundary) /\ ~ EndBoundary(text, j, Boundary)
    BY <1>1, <2>3, <2>4, BoundaryFacts, Zenon
  <2> QED
    BY <2>1, <2>2, <2>5, Zenon
<1>14. \A j \in T : e <= j
  <2>1. \A j \in T : j \in Nat
    BY <1>12, Zenon
  <2> HIDE DEF T
  <2> QED
    BY <1>4, <1>13, <2>1
<1> HIDE DEF T
<1>15. Min(T) = e
  BY <1>11, <1>12, <1>14, MinIs, Zenon
<1> QED
  BY <1>8, <1>9, <1>15, Zenon DEF text, i, e

(***************************************************************************)
(* The chunk of a part.                                                    *)
(***************************************************************************)
LEMMA ChunkHereAt ==
  ASSUME NEW ps \in Seq(Seq(Nat)), NEW k \in 1 .. Len(ps), Sendable(ps[k])
  PROVE  ChunkHere(Form(ps), Start(ps, k)) = Chunk(ps[k])
<1> DEFINE text == Form(ps)
           i == Start(ps, k)
           p == ps[k]
           n == Len(p)
           sub == SubSeq(text, i + 4, i + 9 + n)
           c == Chunk(p)
           h == ChunkHead
<1>1. text \in Seq(Nat)
  BY FormIsText
<1>2. Len(ps) \in Nat /\ k \in 1 .. Len(ps) + 1 /\ k + 1 \in 1 .. Len(ps) + 1 /\ n \in Nat
  OBVIOUS
<1>3. i \in Nat \ {0}
  BY <1>2, StopAt, Zenon
<1>4. Start(ps, k + 1) + 3 <= Len(text)
  BY <1>2, StopAt, Zenon
<1>5. Start(ps, k + 1) = i + 10 + n
  BY PartAt, Zenon
<1>6. /\ text[i + 4] = 110 /\ text[i + 5] = 58 /\ text[i + 6] = 102
      /\ text[i + 7] = 13 /\ text[i + 8] = 13
  BY PartBytes
<1>7. /\ \A m \in 1 .. n : text[i + 8 + m] = p[m]
      /\ text[i + 9 + n] = 13
  BY PartAt, ZenonT(30)
<1>8. ChunkEnd(text, i) = Start(ps, k + 1) /\ ChunkStart(i) = i + 4
  BY ChunkAt, Zenon
<1>9. /\ c \in Seq(Nat)
      /\ Len(c) = 6 + n
      /\ \A j \in 1 .. 5 : c[j] = h[j]
      /\ \A j \in 1 .. n : c[5 + j] = p[j]
      /\ c[6 + n] = 13
  <2>1. p \in Seq(Nat)
    OBVIOUS
  <2> HIDE DEF p
  <2> QED
    BY <2>1, ChunkFacts, Zenon
<1>10. h[1] = 110 /\ h[2] = 58 /\ h[3] = 102 /\ h[4] = 13 /\ h[5] = 13
  BY Zenon DEF ChunkHead
<1> HIDE DEF text, i, p, n, c, h
<1>11. i + 10 + n - 1 = i + 9 + n
  BY <1>2, <1>3
<1>12. ChunkHere(text, i) = sub
  <2>1. ChunkEnd(text, i) - 1 = i + 9 + n
    <3> DEFINE e == ChunkEnd(text, i)
    <3>1. e = i + 10 + n
      BY <1>5, <1>8, Zenon
    <3> HIDE DEF e
    <3>2. e - 1 = i + 9 + n
      BY <1>2, <1>3, <3>1
    <3> QED
      BY <3>2, Zenon DEF e
  <2> QED
    BY <1>8, <2>1, Zenon DEF ChunkHere
<1> DEFINE len == Len(text)
<1>13. len \in Nat /\ i + 10 + n + 3 <= len
  BY <1>1, <1>4, <1>5
<1> HIDE DEF len
<1>14. \A j \in i + 4 .. i + 9 + n : j \in 1 .. len
  BY <1>2, <1>3, <1>13
<1>15. \A j \in i + 4 .. i + 9 + n : text[j] \in Nat
  BY <1>1, <1>14, SMTT(20) DEF len
<1>16. i + 4 \in Nat /\ i + 9 + n \in Nat /\ i + 9 + n - (i + 4) + 1 = n + 6 /\ i + 4 <= i + 9 + n
  BY <1>2, <1>3
<1>17. sub \in Seq(Nat)
  BY <1>1, <1>15, <1>16
<1>18. Len(sub) = n + 6 /\ \A j \in 1 .. n + 6 : sub[j] = text[i + 4 + j - 1]
  BY <1>1, <1>2, <1>3, <1>16
<1> HIDE DEF sub
<1>19. ASSUME NEW j \in 1 .. n + 6 PROVE text[i + 4 + j - 1] = c[j]
  <2>1. CASE j \in 1 .. 5
    <3>1. \/ j = 1 /\ i + 4 + j - 1 = i + 4
          \/ j = 2 /\ i + 4 + j - 1 = i + 5
          \/ j = 3 /\ i + 4 + j - 1 = i + 6
          \/ j = 4 /\ i + 4 + j - 1 = i + 7
          \/ j = 5 /\ i + 4 + j - 1 = i + 8
      BY <1>3, <2>1
    <3>2. c[j] = h[j]
      BY <1>9, <2>1, Zenon
    <3>3. text[i + 4 + j - 1] = h[j]
      BY <1>6, <1>10, <3>1
    <3> QED
      BY <3>2, <3>3, Zenon
  <2>2. CASE j \in 6 .. n + 5
    <3> DEFINE m == j - 5
    <3>1. m \in 1 .. n /\ j = 5 + m /\ i + 4 + j - 1 = i + 8 + m
      BY <1>2, <1>3, <2>2
    <3> HIDE DEF m
    <3>2. text[i + 8 + m] = p[m] /\ c[5 + m] = p[m]
      BY <1>7, <1>9, <3>1, Zenon
    <3> QED
      BY <3>1, <3>2, Zenon
  <2>3. CASE j = n + 6
    <3>1. j = 6 + n /\ i + 4 + j - 1 = i + 9 + n
      BY <1>2, <1>3, <2>3
    <3> QED
      BY <1>7, <1>9, <3>1, Zenon
  <2> QED
    BY <1>2, <2>1, <2>2, <2>3
<1>20. Len(sub) = Len(c) /\ \A j \in 1 .. Len(sub) : sub[j] = c[j]
  <2>1. Len(sub) = n + 6 /\ Len(c) = n + 6
    BY <1>2, <1>9, <1>18
  <2>2. \A j \in 1 .. n + 6 : sub[j] = c[j]
    BY <1>18, <1>19, Zenon
  <2> QED
    BY <2>1, <2>2, Zenon
<1>21. c \in Seq(Nat)
  BY <1>9, Zenon
<1>22. sub = c
  BY <1>17, <1>20, <1>21, SameSequence, Zenon
<1> QED
  BY <1>12, <1>22, Zenon DEF text, i, p, c

(***************************************************************************)
(* The chunks of a form are those of its payloads.                         *)
(***************************************************************************)
Carried(ps) == ps \in Seq(Seq(Nat)) /\ \A k \in 1 .. Len(ps) : Sendable(ps[k])

ChunksOf(ps, k) == [j \in 1 .. Len(ps) - k + 1 |-> Chunk(ps[k + j - 1])]

(***************************************************************************)
(* The chunks from one on.                                                 *)
(***************************************************************************)
LEMMA ChunksOfFacts ==
  ASSUME NEW ps \in Seq(Seq(Nat)), NEW k \in 1 .. Len(ps)
  PROVE  /\ ChunksOf(ps, k) \in Seq(Seq(Nat))
         /\ ChunksOf(ps, k) # <<>>
         /\ k = Len(ps) => ChunksOf(ps, k) = <<Chunk(ps[k])>>
         /\ k < Len(ps) => ChunksOf(ps, k) = <<Chunk(ps[k])>> \o ChunksOf(ps, k + 1)
<1> DEFINE n == Len(ps)
           C(j) == Chunk(ps[j])
           cs == ChunksOf(ps, k)
           ds == ChunksOf(ps, k + 1)
           one == <<C(k)>>
<1>1. n \in Nat /\ k \in 1 .. n
  OBVIOUS
<1>2. \A j \in 1 .. n : C(j) \in Seq(Nat)
  <2>1. \A j \in 1 .. n : ps[j] \in Seq(Nat)
    OBVIOUS
  <2> QED
    BY <2>1, ChunkFacts, Zenon
<1>3. cs = [j \in 1 .. n - k + 1 |-> C(k + j - 1)] /\ ds = [j \in 1 .. n - (k + 1) + 1 |-> C(k + 1 + j - 1)]
  BY Zenon DEF ChunksOf
<1> HIDE DEF C, n, cs, ds
<1>4. /\ \A j \in 1 .. n - k + 1 : k + j - 1 \in 1 .. n
      /\ \A j \in 1 .. n - (k + 1) + 1 : k + 1 + j - 1 \in 1 .. n
      /\ n - k + 1 \in Nat /\ n - (k + 1) + 1 \in Nat /\ n - (k + 1) + 1 = n - k
  BY <1>1
<1>5. cs \in Seq(Seq(Nat)) /\ ds \in Seq(Seq(Nat))
  <2> DEFINE Q == Seq(Nat)
             a == n - k + 1
             b == n - (k + 1) + 1
  <2>1. /\ \A j \in 1 .. a : C(k + j - 1) \in Q
        /\ \A j \in 1 .. b : C(k + 1 + j - 1) \in Q
    BY <1>2, <1>4, Zenon
  <2>2. cs = [j \in 1 .. a |-> C(k + j - 1)] /\ ds = [j \in 1 .. b |-> C(k + 1 + j - 1)]
    BY <1>3, Zenon
  <2>3. a \in Nat /\ b \in Nat
    BY <1>4, Zenon
  <2> HIDE DEF Q, a, b
  <2>4. cs \in [1 .. a -> Q] /\ ds \in [1 .. b -> Q]
    BY <2>1, <2>2, Zenon
  <2>5. cs \in Seq(Q) /\ ds \in Seq(Q)
    BY <2>3, <2>4
  <2> QED
    BY <2>5, Zenon DEF Q
<1>6. Len(cs) = n - k + 1 /\ Len(ds) = n - k
  BY <1>3, <1>4
<1>7. one \in Seq(Seq(Nat)) /\ Len(one) = 1 /\ one[1] = C(k)
  BY <1>1, <1>2
<1> HIDE DEF one
<1>8. cs[1] = C(k)
  <2>1. 1 \in 1 .. n - k + 1 /\ k + 1 - 1 = k
    BY <1>1
  <2> QED
    BY <1>3, <2>1, Zenon
<1>9. cs # <<>>
  BY <1>1, <1>5, <1>6
<1>10. CASE k = n
  <2>1. Len(cs) = 1
    BY <1>1, <1>6, <1>10
  <2>2. Len(cs) = Len(one) /\ \A j \in 1 .. Len(cs) : cs[j] = one[j]
    BY <1>7, <1>8, <2>1
  <2>3. cs \in Seq(Seq(Nat)) /\ one \in Seq(Seq(Nat))
    BY <1>5, <1>7, Zenon
  <2>4. cs = one
    BY <2>2, <2>3, SameSequence, Zenon
  <2> QED
    BY <1>5, <1>9, <1>10, <2>4 DEF cs, one, C, n
<1>11. CASE k < n
  <2>1. Len(cs) = Len(one) + Len(ds)
    BY <1>1, <1>6, <1>7
  <2>2. \A j \in 1 .. Len(one) : cs[j] = one[j]
    BY <1>7, <1>8
  <2>3. ASSUME NEW j \in 1 .. Len(ds) PROVE cs[Len(one) + j] = ds[j]
    <3>1. j \in 1 .. n - (k + 1) + 1 /\ 1 + j \in 1 .. n - k + 1 /\ k + (1 + j) - 1 = k + 1 + j - 1
      BY <1>1, <1>6
    <3>2. cs[1 + j] = C(k + (1 + j) - 1) /\ ds[j] = C(k + 1 + j - 1)
      BY <1>3, <3>1, Zenon
    <3> QED
      BY <1>7, <3>1, <3>2, Zenon
  <2>4. cs \in Seq(Seq(Nat)) /\ ds \in Seq(Seq(Nat)) /\ one \in Seq(Seq(Nat))
    BY <1>5, <1>7, Zenon
  <2>5. one \o ds = cs
    BY <2>1, <2>2, <2>3, <2>4, Joined, Zenon
  <2>6. k # n
    BY <1>1, <1>11
  <2> QED
    BY <1>5, <1>9, <2>5, <2>6, Zenon DEF cs, ds, one, C, n
<1> QED
  BY <1>1, <1>10, <1>11 DEF n

(***************************************************************************)
(* chunk_values finds one chunk for every payload.                         *)
(***************************************************************************)
LEMMA FormChunks ==
  ASSUME NEW ps, Carried(ps)
  PROVE  ChunkValues(Form(ps), Boundary) = [k \in 1 .. Len(ps) |-> Chunk(ps[k])]
<1> DEFINE text == Form(ps)
           n == Len(ps)
           L == Len(text) + 1
<1>1. ps \in Seq(Seq(Nat)) /\ \A k \in 1 .. n : Sendable(ps[k])
  BY Zenon DEF Carried
<1>a. ps \in Seq(Seq(Nat))
  BY <1>1, Zenon
<1>2. text \in Seq(Nat) /\ Start(ps, 1) = 1 /\ n \in Nat
  BY <1>a, FormIsText
<1>b. text \in Seq(Nat)
  BY <1>2, Zenon
<1>3. PICK values : /\ ChunkValues(text, Boundary) = values[1]
                    /\ \A i \in 1 .. L : values[i] = ChunksFrom(text, i, values[ChunkEnd(text, i)])
  <2> HIDE DEF text
  <2> QED
    BY <1>b, ChunkUnfold, Zenon
<1>4. ASSUME NEW k \in 1 .. n + 1
      PROVE  /\ Start(ps, k) \in Nat \ {0} /\ Start(ps, k) \in 1 .. L
             /\ k <= n => Opening(text, Start(ps, k)) /\ ~ Closing(text, Start(ps, k))
             /\ k = n + 1 => Closing(text, Start(ps, k))
  <2>1. Start(ps, k) \in 1 .. L
    BY <1>a, FormIsText, Zenon
  <2>2. /\ Start(ps, k) \in Nat \ {0}
        /\ k <= n => Opening(text, Start(ps, k)) /\ ~ Closing(text, Start(ps, k))
        /\ k = n + 1 => Closing(text, Start(ps, k))
    BY <1>a, StopAt, Zenon
  <2> QED
    BY <2>1, <2>2, Zenon
<1>5. ASSUME NEW k \in 1 .. n
      PROVE  /\ ChunkEnd(text, Start(ps, k)) = Start(ps, k + 1)
             /\ ChunkEnd(text, Start(ps, k)) # ChunkStart(Start(ps, k))
             /\ ChunkHere(text, Start(ps, k)) = Chunk(ps[k])
             /\ ChunkBoundary(text, Start(ps, k), Boundary)
             /\ EndBoundary(text, Start(ps, k + 1), Boundary) <=> k = n
  <2>1. Sendable(ps[k]) /\ k \in 1 .. n + 1 /\ k + 1 \in 1 .. n + 1
    BY <1>1, <1>2
  <2>2. /\ ChunkEnd(text, Start(ps, k)) = Start(ps, k + 1)
        /\ ChunkStart(Start(ps, k)) = Start(ps, k) + 4
    BY <1>a, <2>1, ChunkAt, Zenon
  <2>3. ChunkHere(text, Start(ps, k)) = Chunk(ps[k])
    BY <1>a, <2>1, ChunkHereAt, Zenon
  <2>4. Start(ps, k + 1) = Start(ps, k) + 10 + Len(ps[k])
    BY <1>a, PartAt, ZenonT(30)
  <2>5. Len(ps[k]) \in Nat
    BY <1>a
  <2> DEFINE i == Start(ps, k)
             e == Start(ps, k + 1)
             m == Len(ps[k])
  <2>6. i \in Nat \ {0} /\ e \in Nat \ {0}
    BY <1>4, <2>1, Zenon
  <2>7. Opening(text, i) /\ (k + 1 <= n => ~ Closing(text, e)) /\ (k + 1 = n + 1 => Closing(text, e))
    BY <1>2, <1>4, <2>1
  <2> HIDE DEF text, i, e
  <2>8. ChunkBoundary(text, i, Boundary) /\ (EndBoundary(text, e, Boundary) <=> Closing(text, e))
    BY <1>b, <2>6, <2>7, BoundaryFacts, Zenon
  <2>9. k + 1 <= n \/ (k + 1 = n + 1 /\ k = n)
    BY <1>2
  <2>10. k + 1 <= n => k # n
    BY <1>2
  <2>11. e # i + 4
    <3>1. m \in Nat /\ e = i + 10 + m
      BY <2>4, <2>5, Zenon DEF e, i
    <3> HIDE DEF m
    <3> QED
      BY <2>6, <3>1
  <2> QED
    BY <2>2, <2>3, <2>7, <2>8, <2>9, <2>10, <2>11, Zenon DEF i, e
<1> DEFINE v(k) == values[Start(ps, k)]
<1>6. ASSUME NEW k \in 1 .. n
      PROVE  v(k) = IF k = n THEN <<Chunk(ps[k])>>
                    ELSE IF v(k + 1) = <<>> THEN <<>> ELSE <<Chunk(ps[k])>> \o v(k + 1)
  <2>1. Start(ps, k) \in 1 .. L
    <3>1. k \in 1 .. n + 1
      BY <1>2
    <3> QED
      BY <1>4, <3>1, Zenon
  <2>2. v(k) = ChunksFrom(text, Start(ps, k), values[ChunkEnd(text, Start(ps, k))])
    BY <1>3, <2>1, Zenon
  <2> HIDE DEF text
  <2> QED
    BY <1>5, <2>2, Zenon DEF ChunksFrom
<1> HIDE DEF v, text
<1> DEFINE S == {m \in Nat : m < n => v(n - m) = ChunksOf(ps, n - m)}
<1>7. 0 \in S
  <2> SUFFICES ASSUME 0 < n PROVE v(n) = ChunksOf(ps, n)
    <3>1. n - 0 = n
      BY <1>2
    <3> QED
      BY <3>1, Zenon
  <2>1. n \in 1 .. n
    BY <1>2
  <2>2. v(n) = <<Chunk(ps[n])>>
    BY <1>6, <2>1, Zenon
  <2>3. ChunksOf(ps, n) = <<Chunk(ps[n])>>
    BY <1>a, <2>1, ChunksOfFacts, Zenon
  <2> QED
    BY <2>2, <2>3, Zenon
<1>8. ASSUME NEW m \in S PROVE m + 1 \in S
  <2> SUFFICES ASSUME m + 1 < n PROVE v(n - (m + 1)) = ChunksOf(ps, n - (m + 1))
    OBVIOUS
  <2> DEFINE k == n - (m + 1)
  <2>1. k \in 1 .. n /\ k + 1 \in 1 .. n /\ k < n /\ k # n /\ k + 1 = n - m /\ m < n
    BY <1>2, SMTT(20)
  <2>2. v(k + 1) = ChunksOf(ps, k + 1)
    BY <2>1, Zenon
  <2> HIDE DEF k
  <2>3. v(k) = IF v(k + 1) = <<>> THEN <<>> ELSE <<Chunk(ps[k])>> \o v(k + 1)
    BY <1>6, <2>1, Zenon
  <2>4. ChunksOf(ps, k + 1) # <<>>
    BY <1>a, <2>1, ChunksOfFacts, Zenon
  <2>5. ChunksOf(ps, k) = <<Chunk(ps[k])>> \o ChunksOf(ps, k + 1)
    BY <1>a, <2>1, ChunksOfFacts, Zenon
  <2>6. v(k) = ChunksOf(ps, k)
    BY <2>2, <2>3, <2>4, <2>5, Zenon
  <2> QED
    BY <2>6, Zenon DEF k
<1>9. S \in SUBSET Nat
  BY Zenon
<1> HIDE DEF S
<1>10. \A m \in Nat : m \in S
  BY <1>7, <1>8, <1>9, Induction, Zenon
<1>11. CASE n = 0
  <2>1. 1 \in 1 .. n + 1 /\ 1 = n + 1
    BY <1>11
  <2>2. Closing(text, 1) /\ 1 \in 1 .. L
    <3>1. Closing(text, Start(ps, 1)) /\ Start(ps, 1) \in 1 .. L
      BY <1>4, <2>1, Zenon
    <3> QED
      BY <1>2, <3>1, Zenon
  <2>3. ~ Opening(text, 1)
    BY <2>2 DEF Closing, Opening, IsEol, CRLF, LF
  <2>4. ~ ChunkBoundary(text, 1, Boundary)
    <3> DEFINE i == 1
    <3>1. i \in Nat \ {0} /\ ~ Opening(text, i)
      BY <2>3
    <3> HIDE DEF i
    <3>2. ~ ChunkBoundary(text, i, Boundary)
      BY <1>b, <3>1, BoundaryFacts, Zenon
    <3> QED
      BY <3>2, Zenon DEF i
  <2>5. values[1] = <<>>
    <3>1. values[1] = ChunksFrom(text, 1, values[ChunkEnd(text, 1)])
      BY <1>3, <2>2, Zenon
    <3> QED
      BY <2>4, <3>1, Zenon DEF ChunksFrom
  <2>6. [k \in 1 .. n |-> Chunk(ps[k])] = <<>>
    BY <1>11
  <2> QED
    BY <1>3, <2>5, <2>6, Zenon DEF text
<1>12. CASE n # 0
  <2>1. n - 1 \in Nat /\ n - 1 < n /\ n - (n - 1) = 1
    BY <1>2, <1>12
  <2>2. v(1) = ChunksOf(ps, 1)
    BY <1>10, <2>1, Zenon DEF S
  <2>3. v(1) = values[1]
    BY <1>2, Zenon DEF v
  <2>4. ChunksOf(ps, 1) = [k \in 1 .. n |-> Chunk(ps[k])]
    <3>1. n - 1 + 1 = n /\ \A j \in 1 .. n : 1 + j - 1 = j
      BY <1>2
    <3> QED
      BY <3>1, Zenon DEF ChunksOf
  <2> QED
    BY <1>3, <2>2, <2>3, <2>4, Zenon DEF text
<1> QED
  BY <1>11, <1>12, Zenon

(***************************************************************************)
(* The recursion of ChunkTokens, one line at a time.                       *)
(***************************************************************************)
LineEnd(chunk, i) == RunEnd(chunk, i, LAMBDA c : ~ IsEol(c))

Rest(chunk, i) == SubSeq(chunk, i + 1, Len(chunk))

Line(chunk, i) == SubSeq(chunk, i, LineEnd(chunk, i) - 1)

TokensFrom(chunk, i, rest) ==
  IF LineEnd(chunk, i) = Len(chunk) + 1 THEN [ok |-> FALSE, tokens |-> <<>>]
  ELSE IF LineEnd(chunk, i) = i
  THEN [ok |-> TRUE, tokens |-> IF Rest(chunk, i) = <<>> THEN <<>> ELSE <<Rest(chunk, i)>>]
  ELSE [rest EXCEPT !.tokens = <<Line(chunk, i)>> \o @]

(***************************************************************************)
(* Where a line ends.                                                      *)
(***************************************************************************)
LEMMA LineEndFacts ==
  ASSUME NEW chunk \in Seq(Nat), NEW i \in 1 .. Len(chunk) + 1
  PROVE  /\ LineEnd(chunk, i) \in i .. Len(chunk) + 1
         /\ LineEnd(chunk, i) <= Len(chunk) => IsEol(chunk[LineEnd(chunk, i)])
         /\ \A j \in i .. Len(chunk) : IsEol(chunk[j]) => LineEnd(chunk, i) <= j
<1> DEFINE n == Len(chunk)
           T == {j \in i .. n + 1 : j = n + 1 \/ ~ ~ IsEol(chunk[j])}
<1>1. n \in Nat /\ i \in 1 .. n + 1
  OBVIOUS
<1>2. n + 1 \in T /\ T \in SUBSET Nat
  BY <1>1
<1>3. LineEnd(chunk, i) = Min(T)
  BY Zenon DEF LineEnd, RunEnd
<1>4. \A j \in T : j \in i .. n + 1 /\ (j = n + 1 \/ IsEol(chunk[j]))
  BY Zenon
<1>5. \A j \in i .. n : IsEol(chunk[j]) => j \in T
  BY <1>1
<1> HIDE DEF T, n
<1>6. Min(T) \in T /\ \A j \in T : Min(T) <= j
  BY <1>2, MinFacts, Zenon
<1>7. Min(T) \in i .. n + 1 /\ (Min(T) = n + 1 \/ IsEol(chunk[Min(T)]))
  BY <1>4, <1>6, Zenon
<1>8. Min(T) <= n => Min(T) # n + 1
  BY <1>1, <1>7
<1> QED
  BY <1>3, <1>5, <1>6, <1>7, <1>8, Zenon DEF n

(***************************************************************************)
(* The tokens of a chunk, one line after the other.                        *)
(***************************************************************************)
LEMMA TokensUnfold ==
  ASSUME NEW chunk \in Seq(Nat)
  PROVE  \E from : /\ ChunkTokens(chunk) = from[1]
                   /\ \A i \in 1 .. Len(chunk) + 1 :
                        from[i] = TokensFrom(chunk, i, from[LineEnd(chunk, i) + 1])
<1> DEFINE n == Len(chunk)
           L == n + 1
           V == [ok : BOOLEAN, tokens : Seq(Seq(Nat))]
           E(i) == LineEnd(chunk, i)
           Inner(i) == E(i) # L /\ E(i) # i
           next == [i \in 1 .. L |-> IF Inner(i) THEN E(i) + 1 ELSE L + 1]
           none == [ok |-> FALSE, tokens |-> <<>>]
           base == [i \in 1 .. L |-> IF Inner(i) THEN none ELSE TokensFrom(chunk, i, none)]
           step == [i \in 1 .. L |-> [x \in V |-> TokensFrom(chunk, i, x)]]
           Body(g, i) == TokensFrom(chunk, i, g[LineEnd(chunk, i) + 1])
           Eqn(g) == g = [i \in 1 .. L |-> Body(g, i)]
           chosen == CHOOSE g : Eqn(g)
<1>1. L \in Nat /\ n \in Nat
  OBVIOUS
<1>2. ASSUME NEW i \in 1 .. L
      PROVE  E(i) \in i .. L /\ Rest(chunk, i) \in Seq(Nat) /\ Line(chunk, i) \in Seq(Nat)
  <2>1. E(i) \in i .. L
    BY LineEndFacts, Zenon
  <2> HIDE DEF E
  <2>2. \A j \in i + 1 .. n : chunk[j] \in Nat
    BY <1>1
  <2>3. \A j \in i .. E(i) - 1 : chunk[j] \in Nat
    BY <1>1, <2>1
  <2>4. SubSeq(chunk, i + 1, n) \in Seq(Nat)
    BY <1>1, <2>2
  <2>5. SubSeq(chunk, i, E(i) - 1) \in Seq(Nat)
    BY <1>1, <2>1, <2>3
  <2> QED
    BY <2>1, <2>4, <2>5, Zenon DEF Rest, Line, E
<1>3. none \in V
  OBVIOUS
<1>4. ASSUME NEW i \in 1 .. L, NEW x \in V PROVE TokensFrom(chunk, i, x) \in V
  <2> DEFINE r == Rest(chunk, i)
             l == Line(chunk, i)
  <2>1. r \in Seq(Nat) /\ l \in Seq(Nat)
    BY <1>2, Zenon
  <2> HIDE DEF r, l
  <2>2. <<>> \in Seq(Seq(Nat)) /\ <<r>> \in Seq(Seq(Nat)) /\ <<l>> \in Seq(Seq(Nat))
    BY <2>1
  <2>3. x.tokens \in Seq(Seq(Nat)) /\ x.ok \in BOOLEAN
    BY Zenon
  <2>4. <<l>> \o x.tokens \in Seq(Seq(Nat))
    BY <2>2, <2>3
  <2>5. [x EXCEPT !.tokens = <<l>> \o @] \in V
    BY <2>4, Zenon
  <2>6. [ok |-> TRUE, tokens |-> IF r = <<>> THEN <<>> ELSE <<r>>] \in V
    BY <2>2, Zenon
  <2> QED
    BY <1>3, <2>5, <2>6, Zenon DEF TokensFrom, r, l
<1>5. next \in [1 .. L -> Nat] /\ \A i \in 1 .. L : next[i] > i
  <2>1. \A i \in 1 .. L : E(i) \in i .. L
    BY <1>2, Zenon
  <2> HIDE DEF E
  <2>2. \A i \in 1 .. L : E(i) + 1 \in Nat /\ E(i) + 1 > i /\ L + 1 \in Nat /\ L + 1 > i
    BY <1>1, <2>1
  <2> HIDE DEF L
  <2> QED
    BY <2>2, Zenon
<1>6. base \in [1 .. L -> V]
  <2> HIDE DEF none, V
  <2> QED
    BY <1>3, <1>4, Zenon
<1>7. step \in [1 .. L -> [V -> V]]
  <2> HIDE DEF V
  <2> QED
    BY <1>4, Zenon
<1>8. PICK f \in [1 .. L -> V] :
        \A i \in 1 .. L : f[i] = IF next[i] > L THEN base[i] ELSE step[i][f[next[i]]]
  <2> HIDE DEF L, V, next, base, step
  <2>1. Recursive(L, V, next, base, step)
    BY <1>1, <1>5, <1>6, <1>7, Zenon DEF Recursive
  <2> QED
    BY <2>1, Recursion
<1>9. ASSUME NEW i \in 1 .. L PROVE f[i] = Body(f, i)
  <2>1. CASE Inner(i)
    <3>1. E(i) + 1 \in 1 .. L
      <4>1. E(i) \in i .. L /\ E(i) # L
        BY <1>2, <2>1, Zenon
      <4> HIDE DEF E
      <4> QED
        BY <1>1, <4>1
    <3>2. next[i] = E(i) + 1 /\ ~ (next[i] > L)
      <4> HIDE DEF E, L
      <4>1. next[i] = E(i) + 1
        BY <2>1, Zenon
      <4> QED
        BY <1>1, <3>1, <4>1
    <3>3. f[E(i) + 1] \in V
      BY <3>1, Zenon
    <3>4. step[i][f[E(i) + 1]] = TokensFrom(chunk, i, f[E(i) + 1])
      <4> HIDE DEF V, E, L
      <4> QED
        BY <3>3, Zenon
    <3>5. f[i] = step[i][f[E(i) + 1]]
      <4> HIDE DEF next, base, step, L, E, V
      <4> QED
        BY <1>8, <3>2, Zenon
    <3> HIDE DEF step
    <3> QED
      BY <3>4, <3>5, Zenon
  <2>2. CASE ~ Inner(i)
    <3>1. next[i] > L /\ base[i] = TokensFrom(chunk, i, none)
      <4> HIDE DEF Inner, none
      <4> QED
        BY <1>1, <2>2
    <3>2. f[i] = base[i]
      <4> HIDE DEF next, base, step, L, V
      <4> QED
        BY <1>8, <3>1, Zenon
    <3>3. \A x, y : TokensFrom(chunk, i, x) = TokensFrom(chunk, i, y)
      BY <2>2, Zenon DEF TokensFrom
    <3> HIDE DEF base, none
    <3> QED
      BY <3>1, <3>2, <3>3, Zenon
  <2> QED
    BY <2>1, <2>2, Zenon
<1>10. Eqn(f)
  <2> HIDE DEF Body
  <2> QED
    BY <1>9, Zenon
<1>11. Eqn(chosen)
  BY <1>10, Zenon
<1>12. \A i \in 1 .. L : chosen[i] = Body(chosen, i)
  <2> HIDE DEF Body, chosen
  <2> QED
    BY <1>11, Zenon
<1>13. ChunkTokens(chunk) = chosen[1]
  BY Zenon DEF ChunkTokens, TokensFrom, LineEnd, Rest, Line
<1> HIDE DEF chosen
<1> QED
  BY <1>12, <1>13, Zenon

(***************************************************************************)
(* erase_last takes off the line end that the part has added.              *)
(***************************************************************************)
PartBody(p) == p \o <<13>>

(***************************************************************************)
(* A payload with the line end behind it.                                  *)
(***************************************************************************)
LEMMA BodyFacts ==
  ASSUME NEW p \in Seq(Nat)
  PROVE  /\ PartBody(p) \in Seq(Nat)
         /\ Len(PartBody(p)) = Len(p) + 1
         /\ \A i \in 1 .. Len(p) : PartBody(p)[i] = p[i]
         /\ PartBody(p)[Len(p) + 1] = 13
<1> DEFINE e == <<13>>
<1>1. e \in Seq(Nat) /\ Len(e) = 1 /\ e[1] = 13
  OBVIOUS
<1> HIDE DEF e
<1>2. e \in Seq(Nat)
  BY <1>1, Zenon
<1>3. /\ p \o e \in Seq(Nat)
      /\ Len(p \o e) = Len(p) + Len(e)
      /\ \A i \in 1 .. Len(p) : (p \o e)[i] = p[i]
      /\ \A i \in 1 .. Len(e) : (p \o e)[Len(p) + i] = e[i]
  BY <1>2, ConcatFacts
<1>4. PartBody(p) = p \o e
  BY Zenon DEF PartBody, e
<1>5. 1 \in 1 .. Len(e)
  BY <1>1
<1> QED
  BY <1>1, <1>3, <1>4, <1>5, Zenon

(***************************************************************************)
(* The line end behind a payload is erased, and nothing else.              *)
(***************************************************************************)
LEMMA EraseLastBody ==
  ASSUME NEW p \in Seq(Nat)
  PROVE  EraseLast(PartBody(p)) = p
<1> DEFINE b == PartBody(p)
           n == Len(p)
           ends == {i \in DOMAIN b : b[i] = CRLF}
           m == n + 1
           front == SubSeq(b, 1, m - 1)
           back == SubSeq(b, m + 1, Len(b))
<1>1. b \in Seq(Nat) /\ Len(b) = n + 1 /\ (\A i \in 1 .. n : b[i] = p[i]) /\ b[n + 1] = 13
  BY BodyFacts, Zenon
<1>2. n \in Nat
  OBVIOUS
<1>a. m = n + 1
  BY Zenon
<1> HIDE DEF b, n, m
<1>3. b \in Seq(Nat)
  BY <1>1, Zenon
<1>4. DOMAIN b = 1 .. n + 1
  BY <1>1
<1>5. n + 1 \in ends /\ \A i \in ends : i \in 1 .. n + 1
  BY <1>1, <1>2, <1>4 DEF CRLF
<1>6. n + 1 \in ends /\ \A i \in ends : n + 1 >= i /\ i \in Int
  BY <1>2, <1>5
<1>7. Max(ends) = m
  <2> HIDE DEF ends
  <2> QED
    BY <1>2, <1>6, <1>a DEF Max
<1>8. EraseLast(b) = front \o back
  <2>1. ends # {}
    BY <1>5, Zenon
  <2>2. EraseLast(b) = Before(b, Max(ends)) \o After(b, Max(ends))
    BY <2>1, Zenon DEF EraseLast
  <2>3. Before(b, m) = front /\ After(b, m) = back
    BY <1>2, <1>a DEF Before, After
  <2> HIDE DEF ends, front, back
  <2> QED
    BY <1>7, <2>2, <2>3, Zenon
<1>9. m - 1 = n /\ m + 1 > n + 1 /\ m \in Nat
  BY <1>2, <1>a
<1>10. \A i \in 1 .. n : b[i] \in Nat
  BY <1>1, <1>2
<1>11. front \in Seq(Nat) /\ Len(front) = n /\ \A i \in 1 .. n : front[i] = b[i]
  BY <1>2, <1>3, <1>9, <1>10
<1>12. back = <<>>
  BY <1>1, <1>2, <1>9, <1>a
<1> HIDE DEF front, back
<1>13. front \in Seq(Nat) /\ p \in Seq(Nat)
  BY <1>11, Zenon
<1>14. Len(front) = Len(p) /\ \A i \in 1 .. Len(front) : front[i] = p[i]
  BY <1>1, <1>11, Zenon DEF n
<1>15. front = p
  BY <1>13, <1>14, SameSequence, Zenon
<1>16. front \o back = front
  BY <1>12, <1>13
<1> QED
  BY <1>8, <1>15, <1>16, Zenon DEF b

(***************************************************************************)
(* The payload that is found in a chunk.                                   *)
(***************************************************************************)
LEMMA TokensOfChunk ==
  ASSUME NEW p \in Seq(Nat)
  PROVE  /\ ChunkTokens(Chunk(p)).ok
         /\ PayloadOf(ChunkTokens(Chunk(p)).tokens) = p
<1> DEFINE c == Chunk(p)
           n == Len(p)
           h == ChunkHead
           b == PartBody(p)
<1>1. /\ c \in Seq(Nat)
      /\ Len(c) = 6 + n
      /\ \A i \in 1 .. 5 : c[i] = h[i]
      /\ \A i \in 1 .. n : c[5 + i] = p[i]
      /\ c[6 + n] = 13
  BY ChunkFacts, Zenon
<1>2. h[1] = 110 /\ h[2] = 58 /\ h[3] = 102 /\ h[4] = 13 /\ h[5] = 13
  BY Zenon DEF ChunkHead
<1>3. b \in Seq(Nat) /\ Len(b) = n + 1 /\ (\A i \in 1 .. n : b[i] = p[i]) /\ b[n + 1] = 13
  BY BodyFacts, Zenon
<1>4. n \in Nat
  OBVIOUS
<1> HIDE DEF c, n, h, b
<1>5. c \in Seq(Nat) /\ b \in Seq(Nat)
  BY <1>1, <1>3, Zenon
<1>6. c[1] = 110 /\ c[2] = 58 /\ c[3] = 102 /\ c[4] = 13 /\ c[5] = 13
  <2>1. 1 \in 1 .. 5 /\ 2 \in 1 .. 5 /\ 3 \in 1 .. 5 /\ 4 \in 1 .. 5 /\ 5 \in 1 .. 5
    OBVIOUS
  <2>2. c[1] = h[1] /\ c[2] = h[2] /\ c[3] = h[3] /\ c[4] = h[4] /\ c[5] = h[5]
    BY <1>1, <2>1, Zenon
  <2> QED
    BY <1>2, <2>2, ZenonT(30)
<1>7. /\ ~ IsEol(c[1]) /\ ~ IsEol(c[2]) /\ ~ IsEol(c[3]) /\ IsEol(c[4]) /\ IsEol(c[5])
  BY <1>6 DEF IsEol, CRLF, LF
<1> DEFINE L == Len(c)
           i1 == 1
           i5 == 5
<1>8. L = 6 + n /\ i1 \in 1 .. L + 1 /\ i5 \in 1 .. L + 1 /\ 4 \in i1 .. L /\ 5 \in i5 .. L
  BY <1>1, <1>4
<1>9. LineEnd(c, 1) = 4
  <2> HIDE DEF i1
  <2>a. i1 \in 1 .. Len(c) + 1
    BY <1>8, Zenon
  <2>1. /\ LineEnd(c, i1) \in i1 .. Len(c) + 1
        /\ LineEnd(c, i1) <= Len(c) => IsEol(c[LineEnd(c, i1)])
        /\ \A j \in i1 .. Len(c) : IsEol(c[j]) => LineEnd(c, i1) <= j
    BY <1>5, <2>a, LineEndFacts, Zenon
  <2> DEFINE e == LineEnd(c, i1)
  <2> HIDE DEF e, L
  <2>2. e \in i1 .. L + 1 /\ (e <= L => IsEol(c[e])) /\ e <= 4
    BY <1>7, <1>8, <2>1, Zenon DEF e, L
  <2>3. e \in 1 .. 4 /\ e <= L
    BY <1>4, <1>8, <2>2 DEF i1
  <2>4. e = 1 \/ e = 2 \/ e = 3 \/ e = 4
    BY <2>3
  <2>5. e = 4
    BY <1>7, <2>2, <2>3, <2>4, Zenon
  <2> QED
    BY <2>5, Zenon DEF e, i1
<1>10. LineEnd(c, 5) = 5
  <2> HIDE DEF i5
  <2>a. i5 \in 1 .. Len(c) + 1
    BY <1>8, Zenon
  <2>1. /\ LineEnd(c, i5) \in i5 .. Len(c) + 1
        /\ \A j \in i5 .. Len(c) : IsEol(c[j]) => LineEnd(c, i5) <= j
    BY <1>5, <2>a, LineEndFacts, Zenon
  <2> DEFINE e == LineEnd(c, i5)
  <2> HIDE DEF e, L
  <2>2. e \in i5 .. L + 1 /\ e <= 5
    BY <1>7, <1>8, <2>1, Zenon DEF e, L
  <2>3. e = 5
    BY <1>4, <1>8, <2>2 DEF i5
  <2> QED
    BY <2>3, Zenon DEF e, i5
<1>11. Rest(c, 5) = b
  <2> DEFINE r == SubSeq(c, 6, 6 + n)
  <2>1. Rest(c, 5) = r
    BY <1>1 DEF Rest
  <2>2. \A j \in 6 .. 6 + n : c[j] \in Nat
    <3>1. Len(c) = 6 + n
      BY <1>1, Zenon
    <3>2. \A j \in 6 .. 6 + n : j \in 1 .. Len(c)
      BY <1>4, <3>1
    <3> QED
      BY <1>5, <3>2
  <2>3. r \in Seq(Nat) /\ Len(r) = n + 1 /\ \A j \in 1 .. n + 1 : r[j] = c[6 + j - 1]
    BY <1>4, <1>5, <2>2
  <2> HIDE DEF r
  <2>4. ASSUME NEW j \in 1 .. n + 1 PROVE r[j] = b[j]
    <3>1. CASE j \in 1 .. n
      <4>1. 6 + j - 1 = 5 + j
        OBVIOUS
      <4> QED
        BY <1>1, <1>3, <2>3, <3>1, <4>1, Zenon
    <3>2. CASE j = n + 1
      <4>1. 6 + j - 1 = 6 + n
        BY <1>4, <3>2
      <4> QED
        BY <1>1, <1>3, <2>3, <3>2, <4>1, Zenon
    <3> QED
      BY <1>4, <3>1, <3>2
  <2>5. Len(r) = Len(b) /\ \A j \in 1 .. Len(r) : r[j] = b[j]
    BY <1>3, <2>3, <2>4, Zenon
  <2>6. r \in Seq(Nat) /\ b \in Seq(Nat)
    BY <1>5, <2>3, Zenon
  <2>7. r = b
    BY <2>5, <2>6, SameSequence, Zenon
  <2> QED
    BY <2>1, <2>7, Zenon
<1>12. b # <<>>
  BY <1>3, <1>4
<1>13. PICK from : /\ ChunkTokens(c) = from[1]
                   /\ \A i \in 1 .. Len(c) + 1 : from[i] = TokensFrom(c, i, from[LineEnd(c, i) + 1])
  BY <1>5, TokensUnfold, Zenon
<1>14. 1 \in 1 .. Len(c) + 1 /\ 5 \in 1 .. Len(c) + 1 /\ 4 # Len(c) + 1 /\ 5 # Len(c) + 1 /\ 4 + 1 = 5 /\ 4 # 1
  BY <1>1, <1>4
<1>15. from[5] = [ok |-> TRUE, tokens |-> <<b>>]
  <2>1. from[5] = TokensFrom(c, 5, from[LineEnd(c, 5) + 1])
    BY <1>13, <1>14, Zenon
  <2> QED
    BY <1>10, <1>11, <1>12, <1>14, <2>1, Zenon DEF TokensFrom
<1>16. from[1] = [from[5] EXCEPT !.tokens = <<Line(c, 1)>> \o @]
  <2>1. from[1] = TokensFrom(c, 1, from[LineEnd(c, 1) + 1])
    BY <1>13, <1>14, Zenon
  <2> QED
    BY <1>9, <1>14, <2>1, Zenon DEF TokensFrom
<1> DEFINE l == Line(c, 1)
<1>17. from[1] = [ok |-> TRUE, tokens |-> <<l>> \o <<b>>]
  <2> HIDE DEF l
  <2>1. from[1] = [from[5] EXCEPT !.tokens = <<l>> \o @]
    BY <1>16, Zenon DEF l
  <2> DEFINE ll == <<l>>
             bb == <<b>>
  <2>2. from[5] = [ok |-> TRUE, tokens |-> bb]
    BY <1>15, Zenon
  <2> DEFINE all == ll \o bb
             r == from[5]
  <2>3. from[1] = [r EXCEPT !.tokens = ll \o r.tokens]
    BY <2>1, Zenon
  <2> HIDE DEF ll, bb, r
  <2>4. r = [ok |-> TRUE, tokens |-> bb]
    BY <2>2, Zenon DEF r
  <2>5. r.tokens = bb
    BY <2>4, Zenon
  <2>6. from[1] = [r EXCEPT !.tokens = all]
    BY <2>3, <2>5, Zenon
  <2> HIDE DEF all
  <2>7. from[1] = [ok |-> TRUE, tokens |-> all]
    BY <2>4, <2>6, Zenon
  <2> QED
    BY <2>7, Zenon DEF ll, bb, all
<1> HIDE DEF l
<1>18. <<l>> \o <<b>> = <<l, b>>
  <2>1. l \in {l, b} /\ b \in {l, b}
    BY Zenon
  <2> QED
    BY <2>1, JoinedOne, Zenon
<1>19. PayloadOf(<<l, b>>) = EraseLast(b)
  BY Zenon DEF PayloadOf
<1>20. EraseLast(b) = p
  BY EraseLastBody, Zenon DEF b
<1> DEFINE tokens == <<l, b>>
<1>21. ChunkTokens(c) = [ok |-> TRUE, tokens |-> tokens] /\ PayloadOf(tokens) = p
  BY <1>13, <1>17, <1>18, <1>19, <1>20, Zenon
<1> HIDE DEF tokens
<1>22. ChunkTokens(c).ok /\ ChunkTokens(c).tokens = tokens
  BY <1>21
<1> QED
  BY <1>21, <1>22, Zenon DEF c

(***************************************************************************)
(* MultiPartFormData: one part for each chunk that can be split.           *)
(***************************************************************************)
LEMMA PartsUnfold ==
  ASSUME NEW chunks, NEW n \in Nat, Len(chunks) = n, \A k \in 1 .. n : ChunkTokens(chunks[k]).ok
  PROVE  /\ Len(PartsOf(chunks)) = n
         /\ DOMAIN PartsOf(chunks) = 1 .. n
         /\ \A k \in 1 .. n : PartsOf(chunks)[k] = PartOf(ChunkTokens(chunks[k]).tokens)
<1> DEFINE P(k) == PartOf(ChunkTokens(chunks[k]).tokens)
           W == {P(k) : k \in 1 .. n}
           V == Seq(W)
           first == <<>>
           step == [k \in 1 .. n |-> [v \in V |-> AddPart(v, ChunkTokens(chunks[k]))]]
           Body(g, k) == IF k = 0 THEN <<>> ELSE AddPart(g[k - 1], ChunkTokens(chunks[k]))
           Eqn(g) == g = [k \in 0 .. Len(chunks) |-> Body(g, k)]
           chosen == CHOOSE g : Eqn(g)
<1>1. ASSUME NEW k \in 1 .. n, NEW v PROVE AddPart(v, ChunkTokens(chunks[k])) = Append(v, P(k))
  BY Zenon DEF AddPart
<1>2. \A k \in 1 .. n : P(k) \in W
  BY Zenon
<1> HIDE DEF P, W
<1>3. first \in V
  OBVIOUS
<1>4. ASSUME NEW k \in 1 .. n, NEW v \in V PROVE AddPart(v, ChunkTokens(chunks[k])) \in V
  <2>1. P(k) \in W
    BY <1>2, Zenon
  <2>2. Append(v, P(k)) \in V
    BY <2>1
  <2> QED
    BY <1>1, <2>2, Zenon
<1>5. step \in [1 .. n -> [V -> V]]
  <2> HIDE DEF V
  <2> QED
    BY <1>4, Zenon
<1>6. PICK f \in [0 .. n -> V] : f[0] = first /\ \A k \in 1 .. n : f[k] = step[k][f[k - 1]]
  <2> DEFINE L == n
  <2> HIDE DEF V, first, step
  <2>1. Iterative(L, V, first, step)
    BY <1>3, <1>5, Zenon DEF Iterative
  <2> HIDE DEF L
  <2>2. \E f \in [0 .. L -> V] : f[0] = first /\ \A k \in 1 .. L : f[k] = step[k][f[k - 1]]
    BY <2>1, Iteration
  <2> QED
    BY <2>2, Zenon DEF L
<1>7. ASSUME NEW k \in 0 .. n PROVE f[k] = Body(f, k)
  <2>1. CASE k = 0
    BY <1>6, <2>1, Zenon
  <2>2. CASE k # 0
    <3>1. k \in 1 .. n /\ k - 1 \in 0 .. n
      BY <2>2
    <3>2. f[k - 1] \in V
      BY <3>1, Zenon
    <3>3. step[k][f[k - 1]] = AddPart(f[k - 1], ChunkTokens(chunks[k]))
      <4> HIDE DEF V
      <4> QED
        BY <3>1, <3>2, Zenon
    <3>4. f[k] = step[k][f[k - 1]]
      <4> HIDE DEF V, first, step
      <4> QED
        BY <1>6, <3>1, Zenon
    <3> HIDE DEF step
    <3> QED
      BY <2>2, <3>3, <3>4, Zenon
  <2> QED
    BY <2>1, <2>2, Zenon
<1>8. Eqn(f)
  <2> HIDE DEF Body, V
  <2> QED
    BY <1>7, Zenon
<1>9. Eqn(chosen)
  BY <1>8, Zenon
<1>10. \A k \in 0 .. n : chosen[k] = Body(chosen, k)
  <2> HIDE DEF Body, chosen
  <2> QED
    BY <1>9, Zenon
<1>11. PartsOf(chunks) = chosen[n]
  BY Zenon DEF PartsOf
<1> HIDE DEF chosen
<1>12. chosen[0] = <<>>
  <2>1. 0 \in 0 .. n
    OBVIOUS
  <2> QED
    BY <1>10, <2>1, Zenon
<1>13. ASSUME NEW k \in 1 .. n PROVE chosen[k] = Append(chosen[k - 1], P(k))
  <2>1. k \in 0 .. n /\ k # 0
    OBVIOUS
  <2>2. chosen[k] = Body(chosen, k)
    BY <1>10, <2>1, Zenon
  <2>3. chosen[k] = AddPart(chosen[k - 1], ChunkTokens(chunks[k]))
    BY <2>1, <2>2, Zenon
  <2> QED
    BY <1>1, <2>3, Zenon
<1> DEFINE Good(k) == /\ chosen[k] \in Seq(W)
                      /\ Len(chosen[k]) = k
                      /\ \A j \in 1 .. k : chosen[k][j] = P(j)
           S == {k \in Nat : k <= n => Good(k)}
<1>14. 0 \in S
  <2> DEFINE s == chosen[0]
  <2>1. <<>> \in Seq(W) /\ Len(<<>>) = 0
    OBVIOUS
  <2>2. s = <<>>
    BY <1>12, Zenon
  <2>3. s \in Seq(W) /\ Len(s) = 0
    BY <2>1, <2>2, Zenon
  <2> HIDE DEF s
  <2>4. \A j \in 1 .. 0 : s[j] = P(j)
    OBVIOUS
  <2>5. Good(0)
    BY <2>3, <2>4, Zenon DEF s
  <2> QED
    BY <2>5, Zenon
<1>15. ASSUME NEW k \in S PROVE k + 1 \in S
  <2> SUFFICES ASSUME k + 1 <= n PROVE Good(k + 1)
    OBVIOUS
  <2> DEFINE s == chosen[k]
             t == chosen[k + 1]
             e == P(k + 1)
  <2>1. k \in Nat /\ k <= n /\ k + 1 \in 1 .. n /\ k + 1 - 1 = k
    OBVIOUS
  <2>2. s \in Seq(W) /\ Len(s) = k /\ \A j \in 1 .. k : s[j] = P(j)
    BY <2>1, Zenon
  <2>3. t = Append(s, e)
    BY <1>13, <2>1
  <2>4. e \in W
    BY <1>2, <2>1, Zenon
  <2> HIDE DEF s, t, e, S
  <2>5. s \in Seq(W)
    BY <2>2, Zenon
  <2>6. /\ t \in Seq(W) /\ Len(t) = Len(s) + 1
        /\ \A i \in 1 .. Len(s) : t[i] = s[i]
        /\ t[Len(s) + 1] = e
    BY <2>3, <2>4, <2>5, AppendFacts
  <2>7. ASSUME NEW j \in 1 .. k + 1 PROVE t[j] = P(j)
    <3>1. CASE j \in 1 .. k
      BY <2>2, <2>6, <3>1, Zenon
    <3>2. CASE j = k + 1
      BY <2>2, <2>6, <3>2, Zenon DEF e
    <3> QED
      BY <2>1, <3>1, <3>2
  <2>8. Len(t) = k + 1
    BY <2>2, <2>6, Zenon
  <2> QED
    BY <2>6, <2>7, <2>8, Zenon DEF t
<1>16. S \in SUBSET Nat
  BY Zenon
<1> HIDE DEF S
<1>17. n \in S
  BY <1>14, <1>15, <1>16, Induction, Zenon
<1>18. Good(n)
  BY <1>17 DEF S
<1> DEFINE form == chosen[n]
<1>19. form \in Seq(W) /\ Len(form) = n /\ \A j \in 1 .. n : form[j] = P(j)
  BY <1>18, Zenon
<1> HIDE DEF form
<1>20. DOMAIN form = 1 .. n
  BY <1>19
<1> QED
  BY <1>11, <1>19, <1>20, Zenon DEF form, P

(***************************************************************************)
(* A form is read back as the payloads it was made of.                     *)
(***************************************************************************)
THEOREM FormReadBack ==
  ASSUME NEW ps, Carried(ps)
  PROVE  /\ DOMAIN MultiPartFormData(Boundary, Form(ps)) = 1 .. Len(ps)
         /\ \A k \in 1 .. Len(ps) : MultiPartFormData(Boundary, Form(ps))[k].payload = ps[k]
<1> DEFINE n == Len(ps)
           chunks == [k \in 1 .. n |-> Chunk(ps[k])]
           form == MultiPartFormData(Boundary, Form(ps))
<1>1. n \in Nat /\ \A k \in 1 .. n : ps[k] \in Seq(Nat)
  BY DEF Carried
<1>2. form = PartsOf(chunks)
  BY FormChunks, Zenon DEF MultiPartFormData
<1>3. Len(chunks) = n
  BY <1>1
<1>4. \A k \in 1 .. n : chunks[k] = Chunk(ps[k])
  BY Zenon
<1>5. \A k \in 1 .. n : /\ ChunkTokens(Chunk(ps[k])).ok
                        /\ PayloadOf(ChunkTokens(Chunk(ps[k])).tokens) = ps[k]
  BY <1>1, TokensOfChunk, Zenon
<1> HIDE DEF chunks, n, form
<1>6. \A k \in 1 .. n : ChunkTokens(chunks[k]).ok
  BY <1>4, <1>5, Zenon
<1>7. /\ DOMAIN PartsOf(chunks) = 1 .. n
      /\ \A k \in 1 .. n : PartsOf(chunks)[k] = PartOf(ChunkTokens(chunks[k]).tokens)
  BY <1>1, <1>3, <1>6, PartsUnfold, Zenon
<1>8. ASSUME NEW k \in 1 .. n PROVE form[k].payload = ps[k]
  <2>1. form[k] = PartOf(ChunkTokens(chunks[k]).tokens)
    BY <1>2, <1>7, Zenon
  <2>2. form[k].payload = PayloadOf(ChunkTokens(chunks[k]).tokens)
    BY <2>1 DEF PartOf
  <2> QED
    BY <1>4, <1>5, <2>2, Zenon
<1> QED
  BY <1>2, <1>7, <1>8, Zenon DEF form, n

(***************************************************************************)
(* The recursion of HeaderPairs, one pair at a time.                       *)
(***************************************************************************)
SpacesEnd(text, i) == RunEnd(text, i, LAMBDA c : c = Space)

PairsFrom(text, i, rest) ==
  LET p == HeaderPair(text, i)
  IN  IF p.end = 0 THEN <<>>
      ELSE <<p>> \o (IF Is(text, p.end, Semicolon) THEN rest ELSE <<>>)

NameEnd(text, i) == RunEnd(text, i, LAMBDA c : IsAscii(c) /\ c \notin {Equals, Semicolon})

QuotedEnd(text, i) == RunEnd(text, i, LAMBDA c : IsAscii(c) /\ c # Quote)

AsciiEnd(text, i) == RunEnd(text, i, IsAscii)

(***************************************************************************)
(* Where the runs of the header grammar end.                               *)
(***************************************************************************)
LEMMA RunEnds ==
  ASSUME NEW text \in Seq(Nat), NEW i \in 1 .. Len(text) + 1
  PROVE  /\ SpacesEnd(text, i) \in i .. Len(text) + 1
         /\ NameEnd(text, i) \in i .. Len(text) + 1
         /\ QuotedEnd(text, i) \in i .. Len(text) + 1
         /\ AsciiEnd(text, i) \in i .. Len(text) + 1
<1> DEFINE L == Len(text) + 1
<1>1. ASSUME NEW T \in SUBSET (i .. L), L \in T PROVE Min(T) \in i .. L
  <2>1. T \in SUBSET Nat /\ T # {}
    BY <1>1
  <2>2. Min(T) \in T
    BY <2>1, MinFacts, Zenon
  <2> QED
    BY <2>2, Zenon
<1>2. L \in i .. L
  OBVIOUS
<1>3. SpacesEnd(text, i) \in i .. L
  <2> DEFINE T == {j \in i .. L : j = L \/ ~ (text[j] = Space)}
  <2>1. T \in SUBSET (i .. L) /\ L \in T
    BY <1>2, Zenon
  <2>2. SpacesEnd(text, i) = Min(T)
    BY Zenon DEF SpacesEnd, RunEnd
  <2> HIDE DEF T, L
  <2> QED
    BY <1>1, <2>1, <2>2, Zenon
<1>4. NameEnd(text, i) \in i .. L
  <2> DEFINE T == {j \in i .. L : j = L \/ ~ (IsAscii(text[j]) /\ text[j] \notin {Equals, Semicolon})}
  <2>1. T \in SUBSET (i .. L) /\ L \in T
    BY <1>2, Zenon
  <2>2. NameEnd(text, i) = Min(T)
    BY Zenon DEF NameEnd, RunEnd
  <2> HIDE DEF T, L
  <2> QED
    BY <1>1, <2>1, <2>2
<1>5. QuotedEnd(text, i) \in i .. L
  <2> DEFINE T == {j \in i .. L : j = L \/ ~ (IsAscii(text[j]) /\ text[j] # Quote)}
  <2>1. T \in SUBSET (i .. L) /\ L \in T
    BY <1>2, Zenon
  <2>2. QuotedEnd(text, i) = Min(T)
    BY Zenon DEF QuotedEnd, RunEnd
  <2> HIDE DEF T, L
  <2> QED
    BY <1>1, <2>1, <2>2
<1>6. AsciiEnd(text, i) \in i .. L
  <2> DEFINE T == {j \in i .. L : j = L \/ ~ IsAscii(text[j])}
  <2>1. T \in SUBSET (i .. L) /\ L \in T
    BY <1>2, Zenon
  <2>2. AsciiEnd(text, i) = Min(T)
    BY Zenon DEF AsciiEnd, RunEnd
  <2> HIDE DEF T, L
  <2> QED
    BY <1>1, <2>1, <2>2
<1> QED
  BY <1>3, <1>4, <1>5, <1>6, Zenon

(***************************************************************************)
(* Where a parameter ends.                                                 *)
(***************************************************************************)
LEMMA HeaderPairEnd ==
  ASSUME NEW text \in Seq(Nat), NEW i \in 1 .. Len(text) + 1
  PROVE  HeaderPair(text, i).end = 0 \/ HeaderPair(text, i).end \in i .. Len(text) + 2
<1> DEFINE n == Len(text)
           k == NameEnd(text, i)
           q == QuotedEnd(text, k + 2)
           e == AsciiEnd(text, k + 1)
<1>1. n \in Nat /\ i \in 1 .. n + 1 /\ DOMAIN text = 1 .. n
  OBVIOUS
<1>2. k \in i .. n + 1
  BY RunEnds, Zenon
<1>3. HeaderPair(text, i).end =
        IF k = i THEN 0
        ELSE IF ~ Is(text, k, Equals) \/ e = k + 1 THEN k
        ELSE IF ~ Is(text, k + 1, Quote) THEN e
        ELSE IF q > k + 2 /\ Is(text, q, Quote) THEN q + 1
        ELSE e
  BY Zenon DEF HeaderPair, NameEnd, QuotedEnd, AsciiEnd
<1>4. Is(text, k, Equals) => e \in i .. n + 1
  <2> SUFFICES ASSUME Is(text, k, Equals) PROVE e \in i .. n + 1
    BY Zenon
  <2> HIDE DEF n, k, e
  <2>1. k + 1 \in 1 .. n + 1
    BY <1>1, <1>2 DEF Is
  <2> DEFINE l == k + 1
  <2>2. l \in 1 .. Len(text) + 1
    BY <2>1, Zenon DEF n
  <2> HIDE DEF l
  <2>3. AsciiEnd(text, l) \in l .. Len(text) + 1
    BY <2>2, RunEnds, Zenon
  <2>4. e \in k + 1 .. n + 1
    BY <2>3, Zenon DEF e, l, n
  <2> QED
    BY <1>1, <1>2, <2>4
<1>5. Is(text, k + 1, Quote) => q \in i .. n + 1
  <2> SUFFICES ASSUME Is(text, k + 1, Quote) PROVE q \in i .. n + 1
    BY Zenon
  <2> HIDE DEF n, k, q
  <2>1. k + 2 \in 1 .. n + 1
    BY <1>1, <1>2 DEF Is
  <2> DEFINE l == k + 2
  <2>2. l \in 1 .. Len(text) + 1
    BY <2>1, Zenon DEF n
  <2> HIDE DEF l
  <2>3. QuotedEnd(text, l) \in l .. Len(text) + 1
    BY <2>2, RunEnds, Zenon
  <2>4. q \in k + 2 .. n + 1
    BY <2>3, Zenon DEF q, l, n
  <2> QED
    BY <1>1, <1>2, <2>4
<1> HIDE DEF n, k, q, e
<1> DEFINE end == HeaderPair(text, i).end
<1>6. end = 0 \/ end = k \/ (end = e /\ Is(text, k, Equals)) \/ (end = q + 1 /\ Is(text, k + 1, Quote))
  <2> HIDE DEF end
  <2> QED
    BY <1>3, Zenon DEF end
<1> HIDE DEF end
<1>7. end = 0 \/ end \in i .. n + 2
  BY <1>1, <1>2, <1>4, <1>5, <1>6
<1> QED
  BY <1>7, Zenon DEF end, n

(***************************************************************************)
(* The parameters of a header, one after the other.                        *)
(***************************************************************************)
LEMMA PairsUnfold ==
  ASSUME NEW text \in Seq(Nat)
  PROVE  \E from : /\ HeaderPairs(text) = from[1]
                   /\ \A i \in 1 .. Len(text) + 1 :
                        from[i] = PairsFrom(text, i, from[SpacesEnd(text, HeaderPair(text, i).end + 1)])
<1> DEFINE n == Len(text)
           L == n + 1
           W == {HeaderPair(text, i) : i \in 1 .. L}
           V == Seq(W)
           end(i) == HeaderPair(text, i).end
           E(i) == SpacesEnd(text, end(i) + 1)
           More(i) == end(i) # 0 /\ Is(text, end(i), Semicolon)
           next == [i \in 1 .. L |-> IF More(i) THEN E(i) ELSE L + 1]
           base == [i \in 1 .. L |-> PairsFrom(text, i, <<>>)]
           step == [i \in 1 .. L |-> [x \in V |-> PairsFrom(text, i, x)]]
           Body(g, i) == PairsFrom(text, i, g[SpacesEnd(text, HeaderPair(text, i).end + 1)])
           Eqn(g) == g = [i \in 1 .. L |-> Body(g, i)]
           chosen == CHOOSE g : Eqn(g)
<1>1. L \in Nat /\ n \in Nat /\ DOMAIN text = 1 .. n
  OBVIOUS
<1>2. ASSUME NEW i \in 1 .. L, More(i) PROVE E(i) \in 1 .. L /\ E(i) > i
  <2>1. end(i) \in i .. n + 2
    BY <1>2, HeaderPairEnd, Zenon
  <2> DEFINE l == end(i) + 1
  <2> HIDE DEF end
  <2>2. l \in i + 1 .. n + 1 /\ l \in 1 .. n + 1
    BY <1>1, <1>2, <2>1 DEF Is
  <2>3. l \in 1 .. Len(text) + 1
    BY <2>2, Zenon
  <2> HIDE DEF l
  <2>4. SpacesEnd(text, l) \in l .. Len(text) + 1
    BY <2>3, RunEnds, Zenon
  <2>5. E(i) \in l .. n + 1
    BY <2>4, Zenon DEF l
  <2> HIDE DEF E, n
  <2> QED
    BY <1>1, <2>2, <2>5
<1>3. ASSUME NEW i \in 1 .. L, NEW x \in V PROVE PairsFrom(text, i, x) \in V
  <2> DEFINE p == HeaderPair(text, i)
  <2>1. p \in W
    BY Zenon
  <2> HIDE DEF p, W
  <2>2. <<p>> \in V /\ <<>> \in V
    BY <2>1
  <2>3. <<p>> \o x \in V /\ <<p>> \o <<>> \in V
    BY <2>2
  <2> HIDE DEF V
  <2> QED
    BY <2>2, <2>3, Zenon DEF PairsFrom, p
<1>4. next \in [1 .. L -> Nat] /\ \A i \in 1 .. L : next[i] > i
  <2> HIDE DEF E, More
  <2>1. \A i \in 1 .. L : IF More(i) THEN E(i) \in Nat /\ E(i) > i ELSE L + 1 > i
    BY <1>1, <1>2
  <2> QED
    BY <1>1, <2>1
<1>5. base \in [1 .. L -> V]
  <2>1. <<>> \in V
    OBVIOUS
  <2> HIDE DEF V
  <2> QED
    BY <1>3, <2>1, Zenon
<1>6. step \in [1 .. L -> [V -> V]]
  <2> HIDE DEF V
  <2> QED
    BY <1>3
<1>7. PICK f \in [1 .. L -> V] :
        \A i \in 1 .. L : f[i] = IF next[i] > L THEN base[i] ELSE step[i][f[next[i]]]
  <2> HIDE DEF L, V, next, base, step
  <2>1. Recursive(L, V, next, base, step)
    BY <1>1, <1>4, <1>5, <1>6, Zenon DEF Recursive
  <2> QED
    BY <2>1, Recursion
<1>8. ASSUME NEW i \in 1 .. L PROVE f[i] = Body(f, i)
  <2>1. CASE More(i)
    <3>1. E(i) \in 1 .. L
      BY <1>2, <2>1, Zenon
    <3>2. next[i] = E(i) /\ ~ (next[i] > L)
      <4> HIDE DEF E, More
      <4> QED
        BY <1>1, <2>1, <3>1
    <3>3. f[E(i)] \in V
      <4> HIDE DEF E, V
      <4> QED
        BY <3>1, Zenon
    <3>4. step[i][f[E(i)]] = PairsFrom(text, i, f[E(i)])
      <4> HIDE DEF E, V
      <4> QED
        BY <3>3, Zenon
    <3>5. f[i] = step[i][f[E(i)]]
      <4> HIDE DEF next, base, step, L, E, V
      <4> QED
        BY <1>7, <3>2, Zenon
    <3> HIDE DEF step
    <3> QED
      BY <3>4, <3>5, Zenon
  <2>2. CASE ~ More(i)
    <3>1. next[i] > L /\ base[i] = PairsFrom(text, i, <<>>)
      <4> HIDE DEF More, E
      <4> QED
        BY <1>1, <2>2
    <3>2. f[i] = base[i]
      <4> HIDE DEF next, base, step, L, V
      <4> QED
        BY <1>7, <3>1, Zenon
    <3>3. \A x : PairsFrom(text, i, x) = PairsFrom(text, i, <<>>)
      BY <2>2, Zenon DEF PairsFrom
    <3> HIDE DEF base, next
    <3> QED
      BY <3>1, <3>2, <3>3, Zenon
  <2> QED
    BY <2>1, <2>2, Zenon
<1>9. Eqn(f)
  <2> HIDE DEF Body, V
  <2> QED
    BY <1>8, Zenon
<1>10. Eqn(chosen)
  BY <1>9, Zenon
<1>11. \A i \in 1 .. L : chosen[i] = Body(chosen, i)
  <2> HIDE DEF Body, chosen
  <2> QED
    BY <1>10, Zenon
<1>12. HeaderPairs(text) = chosen[1]
  BY Zenon DEF HeaderPairs, PairsFrom, SpacesEnd
<1> HIDE DEF chosen
<1> QED
  BY <1>11, <1>12, Zenon

(***************************************************************************)
(* parse_boundry_header finds the boundary in the type of a form.          *)
(***************************************************************************)
LEMMA FormTypeIs ==
  FormType \in Seq(Nat) /\ FormType = <<109, 59, 32, 66, 61, 88>>
<1> DEFINE s == <<109, 59, 32, 66, 61>>
           t == <<88>>
           u == <<109, 59, 32, 66, 61, 88>>
<1>1. s \in Seq(Nat) /\ t \in Seq(Nat) /\ u \in Seq(Nat)
  OBVIOUS
<1>2. /\ Len(u) = Len(s) + Len(t)
      /\ \A i \in 1 .. Len(s) : u[i] = s[i]
      /\ \A i \in 1 .. Len(t) : u[Len(s) + i] = t[i]
  OBVIOUS
<1>3. FormType = s \o t
  BY Zenon DEF FormType, Boundary, Semicolon, Space, Equals
<1> HIDE DEF s, t, u
<1>4. s \o t = u
  BY <1>1, <1>2, Joined, Zenon
<1>5. FormType = u /\ u \in Seq(Nat)
  BY <1>1, <1>3, <1>4, Zenon
<1> QED
  BY <1>5, Zenon DEF u

(***************************************************************************)
(* The parameters of the Content-Type of a form.                           *)
(***************************************************************************)
LEMMA FormTypePairs ==
  HeaderPairs(FormType) = <<[name |-> <<109>>, value |-> <<>>, end |-> 2],
                            [name |-> <<66>>, value |-> <<88>>, end |-> 7]>>
<1> DEFINE t == FormType
           p == [name |-> <<109>>, value |-> <<>>, end |-> 2]
           q == [name |-> <<66>>, value |-> <<88>>, end |-> 7]
<1>1. t \in Seq(Nat)
  BY FormTypeIs, Zenon
<1>2. /\ Len(t) = 6 /\ DOMAIN t = 1 .. 6
      /\ t[1] = 109 /\ t[2] = 59 /\ t[3] = 32 /\ t[4] = 66 /\ t[5] = 61 /\ t[6] = 88
  BY FormTypeIs
<1> HIDE DEF t
<1>3. PICK from : /\ HeaderPairs(t) = from[1]
                  /\ \A i \in 1 .. Len(t) + 1 :
                       from[i] = PairsFrom(t, i, from[SpacesEnd(t, HeaderPair(t, i).end + 1)])
  BY <1>1, PairsUnfold, Zenon
<1>4. NameEnd(t, 1) = 2
  <2> DEFINE T == {j \in 1 .. Len(t) + 1 :
                     j = Len(t) + 1 \/ ~ (IsAscii(t[j]) /\ t[j] \notin {Equals, Semicolon})}
             m == 2
  <2>1. m \in T /\ T \in SUBSET Nat
    BY <1>2 DEF Semicolon
  <2>2. 1 \notin T
    BY <1>2 DEF IsAscii, Semicolon, Equals
  <2>3. \A j \in T : m <= j
    BY <2>2
  <2>4. NameEnd(t, 1) = Min(T)
    BY Zenon DEF NameEnd, RunEnd
  <2> HIDE DEF T, m
  <2>5. Min(T) = m
    BY <2>1, <2>3, MinIs, Zenon
  <2> QED
    BY <2>4, <2>5, Zenon DEF m
<1>5. NameEnd(t, 4) = 5
  <2> DEFINE T == {j \in 4 .. Len(t) + 1 :
                     j = Len(t) + 1 \/ ~ (IsAscii(t[j]) /\ t[j] \notin {Equals, Semicolon})}
             m == 5
  <2>1. m \in T /\ T \in SUBSET Nat
    BY <1>2 DEF Equals
  <2>2. 4 \notin T
    BY <1>2 DEF IsAscii, Semicolon, Equals
  <2>3. \A j \in T : m <= j
    BY <2>2
  <2>4. NameEnd(t, 4) = Min(T)
    BY Zenon DEF NameEnd, RunEnd
  <2> HIDE DEF T, m
  <2>5. Min(T) = m
    BY <2>1, <2>3, MinIs
  <2> QED
    BY <2>4, <2>5, Zenon DEF m
<1>6. AsciiEnd(t, 6) = 7
  <2> DEFINE T == {j \in 6 .. Len(t) + 1 : j = Len(t) + 1 \/ ~ IsAscii(t[j])}
             m == 7
  <2>1. m \in T /\ T \in SUBSET Nat
    BY <1>2
  <2>2. 6 \notin T
    BY <1>2 DEF IsAscii
  <2>3. \A j \in T : m <= j
    BY <2>2
  <2>4. AsciiEnd(t, 6) = Min(T)
    BY Zenon DEF AsciiEnd, RunEnd
  <2> HIDE DEF T, m
  <2>5. Min(T) = m
    BY <2>1, <2>3, MinIs
  <2> QED
    BY <2>4, <2>5, Zenon DEF m
<1>7. SpacesEnd(t, 3) = 4
  <2> DEFINE T == {j \in 3 .. Len(t) + 1 : j = Len(t) + 1 \/ ~ (t[j] = Space)}
             m == 4
  <2>1. m \in T /\ T \in SUBSET Nat
    BY <1>2 DEF Space
  <2>2. 3 \notin T
    BY <1>2 DEF Space
  <2>3. \A j \in T : m <= j
    BY <2>2
  <2>4. SpacesEnd(t, 3) = Min(T)
    BY Zenon DEF SpacesEnd, RunEnd
  <2> HIDE DEF T, m
  <2>5. Min(T) = m
    BY <2>1, <2>3, MinIs
  <2> QED
    BY <2>4, <2>5, Zenon DEF m
<1>8. SubSeq(t, 1, 1) = <<109>> /\ SubSeq(t, 4, 4) = <<66>> /\ SubSeq(t, 6, 6) = <<88>>
  <2>1. ASSUME NEW i \in 1 .. Len(t) PROVE SubSeq(t, i, i) = <<t[i]>>
    BY <1>1, OneElement, Zenon
  <2>2. 1 \in 1 .. Len(t) /\ 4 \in 1 .. Len(t) /\ 6 \in 1 .. Len(t)
    BY <1>2
  <2>3. SubSeq(t, 1, 1) = <<t[1]>> /\ SubSeq(t, 4, 4) = <<t[4]>> /\ SubSeq(t, 6, 6) = <<t[6]>>
    BY <2>1, <2>2, Zenon
  <2> QED
    BY <1>2, <2>3, Zenon
<1>9. /\ ~ Is(t, 2, Equals) /\ Is(t, 2, Semicolon)
      /\ Is(t, 5, Equals) /\ ~ Is(t, 6, Quote) /\ ~ Is(t, 7, Semicolon)
  BY <1>2 DEF Is, Equals, Semicolon, Quote
<1>10. HeaderPair(t, 1) = p
  <2>1. HeaderPair(t, 1) = [name |-> SubSeq(t, 1, 2 - 1), value |-> <<>>, end |-> 2]
    BY <1>4, <1>9, Zenon DEF HeaderPair, NameEnd
  <2>2. 2 - 1 = 1
    OBVIOUS
  <2> QED
    BY <1>8, <2>1, <2>2, Zenon
<1>11. HeaderPair(t, 4) = q
  <2>a. 5 + 1 = 6 /\ 7 # 6 /\ 5 # 4
    OBVIOUS
  <2>1. HeaderPair(t, 4) = [name |-> SubSeq(t, 4, 5 - 1), value |-> SubSeq(t, 6, 7 - 1), end |-> 7]
    BY <1>5, <1>6, <1>9, <2>a, Zenon DEF HeaderPair, NameEnd, AsciiEnd
  <2>2. 5 - 1 = 4 /\ 7 - 1 = 6
    OBVIOUS
  <2> QED
    BY <1>8, <2>1, <2>2, Zenon
<1>12. from[4] = <<q>> \o <<>>
  <2>1. 4 \in 1 .. Len(t) + 1
    BY <1>2
  <2>2. from[4] = PairsFrom(t, 4, from[SpacesEnd(t, HeaderPair(t, 4).end + 1)])
    BY <1>3, <2>1, Zenon
  <2>3. HeaderPair(t, 4).end = 7
    BY <1>11
  <2>4. 7 # 0
    OBVIOUS
  <2> HIDE DEF q
  <2> QED
    BY <1>9, <1>11, <2>2, <2>3, <2>4, Zenon DEF PairsFrom
<1>13. from[1] = <<p>> \o from[4]
  <2>1. 1 \in 1 .. Len(t) + 1
    BY <1>2
  <2>2. from[1] = PairsFrom(t, 1, from[SpacesEnd(t, HeaderPair(t, 1).end + 1)])
    BY <1>3, <2>1, Zenon
  <2>3. HeaderPair(t, 1).end = 2
    BY <1>10
  <2>4. 2 + 1 = 3
    OBVIOUS
  <2>5. from[1] = PairsFrom(t, 1, from[4])
    BY <1>7, <2>2, <2>3, <2>4, Zenon
  <2> HIDE DEF p
  <2> QED
    BY <1>9, <1>10, <2>3, <2>5 DEF PairsFrom
<1> HIDE DEF p, q
<1>14. <<q>> \o <<>> = <<q>> /\ <<p>> \o <<q>> = <<p, q>>
  <2>1. p \in {p, q} /\ q \in {p, q}
    BY Zenon
  <2> QED
    BY <2>1, JoinedOne, Zenon
<1>15. HeaderPairs(t) = <<p, q>>
  BY <1>3, <1>12, <1>13, <1>14, Zenon
<1> QED
  BY <1>15, Zenon DEF t, p, q

(***************************************************************************)
(* The boundary that parse_boundry_header finds in it.                     *)
(***************************************************************************)
LEMMA FormBoundary ==
  attributeValue(MapOf(HeaderPairs(FormType)), <<98>>) = {Boundary}
<1> DEFINE p == [name |-> <<109>>, value |-> <<>>, end |-> 2]
           q == [name |-> <<66>>, value |-> <<88>>, end |-> 7]
           pairs == <<p, q>>
           m == MapOf(pairs)
           P == {p, q}
           T == {<<>>, <<88>>}
           a == <<109>>
           b == <<66>>
           c == <<98>>
           x == <<88>>
<1>1. pairs \in Seq(P) /\ Len(pairs) = 2 /\ pairs[1] = p /\ pairs[2] = q
  OBVIOUS
<1>2. a # b
  OBVIOUS
<1>a. p.name = a /\ q.name = b /\ q.value = x /\ p.value = <<>>
  BY Zenon
<1>b. <<>> \in T /\ x \in T
  BY Zenon
<1> HIDE DEF p, q, pairs, a, b, x, T
<1>3. DistinctNames(pairs, P, T)
  <2>1. \A r \in P : r.value \in T
    BY <1>a, <1>b, Zenon
  <2>2. \A j \in 1 .. 2 : j = 1 \/ j = 2
    OBVIOUS
  <2>3. \A j, k \in 1 .. 2 : pairs[j].name = pairs[k].name => j = k
    BY <1>1, <1>2, <1>a, <2>2, Zenon
  <2> QED
    BY <1>1, <2>1, <2>3, Zenon DEF DistinctNames
<1>4. m[b] = x
  <2> DEFINE k == 2
  <2>1. k \in 1 .. Len(pairs) /\ pairs[k].name = b /\ pairs[k].value = x
    BY <1>1, <1>a
  <2> HIDE DEF k, P
  <2>2. MapOf(pairs)[b] = pairs[k].value
    BY <1>3, <2>1, MapOfValue
  <2> QED
    BY <2>1, <2>2, Zenon
<1>5. DOMAIN m = {a, b}
  <2>1. DOMAIN m = {pairs[k].name : k \in DOMAIN pairs}
    BY Zenon DEF MapOf
  <2>2. DOMAIN pairs = 1 .. 2
    BY <1>1
  <2>3. 1 \in 1 .. 2 /\ 2 \in 1 .. 2 /\ \A k \in 1 .. 2 : k = 1 \/ k = 2
    OBVIOUS
  <2>4. pairs[1].name = a /\ pairs[2].name = b
    BY <1>1, <1>a, Zenon
  <2> HIDE DEF m
  <2> QED
    BY <2>1, <2>2, <2>3, <2>4, Zenon
<1>6. Lower(b) = Lower(c) /\ Lower(a) # Lower(c)
  <2>1. DOMAIN b = {1} /\ DOMAIN c = {1} /\ DOMAIN a = {1} /\ a[1] = 109 /\ b[1] = 66 /\ c[1] = 98
    BY DEF a, b
  <2>2. Lower(a)[1] = 109 /\ Lower(c)[1] = 98
    BY <2>1 DEF Lower, ToLower
  <2> HIDE DEF c
  <2>3. Lower(b) = [i \in {1} |-> 98] /\ Lower(c) = [i \in {1} |-> 98]
    BY <2>1 DEF Lower, ToLower
  <2> QED
    BY <2>2, <2>3
<1> HIDE DEF m, c
<1>7. {d \in DOMAIN m : Lower(d) = Lower(c)} = {b}
  BY <1>5, <1>6, Zenon
<1>8. attributeValue(m, c) = {x}
  BY <1>4, <1>7, Zenon DEF attributeValue
<1>9. HeaderPairs(FormType) = pairs
  BY FormTypePairs, Zenon DEF pairs, p, q
<1> QED
  BY <1>8, <1>9, Zenon DEF m, c, x, Boundary
============================================================================
