-------------------------- MODULE EnumerationProofs --------------------------
(***************************************************************************)
(* Proofs about Enumeration: for every set of contents, every page size    *)
(* and every batch size of at least two, a finished walk has skipped no    *)
(* key and what it lists is sorted.                                        *)
(***************************************************************************)
EXTENDS Enumeration, CommonLemmas

(***************************************************************************)
(* What paginate has gone through so far.  While it runs, every key of the *)
(* start up to the iterator is listed or in the page; between two pages,   *)
(* every key before the next page is listed.                               *)
(***************************************************************************)
In(k, s) == \E i \in DOMAIN s : s[i] = k

UpTo(n) == \A k \in start : KeyLeq(k, n) => In(k, listed) \/ In(k, page)

AtIterator ==
  /\ it \in Keys
  /\ page # <<>>
  /\ page[Len(page)] = it
  /\ UpTo(it)

CoverInv ==
  /\ pc = "seek" =>
       /\ page = <<>>
       /\ after # NoKey => \A k \in start : KeyLess(k, after) => In(k, listed)
  /\ pc = "next" => AtIterator /\ Len(page) < Count
  /\ pc = "page" =>
       \/ AtIterator /\ Len(page) = Count
       \/ Len(page) < Count /\ \A k \in start : In(k, listed) \/ In(k, page)
  /\ NothingSkipped

(***************************************************************************)
(* The order between what is listed, where the next page begins, and what  *)
(* the page holds.                                                         *)
(***************************************************************************)
Strict(s) == \A i, j \in DOMAIN s : i < j => KeyLess(s[i], s[j])

BeforeAfter ==
  IF after = NoKey
  THEN listed = <<>>
  ELSE \A i \in DOMAIN listed :
         \/ KeyLess(listed[i], after)
         \/ mode = "send" /\ i = Len(listed) /\ listed[i] = after

OrderInv ==
  /\ SortedListing
  /\ Strict(page)
  /\ after # NoKey => \A i \in DOMAIN page : KeyLeq(after, page[i])
  /\ pc \in {"seek", "next", "page"} => BeforeAfter
  /\ pc = "next" => page # <<>> /\ it = page[Len(page)]

------------------------------------------------------------------------------
(***************************************************************************)
(* Type correctness of the walk.                                           *)
(***************************************************************************)
THEOREM WalkTypeCorrect == Spec => []TypeOK
<1>1. Init => TypeOK
  BY DEF Init, TypeOK
<1>2. TypeOK /\ [Next]_vars => TypeOK'
  <2> SUFFICES ASSUME TypeOK, [Next]_vars PROVE TypeOK'
    BY Zenon
  <2> USE DEF TypeOK
  <2>1. ASSUME NEW n \in Keys \cup {NoKey}, Visit(n)
        PROVE  /\ pc' \in {"next", "page"}
               /\ it' \in Keys \cup {NoKey}
               /\ page' \in Seq(Keys)
    BY <2>1 DEF Visit
  <2>2. CASE Seek
    BY <2>1, <2>2, Zenon DEF Seek
  <2>3. CASE Advance
    BY <2>1, <2>3, Zenon DEF Advance
  <2>4. CASE GetPage
    <3>1. \A s, t \in Seq(Keys) : s \o t \in Seq(Keys)
      OBVIOUS
    <3>2. CASE Len(page) > Limit
      <4>1. SubSeq(page, 1, Limit) \in Seq(Keys) /\ page[Len(page)] \in Keys
        BY <3>2, LimitAssumption
      <4>2. ~ (Len(page) <= Limit)
        BY <3>2, LimitAssumption
      <4>3. /\ listed' = listed \o SubSeq(page, 1, Limit)
            /\ after' = page[Len(page)]
            /\ pc' = "seek"
        BY <2>4, <4>2, Zenon DEF GetPage
      <4>4. listed' \in Seq(Keys)
        BY <3>1, <4>1, <4>3, Zenon
      <4> QED
        BY <2>4, <4>1, <4>3, <4>4 DEF GetPage
    <3>3. CASE ~ (Len(page) > Limit)
      <4>1. listed' = listed \o page /\ pc' = "done" /\ after' = after
        BY <2>4, <3>3, Zenon DEF GetPage
      <4>2. listed' \in Seq(Keys)
        BY <3>1, <4>1, Zenon
      <4> QED
        BY <2>4, <4>1, <4>2 DEF GetPage
    <3> QED
      BY <3>2, <3>3, Zenon
  <2>5. CASE SendPage
    <3>1. Len(page) = Batch => page[Len(page)] \in Keys
      BY BatchAssumption
    <3> QED
      BY <2>5, <3>1 DEF SendPage
  <2>6. CASE Fail
    BY <2>6 DEF Fail
  <2>7. CASE \E k \in Keys : Insert(k)
    BY <2>7, Zenon DEF Insert
  <2>8. CASE UNCHANGED vars
    BY <2>8, Zenon DEF vars
  <2> QED
    BY <2>2, <2>3, <2>4, <2>5, <2>6, <2>7, <2>8, Zenon DEF Next, Loop
<1> QED
  BY <1>1, <1>2, PTL DEF Spec

------------------------------------------------------------------------------
(***************************************************************************)
(* Membership in a sequence that is extended or concatenated.              *)
(***************************************************************************)
LEMMA InFacts ==
  ASSUME NEW s \in Seq(Keys), NEW t \in Seq(Keys), NEW k \in Keys, NEW n \in Keys
  PROVE  /\ In(k, s) => In(k, s \o t)
         /\ In(k, t) => In(k, s \o t)
         /\ In(k, s) => In(k, Append(s, n))
         /\ In(n, Append(s, n))
<1>1. ASSUME NEW i \in DOMAIN s PROVE i \in DOMAIN (s \o t) /\ (s \o t)[i] = s[i]
  OBVIOUS
<1>2. ASSUME NEW i \in DOMAIN t
      PROVE  Len(s) + i \in DOMAIN (s \o t) /\ (s \o t)[Len(s) + i] = t[i]
  OBVIOUS
<1>3. ASSUME NEW i \in DOMAIN s
      PROVE  i \in DOMAIN Append(s, n) /\ Append(s, n)[i] = s[i]
  OBVIOUS
<1>4. Len(s) + 1 \in DOMAIN Append(s, n) /\ Append(s, n)[Len(s) + 1] = n
  OBVIOUS
<1> QED
  BY <1>1, <1>2, <1>3, <1>4, Zenon DEF In

(***************************************************************************)
(* Visiting the first key n behind a covered part extends the covered part *)
(* to n; finding none covers everything.                                   *)
(***************************************************************************)
LEMMA VisitCovers ==
  ASSUME TypeOK, NEW n \in Keys \cup {NoKey}, Visit(n),
         UNCHANGED <<index, mode, after, listed, start>>,
         pc \in {"seek", "next"}, Len(page) < Count,
         NEW From \in SUBSET index, IsFirst(n, From),
         \A k \in start : k \in From \/ In(k, listed) \/ In(k, page)
  PROVE  CoverInv'
<1> USE DEF TypeOK
<1>1. Count \in Nat \ {0} /\ Count' = Count
  BY LimitAssumption, BatchAssumption DEF Count
<1>2. CASE n = NoKey
  <2>1. \A k \in start : In(k, listed) \/ In(k, page)
    BY <1>2, KeyAssumption, Zenon DEF IsFirst
  <2>2. pc' = "page" /\ page' = page /\ it' = it
    BY <1>2, Zenon DEF Visit
  <2> QED
    BY <1>1, <2>1, <2>2, Zenon DEF CoverInv, NothingSkipped, In
<1>3. CASE n \in Keys
  <2>1. /\ it' = n
        /\ page' = Append(page, n)
        /\ pc' = IF Len(page) + 1 >= Count THEN "page" ELSE "next"
    BY <1>3, KeyAssumption, Zenon DEF Visit
  <2>2. \A k \in From : KeyLeq(n, k)
    BY <1>3, KeyAssumption, Zenon DEF IsFirst
  <2>3. ASSUME NEW k \in start, KeyLeq(k, n)
        PROVE  In(k, listed) \/ In(k, page')
    <3>1. k \in Keys
      BY Zenon
    <3>2. CASE k \in From
      <4>1. k = n
        BY <1>3, <2>2, <2>3, <3>1, <3>2, KeyOrder, Zenon DEF KeyLeq
      <4> QED
        BY <1>3, <2>1, <3>1, <4>1, InFacts, Zenon
    <3>3. CASE In(k, page)
      BY <1>3, <2>1, <3>1, <3>3, InFacts, Zenon
    <3> QED
      BY <3>2, <3>3, Zenon
  <2>4. /\ page' # <<>>
        /\ Len(page') = Len(page) + 1
        /\ page'[Len(page')] = n
    BY <1>3, <2>1
  <2>5. AtIterator'
    BY <1>3, <2>1, <2>3, <2>4, Zenon DEF AtIterator, UpTo, In
  <2>6. pc' = "next" => Len(page') < Count
    BY <1>1, <2>1, <2>4
  <2>7. pc' = "page" => Len(page') = Count
    BY <1>1, <2>1, <2>4
  <2> QED
    BY <1>1, <2>1, <2>5, <2>6, <2>7, Zenon DEF CoverInv, NothingSkipped
<1> QED
  BY <1>2, <1>3, Zenon

(***************************************************************************)
(* Every step keeps the walk covered.                                      *)
(***************************************************************************)
LEMMA CoverStep == TypeOK /\ TypeOK' /\ CoverInv /\ [Next]_vars => CoverInv'
<1> SUFFICES ASSUME TypeOK, TypeOK', CoverInv, [Next]_vars PROVE CoverInv'
  BY Zenon
<1> USE DEF TypeOK
<1>0. Count \in Nat \ {0} /\ Count = IF mode = "get" THEN Limit + 1 ELSE Batch
  BY LimitAssumption, BatchAssumption DEF Count
<1>1. CASE Seek
  <2> DEFINE From == {k \in index : after = NoKey \/ KeyLeq(after, k)}
  <2>1. PICK n \in Keys \cup {NoKey} : IsFirst(n, From) /\ Visit(n)
    BY <1>1, Zenon DEF Seek
  <2>2. pc = "seek" /\ UNCHANGED <<index, mode, after, listed, start>>
    BY <1>1, Zenon DEF Seek
  <2>3. page = <<>> /\ Len(page) < Count
    BY <1>0, <2>2 DEF CoverInv
  <2>4. \A k \in start : k \in From \/ In(k, listed) \/ In(k, page)
    BY <2>2, Zenon DEF CoverInv, KeyLeq
  <2>5. From \in SUBSET index
    BY Zenon
  <2> HIDE DEF From
  <2> QED
    BY <2>1, <2>2, <2>3, <2>4, <2>5, VisitCovers, Zenon
<1>2. CASE Advance
  <2> DEFINE From == {k \in index : KeyLess(it, k)}
  <2>1. PICK n \in Keys \cup {NoKey} : IsFirst(n, From) /\ Visit(n)
    BY <1>2, Zenon DEF Advance
  <2>2. pc = "next" /\ UNCHANGED <<index, mode, after, listed, start>>
    BY <1>2, Zenon DEF Advance
  <2>3. AtIterator /\ Len(page) < Count
    BY <2>2, Zenon DEF CoverInv
  <2>4. \A k \in start : k \in From \/ In(k, listed) \/ In(k, page)
    BY <2>3, Zenon DEF AtIterator, UpTo, KeyLeq
  <2>5. From \in SUBSET index
    BY Zenon
  <2> HIDE DEF From
  <2> QED
    BY <2>1, <2>2, <2>3, <2>4, <2>5, VisitCovers, Zenon
<1>3. CASE GetPage
  <2>1. pc = "page" /\ mode = "get" /\ page' = <<>> /\ start' = start
    BY <1>3, Zenon DEF GetPage
  <2>2. CASE Len(page) > Limit
    <3>1. ~ (Len(page) <= Limit) /\ ~ (Len(page) < Count)
      BY <1>0, <2>1, <2>2, LimitAssumption
    <3>2. AtIterator /\ Len(page) = Limit + 1
      BY <1>0, <2>1, <3>1, Zenon DEF CoverInv
    <3>3. /\ listed' = listed \o SubSeq(page, 1, Limit)
          /\ after' = it
          /\ pc' = "seek"
      BY <1>3, <3>1, <3>2, Zenon DEF GetPage, AtIterator
    <3>4. ASSUME NEW k \in start, KeyLess(k, it)
          PROVE  In(k, listed')
      <4>1. k \in Keys /\ it \in Keys
        BY <3>2, Zenon DEF AtIterator
      <4>2. KeyLeq(k, it) /\ k # it
        BY <3>4, <4>1, KeyOrder, Zenon DEF KeyLeq
      <4>3. SubSeq(page, 1, Limit) \in Seq(Keys)
        BY <3>2, LimitAssumption
      <4>4. CASE In(k, listed)
        BY <3>3, <4>1, <4>3, <4>4, InFacts, Zenon
      <4>5. CASE In(k, page)
        <5>1. PICK i \in DOMAIN page : page[i] = k
          BY <4>5, Zenon DEF In
        <5>2. i # Limit + 1
          BY <3>2, <4>2, <5>1, Zenon DEF AtIterator
        <5>3. /\ i \in DOMAIN SubSeq(page, 1, Limit)
              /\ SubSeq(page, 1, Limit)[i] = k
          BY <3>2, <5>1, <5>2, LimitAssumption
        <5>4. In(k, SubSeq(page, 1, Limit))
          BY <5>3, Zenon DEF In
        <5> QED
          BY <3>3, <4>1, <4>3, <5>4, InFacts, Zenon
      <4> QED
        BY <3>2, <4>2, <4>4, <4>5, Zenon DEF AtIterator, UpTo
    <3> QED
      BY <2>1, <3>3, <3>4, Zenon DEF CoverInv, NothingSkipped
  <2>3. CASE ~ (Len(page) > Limit)
    <3>1. Len(page) # Count
      BY <1>0, <2>1, <2>3, LimitAssumption
    <3>2. \A k \in start : In(k, listed) \/ In(k, page)
      BY <2>1, <3>1, Zenon DEF CoverInv
    <3>3. pc' = "done" /\ listed' = listed \o page
      BY <1>3, <2>3, Zenon DEF GetPage
    <3>4. \A k \in start : In(k, listed')
      BY <3>2, <3>3, InFacts, Zenon
    <3> QED
      BY <2>1, <3>3, <3>4, Zenon DEF CoverInv, NothingSkipped, In
  <2> QED
    BY <2>2, <2>3, Zenon
<1>4. CASE SendPage
  <2>1. /\ pc = "page" /\ mode = "send" /\ page' = <<>> /\ start' = start
        /\ listed' = listed \o page
    BY <1>4, Zenon DEF SendPage
  <2>2. \A k \in start : In(k, listed) \/ In(k, page) => In(k, listed')
    BY <2>1, InFacts, Zenon
  <2>3. CASE Len(page) = Batch
    <3>1. AtIterator
      BY <1>0, <2>1, <2>3, BatchAssumption DEF CoverInv
    <3>2. after' = it /\ pc' = "seek"
      BY <1>4, <2>3, <3>1, Zenon DEF SendPage, AtIterator
    <3>3. \A k \in start : KeyLess(k, it) => In(k, listed')
      BY <2>2, <3>1, KeyOrder, Zenon DEF AtIterator, UpTo, KeyLeq
    <3> QED
      BY <2>1, <3>2, <3>3, Zenon DEF CoverInv, NothingSkipped
  <2>4. CASE Len(page) # Batch
    <3>1. pc' = "done"
      BY <1>4, <2>4, Zenon DEF SendPage
    <3>2. \A k \in start : In(k, listed')
      BY <1>0, <2>1, <2>2, <2>4, Zenon DEF CoverInv
    <3> QED
      BY <2>1, <3>1, <3>2, Zenon DEF CoverInv, NothingSkipped, In
  <2> QED
    BY <2>3, <2>4, Zenon
<1>5. CASE Fail
  BY <1>5, Zenon DEF Fail, CoverInv, NothingSkipped
<1>6. CASE (\E k \in Keys : Insert(k)) \/ UNCHANGED vars
  <2>1. UNCHANGED <<mode, pc, after, it, page, listed, start>>
    BY <1>6, Zenon DEF Insert, vars
  <2> QED
    BY <2>1, Zenon DEF CoverInv, AtIterator, UpTo, In, NothingSkipped, Count
<1> QED
  BY <1>1, <1>2, <1>3, <1>4, <1>5, <1>6, Zenon DEF Next, Loop

(***************************************************************************)
(* No key is skipped (BlobIndex::paginate with handle_enumerate's          *)
(* continueAfter, and with the send loop's batches).                       *)
(***************************************************************************)
THEOREM EnumerationComplete == Spec => []NothingSkipped
<1>1. Init => CoverInv
  BY Zenon DEF Init, CoverInv, NothingSkipped
<1>2. CoverInv => NothingSkipped
  BY Zenon DEF CoverInv
<1> QED
  BY <1>1, <1>2, CoverStep, WalkTypeCorrect, PTL DEF Spec

------------------------------------------------------------------------------
(***************************************************************************)
(* Visiting a key that is behind the page keeps the page sorted.           *)
(***************************************************************************)
LEMMA VisitOrders ==
  ASSUME TypeOK, OrderInv, NEW n \in Keys \cup {NoKey}, Visit(n),
         pc \in {"seek", "next"},
         UNCHANGED <<index, mode, after, listed, start>>,
         n # NoKey => /\ \A i \in DOMAIN page : KeyLess(page[i], n)
                      /\ after # NoKey => KeyLeq(after, n)
  PROVE  OrderInv'
<1> USE DEF TypeOK
<1>1. BeforeAfter' /\ SortedListing'
  BY Zenon DEF OrderInv, BeforeAfter, SortedListing
<1>2. CASE n = NoKey
  <2>1. page' = page /\ it' = it /\ pc' = "page"
    BY <1>2, Zenon DEF Visit
  <2> QED
    BY <1>1, <2>1, Zenon DEF OrderInv, Strict
<1>3. CASE n # NoKey
  <2>1. it' = n /\ page' = Append(page, n) /\ n \in Keys
    BY <1>3, Zenon DEF Visit
  <2>2. /\ DOMAIN page' = 1 .. Len(page) + 1
        /\ DOMAIN page = 1 .. Len(page)
        /\ Len(page') = Len(page) + 1
        /\ page'[Len(page) + 1] = n
        /\ \A i \in DOMAIN page : page'[i] = page[i]
    BY <2>1
  <2>3. Strict(page')
    <3> SUFFICES ASSUME NEW i \in DOMAIN page', NEW j \in DOMAIN page', i < j
                 PROVE  KeyLess(page'[i], page'[j])
      BY Zenon DEF Strict
    <3>1. i \in DOMAIN page
      BY <2>2
    <3>2. CASE j = Len(page) + 1
      BY <1>3, <2>2, <3>1, <3>2, Zenon
    <3>3. CASE j \in DOMAIN page
      BY <2>2, <3>1, <3>3, Zenon DEF OrderInv, Strict
    <3> QED
      BY <2>2, <3>2, <3>3
  <2>4. after' # NoKey => \A i \in DOMAIN page' : KeyLeq(after', page'[i])
    <3> SUFFICES ASSUME after # NoKey, NEW i \in DOMAIN page'
                 PROVE  KeyLeq(after, page'[i])
      BY Zenon
    <3>1. CASE i = Len(page) + 1
      BY <1>3, <2>2, <3>1, Zenon
    <3>2. CASE i \in DOMAIN page
      BY <2>2, <3>2, Zenon DEF OrderInv
    <3> QED
      BY <2>2, <3>1, <3>2
  <2>5. page' # <<>> /\ it' = page'[Len(page')]
    BY <2>1, <2>2
  <2> QED
    BY <1>1, <2>3, <2>4, <2>5, Zenon DEF OrderInv
<1> QED
  BY <1>2, <1>3, Zenon

(***************************************************************************)
(* Appending a sorted part t of the page to what is listed: the listing    *)
(* stays sorted, and everything in it precedes the last key of the page,   *)
(* or is that key at the end of the listing.                               *)
(***************************************************************************)
LEMMA AppendOrders ==
  ASSUME TypeOK, OrderInv, BeforeAfter, NEW t \in Seq(Keys), Strict(t),
         after # NoKey => \A i \in DOMAIN t : KeyLeq(after, t[i]),
         listed' = listed \o t
  PROVE  /\ \A i, j \in DOMAIN listed' : i < j =>
              \/ KeyLess(listed'[i], listed'[j])
              \/ mode = "send" /\ listed'[i] = listed'[j] /\ j = i + 1
         /\ \A i \in DOMAIN listed, j \in DOMAIN t :
              KeyLess(listed[i], t[j]) \/ (mode = "send" /\ j = 1)
<1> USE DEF TypeOK
<1>1. /\ DOMAIN listed = 1 .. Len(listed)
      /\ DOMAIN t = 1 .. Len(t)
      /\ DOMAIN listed' = 1 .. Len(listed) + Len(t)
      /\ Len(listed) \in Nat /\ Len(t) \in Nat
      /\ \A i \in DOMAIN listed : listed'[i] = listed[i] /\ listed[i] \in Keys
      /\ \A j \in DOMAIN t : listed'[Len(listed) + j] = t[j] /\ t[j] \in Keys
  OBVIOUS
<1>2. ASSUME NEW i \in DOMAIN listed, NEW j \in DOMAIN t
      PROVE  \/ KeyLess(listed[i], t[j])
             \/ mode = "send" /\ j = 1 /\ i = Len(listed) /\ listed[i] = t[j]
  <2>1. after \in Keys
    BY <1>1 DEF BeforeAfter
  <2>2. listed[i] \in Keys /\ t[j] \in Keys /\ KeyLeq(after, t[j])
    BY <1>1, <2>1, KeyAssumption, Zenon
  <2>3. CASE KeyLess(listed[i], after)
    BY <2>1, <2>2, <2>3, KeyOrder, Zenon DEF KeyLeq
  <2>4. CASE mode = "send" /\ i = Len(listed) /\ listed[i] = after
    <3>1. CASE j = 1
      BY <2>1, <2>2, <2>4, <3>1, KeyOrder, Zenon DEF KeyLeq
    <3>2. CASE j # 1
      <4>1. 1 \in DOMAIN t /\ 1 < j
        BY <1>1, <3>2
      <4>2. KeyLess(t[1], t[j]) /\ t[1] \in Keys /\ KeyLeq(after, t[1])
        BY <1>1, <2>1, <4>1, KeyAssumption, Zenon DEF Strict
      <4> QED
        BY <2>1, <2>2, <2>4, <4>2, KeyOrder, Zenon DEF KeyLeq
    <3> QED
      BY <3>1, <3>2, Zenon
  <2> QED
    BY <2>1, <2>3, <2>4, KeyAssumption, Zenon DEF BeforeAfter
<1>3. ASSUME NEW i \in DOMAIN listed', NEW j \in DOMAIN listed', i < j
      PROVE  \/ KeyLess(listed'[i], listed'[j])
             \/ mode = "send" /\ listed'[i] = listed'[j] /\ j = i + 1
  <2>1. CASE j \in DOMAIN listed
    BY <1>1, <1>3, <2>1 DEF OrderInv, SortedListing
  <2>2. CASE i \in DOMAIN listed /\ j \notin DOMAIN listed
    <3>1. j - Len(listed) \in DOMAIN t /\ j = Len(listed) + (j - Len(listed))
      BY <1>1, <2>2
    <3>2. listed'[j] = t[j - Len(listed)] /\ listed'[i] = listed[i]
      BY <1>1, <2>2, <3>1, Zenon
    <3> QED
      BY <1>1, <1>2, <2>2, <3>1, <3>2, Zenon
  <2>3. CASE i \notin DOMAIN listed
    <3>1. /\ i - Len(listed) \in DOMAIN t /\ i = Len(listed) + (i - Len(listed))
          /\ j - Len(listed) \in DOMAIN t /\ j = Len(listed) + (j - Len(listed))
          /\ i - Len(listed) < j - Len(listed)
      BY <1>1, <1>3, <2>3
    <3>2. listed'[i] = t[i - Len(listed)] /\ listed'[j] = t[j - Len(listed)]
      BY <1>1, <3>1, Zenon
    <3> QED
      BY <3>1, <3>2, Zenon DEF Strict
  <2> QED
    BY <1>1, <1>3, <2>1, <2>2, <2>3, Zenon
<1> QED
  BY <1>2, <1>3, Zenon

(***************************************************************************)
(* Every step keeps the order.                                             *)
(***************************************************************************)
LEMMA OrderStep == TypeOK /\ CoverInv /\ OrderInv /\ [Next]_vars => OrderInv'
<1> SUFFICES ASSUME TypeOK, CoverInv, OrderInv, [Next]_vars PROVE OrderInv'
  BY Zenon
<1> USE DEF TypeOK
<1>1. CASE Seek
  <2>1. PICK n \in Keys \cup {NoKey} :
          /\ IsFirst(n, {k \in index : after = NoKey \/ KeyLeq(after, k)})
          /\ Visit(n)
    BY <1>1, Zenon DEF Seek
  <2>2. pc = "seek" /\ UNCHANGED <<index, mode, after, listed, start>>
    BY <1>1, Zenon DEF Seek
  <2>3. n # NoKey => after = NoKey \/ KeyLeq(after, n)
    BY <2>1, Zenon DEF IsFirst
  <2>4. page = <<>>
    BY <2>2, Zenon DEF CoverInv
  <2> QED
    BY <2>1, <2>2, <2>3, <2>4, VisitOrders
<1>2. CASE Advance
  <2>1. PICK n \in Keys \cup {NoKey} :
          IsFirst(n, {k \in index : KeyLess(it, k)}) /\ Visit(n)
    BY <1>2, Zenon DEF Advance
  <2>2. pc = "next" /\ UNCHANGED <<index, mode, after, listed, start>>
    BY <1>2, Zenon DEF Advance
  <2>3. /\ it \in Keys
        /\ page # <<>>
        /\ it = page[Len(page)]
    BY <2>2, Zenon DEF CoverInv, AtIterator
  <2>4. ASSUME n # NoKey
        PROVE  /\ \A i \in DOMAIN page : KeyLess(page[i], n)
               /\ after # NoKey => KeyLeq(after, n)
    <3>1. n \in Keys /\ KeyLess(it, n)
      BY <2>1, <2>4, Zenon DEF IsFirst
    <3>2. Len(page) \in DOMAIN page /\ DOMAIN page = 1 .. Len(page)
      BY <2>3
    <3>3. \A i \in DOMAIN page :
            page[i] \in Keys /\ (KeyLess(page[i], it) \/ page[i] = it)
      BY <2>3, <3>2 DEF OrderInv, Strict
    <3>4. \A i \in DOMAIN page : KeyLess(page[i], n)
      BY <2>3, <3>1, <3>3, KeyOrder, Zenon
    <3>5. after # NoKey => KeyLeq(after, it)
      BY <2>3, <3>2, Zenon DEF OrderInv
    <3>6. after # NoKey => KeyLeq(after, n)
      BY <2>3, <3>1, <3>5, KeyOrder, Zenon DEF KeyLeq
    <3> QED
      BY <3>4, <3>6, Zenon
  <2> QED
    BY <2>1, <2>2, <2>4, VisitOrders, Zenon
<1>3. CASE GetPage
  <2>1. /\ pc = "page" /\ mode = "get" /\ mode' = mode /\ page' = <<>>
        /\ BeforeAfter
    BY <1>3, Zenon DEF GetPage, OrderInv
  <2>2. CASE Len(page) > Limit
    <3> DEFINE t == SubSeq(page, 1, Limit)
    <3>1. Len(page) = Limit + 1
      BY <2>1, <2>2, LimitAssumption DEF CoverInv, Count
    <3>2. /\ listed' = listed \o t
          /\ after' = page[Limit + 1]
          /\ pc' = "seek"
      BY <1>3, <3>1, LimitAssumption DEF GetPage
    <3>3. /\ t \in Seq(Keys)
          /\ DOMAIN t = 1 .. Limit
          /\ DOMAIN page = 1 .. Limit + 1
          /\ \A i \in DOMAIN t : t[i] = page[i]
      BY <3>1, LimitAssumption
    <3> HIDE DEF t
    <3>4. Strict(t) /\ (after # NoKey => \A i \in DOMAIN t : KeyLeq(after, t[i]))
      BY <3>3, LimitAssumption DEF OrderInv, Strict
    <3>5. SortedListing'
      BY <2>1, <3>2, <3>3, <3>4, AppendOrders, Zenon DEF SortedListing
    <3>6. ASSUME NEW i \in DOMAIN listed' PROVE KeyLess(listed'[i], after')
      <4>1. after' \in Keys /\ \A j \in DOMAIN t : KeyLess(t[j], after') /\ t[j] \in Keys
        <5>1. Limit + 1 \in DOMAIN page /\ page[Limit + 1] \in Keys
          BY <3>3, LimitAssumption
        <5>2. \A j \in DOMAIN t : j \in DOMAIN page /\ j < Limit + 1 /\ t[j] \in Keys
          BY <3>3, LimitAssumption
        <5>3. \A j \in DOMAIN t : KeyLess(page[j], page[Limit + 1])
          BY <5>1, <5>2, Zenon DEF OrderInv, Strict
        <5> QED
          BY <3>2, <3>3, <5>1, <5>2, <5>3, Zenon
      <4>2. CASE i \in DOMAIN listed
        <5>1. 1 \in DOMAIN t /\ listed[i] \in Keys
          BY <3>3, <4>2, LimitAssumption
        <5>2. KeyLess(listed[i], t[1])
          BY <2>1, <3>2, <3>3, <3>4, <4>2, <5>1, AppendOrders, Zenon
        <5>3. listed'[i] = listed[i]
          BY <3>2, <3>3, <4>2
        <5> QED
          BY <4>1, <5>1, <5>2, <5>3, KeyOrder, Zenon
      <4>3. CASE i \notin DOMAIN listed
        <5>1. i - Len(listed) \in DOMAIN t /\ listed'[i] = t[i - Len(listed)]
          BY <3>2, <3>3, <4>3, TailElement, ZenonT(30)
        <5> QED
          BY <4>1, <5>1, Zenon
      <4> QED
        BY <4>2, <4>3, Zenon
    <3>7. after' # NoKey
      BY <3>2, <3>3, LimitAssumption, KeyAssumption
    <3>8. BeforeAfter'
      BY <3>6, <3>7, Zenon DEF BeforeAfter
    <3> QED
      BY <2>1, <3>2, <3>5, <3>8 DEF OrderInv, Strict
  <2>3. CASE ~ (Len(page) > Limit)
    <3>1. listed' = listed \o page /\ pc' = "done" /\ after' = after
      BY <1>3, <2>3, Zenon DEF GetPage
    <3>2. SortedListing'
      BY <2>1, <3>1, AppendOrders, Zenon DEF SortedListing, OrderInv
    <3> QED
      BY <2>1, <3>1, <3>2 DEF OrderInv, Strict
  <2> QED
    BY <2>2, <2>3, Zenon
<1>4. CASE SendPage
  <2>1. /\ pc = "page" /\ mode = "send" /\ mode' = mode /\ page' = <<>>
        /\ listed' = listed \o page /\ BeforeAfter
    BY <1>4, Zenon DEF SendPage, OrderInv
  <2>2. SortedListing'
    <3>1. Strict(page) /\ (after # NoKey => \A i \in DOMAIN page : KeyLeq(after, page[i]))
      BY Zenon DEF OrderInv
    <3>2. page \in Seq(Keys) /\ BeforeAfter /\ listed' = listed \o page
      BY <2>1, Zenon
    <3> HIDE DEF TypeOK
    <3>3. \A i, j \in DOMAIN listed' : i < j =>
            \/ KeyLess(listed'[i], listed'[j])
            \/ mode = "send" /\ listed'[i] = listed'[j] /\ j = i + 1
      BY <3>1, <3>2, AppendOrders, Zenon
    <3> QED
      BY <2>1, <3>3, Zenon DEF SortedListing
  <2>3. CASE Len(page) = Batch
    <3>1. after' = page[Batch] /\ pc' = "seek" /\ DOMAIN page = 1 .. Batch
      BY <1>4, <2>3 DEF SendPage
    <3>2. /\ after' \in Keys
          /\ \A j \in DOMAIN page : page[j] \in Keys
          /\ \A j \in DOMAIN page : j < Batch => KeyLess(page[j], after')
      BY <3>1, BatchAssumption DEF OrderInv, Strict
    <3>3. ASSUME NEW i \in DOMAIN listed'
          PROVE  KeyLess(listed'[i], after') \/ (i = Len(listed') /\ listed'[i] = after')
      <4>1. CASE i \in DOMAIN listed
        <5>1. /\ Batch \in DOMAIN page /\ Batch # 1
              /\ listed[i] \in Keys /\ listed'[i] = listed[i]
          BY <2>1, <3>1, <4>1, BatchAssumption
        <5> QED
          BY <2>1, <3>1, <4>1, <5>1, AppendOrders, Zenon DEF OrderInv
      <4>2. CASE i \notin DOMAIN listed
        <5>1. /\ i - Len(listed) \in DOMAIN page
              /\ listed'[i] = page[i - Len(listed)]
              /\ Len(listed') = Len(listed) + Batch
          BY <2>1, <2>3, <4>2, TailElement, Zenon
        <5> QED
          BY <3>1, <3>2, <5>1, BatchAssumption
      <4> QED
        BY <4>1, <4>2, Zenon
    <3>4. after' # NoKey
      BY <3>2, KeyAssumption, Zenon
    <3>5. BeforeAfter'
      BY <2>1, <3>3, <3>4, Zenon DEF BeforeAfter
    <3> QED
      BY <2>1, <2>2, <3>1, <3>5 DEF OrderInv, Strict
  <2>4. CASE Len(page) # Batch
    <3>1. pc' = "done"
      BY <1>4, <2>4, Zenon DEF SendPage
    <3> QED
      BY <2>1, <2>2, <3>1 DEF OrderInv, Strict
  <2> QED
    BY <2>3, <2>4, Zenon
<1>5. CASE Fail
  BY <1>5 DEF Fail, OrderInv, Strict, SortedListing
<1>6. CASE (\E k \in Keys : Insert(k)) \/ UNCHANGED vars
  <2>1. UNCHANGED <<mode, pc, after, it, page, listed, start>>
    BY <1>6, Zenon DEF Insert, vars
  <2> QED
    BY <2>1, Zenon DEF OrderInv, Strict, SortedListing, BeforeAfter
<1> QED
  BY <1>1, <1>2, <1>3, <1>4, <1>5, <1>6, Zenon DEF Next, Loop

(***************************************************************************)
(* References are listed in the order of the keys and, to a client of      *)
(* enumerate-blobs, once (handle_enumerate's 25 of 26 and an inclusive     *)
(* lower_bound); the send loop repeats only the last key of a full batch.  *)
(***************************************************************************)
THEOREM EnumerationSorted == Spec => []SortedListing
<1>1. Init => CoverInv /\ OrderInv
  BY DEF Init, CoverInv, NothingSkipped, OrderInv, SortedListing, Strict, BeforeAfter
<1>2. OrderInv => SortedListing
  BY Zenon DEF OrderInv
<1> QED
  BY <1>1, <1>2, CoverStep, OrderStep, WalkTypeCorrect, PTL DEF Spec
==============================================================================
