----------------------------- MODULE SyncProofs -----------------------------
(***************************************************************************)
(* Theorems about Sync, for every list of peers with their modes, every    *)
(* delay, page size and batch size, every set of contents and any number   *)
(* of faults.                                                              *)
(***************************************************************************)
EXTENDS Sync, CommonLemmas, FiniteSetTheorems

(***************************************************************************)
(* A finite set of contents has finitely many keys.                        *)
(***************************************************************************)
LEMMA KeysOfFinite ==
  ASSUME NEW S \in SUBSET Contents, IsFiniteSet(S)
  PROVE  IsFiniteSet(KeysOf(S))
<1> DEFINE T == {KeysOfContent[c] : c \in S}
<1>1. IsFiniteSet(T)
  <2> DEFINE f == [c \in S |-> KeysOfContent[c]]
  <2>1. f \in Surjection(S, T)
    BY Zenon DEF Surjection
  <2> QED
    BY <2>1, FS_Surjection, Zenon
<1>2. ASSUME NEW U \in T PROVE IsFiniteSet(U)
  <2>1. PICK c \in S : U = {BlobKeyFor(h, c) : h \in HashTypes}
    BY Zenon DEF KeysOfContent
  <2>2. U = {BlobKeyFor(sha1, c)} \cup {BlobKeyFor(sha256, c)}
    BY <2>1, Zenon DEF HashTypes
  <2> QED
    BY <2>2, FS_Singleton, FS_Union, Zenon
<1> QED
  BY <1>1, <1>2, FS_UNION, Zenon DEF KeysOf

(***************************************************************************)
(* An iteration over the map comes to every key of the set once, in the    *)
(* order of operator<.                                                     *)
(***************************************************************************)
LEMMA InOrderFacts ==
  ASSUME NEW From \in SUBSET Keys, IsFiniteSet(From)
  PROVE  /\ InOrder(From) \in Seq(From)
         /\ Len(InOrder(From)) = Cardinality(From)
         /\ \A k \in From : \E i \in 1 .. Cardinality(From) : InOrder(From)[i] = k
         /\ \A i, j \in 1 .. Cardinality(From) :
              i < j => KeyLess(InOrder(From)[i], InOrder(From)[j])
<1> DEFINE n == Cardinality(From)
           key(i) == CHOOSE k \in From : Cardinality(KeysBelow[k] \cap From) = i - 1
           below(k) == KeysBelow[k] \cap From
           rank == [k \in From |-> Cardinality(below(k))]
<1>1. n \in Nat
  BY FS_CardinalityType, Zenon
<1>2. \A k \in From : /\ below(k) \subseteq From
                     /\ k \notin below(k)
                     /\ \A j \in From : j \in below(k) <=> KeyLess(j, k)
  BY KeyOrder, Zenon DEF KeysBelow
<1>3. ASSUME NEW k \in From
      PROVE  /\ IsFiniteSet(below(k))
             /\ Cardinality(below(k)) \in 0 .. n - 1
  <2>1. IsFiniteSet(below(k)) /\ Cardinality(below(k)) <= n /\ Cardinality(below(k)) # n
    BY <1>2, FS_Subset, Zenon
  <2> QED
    BY <1>1, <2>1, FS_CardinalityType
<1>4. \A k \in From : rank[k] = Cardinality(below(k))
  BY Zenon
<1>5. rank \in [From -> 0 .. n - 1]
  BY <1>3, Zenon
<1>6. \A i \in 1 .. n : InOrder(From)[i] = CHOOSE k \in From : rank[k] = i - 1
  BY <1>4, Zenon DEF InOrder
<1>7. InOrder(From) = [i \in 1 .. n |-> key(i)]
  BY Zenon DEF InOrder
<1> HIDE DEF n, key, below, rank
<1>8. ASSUME NEW j \in From, NEW k \in From, KeyLess(j, k)
      PROVE  rank[j] < rank[k]
  <2>1. below(j) \subseteq below(k) /\ j \in below(k) /\ j \notin below(j)
    BY <1>2, <1>8, KeyOrder, Zenon
  <2>2. Cardinality(below(j)) <= Cardinality(below(k)) /\ Cardinality(below(j)) # Cardinality(below(k))
    BY <1>3, <2>1, FS_Subset, Zenon
  <2>3. rank[j] \in Int /\ rank[k] \in Int /\ rank[j] <= rank[k] /\ rank[j] # rank[k]
    BY <1>1, <1>4, <1>5, <2>2
  <2> QED
    BY <2>3
<1>9. \A j, k \in From : rank[j] = rank[k] => j = k
  <2>1. \A k \in From : rank[k] \in Int
    BY <1>1, <1>5
  <2> QED
    BY <1>8, <2>1, KeyOrder
<1>10. rank \in Surjection(From, 0 .. n - 1)
  <2>1. rank \in Injection(From, 0 .. n - 1)
    BY <1>5, <1>9, Zenon DEF Injection, IsInjective
  <2>2. IsFiniteSet(0 .. n - 1) /\ Cardinality(0 .. n - 1) = n
    BY <1>1, FS_Interval
  <2> QED
    BY <2>1, <2>2, FS_Injection, Zenon DEF n
<1>11. \A i \in 1 .. n : InOrder(From)[i] \in From /\ rank[InOrder(From)[i]] = i - 1
  <2> SUFFICES ASSUME NEW i \in 1 .. n
               PROVE  InOrder(From)[i] \in From /\ rank[InOrder(From)[i]] = i - 1
    BY Zenon
  <2>1. i - 1 \in 0 .. n - 1
    BY <1>1
  <2>2. \E k \in From : rank[k] = i - 1
    BY <1>10, <2>1, Zenon DEF Surjection
  <2> QED
    BY <1>6, <2>2, Zenon
<1>12. InOrder(From) \in Seq(From) /\ Len(InOrder(From)) = n
  <2>1. InOrder(From) \in [1 .. n -> From]
    BY <1>7, <1>11, Zenon
  <2> QED
    BY <1>1, <2>1
<1>13. ASSUME NEW k \in From PROVE \E i \in 1 .. n : InOrder(From)[i] = k
  <2>1. rank[k] \in 0 .. n - 1
    BY <1>5, Zenon
  <2>2. rank[k] + 1 \in 1 .. n /\ (rank[k] + 1) - 1 = rank[k]
    BY <1>1, <2>1
  <2>3. InOrder(From)[rank[k] + 1] \in From /\ rank[InOrder(From)[rank[k] + 1]] = rank[k]
    BY <1>11, <2>2, Zenon
  <2> QED
    BY <1>9, <2>2, <2>3, Zenon
<1>14. ASSUME NEW i \in 1 .. n, NEW j \in 1 .. n, i < j
       PROVE  KeyLess(InOrder(From)[i], InOrder(From)[j])
  <2> DEFINE x == InOrder(From)[i]
             y == InOrder(From)[j]
  <2>1. x \in From /\ y \in From /\ rank[x] = i - 1 /\ rank[y] = j - 1
    BY <1>11, Zenon
  <2> HIDE DEF x, y
  <2>2. rank[x] < rank[y] /\ rank[x] \in Int /\ rank[y] \in Int
    BY <1>1, <1>14, <2>1
  <2>3. ~ KeyLess(y, x) /\ x # y
    BY <1>8, <2>1, <2>2
  <2>4. KeyLess(x, y)
    BY <2>1, <2>3, KeyOrder, Zenon
  <2> QED
    BY <2>4, Zenon DEF x, y
<1> QED
  BY <1>12, <1>13, <1>14, Zenon DEF n

(***************************************************************************)
(* Where the thread is visiting a peer.                                    *)
(***************************************************************************)
Visiting == {"get", "refs", "send", "check"}

TypeInv ==
  /\ mine \in SUBSET Contents /\ IsFiniteSet(mine)
  /\ theirs \in [Range(Peers) -> SUBSET Contents]
  /\ \A p \in Range(Peers) : IsFiniteSet(theirs[p])
  /\ host \in Nat
  /\ pc = "host" => host > 0
  /\ pc \in Visiting => host \in 1 .. Len(Peers)

(***************************************************************************)
(* No index has the page of a 404, and every reference of a page is the    *)
(* key of a blob, even when the peer has lost that blob since.             *)
(***************************************************************************)
UploadInv ==
  /\ mine \subseteq Blobs
  /\ \A p \in Range(Peers) : theirs[p] \subseteq Blobs
  /\ refs \in Seq(KeysOf(Blobs))

(***************************************************************************)
(* The set check_server has returned only names blobs of this server.      *)
(***************************************************************************)
CheckInv == check \subseteq KeysOf(mine)

(***************************************************************************)
(* A thread in the loop has slept once behind its round and once for every *)
(* tick, or has just been started.                                         *)
(***************************************************************************)
DelayInv ==
  /\ tick_ \in Nat
  /\ slept \in Nat
  /\ pc = "loop" => slept >= Delay \/ slept > tick_

(***************************************************************************)
(* No blob reads like the page of a 404 up to its first NUL: the digests   *)
(* are those of the C strings, so add_blob could not tell such a blob from *)
(* the page.                                                               *)
(***************************************************************************)
PageDistinct == \A c \in Blobs : CString(c) # CString(NotFoundPage)

------------------------------------------------------------------------------
(***************************************************************************)
(* paginate lists keys of the contents it is given.                        *)
(***************************************************************************)
LEMMA PaginateFacts ==
  ASSUME NEW S \in SUBSET Contents, IsFiniteSet(S), NEW from, NEW n \in Nat
  PROVE  /\ paginate(S, from, n) \in Seq(KeysOf(S))
         /\ Len(paginate(S, from, n)) <= n
<1> DEFINE F == {k \in KeysOf(S) : from = NoKey \/ KeyLeq(from, k)}
           keys == InOrder(F)
           m == Min({n, Len(keys)})
<1>1. F \in SUBSET Keys /\ F \in SUBSET KeysOf(S)
  BY KeysOfFacts, Zenon
<1>2. IsFiniteSet(F)
  BY <1>1, KeysOfFinite, FS_Subset, Zenon
<1>3. keys \in Seq(F)
  BY <1>1, <1>2, InOrderFacts, Zenon
<1>4. paginate(S, from, n) = SubSeq(keys, 1, m)
  BY Zenon DEF paginate
<1> HIDE DEF F, keys
<1>5. m \in Nat /\ m <= n /\ m <= Len(keys)
  <2>1. Len(keys) \in Nat
    BY <1>3
  <2>2. \E x \in {n, Len(keys)} : \A y \in {n, Len(keys)} : x <= y
    BY <2>1
  <2> QED
    BY <2>1, <2>2, Zenon DEF Min
<1> HIDE DEF m
<1>6. SubSeq(keys, 1, m) \in Seq(F) /\ Len(SubSeq(keys, 1, m)) = m
  BY <1>3, <1>5
<1> QED
  BY <1>1, <1>4, <1>5, <1>6

(***************************************************************************)
(* The invariants hold at first.                                           *)
(***************************************************************************)
LEMMA InitInv == Init => TypeInv /\ UploadInv /\ CheckInv /\ DelayInv
<1> SUFFICES ASSUME Init PROVE TypeInv /\ UploadInv /\ CheckInv /\ DelayInv
  BY Zenon
<1>1. TypeInv
  BY FS_EmptySet, Zenon DEF Init, TypeInv, Visiting
<1>2. UploadInv
  BY DEF Init, UploadInv
<1>3. CheckInv
  BY Zenon DEF Init, CheckInv
<1>4. DelayInv
  BY SizesAssumption DEF Init, DelayInv
<1> QED
  BY <1>1, <1>2, <1>3, <1>4, Zenon

(***************************************************************************)
(* The peer of a visit is one of the list.                                 *)
(***************************************************************************)
LEMMA PeerFacts ==
  ASSUME TypeInv, pc \in Visiting
  PROVE  Peer \in Range(Peers)
BY PeersAssumption DEF TypeInv, Peer, Range

(***************************************************************************)
(* What a peer answers a request for a blob with.                          *)
(***************************************************************************)
LEMMA BlobBodyFacts ==
  ASSUME TypeInv, NEW p \in Range(Peers), NEW k
  PROVE  /\ BlobBody(p, k) \in Contents
         /\ BlobBody(p, k) \in theirs[p] \/ BlobBody(p, k) = NotFoundPage
<1>1. theirs[p] \subseteq Contents
  BY Zenon DEF TypeInv
<1> QED
  BY <1>1, PageAssumption, Zenon DEF BlobBody

(***************************************************************************)
(* Every step keeps the types.                                             *)
(***************************************************************************)
LEMMA TypeStep == TypeInv /\ [Next]_vars => TypeInv'
<1> SUFFICES ASSUME TypeInv, [Next]_vars PROVE TypeInv'
  BY Zenon
<1> USE DEF Visiting
<1>1. \A S, c : IsFiniteSet(S) => IsFiniteSet(S \cup {c})
  BY FS_AddElement, Zenon
<1>2. ASSUME NEW p \in Range(Peers), NEW c \in Contents,
             theirs' = [theirs EXCEPT ![p] = @ \cup {c}],
             UNCHANGED <<mine, pc, host>>
      PROVE  TypeInv'
  <2>1. \A q \in Range(Peers) : theirs'[q] = theirs[q] \/ theirs'[q] = theirs[q] \cup {c}
    BY <1>2, Zenon DEF TypeInv
  <2>2. theirs' \in [Range(Peers) -> SUBSET Contents]
    BY <1>2, Zenon DEF TypeInv
  <2>3. ASSUME NEW q \in Range(Peers) PROVE IsFiniteSet(theirs'[q])
    <3>1. IsFiniteSet(theirs[q])
      BY Zenon DEF TypeInv
    <3>2. IsFiniteSet(theirs[q] \cup {c})
      BY <1>1, <3>1, Zenon
    <3> QED
      BY <2>1, <3>1, <3>2, Zenon
  <2> QED
    BY <1>2, <2>2, <2>3, Zenon DEF TypeInv
<1>3. ASSUME NEW c \in Blobs, Upload(c) PROVE TypeInv'
  BY <1>1, <1>3, Zenon DEF Upload, TypeInv, round, Blobs
<1>4. ASSUME NEW c \in Blobs, NEW p \in Range(Peers), UploadToPeer(p, c) PROVE TypeInv'
  BY <1>2, <1>4, Zenon DEF UploadToPeer, round, Blobs
<1>5. ASSUME NEW p \in Range(Peers), PeerRestarts(p) PROVE TypeInv'
  <2>1. \A q \in Range(Peers) : theirs'[q] = theirs[q] \/ theirs'[q] = {}
    BY <1>5, Zenon DEF PeerRestarts, TypeInv
  <2>2. theirs' \in [Range(Peers) -> SUBSET Contents] /\ UNCHANGED <<mine, pc, host>>
    BY <1>5, Zenon DEF PeerRestarts, TypeInv, round
  <2>3. \A q \in Range(Peers) : IsFiniteSet(theirs'[q])
    BY <2>1, FS_EmptySet, Zenon DEF TypeInv
  <2> QED
    BY <2>2, <2>3, Zenon DEF TypeInv
<1>6. CASE Run
  BY <1>6 DEF Run, TypeInv
<1>7. CASE BeginHost
  BY <1>7 DEF BeginHost, TypeInv
<1>8. CASE GetPage
  BY <1>8, Zenon DEF GetPage, TypeInv
<1>9. CASE FetchBlob
  <2>1. \/ mine' = mine
        \/ mine' = mine \cup {BlobBody(Peer, Head(refs))}
    BY <1>9, Zenon DEF FetchBlob, AddFetched
  <2>2. mine' \subseteq Contents /\ IsFiniteSet(mine')
    BY <1>1, <1>9, <2>1, PeerFacts, BlobBodyFacts, Zenon DEF FetchBlob, TypeInv
  <2> QED
    BY <1>9, <2>2, Zenon DEF FetchBlob, TypeInv
<1>10. CASE PageFetched \/ BatchSent
  BY <1>10, Zenon DEF PageFetched, BatchSent, round, TypeInv
<1>11. CASE GetLoopEnds
  BY <1>11, Zenon DEF GetLoopEnds, TypeInv
<1>12. CASE StatBatch
  BY <1>12, Zenon DEF StatBatch, TypeInv
<1>13. CASE SendBlob
  <2>1. PICK c \in mine : \/ theirs' = [theirs EXCEPT ![Peer] = @ \cup {c}]
                         \/ UNCHANGED theirs
    BY <1>13, Zenon DEF SendBlob
  <2>2. c \in Contents /\ Peer \in Range(Peers) /\ UNCHANGED <<mine, pc, host>>
    BY <1>13, PeerFacts, Zenon DEF SendBlob, TypeInv
  <2> QED
    BY <1>2, <2>1, <2>2, Zenon DEF TypeInv
<1>14. CASE SendLoopEnds
  BY <1>14 DEF SendLoopEnds, TypeInv
<1>15. CASE Hang \/ Stop \/ Join
  BY <1>15, Zenon DEF Hang, Stop, Join, round, TypeInv
<1>16. CASE UNCHANGED vars
  BY <1>16, Zenon DEF vars, round, TypeInv
<1> QED
  BY <1>3, <1>4, <1>5, <1>6, <1>7, <1>8, <1>9, <1>10, <1>11, <1>12, <1>13, <1>14, <1>15, <1>16, Zenon
     DEF Next, Thread

(***************************************************************************)
(* Every step keeps DelayInv.                                              *)
(***************************************************************************)
LEMMA DelayStep == DelayInv /\ [Next]_vars => DelayInv'
<1> SUFFICES ASSUME DelayInv, [Next]_vars PROVE DelayInv'
  OBVIOUS
<1> USE DEF DelayInv
<1>1. CASE Run
  <2>1. CASE stopRequested_
    BY <1>1, <2>1, Zenon DEF Run
  <2>2. CASE ~ stopRequested_ /\ tick_' < Delay
    <3>1. slept' = Min({slept + 1, Delay}) /\ tick_' = tick_ + 1 /\ pc = "loop"
      BY <1>1, <2>2, SizesAssumption DEF Run
    <3>2. \E x \in {slept + 1, Delay} : \A y \in {slept + 1, Delay} : x <= y
      BY SizesAssumption
    <3>3. slept' \in {slept + 1, Delay}
      BY <3>1, <3>2, Zenon DEF Min
    <3> QED
      BY <2>2, <3>1, <3>3, SizesAssumption
  <2>3. CASE ~ stopRequested_ /\ ~ (tick_' < Delay)
    BY <1>1, <2>3 DEF Run
  <2> QED
    BY <2>1, <2>2, <2>3, Zenon
<1>2. CASE BeginHost
  BY <1>2 DEF BeginHost
<1>3. CASE \/ GetPage \/ FetchBlob \/ GetLoopEnds
           \/ StatBatch \/ SendBlob \/ SendLoopEnds
  BY <1>3, Zenon DEF GetPage, FetchBlob, GetLoopEnds, StatBatch, SendBlob, SendLoopEnds
<1>4. CASE \/ PageFetched \/ BatchSent \/ Hang \/ Stop \/ Join
           \/ \E c \in Blobs : Upload(c) \/ \E p \in Range(Peers) : UploadToPeer(p, c)
           \/ \E p \in Range(Peers) : PeerRestarts(p)
  BY <1>4, Zenon
     DEF PageFetched, BatchSent, Hang, Stop, Join, Upload, UploadToPeer, PeerRestarts
<1>5. CASE UNCHANGED vars
  BY <1>5, Zenon DEF vars
<1> QED
  BY <1>1, <1>2, <1>3, <1>4, <1>5, Zenon DEF Next, Thread

(***************************************************************************)
(* References of a page that GetPage has received are keys of blobs.       *)
(***************************************************************************)
LEMMA PageReceived ==
  ASSUME NEW S \in SUBSET Blobs, IsFiniteSet(S), NEW from
  PROVE  LET page == paginate(S, from, Limit + 1)
         IN  SubSeq(page, 1, Min({Limit, Len(page)})) \in Seq(KeysOf(Blobs))
<1> DEFINE page == paginate(S, from, Limit + 1)
           m == Min({Limit, Len(page)})
<1>1. page \in Seq(KeysOf(S))
  BY PaginateFacts, SizesAssumption DEF Blobs
<1>2. KeysOf(S) \subseteq KeysOf(Blobs)
  BY Zenon DEF KeysOf
<1> HIDE DEF page
<1>3. m \in Nat /\ m <= Len(page)
  <2>1. Len(page) \in Nat /\ Limit \in Nat
    BY <1>1, SizesAssumption
  <2>2. \E x \in {Limit, Len(page)} : \A y \in {Limit, Len(page)} : x <= y
    BY <2>1
  <2> QED
    BY <2>1, <2>2, Zenon DEF Min
<1> HIDE DEF m
<1>4. SubSeq(page, 1, m) \in Seq(KeysOf(Blobs))
  BY <1>1, <1>2, <1>3
<1> QED
  BY <1>4, Zenon DEF page, m

(***************************************************************************)
(* What sync_host fetches for the key of a blob is that blob or one it     *)
(* shares the key with; the page of a 404 is refused by add_blob.          *)
(***************************************************************************)
LEMMA FetchedIsBlob ==
  ASSUME PageDistinct, NEW k \in KeysOf(Blobs), NEW c \in Contents, k \in KeysOf({c})
  PROVE  c \in Blobs
<1>1. PICK d \in Blobs : k \in KeysOf({d})
  BY KeysOfFacts, Zenon DEF Blobs
<1>2. CString(d) = CString(c)
  BY <1>1, KeysOfFacts, Zenon DEF Blobs
<1> QED
  BY <1>1, <1>2, Zenon DEF PageDistinct, Blobs

(***************************************************************************)
(* Every step keeps UploadInv.                                             *)
(***************************************************************************)
LEMMA UploadStep == PageDistinct /\ TypeInv /\ UploadInv /\ [Next]_vars => UploadInv'
<1> SUFFICES ASSUME PageDistinct, TypeInv, UploadInv, [Next]_vars PROVE UploadInv'
  BY Zenon
<1>1. ASSUME NEW p \in Range(Peers), NEW c \in Blobs,
             theirs' = [theirs EXCEPT ![p] = @ \cup {c}],
             UNCHANGED <<mine, refs>>
      PROVE  UploadInv'
  BY <1>1, Zenon DEF UploadInv, TypeInv
<1>2. ASSUME NEW c \in Blobs, Upload(c) PROVE UploadInv'
  BY <1>2, Zenon DEF Upload, UploadInv, round
<1>3. ASSUME NEW c \in Blobs, NEW p \in Range(Peers), UploadToPeer(p, c) PROVE UploadInv'
  BY <1>1, <1>3, Zenon DEF UploadToPeer, round
<1>4. ASSUME NEW p \in Range(Peers), PeerRestarts(p) PROVE UploadInv'
  BY <1>4, Zenon DEF PeerRestarts, UploadInv, TypeInv, round
<1>5. CASE GetPage
  <2>1. Peer \in Range(Peers)
    BY <1>5, PeerFacts, Zenon DEF GetPage, Visiting
  <2>2. theirs[Peer] \in SUBSET Blobs /\ IsFiniteSet(theirs[Peer])
    BY <2>1, Zenon DEF UploadInv, TypeInv
  <2>3. refs' \in Seq(KeysOf(Blobs))
    BY <1>5, <2>2, PageReceived, Zenon DEF GetPage, UploadInv
  <2>4. UNCHANGED <<mine, theirs>>
    BY <1>5, Zenon DEF GetPage
  <2> QED
    BY <2>3, <2>4, Zenon DEF UploadInv
<1>6. CASE FetchBlob
  <2>1. refs' \in Seq(KeysOf(Blobs)) /\ Head(refs) \in KeysOf(Blobs)
    BY <1>6 DEF FetchBlob, UploadInv
  <2>2. Peer \in Range(Peers)
    BY <1>6, PeerFacts, Zenon DEF FetchBlob, Visiting
  <2>3. BlobBody(Peer, Head(refs)) \in Contents
    BY <2>2, BlobBodyFacts, Zenon
  <2>4. \/ mine' = mine
        \/ /\ mine' = mine \cup {BlobBody(Peer, Head(refs))}
           /\ Head(refs) \in KeysOf({BlobBody(Peer, Head(refs))})
    BY <1>6, Zenon DEF FetchBlob, AddFetched
  <2>5. mine' \subseteq Blobs
    BY <2>1, <2>3, <2>4, FetchedIsBlob, Zenon DEF UploadInv
  <2>6. UNCHANGED theirs
    BY <1>6, Zenon DEF FetchBlob
  <2> QED
    BY <2>1, <2>5, <2>6, Zenon DEF UploadInv
<1>7. CASE SendBlob
  <2>1. PICK c \in mine : \/ theirs' = [theirs EXCEPT ![Peer] = @ \cup {c}]
                         \/ UNCHANGED theirs
    BY <1>7, Zenon DEF SendBlob
  <2>2. c \in Blobs /\ Peer \in Range(Peers) /\ UNCHANGED <<mine, refs>>
    BY <1>7, PeerFacts, Zenon DEF SendBlob, UploadInv, Visiting
  <2> QED
    BY <1>1, <2>1, <2>2, Zenon DEF UploadInv
<1>8. CASE Run \/ BeginHost \/ GetLoopEnds \/ StatBatch \/ SendLoopEnds
  BY <1>8, Zenon DEF Run, BeginHost, GetLoopEnds, StatBatch, SendLoopEnds, UploadInv
<1>9. CASE PageFetched \/ BatchSent \/ Hang \/ Stop \/ Join
  BY <1>9, Zenon DEF PageFetched, BatchSent, Hang, Stop, Join, round, UploadInv
<1>10. CASE UNCHANGED vars
  BY <1>10, Zenon DEF vars, round, UploadInv
<1> QED
  BY <1>2, <1>3, <1>4, <1>5, <1>6, <1>7, <1>8, <1>9, <1>10, Zenon DEF Next, Thread

(***************************************************************************)
(* What is in this server's index stays there.                             *)
(***************************************************************************)
LEMMA MineGrows == TypeInv /\ [Next]_vars => KeysOf(mine) \subseteq KeysOf(mine')
<1> SUFFICES ASSUME TypeInv, [Next]_vars PROVE mine \subseteq mine'
  BY Zenon DEF KeysOf
<1>1. CASE \E c \in Blobs : Upload(c)
  BY <1>1, Zenon DEF Upload
<1>2. CASE FetchBlob
  BY <1>2, Zenon DEF FetchBlob, AddFetched
<1>3. CASE \/ \E c \in Blobs, p \in Range(Peers) : UploadToPeer(p, c)
           \/ \E p \in Range(Peers) : PeerRestarts(p)
  BY <1>3, Zenon DEF UploadToPeer, PeerRestarts
<1>4. CASE Run \/ BeginHost \/ GetPage \/ GetLoopEnds \/ StatBatch \/ SendBlob \/ SendLoopEnds
  BY <1>4, Zenon DEF Run, BeginHost, GetPage, GetLoopEnds, StatBatch, SendBlob, SendLoopEnds
<1>5. CASE PageFetched \/ BatchSent \/ Hang \/ Stop \/ Join
  BY <1>5, Zenon DEF PageFetched, BatchSent, Hang, Stop, Join
<1>6. CASE UNCHANGED vars
  BY <1>6, Zenon DEF vars
<1> QED
  BY <1>1, <1>2, <1>3, <1>4, <1>5, <1>6, Zenon DEF Next, Thread

(***************************************************************************)
(* Every step keeps CheckInv.                                              *)
(***************************************************************************)
LEMMA CheckStep == TypeInv /\ CheckInv /\ [Next]_vars => CheckInv'
<1> SUFFICES ASSUME TypeInv, CheckInv, [Next]_vars PROVE CheckInv'
  BY Zenon
<1>1. CASE StatBatch
  <2> DEFINE batch == paginate(mine, after, Batch)
  <2>1. batch \in Seq(KeysOf(mine))
    BY PaginateFacts, SizesAssumption, Zenon DEF TypeInv
  <2>2. check' = check \/ check' \subseteq Range(batch)
    BY <1>1, Zenon DEF StatBatch
  <2>3. UNCHANGED mine
    BY <1>1, Zenon DEF StatBatch
  <2> HIDE DEF batch
  <2>4. Range(batch) \subseteq KeysOf(mine)
    BY <2>1 DEF Range
  <2> QED
    BY <2>2, <2>3, <2>4, Zenon DEF CheckInv
<1>2. CASE ~ StatBatch
  <2>1. check' \subseteq check
    <3>1. CASE SendBlob
      BY <3>1, Zenon DEF SendBlob
    <3>2. CASE Run \/ BeginHost \/ GetPage \/ FetchBlob \/ GetLoopEnds \/ SendLoopEnds
      BY <3>2, Zenon DEF Run, BeginHost, GetPage, FetchBlob, GetLoopEnds, SendLoopEnds
    <3>3. CASE PageFetched \/ BatchSent \/ Hang \/ Stop \/ Join
      BY <3>3, Zenon DEF PageFetched, BatchSent, Hang, Stop, Join, round
    <3>4. CASE \/ \E c \in Blobs : Upload(c) \/ \E p \in Range(Peers) : UploadToPeer(p, c)
               \/ \E p \in Range(Peers) : PeerRestarts(p)
      BY <3>4, Zenon DEF Upload, UploadToPeer, PeerRestarts, round
    <3>5. CASE UNCHANGED vars
      BY <3>5, Zenon DEF vars, round
    <3> QED
      BY <1>2, <3>1, <3>2, <3>3, <3>4, <3>5, Zenon DEF Next, Thread
  <2> QED
    BY <2>1, MineGrows, Zenon DEF CheckInv
<1> QED
  BY <1>1, <1>2, Zenon

------------------------------------------------------------------------------
(***************************************************************************)
(* Only what a client has uploaded comes into an index, whatever the peers *)
(* lose in restarts between enumerating a blob and being asked for it, and *)
(* whichever requests fail: sync_host never stores, and so never passes    *)
(* on, the page of a 404.                                                  *)
(***************************************************************************)
THEOREM OnlyUploadsStored == PageDistinct => (Spec => []OnlyUploads)
<1> SUFFICES ASSUME PageDistinct PROVE Spec => []OnlyUploads
  BY Zenon
<1>1. TypeInv /\ UploadInv => OnlyUploads
  BY Zenon DEF TypeInv, UploadInv, OnlyUploads, Blobs, Range
<1> QED
  BY <1>1, InitInv, TypeStep, UploadStep, PTL DEF Spec

(***************************************************************************)
(* send_blob finds every blob of a batch in the index, however many        *)
(* requests and uploads come between the stat request and the sending.     *)
(***************************************************************************)
THEOREM BatchFound == Spec => []CheckInv
<1> QED
  BY InitInv, TypeStep, CheckStep, PTL DEF Spec

(***************************************************************************)
(* Two rounds over the peers are at least Delay calls of sleep(1) apart.   *)
(***************************************************************************)
THEOREM RoundsStayApart == Spec => RoundsApart
<1>1. DelayInv /\ [Next]_vars => [pc = "loop" /\ pc' = "host" => slept >= Delay]_vars
  <2> SUFFICES ASSUME DelayInv, Next, pc = "loop", pc' = "host" PROVE slept >= Delay
    BY Zenon
  <2>1. Run
    BY Zenon
       DEF Next, Thread, BeginHost, GetPage, FetchBlob, PageFetched, GetLoopEnds, StatBatch,
           SendBlob, BatchSent, SendLoopEnds, Hang, Requests, Stop, Join, Upload, UploadToPeer,
           PeerRestarts
  <2>2. tick_ + 1 >= Delay
    BY <2>1, Zenon DEF Run
  <2> QED
    BY <2>2, SizesAssumption DEF DelayInv
<1> QED
  BY <1>1, InitInv, DelayStep, PTL DEF Spec, RoundsApart
=============================================================================
