--------------------------- MODULE BlobIndexProofs ---------------------------
(***************************************************************************)
(* Theorems about BlobIndex, for every number of threads, every set of     *)
(* contents, every page size and every combination of faults: the index,   *)
(* the lock and the Blob objects, and the files behind the index, which    *)
(* only grow.  As long as no content holds a NUL byte and neither crashes  *)
(* nor I/O errors happen, what add_blob has accepted is what get leads to, *)
(* and BlobIndex implements BlobStore.                                     *)
(***************************************************************************)
EXTENDS BlobIndexRefinement, TLAPS

K1(c) == BlobKeyFor(sha1, c)

K2(c) == BlobKeyFor(sha256, c)

Inserting == {"add_insert", "add_link", "add_assign"}

Critical == Inserting \cup {"add_exists", "add_write", "add_unlock"}

(***************************************************************************)
(* The holder of the mutex is the one thread inside add_blob.              *)
(***************************************************************************)
LockInv == \A t \in Threads : pc[t] \in Critical <=> mutex_ = t

(***************************************************************************)
(* It works on a Blob of its own, built from its argument.                 *)
(***************************************************************************)
AddInv ==
  \A t \in Threads : pc[t] \in Critical =>
    /\ bytes[t] \in Contents
    /\ b[t] \in Pointers
    /\ heap[b[t]] = NewBlob(bytes[t])

(***************************************************************************)
(* It has set the sha1 key when it works on the sha256 key.                *)
(***************************************************************************)
InsertInv ==
  \A t \in Threads : pc[t] \in Inserting =>
    \/ key[t] = K1(bytes[t])
    \/ key[t] = K2(bytes[t]) /\ blobs_[K1(bytes[t])] = b[t]

GetInv ==
  \A t \in Threads :
    /\ pc[t] \in {"get_lock", "get_use"} => key[t] \in Keys
    /\ pc[t] = "get_use" => b[t] \in Pointers

(***************************************************************************)
(* Every pointer in the map is a live Blob of its key.                     *)
(***************************************************************************)
IndexInv == \A k \in Keys : blobs_[k] \in Pointers => IsBlobOf(blobs_[k], k)

(***************************************************************************)
(* The two keys of a content agree, unless it is being inserted.           *)
(***************************************************************************)
SiblingInv ==
  \A c \in Contents :
    \/ blobs_[K1(c)] = blobs_[K2(c)]
    \/ \E t \in Threads : pc[t] \in Inserting /\ K1(bytes[t]) = K1(c)

IInv ==
  /\ TypeOK
  /\ LockInv
  /\ AddInv
  /\ InsertInv
  /\ GetInv
  /\ IndexInv
  /\ SiblingInv
  /\ HeldBlobsLive

------------------------------------------------------------------------------
(* Keys and paths *)

(***************************************************************************)
(* What the proofs need to know of keys: a key carries its type, and the   *)
(* two digests and the path of a content tell the same contents apart.     *)
(***************************************************************************)
LEMMA KeyFacts ==
  \A c \in Contents :
    /\ K1(c) \in Keys /\ K2(c) \in Keys
    /\ K1(c).hash_type = sha1 /\ K2(c).hash_type = sha256
    /\ Sha256(c) \in Paths
    /\ \A d \in Contents :
         /\ K1(c) # K2(d)
         /\ K1(c) = K1(d) <=> K2(c) = K2(d)
         /\ K1(c) = K1(d) <=> Sha256(c) = Sha256(d)
<1> SUFFICES ASSUME NEW c \in Contents
             PROVE  /\ K1(c) \in Keys /\ K2(c) \in Keys
                    /\ K1(c).hash_type = sha1 /\ K2(c).hash_type = sha256
                    /\ Sha256(c) \in Paths
                    /\ \A d \in Contents :
                         /\ K1(c) # K2(d)
                         /\ K1(c) = K1(d) <=> K2(c) = K2(d)
                         /\ K1(c) = K1(d) <=> Sha256(c) = Sha256(d)
  BY Zenon
<1>1. K1(c) \in Keys /\ K2(c) \in Keys
  BY DEF K1, K2, Keys, HashTypes
<1>2. /\ K1(c) = [hash_type |-> 1, hash_value |-> Sha1(c)]
      /\ K2(c) = [hash_type |-> 2, hash_value |-> Sha256(c)]
  BY DEF K1, K2, BlobKeyFor, sha1, sha256
<1>3. ASSUME NEW d \in Contents
      PROVE  /\ K1(c) # K2(d)
             /\ K1(c) = K1(d) <=> K2(c) = K2(d)
             /\ K1(c) = K1(d) <=> Sha256(c) = Sha256(d)
  <2>1. /\ K1(d) = [hash_type |-> 1, hash_value |-> Sha1(d)]
        /\ K2(d) = [hash_type |-> 2, hash_value |-> Sha256(d)]
    BY DEF K1, K2, BlobKeyFor, sha1, sha256
  <2>2. CString(c) \in CStrings /\ CString(d) \in CStrings
    BY Zenon DEF CStrings
  <2>3. /\ Sha1(c) = Sha1(d) <=> CString(c) = CString(d)
        /\ Sha256(c) = Sha256(d) <=> CString(c) = CString(d)
    BY <2>2, DigestAssumption, Zenon DEF Sha1, Sha256
  <2> QED BY <1>2, <2>1, <2>3
<1>4. Sha256(c) \in Paths
  BY Zenon DEF Paths
<1> QED BY <1>1, <1>2, <1>3, <1>4 DEF sha1, sha256

(***************************************************************************)
(* The Blob built for a content is a Blob object, not free memory, and the *)
(* Blob of both keys of that content.                                      *)
(***************************************************************************)
LEMMA NewBlobFacts ==
  \A c \in Contents : /\ NewBlob(c) \in Blob
                      /\ NewBlob(c) # NoBlob
                      /\ NewBlob(c).filePath_ = Sha256(c)
<1> SUFFICES ASSUME NEW c \in Contents
             PROVE  /\ NewBlob(c) \in Blob
                    /\ NewBlob(c) # NoBlob
                    /\ NewBlob(c).filePath_ = Sha256(c)
  BY Zenon
<1>1. Len(c) \in Nat
  BY ContentsAssumption
<1>2. NewBlob(c) \in Blob
  BY <1>1, KeyFacts, Zenon DEF NewBlob, Blob
<1> QED BY <1>2, HeapAssumption, Zenon DEF NewBlob

------------------------------------------------------------------------------
(* The inductive invariant *)

(***************************************************************************)
(* A process starts with an empty index and idle threads.                  *)
(***************************************************************************)
LEMMA InitIInv == Init => IInv
<1> SUFFICES ASSUME Init PROVE IInv
  BY Zenon
<1>1. TypeOK
  BY DEF Init, TypeOK, NULL, Absent, NoBytes, Labels
<1>2. LockInv /\ AddInv /\ InsertInv /\ GetInv
  BY ThreadsAssumption, Zenon DEF Init, LockInv, AddInv, InsertInv, GetInv, Critical, Inserting
<1>3. IndexInv
  BY DEF Init, IndexInv, Absent, Pointers
<1>4. SiblingInv
  BY KeyFacts, Zenon DEF Init, SiblingInv
<1>5. HeldBlobsLive
  BY DEF Init, HeldBlobsLive
<1> QED BY <1>1, <1>2, <1>3, <1>4, <1>5, Zenon DEF IInv

(***************************************************************************)
(* Every step keeps the types of the variables.                            *)
(***************************************************************************)
LEMMA TypeStep == IInv /\ [Next]_vars => TypeOK'
<1> SUFFICES ASSUME IInv, [Next]_vars PROVE TypeOK'
  BY Zenon
<1> USE DEF IInv, TypeOK, Labels, NULL, Absent, NoBytes
<1>1. CASE UNCHANGED vars
  BY <1>1, Zenon DEF vars
<1>2. CASE Crash
  BY <1>2, Zenon DEF Crash, Die, locals
<1>3. CASE Restart
  BY <1>3 DEF Restart
<1>4. ASSUME NEW t \in Threads, Call(t) PROVE TypeOK'
  <2>1. ASSUME NEW c \in Contents, NEW k \in Keys \cup {NoKey}, CallAdd(t, c, k)
        PROVE  TypeOK'
    BY <2>1, Zenon DEF CallAdd, GoTo
  <2>2. ASSUME NEW k \in Keys, CallGet(t, k) PROVE TypeOK'
    BY <2>2, Zenon DEF CallGet, GoTo
  <2>3. ASSUME NEW k \in Keys \cup {NoKey}, CallPaginate(t, k) PROVE TypeOK'
    BY <2>3, Zenon DEF CallPaginate, GoTo
  <2> QED BY <1>4, <2>1, <2>2, <2>3, Zenon DEF Call
<1>5. ASSUME NEW t \in Threads, AddAssertFails(t) PROVE TypeOK'
  BY <1>5, Zenon DEF AddAssertFails, Die, locals
<1>6. ASSUME NEW t \in Threads, AddReject(t) PROVE TypeOK'
  BY <1>6, NewBlobFacts DEF AddReject, Allocate, Return
<1>7. ASSUME NEW t \in Threads, AddBegin(t) PROVE TypeOK'
  BY <1>7, NewBlobFacts, KeyFacts DEF AddBegin, Allocate, GoTo, K1
<1>8. ASSUME NEW t \in Threads, AddInsert(t) PROVE TypeOK'
  BY <1>8, Zenon DEF AddInsert, GoTo, locals
<1>9. ASSUME NEW t \in Threads, AddLink(t) PROVE TypeOK'
  BY <1>9, Zenon DEF AddLink, GoTo, locals
<1>10. ASSUME NEW t \in Threads, AddAssign(t) PROVE TypeOK'
  BY <1>10, KeyFacts, ZenonT(30) DEF AddAssign, GoTo, K2, AddInv, Critical, Inserting
<1>11. ASSUME NEW t \in Threads, AddExists(t) PROVE TypeOK'
  <2>1. disk' \in [Paths -> Seq(Byte) \cup {NoFile}]
    <3>1. <<>> \in Seq(Byte)
      OBVIOUS
    <3> QED BY <1>11, <3>1, Zenon DEF AddExists
  <2>2. pc' \in [Threads -> Labels]
    BY <1>11, Zenon DEF AddExists, GoTo
  <2> QED BY <1>11, <2>1, <2>2, Zenon DEF AddExists, locals
<1>12. ASSUME NEW t \in Threads, AddWrite(t) PROVE TypeOK'
  <2>1. PICK n \in Len(disk[FileOf(t)]) + 1 .. Len(bytes[t]) :
           /\ disk' = [disk EXCEPT ![FileOf(t)] = SubSeq(bytes[t], 1, n)]
           /\ GoTo(t, IF n = Len(bytes[t]) THEN "add_unlock" ELSE "add_write")
    BY <1>12, Zenon DEF AddWrite
  <2>2. SubSeq(bytes[t], 1, n) \in Seq(Byte)
    BY <2>1, ContentsAssumption
  <2> QED BY <1>12, <2>1, <2>2, Zenon DEF AddWrite, GoTo, locals
<1>13. ASSUME NEW t \in Threads, AddWriteFails(t) PROVE TypeOK'
  BY <1>13, Zenon DEF AddWriteFails, GoTo, locals
<1>14. ASSUME NEW t \in Threads, AddReturn(t) PROVE TypeOK'
  BY <1>14 DEF AddReturn, Return, AddInv, Critical
<1>15. ASSUME NEW t \in Threads, GetLookup(t) PROVE TypeOK'
  <2>1. CASE Return(t)
    BY <1>15, <2>1 DEF GetLookup, Return
  <2>2. CASE /\ blobs_[key[t]] \notin {Absent, NULL}
             /\ b' = [b EXCEPT ![t] = blobs_[key[t]]]
             /\ GoTo(t, "get_use")
             /\ UNCHANGED <<bytes, key, page>>
    <3>1. blobs_[key[t]] \in Pointers
      BY <1>15, <2>2, Zenon DEF GetLookup, GetInv
    <3> QED BY <1>15, <2>2, <3>1, Zenon DEF GetLookup, GoTo
  <2> QED BY <1>15, <2>1, <2>2, Zenon DEF GetLookup
<1>16. ASSUME NEW t \in Threads, GetUse(t) PROVE TypeOK'
  BY <1>16 DEF GetUse, Return
<1>17. ASSUME NEW t \in Threads, PageSeek(t) \/ PageNext(t) PROVE TypeOK'
  <2>1. PICK n \in Keys \cup {NoKey} : Visit(t, n)
    BY <1>17, Zenon DEF PageSeek, PageNext
  <2>2. CASE n = NoKey
    BY <1>17, <2>1, <2>2, Zenon DEF PageSeek, PageNext, Visit, GoTo
  <2>3. CASE n # NoKey
    <3>1. [first |-> n, second |-> PointerAt(n)] \in Pair
      BY <2>3, Zenon DEF PointerAt, Pair
    <3>2. PICK q \in Pair : page' = [page EXCEPT ![t] = Append(page[t], q)]
      BY <2>1, <2>3, <3>1, Zenon DEF Visit
    <3>3. Append(page[t], q) \in Seq(Pair)
      BY DEF TypeOK
    <3>4. page' \in [Threads -> Seq(Pair)]
      BY <3>2, <3>3, Zenon DEF TypeOK
    <3>5. key' \in [Threads -> Keys \cup {NoKey}]
      BY <2>1, <2>3, Zenon DEF Visit
    <3>6. PICK l \in {"page_use", "page_next"} : pc' = [pc EXCEPT ![t] = l]
      BY <2>1, <2>3, Zenon DEF Visit, GoTo
    <3>7. pc' \in [Threads -> Labels]
      BY <3>6, Zenon
    <3> QED BY <1>17, <3>4, <3>5, <3>7, Zenon DEF PageSeek, PageNext
  <2> QED BY <2>2, <2>3, Zenon
<1>18. ASSUME NEW t \in Threads, PageUse(t) \/ PageSend(t) PROVE TypeOK'
  <2>1. CASE Return(t) /\ UNCHANGED <<up, mutex_, blobs_, heap, disk, acked>>
    BY <2>1 DEF Return
  <2>2. CASE Die
    BY <2>2, Zenon DEF Die, locals
  <2> QED BY <1>18, <2>1, <2>2, Zenon DEF PageUse, PageSend
<1> QED
  BY <1>1, <1>2, <1>3, <1>4, <1>5, <1>6, <1>7, <1>8, <1>9, <1>10, <1>11, <1>12,
     <1>13, <1>14, <1>15, <1>16, <1>17, <1>18, Zenon
  DEF Next, Step

(***************************************************************************)
(* LockInv is kept: AddBegin takes the mutex, AddReturn gives it back, and *)
(* no other step moves a thread into or out of the critical section.       *)
(***************************************************************************)
LEMMA LockStep == IInv /\ [Next]_vars => LockInv'
<1> SUFFICES ASSUME IInv, [Next]_vars PROVE LockInv'
  OBVIOUS
<1> USE DEF IInv, TypeOK, LockInv, Critical, Inserting
<1>1. CASE UNCHANGED vars
  BY <1>1, Zenon DEF vars
<1>2. CASE Crash
  BY <1>2, Zenon DEF Crash, Die, locals
<1>3. CASE Restart
  BY <1>3, ThreadsAssumption, Zenon DEF Restart
<1>4. ASSUME NEW t \in Threads, Call(t) PROVE LockInv'
  BY <1>4, ZenonT(30) DEF Call, CallAdd, CallGet, CallPaginate, GoTo
<1>5. ASSUME NEW t \in Threads, AddAssertFails(t) PROVE LockInv'
  BY <1>5, Zenon DEF AddAssertFails, Die, locals
<1>6. ASSUME NEW t \in Threads, AddReject(t) PROVE LockInv'
  BY <1>6, Zenon DEF AddReject, Return
<1>7. ASSUME NEW t \in Threads, AddBegin(t) PROVE LockInv'
  BY <1>7, ThreadsAssumption, Zenon DEF AddBegin, GoTo
<1>8. ASSUME NEW t \in Threads, AddInsert(t) PROVE LockInv'
  BY <1>8, Zenon DEF AddInsert, GoTo, locals
<1>9. ASSUME NEW t \in Threads, AddLink(t) PROVE LockInv'
  BY <1>9, Zenon DEF AddLink, GoTo, locals
<1>10. ASSUME NEW t \in Threads, AddAssign(t) PROVE LockInv'
  BY <1>10, Zenon DEF AddAssign, GoTo
<1>11. ASSUME NEW t \in Threads, AddExists(t) PROVE LockInv'
  BY <1>11, Zenon DEF AddExists, GoTo, locals
<1>12. ASSUME NEW t \in Threads, AddWrite(t) PROVE LockInv'
  BY <1>12, Zenon DEF AddWrite, GoTo, locals
<1>13. ASSUME NEW t \in Threads, AddWriteFails(t) PROVE LockInv'
  BY <1>13, Zenon DEF AddWriteFails, GoTo, locals
<1>14. ASSUME NEW t \in Threads, AddReturn(t) PROVE LockInv'
  BY <1>14, ThreadsAssumption, Zenon DEF AddReturn, Return
<1>15. ASSUME NEW t \in Threads, GetLookup(t) PROVE LockInv'
  BY <1>15, Zenon DEF GetLookup, Return, GoTo
<1>16. ASSUME NEW t \in Threads, GetUse(t) PROVE LockInv'
  BY <1>16, Zenon DEF GetUse, Return
<1>17. ASSUME NEW t \in Threads, PageSeek(t) \/ PageNext(t) PROVE LockInv'
  BY <1>17, Zenon DEF PageSeek, PageNext, Visit, GoTo
<1>18. ASSUME NEW t \in Threads, PageUse(t) \/ PageSend(t) PROVE LockInv'
  BY <1>18, Zenon DEF PageUse, PageSend, Return, Die, locals
<1> QED
  BY <1>1, <1>2, <1>3, <1>4, <1>5, <1>6, <1>7, <1>8, <1>9, <1>10, <1>11, <1>12,
     <1>13, <1>14, <1>15, <1>16, <1>17, <1>18, Zenon
  DEF Next, Step

(***************************************************************************)
(* AddInv is kept: only the holder of the mutex allocates, and a new Blob  *)
(* is put where there was none.                                            *)
(***************************************************************************)
LEMMA AddStep == IInv /\ [Next]_vars => AddInv'
<1> SUFFICES ASSUME IInv, [Next]_vars PROVE AddInv'
  OBVIOUS
<1> USE DEF IInv, TypeOK, AddInv, LockInv, Critical, Inserting
<1>1. CASE UNCHANGED vars
  BY <1>1, Zenon DEF vars
<1>2. CASE Crash
  BY <1>2, Zenon DEF Crash, Die, locals
<1>3. CASE Restart
  BY <1>3, Zenon DEF Restart
<1>4. ASSUME NEW t \in Threads, Call(t) PROVE AddInv'
  BY <1>4, ZenonT(30) DEF Call, CallAdd, CallGet, CallPaginate, GoTo
<1>5. ASSUME NEW t \in Threads, AddAssertFails(t) PROVE AddInv'
  BY <1>5, Zenon DEF AddAssertFails, Die, locals
<1>6. ASSUME NEW t \in Threads, AddReject(t) PROVE AddInv'
  BY <1>6, ThreadsAssumption, Zenon DEF AddReject, Allocate, Return
<1>7. ASSUME NEW t \in Threads, AddBegin(t) PROVE AddInv'
  BY <1>7, ThreadsAssumption DEF AddBegin, Allocate, GoTo, NoBytes
<1>8. ASSUME NEW t \in Threads, AddInsert(t) PROVE AddInv'
  BY <1>8, Zenon DEF AddInsert, GoTo, locals
<1>9. ASSUME NEW t \in Threads, AddLink(t) PROVE AddInv'
  BY <1>9, Zenon DEF AddLink, GoTo, locals
<1>10. ASSUME NEW t \in Threads, AddAssign(t) PROVE AddInv'
  BY <1>10, Zenon DEF AddAssign, GoTo
<1>11. ASSUME NEW t \in Threads, AddExists(t) PROVE AddInv'
  BY <1>11, Zenon DEF AddExists, GoTo, locals
<1>12. ASSUME NEW t \in Threads, AddWrite(t) PROVE AddInv'
  BY <1>12, Zenon DEF AddWrite, GoTo, locals
<1>13. ASSUME NEW t \in Threads, AddWriteFails(t) PROVE AddInv'
  BY <1>13, Zenon DEF AddWriteFails, GoTo, locals
<1>14. ASSUME NEW t \in Threads, AddReturn(t) PROVE AddInv'
  BY <1>14, Zenon DEF AddReturn, Return
<1>15. ASSUME NEW t \in Threads, GetLookup(t) PROVE AddInv'
  BY <1>15, Zenon DEF GetLookup, Return, GoTo
<1>16. ASSUME NEW t \in Threads, GetUse(t) PROVE AddInv'
  BY <1>16, Zenon DEF GetUse, Return
<1>17. ASSUME NEW t \in Threads, PageSeek(t) \/ PageNext(t) PROVE AddInv'
  BY <1>17, Zenon DEF PageSeek, PageNext, Visit, GoTo
<1>18. ASSUME NEW t \in Threads, PageUse(t) \/ PageSend(t) PROVE AddInv'
  BY <1>18, ZenonT(30) DEF PageUse, PageSend, Return, Die, locals
<1> QED
  BY <1>1, <1>2, <1>3, <1>4, <1>5, <1>6, <1>7, <1>8, <1>9, <1>10, <1>11, <1>12,
     <1>13, <1>14, <1>15, <1>16, <1>17, <1>18, Zenon
  DEF Next, Step

(***************************************************************************)
(* InsertInv is kept: the sha256 key comes after the sha1 key was set, and *)
(* no other thread assigns while the mutex is held.                        *)
(***************************************************************************)
LEMMA InsertStep == IInv /\ [Next]_vars => InsertInv'
<1> SUFFICES ASSUME IInv, [Next]_vars PROVE InsertInv'
  OBVIOUS
<1> USE DEF IInv, TypeOK, InsertInv, LockInv, Critical, Inserting
<1>1. CASE UNCHANGED vars
  BY <1>1, Zenon DEF vars
<1>2. CASE Crash
  BY <1>2, Zenon DEF Crash, Die, locals
<1>3. CASE Restart
  BY <1>3, Zenon DEF Restart
<1>4. ASSUME NEW t \in Threads, Call(t) PROVE InsertInv'
  <2>1. ASSUME NEW c \in Contents, NEW k \in Keys \cup {NoKey}, CallAdd(t, c, k)
        PROVE  InsertInv'
    BY <2>1, Zenon DEF CallAdd, GoTo
  <2>2. ASSUME NEW k \in Keys, CallGet(t, k) PROVE InsertInv'
    BY <2>2, Zenon DEF CallGet, GoTo
  <2>3. ASSUME NEW k \in Keys \cup {NoKey}, CallPaginate(t, k) PROVE InsertInv'
    BY <2>3, Zenon DEF CallPaginate, GoTo
  <2> QED BY <1>4, <2>1, <2>2, <2>3, Zenon DEF Call
<1>5. ASSUME NEW t \in Threads, AddAssertFails(t) PROVE InsertInv'
  BY <1>5, Zenon DEF AddAssertFails, Die, locals
<1>6. ASSUME NEW t \in Threads, AddReject(t) PROVE InsertInv'
  BY <1>6, Zenon DEF AddReject, Return
<1>7. ASSUME NEW t \in Threads, AddBegin(t) PROVE InsertInv'
  BY <1>7, ThreadsAssumption, Zenon DEF AddBegin, GoTo, K1
<1>8. ASSUME NEW t \in Threads, AddInsert(t) PROVE InsertInv'
  BY <1>8, Zenon DEF AddInsert, GoTo, locals
<1>9. ASSUME NEW t \in Threads, AddLink(t) PROVE InsertInv'
  BY <1>9, KeyFacts, Zenon DEF AddLink, GoTo, locals, AddInv
<1>10. ASSUME NEW t \in Threads, AddAssign(t) PROVE InsertInv'
  <2>1. /\ pc[t] = "add_assign" /\ bytes[t] \in Contents
        /\ key[t] = K1(bytes[t]) \/ key[t] = K2(bytes[t])
    BY <1>10, Zenon DEF AddAssign, AddInv
  <2>2. \A w \in Threads : pc[w] \in Inserting => w = t
    BY <2>1
  <2>3. /\ \A w \in Threads \ {t} : pc'[w] = pc[w]
        /\ UNCHANGED <<bytes, b>>
        /\ blobs_' = [blobs_ EXCEPT ![key[t]] = b[t]]
    BY <1>10, Zenon DEF AddAssign, GoTo
  <2>4. CASE key[t] = K1(bytes[t])
    <3>1. key'[t] = K2(bytes[t])
      BY <1>10, <2>1, <2>4, KeyFacts DEF AddAssign, K2, sha1, sha256
    <3>2. blobs_'[K1(bytes[t])] = b[t]
      BY <2>1, <2>3, <2>4, KeyFacts, Zenon
    <3> QED BY <2>2, <2>3, <3>1, <3>2, Zenon
  <2>5. CASE key[t] = K2(bytes[t])
    <3>1. pc'[t] = "add_exists"
      BY <1>10, <2>1, <2>5, KeyFacts DEF AddAssign, GoTo, sha1, sha256
    <3> QED BY <2>2, <2>3, <3>1, Zenon
  <2> QED BY <2>1, <2>4, <2>5, Zenon
<1>11. ASSUME NEW t \in Threads, AddExists(t) PROVE InsertInv'
  BY <1>11, ZenonT(30) DEF AddExists, GoTo, locals
<1>12. ASSUME NEW t \in Threads, AddWrite(t) PROVE InsertInv'
  BY <1>12, ZenonT(30) DEF AddWrite, GoTo, locals
<1>13. ASSUME NEW t \in Threads, AddWriteFails(t) PROVE InsertInv'
  BY <1>13, Zenon DEF AddWriteFails, GoTo, locals
<1>14. ASSUME NEW t \in Threads, AddReturn(t) PROVE InsertInv'
  BY <1>14, Zenon DEF AddReturn, Return
<1>15. ASSUME NEW t \in Threads, GetLookup(t) PROVE InsertInv'
  BY <1>15, ZenonT(30) DEF GetLookup, Return, GoTo
<1>16. ASSUME NEW t \in Threads, GetUse(t) PROVE InsertInv'
  BY <1>16, Zenon DEF GetUse, Return
<1>17. ASSUME NEW t \in Threads, PageSeek(t) \/ PageNext(t) PROVE InsertInv'
  BY <1>17, ZenonT(30) DEF PageSeek, PageNext, Visit, GoTo
<1>18. ASSUME NEW t \in Threads, PageUse(t) \/ PageSend(t) PROVE InsertInv'
  BY <1>18, ZenonT(30) DEF PageUse, PageSend, Return, Die, locals
<1> QED
  BY <1>1, <1>2, <1>3, <1>4, <1>5, <1>6, <1>7, <1>8, <1>9, <1>10, <1>11, <1>12,
     <1>13, <1>14, <1>15, <1>16, <1>17, <1>18, Zenon
  DEF Next, Step

(***************************************************************************)
(* GetInv is kept: get is called with a key, and a thread goes on with the *)
(* Blob only if the lookup found one.                                      *)
(***************************************************************************)
LEMMA GetStep == IInv /\ [Next]_vars => GetInv'
<1> SUFFICES ASSUME IInv, [Next]_vars PROVE GetInv'
  OBVIOUS
<1> USE DEF IInv, TypeOK, GetInv
<1>1. CASE UNCHANGED vars
  BY <1>1, Zenon DEF vars
<1>2. CASE Crash
  BY <1>2, Zenon DEF Crash, Die, locals
<1>3. CASE Restart
  BY <1>3, Zenon DEF Restart
<1>4. ASSUME NEW t \in Threads, Call(t) PROVE GetInv'
  <2>1. ASSUME NEW c \in Contents, NEW k \in Keys \cup {NoKey}, CallAdd(t, c, k)
        PROVE  GetInv'
    BY <2>1, Zenon DEF CallAdd, GoTo
  <2>2. ASSUME NEW k \in Keys, CallGet(t, k) PROVE GetInv'
    BY <2>2, Zenon DEF CallGet, GoTo
  <2>3. ASSUME NEW k \in Keys \cup {NoKey}, CallPaginate(t, k) PROVE GetInv'
    BY <2>3, Zenon DEF CallPaginate, GoTo
  <2> QED BY <1>4, <2>1, <2>2, <2>3, Zenon DEF Call
<1>5. ASSUME NEW t \in Threads, AddAssertFails(t) PROVE GetInv'
  BY <1>5, Zenon DEF AddAssertFails, Die, locals
<1>6. ASSUME NEW t \in Threads, AddReject(t) PROVE GetInv'
  BY <1>6, Zenon DEF AddReject, Allocate, Return
<1>7. ASSUME NEW t \in Threads, AddBegin(t) PROVE GetInv'
  BY <1>7, Zenon DEF AddBegin, Allocate, GoTo
<1>8. ASSUME NEW t \in Threads, AddInsert(t) PROVE GetInv'
  BY <1>8, Zenon DEF AddInsert, GoTo, locals
<1>9. ASSUME NEW t \in Threads, AddLink(t) PROVE GetInv'
  BY <1>9, Zenon DEF AddLink, GoTo, locals
<1>10. ASSUME NEW t \in Threads, AddAssign(t) PROVE GetInv'
  BY <1>10, Zenon DEF AddAssign, GoTo
<1>11. ASSUME NEW t \in Threads, AddExists(t) PROVE GetInv'
  BY <1>11, Zenon DEF AddExists, GoTo, locals
<1>12. ASSUME NEW t \in Threads, AddWrite(t) PROVE GetInv'
  BY <1>12, Zenon DEF AddWrite, GoTo, locals
<1>13. ASSUME NEW t \in Threads, AddWriteFails(t) PROVE GetInv'
  BY <1>13, Zenon DEF AddWriteFails, GoTo, locals
<1>14. ASSUME NEW t \in Threads, AddReturn(t) PROVE GetInv'
  BY <1>14, Zenon DEF AddReturn, Return
<1>15. ASSUME NEW t \in Threads, GetLookup(t) PROVE GetInv'
  BY <1>15, Zenon DEF GetLookup, Return, GoTo, NULL, Absent
<1>16. ASSUME NEW t \in Threads, GetUse(t) PROVE GetInv'
  BY <1>16, Zenon DEF GetUse, Return
<1>17. ASSUME NEW t \in Threads, PageSeek(t) \/ PageNext(t) PROVE GetInv'
  BY <1>17, Zenon DEF PageSeek, PageNext, Visit, GoTo
<1>18. ASSUME NEW t \in Threads, PageUse(t) \/ PageSend(t) PROVE GetInv'
  BY <1>18, Zenon DEF PageUse, PageSend, Return, Die, locals
<1> QED
  BY <1>1, <1>2, <1>3, <1>4, <1>5, <1>6, <1>7, <1>8, <1>9, <1>10, <1>11, <1>12,
     <1>13, <1>14, <1>15, <1>16, <1>17, <1>18, Zenon
  DEF Next, Step

(***************************************************************************)
(* IndexInv is kept: a key is given the Blob of a content it is a key of,  *)
(* and Blobs are not deleted.                                              *)
(***************************************************************************)
LEMMA IndexStep == IInv /\ [Next]_vars => IndexInv'
<1> SUFFICES ASSUME IInv, [Next]_vars PROVE IndexInv'
  OBVIOUS
<1> USE DEF IInv, TypeOK, IndexInv, IsBlobOf
<1>1. CASE UNCHANGED vars
  BY <1>1, Zenon DEF vars
<1>2. CASE Crash
  BY <1>2, Zenon DEF Crash, Die, locals
<1>3. CASE Restart
  BY <1>3 DEF Restart, Absent, Pointers
<1>4. ASSUME NEW t \in Threads, Call(t) PROVE IndexInv'
  BY <1>4, Zenon DEF Call, CallAdd, CallGet, CallPaginate, GoTo
<1>5. ASSUME NEW t \in Threads, AddAssertFails(t) PROVE IndexInv'
  BY <1>5, Zenon DEF AddAssertFails, Die, locals
<1>6. ASSUME NEW t \in Threads, AddReject(t) PROVE IndexInv'
  BY <1>6 DEF AddReject, Allocate, Return
<1>7. ASSUME NEW t \in Threads, AddBegin(t) PROVE IndexInv'
  BY <1>7 DEF AddBegin, Allocate, GoTo
<1>8. ASSUME NEW t \in Threads, AddInsert(t) PROVE IndexInv'
  BY <1>8, Zenon DEF AddInsert, GoTo, locals
<1>9. ASSUME NEW t \in Threads, AddLink(t) PROVE IndexInv'
  BY <1>9 DEF AddLink, NULL, Pointers
<1>10. ASSUME NEW t \in Threads, AddAssign(t) PROVE IndexInv'
  <2>1. /\ bytes[t] \in Contents
        /\ b[t] \in Pointers
        /\ heap[b[t]] = NewBlob(bytes[t])
        /\ key[t] = K1(bytes[t]) \/ key[t] = K2(bytes[t])
    BY <1>10, Zenon DEF AddAssign, AddInv, InsertInv, Critical, Inserting
  <2>2. IsBlobOf(b[t], key[t])
    BY <2>1, NewBlobFacts, Zenon DEF K1, K2, HashTypes
  <2>3. blobs_' = [blobs_ EXCEPT ![key[t]] = b[t]] /\ UNCHANGED heap
    BY <1>10, Zenon DEF AddAssign
  <2> QED BY <2>2, <2>3, Zenon
<1>11. ASSUME NEW t \in Threads, AddExists(t) PROVE IndexInv'
  BY <1>11, Zenon DEF AddExists, GoTo, locals
<1>12. ASSUME NEW t \in Threads, AddWrite(t) PROVE IndexInv'
  BY <1>12, Zenon DEF AddWrite, GoTo, locals
<1>13. ASSUME NEW t \in Threads, AddWriteFails(t) PROVE IndexInv'
  BY <1>13, Zenon DEF AddWriteFails, GoTo, locals
<1>14. ASSUME NEW t \in Threads, AddReturn(t) PROVE IndexInv'
  BY <1>14, Zenon DEF AddReturn, Return
<1>15. ASSUME NEW t \in Threads, GetLookup(t) PROVE IndexInv'
  BY <1>15, Zenon DEF GetLookup, Return, GoTo
<1>16. ASSUME NEW t \in Threads, GetUse(t) PROVE IndexInv'
  BY <1>16, Zenon DEF GetUse, Return
<1>17. ASSUME NEW t \in Threads, PageSeek(t) \/ PageNext(t) PROVE IndexInv'
  BY <1>17, Zenon DEF PageSeek, PageNext, Visit, GoTo
<1>18. ASSUME NEW t \in Threads, PageUse(t) \/ PageSend(t) PROVE IndexInv'
  BY <1>18, Zenon DEF PageUse, PageSend, Return, Die, locals
<1> QED
  BY <1>1, <1>2, <1>3, <1>4, <1>5, <1>6, <1>7, <1>8, <1>9, <1>10, <1>11, <1>12,
     <1>13, <1>14, <1>15, <1>16, <1>17, <1>18, Zenon
  DEF Next, Step

(***************************************************************************)
(* SiblingInv is kept: a content is exempt from the first change of one of *)
(* its keys until the other one has been given the same Blob.              *)
(***************************************************************************)
LEMMA SiblingStep == IInv /\ [Next]_vars => SiblingInv'
<1> SUFFICES ASSUME IInv, [Next]_vars PROVE SiblingInv'
  OBVIOUS
<1> USE DEF IInv, TypeOK, SiblingInv, Inserting
<1>1. CASE UNCHANGED vars
  BY <1>1, Zenon DEF vars
<1>2. CASE Crash
  BY <1>2, Zenon DEF Crash, Die, locals
<1>3. CASE Restart
  BY <1>3, KeyFacts, Zenon DEF Restart
<1>4. ASSUME NEW t \in Threads, Call(t) PROVE SiblingInv'
  BY <1>4, Zenon DEF Call, CallAdd, CallGet, CallPaginate, GoTo
<1>5. ASSUME NEW t \in Threads, AddAssertFails(t) PROVE SiblingInv'
  BY <1>5, Zenon DEF AddAssertFails, Die, locals
<1>6. ASSUME NEW t \in Threads, AddReject(t) PROVE SiblingInv'
  BY <1>6, Zenon DEF AddReject, Return
<1>7. ASSUME NEW t \in Threads, AddBegin(t) PROVE SiblingInv'
  BY <1>7, ThreadsAssumption, Zenon DEF AddBegin, GoTo, LockInv, Critical
<1>8. ASSUME NEW t \in Threads, AddInsert(t) PROVE SiblingInv'
  BY <1>8, Zenon DEF AddInsert, GoTo, locals
<1>9. ASSUME NEW t \in Threads, AddLink(t) PROVE SiblingInv'
  <2>1. bytes[t] \in Contents /\ (key[t] = K1(bytes[t]) \/ key[t] = K2(bytes[t]))
    BY <1>9, Zenon DEF AddLink, AddInv, InsertInv, Critical
  <2>2. pc'[t] = "add_assign" /\ UNCHANGED bytes
    BY <1>9, Zenon DEF AddLink, GoTo, locals
  <2>3. \A w \in Threads : pc[w] \in Inserting => w = t
    BY <1>9, Zenon DEF AddLink, LockInv, Critical
  <2>4. blobs_' = [blobs_ EXCEPT ![key[t]] = NULL]
    BY <1>9, Zenon DEF AddLink
  <2> SUFFICES ASSUME NEW c \in Contents
               PROVE  \/ blobs_'[K1(c)] = blobs_'[K2(c)]
                      \/ \E w \in Threads : pc'[w] \in Inserting /\ K1(bytes'[w]) = K1(c)
    BY Zenon DEF K1, K2
  <2>5. CASE K1(bytes[t]) = K1(c)
    BY <2>2, <2>5, Zenon
  <2>6. CASE K1(bytes[t]) # K1(c)
    <3>1. key[t] # K1(c) /\ key[t] # K2(c)
      BY <2>1, <2>6, KeyFacts
    <3>2. blobs_[K1(c)] = blobs_[K2(c)]
      BY <2>3, <2>6, Zenon
    <3> QED BY <2>4, <3>1, <3>2, KeyFacts, Zenon
  <2> QED BY <2>5, <2>6, Zenon
<1>10. ASSUME NEW t \in Threads, AddAssign(t) PROVE SiblingInv'
  <2>1. /\ bytes[t] \in Contents
        /\ \/ key[t] = K1(bytes[t])
           \/ key[t] = K2(bytes[t]) /\ blobs_[K1(bytes[t])] = b[t]
    BY <1>10, Zenon DEF AddAssign, AddInv, InsertInv, Critical
  <2>2. blobs_' = [blobs_ EXCEPT ![key[t]] = b[t]] /\ UNCHANGED bytes
    BY <1>10, Zenon DEF AddAssign
  <2>3. \A w \in Threads : pc[w] \in Inserting => w = t
    BY <1>10, Zenon DEF AddAssign, LockInv, Critical
  <2> SUFFICES ASSUME NEW c \in Contents
               PROVE  \/ blobs_'[K1(c)] = blobs_'[K2(c)]
                      \/ \E w \in Threads : pc'[w] \in Inserting /\ K1(bytes'[w]) = K1(c)
    BY DEF K1, K2
  <2>4. CASE K1(bytes[t]) = K1(c)
    <3>1. CASE key[t] = K1(bytes[t])
      <4>1. key[t].hash_type # sha256
        BY <2>1, <3>1, KeyFacts DEF sha1, sha256
      <4>2. pc'[t] = "add_insert"
        BY <1>10, <4>1, Zenon DEF AddAssign, GoTo
      <4> QED BY <2>2, <2>4, <4>2, Zenon
    <3>2. CASE key[t] = K2(bytes[t]) /\ blobs_[K1(bytes[t])] = b[t]
      <4>1. K1(c) \in Keys /\ key[t] # K1(c) /\ key[t] = K2(c) /\ key[t] \in Keys
        BY <2>1, <2>4, <3>2, KeyFacts, Zenon
      <4>2. blobs_'[K1(c)] = blobs_[K1(c)] /\ blobs_'[K2(c)] = b[t]
        BY <2>2, <4>1, Zenon
      <4> QED BY <2>4, <3>2, <4>2, Zenon
    <3> QED BY <2>1, <3>1, <3>2, Zenon
  <2>5. CASE K1(bytes[t]) # K1(c)
    <3>1. /\ key[t] # K1(c) /\ key[t] # K2(c)
          /\ K1(c) \in Keys /\ K2(c) \in Keys
      BY <2>1, <2>5, KeyFacts
    <3>2. blobs_[K1(c)] = blobs_[K2(c)]
      BY <2>3, <2>5
    <3>3. blobs_'[K1(c)] = blobs_[K1(c)] /\ blobs_'[K2(c)] = blobs_[K2(c)]
      BY <2>2, <3>1, Zenon
    <3> QED BY <3>2, <3>3, Zenon
  <2> QED BY <2>4, <2>5
<1>11. ASSUME NEW t \in Threads, AddExists(t) PROVE SiblingInv'
  BY <1>11, Zenon DEF AddExists, GoTo, locals
<1>12. ASSUME NEW t \in Threads, AddWrite(t) PROVE SiblingInv'
  BY <1>12, Zenon DEF AddWrite, GoTo, locals
<1>13. ASSUME NEW t \in Threads, AddWriteFails(t) PROVE SiblingInv'
  BY <1>13, Zenon DEF AddWriteFails, GoTo, locals
<1>14. ASSUME NEW t \in Threads, AddReturn(t) PROVE SiblingInv'
  BY <1>14, Zenon DEF AddReturn, Return
<1>15. ASSUME NEW t \in Threads, GetLookup(t) PROVE SiblingInv'
  BY <1>15, ZenonT(30) DEF GetLookup, Return, GoTo
<1>16. ASSUME NEW t \in Threads, GetUse(t) PROVE SiblingInv'
  BY <1>16, Zenon DEF GetUse, Return
<1>17. ASSUME NEW t \in Threads, PageSeek(t) \/ PageNext(t) PROVE SiblingInv'
  BY <1>17, Zenon DEF PageSeek, PageNext, Visit, GoTo
<1>18. ASSUME NEW t \in Threads, PageUse(t) \/ PageSend(t) PROVE SiblingInv'
  BY <1>18, Zenon DEF PageUse, PageSend, Return, Die, locals
<1> QED
  BY <1>1, <1>2, <1>3, <1>4, <1>5, <1>6, <1>7, <1>8, <1>9, <1>10, <1>11, <1>12,
     <1>13, <1>14, <1>15, <1>16, <1>17, <1>18, Zenon
  DEF Next, Step

(***************************************************************************)
(* A Blob that is in use stays where it is and what it is.                 *)
(***************************************************************************)
HeapKept == \A p \in Pointers : heap[p] # NoBlob => heap'[p] = heap[p]

(***************************************************************************)
(* A Blob is never freed or changed: what it is the Blob of, it stays.     *)
(***************************************************************************)
LEMMA BlobKept ==
  ASSUME HeapKept, NEW p \in Pointers, NEW k, IsBlobOf(p, k)
  PROVE  IsBlobOf(p, k)'
BY Zenon DEF HeapKept, IsBlobOf

(***************************************************************************)
(* The elements of a page, and of a page that grows by one pair.           *)
(***************************************************************************)
LEMMA PageElements ==
  ASSUME NEW s \in Seq(Pair)
  PROVE  /\ \A i \in DOMAIN s : s[i] \in Pair
         /\ \A q \in Pair : \A i \in DOMAIN Append(s, q) :
              \/ Append(s, q)[i] = q
              \/ i \in DOMAIN s /\ Append(s, q)[i] = s[i]
<1>1. \A i \in DOMAIN s : s[i] \in Pair
  OBVIOUS
<1>2. ASSUME NEW q \in Pair, NEW i \in DOMAIN Append(s, q)
      PROVE  \/ Append(s, q)[i] = q
             \/ i \in DOMAIN s /\ Append(s, q)[i] = s[i]
  <2>1. CASE i = Len(s) + 1
    BY <2>1
  <2>2. CASE i # Len(s) + 1
    BY <2>2
  <2> QED BY <2>1, <2>2, Zenon
<1> QED BY <1>1, <1>2, Zenon

(***************************************************************************)
(* A thread whose page a step leaves alone still has a page of live Blobs. *)
(***************************************************************************)
LEMMA PageKept ==
  ASSUME IInv, HeapKept, NEW w \in Threads, page'[w] = page[w],
         NEW i \in DOMAIN page'[w], page'[w][i].second # NULL
  PROVE  IsBlobOf(page[w][i].second, page[w][i].first)'
<1>1. i \in DOMAIN page[w] /\ page[w][i].second # NULL
  BY Zenon
<1>2. page[w] \in Seq(Pair)
  BY Zenon DEF IInv, TypeOK
<1>3. page[w][i] \in Pair
  BY <1>1, <1>2, PageElements, Zenon
<1>4. page[w][i].second \in Pointers
  BY <1>1, <1>3, Zenon DEF Pair
<1>5. IsBlobOf(page[w][i].second, page[w][i].first)
  BY <1>1, Zenon DEF IInv, HeldBlobsLive
<1> QED BY <1>4, <1>5, BlobKept, Zenon

(***************************************************************************)
(* What the other threads hold survives a step of t that touches only its  *)
(* own locals and frees nothing.                                           *)
(***************************************************************************)
HeldBy(w) ==
  /\ pc[w] = "get_use" => IsBlobOf(b[w], key[w])
  /\ \A i \in DOMAIN page[w] :
       page[w][i].second # NULL => IsBlobOf(page[w][i].second, page[w][i].first)

(***************************************************************************)
(* A thread that does not move keeps the Blobs it holds alive.             *)
(***************************************************************************)
LEMMA HeldByOthers ==
  ASSUME IInv, HeapKept, NEW w \in Threads,
         pc'[w] = pc[w], b'[w] = b[w], key'[w] = key[w], page'[w] = page[w]
  PROVE  HeldBy(w)'
<1>1. pc'[w] = "get_use" => IsBlobOf(b[w], key[w])'
  BY BlobKept, Zenon DEF IInv, HeldBlobsLive, GetInv
<1>2. \A i \in DOMAIN page'[w] :
        page'[w][i].second # NULL => IsBlobOf(page[w][i].second, page[w][i].first)'
  BY PageKept, Zenon
<1> QED BY <1>1, <1>2, Zenon DEF HeldBy, IsBlobOf

(***************************************************************************)
(* A thread that returns gives up its Blobs; the others keep theirs.       *)
(***************************************************************************)
LEMMA HeldOnReturn ==
  ASSUME IInv, HeapKept, NEW t \in Threads, Return(t)
  PROVE  HeldBlobsLive'
<1> SUFFICES ASSUME NEW w \in Threads PROVE HeldBy(w)'
  BY Zenon DEF HeldBlobsLive, HeldBy
<1>1. CASE w = t
  <2>1. pc'[t] = "idle" /\ page'[t] = <<>>
    BY Zenon DEF Return, IInv, TypeOK
  <2> QED BY <1>1, <2>1 DEF HeldBy
<1>2. CASE w # t
  BY <1>2, HeldByOthers, Zenon DEF Return, IInv, TypeOK
<1> QED BY <1>1, <1>2, Zenon

(***************************************************************************)
(* A thread that moves on without a look-up keeps the Blobs of its page;   *)
(* the others keep theirs.                                                 *)
(***************************************************************************)
LEMMA HeldOnGo ==
  ASSUME IInv, HeapKept, NEW t \in Threads, UNCHANGED page, pc'[t] # "get_use",
         \A w \in Threads \ {t} : pc'[w] = pc[w] /\ b'[w] = b[w] /\ key'[w] = key[w]
  PROVE  HeldBlobsLive'
<1> SUFFICES ASSUME NEW w \in Threads PROVE HeldBy(w)'
  BY Zenon DEF HeldBlobsLive, HeldBy
<1>1. CASE w = t
  <2>1. \A i \in DOMAIN page'[w] :
          page'[w][i].second # NULL => IsBlobOf(page[w][i].second, page[w][i].first)'
    BY PageKept, Zenon
  <2> QED BY <1>1, <2>1, Zenon DEF HeldBy, IsBlobOf
<1>2. CASE w # t
  BY <1>2, HeldByOthers, Zenon
<1> QED BY <1>1, <1>2, Zenon

(***************************************************************************)
(* HeldBlobsLive is kept: what get and paginate read from the map is the   *)
(* Blob of its key by IndexInv, and no step frees a Blob.                  *)
(***************************************************************************)
LEMMA HeldStep == IInv /\ [Next]_vars => HeldBlobsLive'
<1> SUFFICES ASSUME IInv, [Next]_vars PROVE HeldBlobsLive'
  OBVIOUS
<1> USE DEF IInv, TypeOK
<1>1. CASE UNCHANGED vars
  BY <1>1, Zenon DEF vars, HeldBlobsLive, IsBlobOf
<1>2. CASE Crash
  BY <1>2, Zenon DEF Crash, Die, locals, HeldBlobsLive, IsBlobOf
<1>3. CASE Restart
  <2> HIDE DEF IInv, TypeOK
  <2>1. \A t \in Threads : pc'[t] = "idle" /\ page'[t] = <<>>
    BY <1>3, Zenon DEF Restart
  <2>2. \A t \in Threads : DOMAIN page'[t] = {}
    BY <2>1
  <2> QED BY <2>1, <2>2, Zenon DEF HeldBlobsLive
<1>4. ASSUME NEW t \in Threads, Call(t) PROVE HeldBlobsLive'
  <2>1. HeapKept
    BY <1>4, Zenon DEF Call, CallAdd, CallGet, CallPaginate, HeapKept
  <2>2. /\ UNCHANGED page
        /\ pc'[t] # "get_use"
        /\ \A w \in Threads \ {t} : pc'[w] = pc[w] /\ b'[w] = b[w] /\ key'[w] = key[w]
    BY <1>4, Zenon DEF Call, CallAdd, CallGet, CallPaginate, GoTo
  <2> QED BY <2>1, <2>2, HeldOnGo, Zenon
<1>5. ASSUME NEW t \in Threads, AddAssertFails(t) PROVE HeldBlobsLive'
  BY <1>5, Zenon DEF AddAssertFails, Die, locals, HeldBlobsLive, IsBlobOf
<1>6. ASSUME NEW t \in Threads, AddReject(t) PROVE HeldBlobsLive'
  <2>1. HeapKept /\ Return(t)
    BY <1>6, Zenon DEF AddReject, Allocate, HeapKept
  <2> QED BY <2>1, HeldOnReturn, Zenon
<1>7. ASSUME NEW t \in Threads, AddBegin(t) PROVE HeldBlobsLive'
  <2>1. HeapKept
    BY <1>7, Zenon DEF AddBegin, Allocate, HeapKept
  <2>2. /\ UNCHANGED page
        /\ pc'[t] # "get_use"
        /\ \A w \in Threads \ {t} : pc'[w] = pc[w] /\ b'[w] = b[w] /\ key'[w] = key[w]
    BY <1>7, Zenon DEF AddBegin, GoTo
  <2> QED BY <2>1, <2>2, HeldOnGo, Zenon
<1>8. ASSUME NEW t \in Threads, AddInsert(t) PROVE HeldBlobsLive'
  <2>1. HeapKept
    BY <1>8, Zenon DEF AddInsert, HeapKept
  <2>2. /\ UNCHANGED page
        /\ pc'[t] # "get_use"
        /\ \A w \in Threads \ {t} : pc'[w] = pc[w] /\ b'[w] = b[w] /\ key'[w] = key[w]
    BY <1>8, Zenon DEF AddInsert, GoTo, locals
  <2> QED BY <2>1, <2>2, HeldOnGo, Zenon
<1>9. ASSUME NEW t \in Threads, AddLink(t) PROVE HeldBlobsLive'
  <2>1. HeapKept
    BY <1>9, Zenon DEF AddLink, HeapKept
  <2>2. /\ UNCHANGED page
        /\ pc'[t] # "get_use"
        /\ \A w \in Threads \ {t} : pc'[w] = pc[w] /\ b'[w] = b[w] /\ key'[w] = key[w]
    BY <1>9, Zenon DEF AddLink, GoTo, locals
  <2> QED BY <2>1, <2>2, HeldOnGo, Zenon
<1>10. ASSUME NEW t \in Threads, AddAssign(t) PROVE HeldBlobsLive'
  <2>1. HeapKept
    BY <1>10, Zenon DEF AddAssign, HeapKept
  <2>2. /\ UNCHANGED page
        /\ pc'[t] # "get_use"
        /\ \A w \in Threads \ {t} : pc'[w] = pc[w] /\ b'[w] = b[w] /\ key'[w] = key[w]
    BY <1>10, Zenon DEF AddAssign, GoTo
  <2> QED BY <2>1, <2>2, HeldOnGo, Zenon
<1>11. ASSUME NEW t \in Threads, AddExists(t) PROVE HeldBlobsLive'
  <2>1. HeapKept
    BY <1>11, Zenon DEF AddExists, HeapKept
  <2>2. /\ UNCHANGED page
        /\ pc'[t] # "get_use"
        /\ \A w \in Threads \ {t} : pc'[w] = pc[w] /\ b'[w] = b[w] /\ key'[w] = key[w]
    BY <1>11, Zenon DEF AddExists, GoTo, locals
  <2> QED BY <2>1, <2>2, HeldOnGo, Zenon
<1>12. ASSUME NEW t \in Threads, AddWrite(t) PROVE HeldBlobsLive'
  <2>1. HeapKept
    BY <1>12, Zenon DEF AddWrite, HeapKept
  <2>2. /\ UNCHANGED page
        /\ pc'[t] # "get_use"
        /\ \A w \in Threads \ {t} : pc'[w] = pc[w] /\ b'[w] = b[w] /\ key'[w] = key[w]
    BY <1>12, Zenon DEF AddWrite, GoTo, locals
  <2> QED BY <2>1, <2>2, HeldOnGo, Zenon
<1>13. ASSUME NEW t \in Threads, AddWriteFails(t) PROVE HeldBlobsLive'
  <2>1. HeapKept
    BY <1>13, Zenon DEF AddWriteFails, HeapKept
  <2>2. /\ UNCHANGED page
        /\ pc'[t] # "get_use"
        /\ \A w \in Threads \ {t} : pc'[w] = pc[w] /\ b'[w] = b[w] /\ key'[w] = key[w]
    BY <1>13, Zenon DEF AddWriteFails, GoTo, locals
  <2> QED BY <2>1, <2>2, HeldOnGo, Zenon
<1>14. ASSUME NEW t \in Threads, AddReturn(t) PROVE HeldBlobsLive'
  <2>1. HeapKept /\ Return(t)
    BY <1>14, Zenon DEF AddReturn, HeapKept
  <2> QED BY <2>1, HeldOnReturn
<1>15. ASSUME NEW t \in Threads, GetLookup(t) PROVE HeldBlobsLive'
  <2>1. HeapKept
    BY <1>15, Zenon DEF GetLookup, HeapKept
  <2>2. CASE Return(t)
    BY <2>1, <2>2, HeldOnReturn, Zenon
  <2>3. CASE /\ blobs_[key[t]] \notin {Absent, NULL}
             /\ b' = [b EXCEPT ![t] = blobs_[key[t]]]
             /\ GoTo(t, "get_use")
             /\ UNCHANGED <<bytes, key, page>>
    <3>1. blobs_[key[t]] \in Pointers /\ key[t] \in Keys
      BY <1>15, <2>3, Zenon DEF GetLookup, GetInv
    <3>2. IsBlobOf(blobs_[key[t]], key[t])
      BY <3>1, Zenon DEF IndexInv
    <3>3. IsBlobOf(b[t], key[t])'
      BY <1>15, <2>3, <3>2, Zenon DEF GetLookup, IsBlobOf
    <3> SUFFICES ASSUME NEW w \in Threads PROVE HeldBy(w)'
      BY Zenon DEF HeldBlobsLive, HeldBy
    <3>4. CASE w = t
      <4>1. \A i \in DOMAIN page'[w] :
              page'[w][i].second # NULL => IsBlobOf(page[w][i].second, page[w][i].first)'
        BY <2>1, <2>3, PageKept, Zenon
      <4> QED BY <2>3, <3>3, <3>4, <4>1, Zenon DEF HeldBy, IsBlobOf
    <3>5. CASE w # t
      BY <2>1, <2>3, <3>5, HeldByOthers, Zenon DEF GoTo
    <3> QED BY <3>4, <3>5, Zenon
  <2> QED BY <1>15, <2>2, <2>3, Zenon DEF GetLookup
<1>16. ASSUME NEW t \in Threads, GetUse(t) PROVE HeldBlobsLive'
  <2>1. HeapKept /\ Return(t)
    BY <1>16, Zenon DEF GetUse, HeapKept
  <2> QED BY <2>1, HeldOnReturn
<1>17. ASSUME NEW t \in Threads, PageSeek(t) \/ PageNext(t) PROVE HeldBlobsLive'
  <2>1. HeapKept
    BY <1>17, Zenon DEF PageSeek, PageNext, HeapKept
  <2>2. PICK n \in Keys \cup {NoKey} : Visit(t, n)
    BY <1>17, Zenon DEF PageSeek, PageNext
  <2>3. UNCHANGED <<heap, b>>
    BY <1>17, Zenon DEF PageSeek, PageNext
  <2>4. CASE n = NoKey
    <3>1. /\ UNCHANGED page
          /\ pc'[t] # "get_use"
          /\ \A w \in Threads \ {t} : pc'[w] = pc[w] /\ b'[w] = b[w] /\ key'[w] = key[w]
      BY <2>2, <2>3, <2>4, Zenon DEF Visit, GoTo
    <3> QED BY <2>1, <3>1, HeldOnGo, Zenon
  <2>5. CASE n # NoKey
    <3>1. PICK q \in Pair : /\ q.first = n /\ q.second = PointerAt(n)
                           /\ page' = [page EXCEPT ![t] = Append(page[t], q)]
      <4>1. [first |-> n, second |-> PointerAt(n)] \in Pair
        BY <2>5, Zenon DEF PointerAt, Pair
      <4> QED BY <2>2, <2>5, <4>1, Zenon DEF Visit
    <3>2. q.second # NULL => IsBlobOf(q.second, q.first)'
      <4> SUFFICES ASSUME q.second # NULL PROVE IsBlobOf(q.second, q.first)'
        BY Zenon
      <4>1. q.second = blobs_[n] /\ blobs_[n] \in Pointers
        BY <2>5, <3>1, Zenon DEF PointerAt, Absent, NULL
      <4>2. IsBlobOf(q.second, q.first)
        BY <2>5, <3>1, <4>1, Zenon DEF IndexInv
      <4> QED BY <2>1, <4>1, <4>2, BlobKept, Zenon
    <3>3. /\ pc'[t] \in {"page_use", "page_next"}
          /\ \A w \in Threads \ {t} : pc'[w] = pc[w] /\ key'[w] = key[w]
      BY <2>2, <2>5, Zenon DEF Visit, GoTo
    <3> SUFFICES ASSUME NEW w \in Threads PROVE HeldBy(w)'
      BY Zenon DEF HeldBlobsLive, HeldBy
    <3>4. CASE w = t
      <4>1. page[t] \in Seq(Pair) /\ page'[t] = Append(page[t], q)
        BY <3>1, Zenon
      <4>2. ASSUME NEW i \in DOMAIN page'[t], page'[t][i].second # NULL
            PROVE  IsBlobOf(page[t][i].second, page[t][i].first)'
        <5> HIDE DEF IInv, TypeOK
        <5>1. page'[t][i] = q \/ (i \in DOMAIN page[t] /\ page'[t][i] = page[t][i])
          BY <4>1, <4>2, PageElements, SMTT(20)
        <5>2. CASE page'[t][i] = q
          BY <3>2, <4>2, <5>2, Zenon DEF IsBlobOf
        <5>3. CASE i \in DOMAIN page[t] /\ page'[t][i] = page[t][i]
          <6>1. IsBlobOf(page[t][i].second, page[t][i].first)
            BY <4>2, <5>3, Zenon DEF IInv, HeldBlobsLive
          <6> QED BY <2>3, <5>3, <6>1, Zenon DEF IsBlobOf
        <5> QED BY <5>1, <5>2, <5>3, Zenon
      <4> QED BY <3>3, <3>4, <4>2, Zenon DEF HeldBy, IsBlobOf
    <3>5. CASE w # t
      BY <2>1, <2>3, <3>1, <3>3, <3>5, HeldByOthers, Zenon
    <3> QED BY <3>4, <3>5, Zenon
  <2> QED BY <2>4, <2>5, Zenon
<1>18. ASSUME NEW t \in Threads, PageUse(t) \/ PageSend(t) PROVE HeldBlobsLive'
  <2>1. CASE Return(t) /\ UNCHANGED heap
    BY <2>1, HeldOnReturn, Zenon DEF HeapKept
  <2>2. CASE Die
    BY <2>2, Zenon DEF Die, locals, HeldBlobsLive, IsBlobOf
  <2> QED BY <1>18, <2>1, <2>2, Zenon DEF PageUse, PageSend
<1> QED
  BY <1>1, <1>2, <1>3, <1>4, <1>5, <1>6, <1>7, <1>8, <1>9, <1>10, <1>11, <1>12,
     <1>13, <1>14, <1>15, <1>16, <1>17, <1>18, Zenon
  DEF Next, Step

(***************************************************************************)
(* The invariant holds in every reachable state of the index, whatever the *)
(* threads call, in whatever order, and however often the process dies.    *)
(***************************************************************************)
THEOREM IndexInvariant == Spec => []IInv
<1>1. IInv /\ [Next]_vars => IInv'
  BY TypeStep, LockStep, AddStep, InsertStep, GetStep, IndexStep, SiblingStep, HeldStep, Zenon
  DEF IInv
<1> QED BY InitIInv, <1>1, PTL DEF Spec

(***************************************************************************)
(* Type correctness of the index, the Blobs, the files and the threads.    *)
(***************************************************************************)
THEOREM TypeCorrect == Spec => []TypeOK
<1>1. IInv => TypeOK
  BY Zenon DEF IInv
<1> QED BY <1>1, IndexInvariant, PTL

(***************************************************************************)
(* add_blob's two assignments are atomic for get: with the mutex free, the *)
(* sha1 and the sha256 key of a content lead to the same Blob or to none.  *)
(***************************************************************************)
THEOREM SiblingsAlwaysAgree == Spec => []SiblingsAgree
<1>1. IInv => SiblingsAgree
  <2> SUFFICES ASSUME IInv, mutex_ = Unlocked, NEW c \in Contents
               PROVE  blobs_[K1(c)] = blobs_[K2(c)]
    BY Zenon DEF SiblingsAgree, K1, K2
  <2>1. \A t \in Threads : pc[t] \notin Inserting
    BY ThreadsAssumption, Zenon DEF IInv, LockInv, Critical
  <2> QED BY <2>1, Zenon DEF IInv, SiblingInv
<1> QED BY <1>1, IndexInvariant, PTL

(***************************************************************************)
(* No handler ever follows a pointer to a deleted Blob, or finds another   *)
(* content's file behind a Blob it looked up, although it uses the Blob    *)
(* after get has released the mutex.                                       *)
(***************************************************************************)
THEOREM BlobsStayLive == Spec => []HeldBlobsLive
<1>1. IInv => HeldBlobsLive
  BY Zenon DEF IInv
<1> QED BY <1>1, IndexInvariant, PTL

------------------------------------------------------------------------------
(***************************************************************************)
(* Two prefixes of a sequence, the shorter and the longer one.             *)
(***************************************************************************)
LEMMA PrefixFacts ==
  ASSUME NEW S, NEW c \in Seq(S), NEW n \in 0 .. Len(c), NEW m \in 0 .. Len(c), n < m
  PROVE  /\ Len(SubSeq(c, 1, n)) = n
         /\ SubSeq(c, 1, Len(c)) = c
         /\ Len(SubSeq(c, 1, m)) = m
         /\ SubSeq(c, 1, n) = SubSeq(SubSeq(c, 1, m), 1, n)
<1>1. /\ SubSeq(c, 1, n) \in Seq(S) /\ Len(SubSeq(c, 1, n)) = n
      /\ SubSeq(c, 1, m) \in Seq(S) /\ Len(SubSeq(c, 1, m)) = m
  OBVIOUS
<1>2. SubSeq(c, 1, Len(c)) = c
  OBVIOUS
<1>3. SubSeq(c, 1, n) = SubSeq(SubSeq(c, 1, m), 1, n)
  OBVIOUS
<1> QED BY <1>1, <1>2, <1>3, Zenon

(***************************************************************************)
(* The file a thread is writing holds a first part of its argument.        *)
(***************************************************************************)
WriteInv ==
  \A t \in Threads : pc[t] = "add_write" =>
    \E n \in 0 .. Len(bytes[t]) : disk[FileOf(t)] = SubSeq(bytes[t], 1, n)

(***************************************************************************)
(* WriteInv is kept by a step in which every writer was one before, with   *)
(* the same bytes, and its file is as it was.                              *)
(***************************************************************************)
LEMMA WriteKept ==
  ASSUME WriteInv, UNCHANGED <<heap, disk>>,
         \A w \in Threads : pc'[w] = "add_write" =>
           pc[w] = "add_write" /\ bytes'[w] = bytes[w] /\ b'[w] = b[w]
  PROVE  WriteInv'
<1> SUFFICES ASSUME NEW w \in Threads, pc'[w] = "add_write"
             PROVE  \E n \in 0 .. Len(bytes'[w]) :
                      disk'[heap'[b'[w]].filePath_] = SubSeq(bytes'[w], 1, n)
  BY ZenonT(30) DEF WriteInv, FileOf
<1>1. PICK n \in 0 .. Len(bytes[w]) : disk[heap[b[w]].filePath_] = SubSeq(bytes[w], 1, n)
  BY Zenon DEF WriteInv, FileOf
<1>2. bytes'[w] = bytes[w] /\ b'[w] = b[w]
  BY Zenon
<1> QED BY <1>1, <1>2, Zenon

(***************************************************************************)
(* WriteInv is kept: the file of the writer is changed by nobody else.     *)
(***************************************************************************)
LEMMA WriteStep == IInv /\ WriteInv /\ [Next]_vars => WriteInv'
<1> SUFFICES ASSUME IInv, WriteInv, [Next]_vars PROVE WriteInv'
  BY Zenon
<1> USE DEF IInv, TypeOK, WriteInv, LockInv, Critical, FileOf
<1>1. CASE UNCHANGED vars
  BY <1>1, Zenon DEF vars
<1>2. CASE Crash
  BY <1>2, Zenon DEF Crash, Die, locals
<1>3. CASE Restart
  BY <1>3, Zenon DEF Restart
<1>4. ASSUME NEW t \in Threads, Call(t) PROVE WriteInv'
  <2>1. \A w \in Threads : pc'[w] = "add_write" =>
          pc[w] = "add_write" /\ bytes'[w] = bytes[w] /\ b'[w] = b[w]
    BY <1>4, Zenon DEF Call, CallAdd, CallGet, CallPaginate, GoTo
  <2>2. UNCHANGED <<heap, disk>>
    BY <1>4, Zenon DEF Call, CallAdd, CallGet, CallPaginate
  <2> QED BY <2>1, <2>2, WriteKept, Zenon
<1>5. ASSUME NEW t \in Threads, AddAssertFails(t) PROVE WriteInv'
  BY <1>5, Zenon DEF AddAssertFails, Die, locals
<1>6. ASSUME NEW t \in Threads, AddReject(t) PROVE WriteInv'
  BY <1>6, ThreadsAssumption, Zenon DEF AddReject, Return
<1>7. ASSUME NEW t \in Threads, AddBegin(t) PROVE WriteInv'
  BY <1>7, ThreadsAssumption, Zenon DEF AddBegin, GoTo
<1>8. ASSUME NEW t \in Threads, AddInsert(t) PROVE WriteInv'
  BY <1>8, Zenon DEF AddInsert, GoTo, locals
<1>9. ASSUME NEW t \in Threads, AddLink(t) PROVE WriteInv'
  BY <1>9, Zenon DEF AddLink, GoTo, locals
<1>10. ASSUME NEW t \in Threads, AddAssign(t) PROVE WriteInv'
  BY <1>10, Zenon DEF AddAssign, GoTo
<1>11. ASSUME NEW t \in Threads, AddExists(t) PROVE WriteInv'
  <2>1. /\ bytes[t] \in Contents /\ bytes[t] \in Seq(Byte)
        /\ FileOf(t) \in Paths
        /\ \A w \in Threads : pc[w] = "add_write" => FALSE
    <3>1. bytes[t] \in Contents /\ heap[b[t]] = NewBlob(bytes[t])
      BY <1>11, Zenon DEF AddExists, AddInv
    <3>2. \A w \in Threads : pc[w] = "add_write" => FALSE
      BY <1>11, Zenon DEF AddExists
    <3> QED BY <3>1, <3>2, ContentsAssumption, NewBlobFacts, KeyFacts, SMTT(20)
  <2>2. SubSeq(bytes[t], 1, 0) = <<>> /\ 0 \in 0 .. Len(bytes[t])
    BY <2>1
  <2> SUFFICES ASSUME NEW w \in Threads, pc'[w] = "add_write"
               PROVE  \E n \in 0 .. Len(bytes'[w]) :
                        disk'[heap'[b'[w]].filePath_] = SubSeq(bytes'[w], 1, n)
    BY Zenon
  <2>3. w = t /\ disk' = [disk EXCEPT ![FileOf(t)] = <<>>] /\ UNCHANGED <<heap, b, bytes>>
    BY <1>11, <2>1, Zenon DEF AddExists, GoTo, locals
  <2> QED BY <2>1, <2>2, <2>3, Zenon
<1>12. ASSUME NEW t \in Threads, AddWrite(t) PROVE WriteInv'
  <2>1. PICK n \in Len(disk[FileOf(t)]) + 1 .. Len(bytes[t]) :
           disk' = [disk EXCEPT ![FileOf(t)] = SubSeq(bytes[t], 1, n)]
    BY <1>12, Zenon DEF AddWrite
  <2>2. /\ bytes[t] \in Seq(Byte) /\ FileOf(t) \in Paths
        /\ disk[FileOf(t)] \in Seq(Byte)
    <3>1. bytes[t] \in Contents /\ heap[b[t]] = NewBlob(bytes[t])
      BY <1>12, Zenon DEF AddWrite, AddInv
    <3>2. PICK m \in 0 .. Len(bytes[t]) : disk[FileOf(t)] = SubSeq(bytes[t], 1, m)
      BY <1>12, Zenon DEF AddWrite
    <3> QED BY <3>1, <3>2, ContentsAssumption, NewBlobFacts, KeyFacts
  <2>3. n \in 0 .. Len(bytes[t])
    BY <2>1, <2>2
  <2> SUFFICES ASSUME NEW w \in Threads, pc'[w] = "add_write"
               PROVE  \E k \in 0 .. Len(bytes'[w]) :
                        disk'[heap'[b'[w]].filePath_] = SubSeq(bytes'[w], 1, k)
    BY Zenon
  <2>4. w = t /\ UNCHANGED <<heap, b, bytes>>
    BY <1>12, Zenon DEF AddWrite, GoTo, locals
  <2> QED BY <2>1, <2>2, <2>3, <2>4, Zenon
<1>13. ASSUME NEW t \in Threads, AddWriteFails(t) PROVE WriteInv'
  BY <1>13, Zenon DEF AddWriteFails, GoTo, locals
<1>14. ASSUME NEW t \in Threads, AddReturn(t) PROVE WriteInv'
  BY <1>14, Zenon DEF AddReturn, Return
<1>15. ASSUME NEW t \in Threads, GetLookup(t) PROVE WriteInv'
  <2>1. \A w \in Threads : pc'[w] = "add_write" =>
          pc[w] = "add_write" /\ bytes'[w] = bytes[w] /\ b'[w] = b[w]
    BY <1>15, Zenon DEF GetLookup, Return, GoTo
  <2>2. UNCHANGED <<heap, disk>>
    BY <1>15, Zenon DEF GetLookup
  <2> QED BY <2>1, <2>2, WriteKept, Zenon
<1>16. ASSUME NEW t \in Threads, GetUse(t) PROVE WriteInv'
  BY <1>16, Zenon DEF GetUse, Return
<1>17. ASSUME NEW t \in Threads, PageSeek(t) \/ PageNext(t) PROVE WriteInv'
  <2>1. \A w \in Threads : pc'[w] = "add_write" =>
          pc[w] = "add_write" /\ bytes'[w] = bytes[w] /\ b'[w] = b[w]
    BY <1>17, Zenon DEF PageSeek, PageNext, Visit, GoTo
  <2>2. UNCHANGED <<heap, disk>>
    BY <1>17, Zenon DEF PageSeek, PageNext
  <2> QED BY <2>1, <2>2, WriteKept, Zenon
<1>18. ASSUME NEW t \in Threads, PageUse(t) \/ PageSend(t) PROVE WriteInv'
  <2>1. \A w \in Threads : pc'[w] = "add_write" =>
          pc[w] = "add_write" /\ bytes'[w] = bytes[w] /\ b'[w] = b[w]
    BY <1>18, Zenon DEF PageUse, PageSend, Return, Die, locals
  <2>2. UNCHANGED <<heap, disk>>
    BY <1>18, Zenon DEF PageUse, PageSend, Die
  <2> QED BY <2>1, <2>2, WriteKept, Zenon
<1> QED
  BY <1>1, <1>2, <1>3, <1>4, <1>5, <1>6, <1>7, <1>8, <1>9, <1>10, <1>11, <1>12,
     <1>13, <1>14, <1>15, <1>16, <1>17, <1>18, Zenon
  DEF Next, Step

(***************************************************************************)
(* The step that extends a file, and no other, changes the disk.           *)
(***************************************************************************)
GrowStep(f) ==
  disk[f] # NoFile /\ disk'[f] # disk[f] =>
    /\ disk'[f] # NoFile
    /\ Len(disk[f]) < Len(disk'[f])
    /\ disk[f] = SubSeq(disk'[f], 1, Len(disk[f]))
    /\ mutex_ # Unlocked

(***************************************************************************)
(* One write of the loop in add_blob replaces a prefix of the bytes by a   *)
(* longer one: the file grows.                                             *)
(***************************************************************************)
LEMMA WriteGrows ==
  ASSUME IInv, WriteInv, NEW t \in Threads, AddWrite(t), NEW f \in Paths
  PROVE  GrowStep(f)
<1>1. PICK m \in Len(disk[FileOf(t)]) + 1 .. Len(bytes[t]) :
         disk' = [disk EXCEPT ![FileOf(t)] = SubSeq(bytes[t], 1, m)]
  BY Zenon DEF AddWrite
<1>2. PICK n \in 0 .. Len(bytes[t]) : disk[FileOf(t)] = SubSeq(bytes[t], 1, n)
  BY Zenon DEF AddWrite, WriteInv
<1>3. bytes[t] \in Seq(Byte) /\ mutex_ = t
  BY ContentsAssumption, Zenon DEF AddWrite, IInv, AddInv, LockInv, Critical
<1>4. n < m /\ m \in 0 .. Len(bytes[t])
  <2>1. Len(disk[FileOf(t)]) = n
    BY <1>2, <1>3
  <2> QED BY <1>1, <1>3, <2>1
<1>5. /\ Len(SubSeq(bytes[t], 1, n)) = n /\ Len(SubSeq(bytes[t], 1, m)) = m
      /\ SubSeq(bytes[t], 1, n) = SubSeq(SubSeq(bytes[t], 1, m), 1, n)
      /\ SubSeq(bytes[t], 1, m) \in Seq(Byte)
  BY <1>3, <1>4, PrefixFacts
<1>6. disk \in [Paths -> Seq(Byte) \cup {NoFile}]
  BY Zenon DEF IInv, TypeOK
<1>7. mutex_ # Unlocked /\ SubSeq(bytes[t], 1, m) # NoFile
  BY <1>3, <1>5, FileAssumption, ThreadsAssumption, Zenon
<1>8. CASE f # FileOf(t)
  <2>1. disk'[f] = disk[f]
    BY <1>1, <1>6, <1>8, Zenon
  <2> QED BY <2>1, Zenon DEF GrowStep
<1>9. CASE f = FileOf(t)
  <2>1. disk[f] = SubSeq(bytes[t], 1, n) /\ disk'[f] = SubSeq(bytes[t], 1, m)
    BY <1>1, <1>2, <1>6, <1>9, Zenon
  <2> QED BY <1>4, <1>5, <1>7, <2>1, Zenon DEF GrowStep
<1> QED BY <1>8, <1>9, Zenon

(***************************************************************************)
(* While add_blob writes a file, the file holds a prefix of the bytes it   *)
(* was given.                                                              *)
(***************************************************************************)
THEOREM WritesArePrefixes == Spec => []WriteInv
<1>1. Init => WriteInv
  BY Zenon DEF Init, WriteInv
<1>2. IInv /\ WriteInv /\ [Next]_vars => WriteInv'
  BY WriteStep, Zenon
<1> QED BY <1>1, <1>2, IndexInvariant, PTL DEF Spec

(***************************************************************************)
(* Blobs are immutable: in every behaviour, crashes included, the bytes of *)
(* a file are never changed or removed, and only the holder of the mutex   *)
(* adds to them.                                                           *)
(***************************************************************************)
THEOREM FilesAreImmutable == Spec => FilesOnlyGrow
<1>1. IInv /\ WriteInv /\ [Next]_vars => [\A f \in Paths : GrowStep(f)]_vars
  <2> SUFFICES ASSUME IInv, WriteInv, Next, NEW f \in Paths PROVE GrowStep(f)
    BY Zenon DEF GrowStep
  <2>1. CASE UNCHANGED disk
    BY <2>1, Zenon DEF GrowStep
  <2>2. ASSUME NEW t \in Threads, AddWrite(t) PROVE GrowStep(f)
    BY <2>2, WriteGrows, Zenon
  <2>3. ASSUME NEW t \in Threads, AddExists(t) PROVE GrowStep(f)
    BY <2>3, Zenon DEF AddExists, GrowStep, IInv, TypeOK
  <2>4. ASSUME NEW t \in Threads, Call(t) PROVE UNCHANGED disk
    BY <2>4, Zenon DEF Call, CallAdd, CallGet, CallPaginate
  <2>5. ASSUME NEW t \in Threads, Step(t), ~ AddWrite(t), ~ AddExists(t)
        PROVE  UNCHANGED disk
    BY <2>5, Zenon DEF Step, AddAssertFails, AddReject, AddBegin, AddInsert, AddLink, AddAssign,
       AddWriteFails, AddReturn, GetLookup, GetUse, PageSeek, PageNext, PageUse, PageSend, Die
  <2>6. (Crash \/ Restart) => UNCHANGED disk
    BY Zenon DEF Crash, Die, Restart
  <2> QED BY <2>1, <2>2, <2>3, <2>4, <2>5, <2>6, Zenon DEF Next
<1>2. [][\A f \in Paths : GrowStep(f)]_vars => FilesOnlyGrow
  BY PTL DEF FilesOnlyGrow, GrowStep
<1> QED BY <1>1, <1>2, IndexInvariant, WritesArePrefixes, PTL DEF Spec

------------------------------------------------------------------------------
(* Contents without NUL bytes, no crashes, no I/O errors *)

(***************************************************************************)
(* The conditions under which an accepted content stays retrievable.       *)
(***************************************************************************)
NulFree == \A c \in Contents : CString(c) = c

Filing == {"add_exists", "add_write", "add_unlock"}

(***************************************************************************)
(* A file is complete or is being written.                                 *)
(***************************************************************************)
FileInv ==
  \A c \in Contents :
    \/ disk[Sha256(c)] \in {NoFile, c}
    \/ \E t \in Threads : pc[t] = "add_write" /\ bytes[t] = c

(***************************************************************************)
(* A pointer under a key of c is to a Blob with the path and size of c.    *)
(***************************************************************************)
SizeInv ==
  \A c \in Contents :
    /\ blobs_[K1(c)] \in Pointers => heap[blobs_[K1(c)]] = NewBlob(c)
    /\ blobs_[K2(c)] \in Pointers => heap[blobs_[K2(c)]] = NewBlob(c)

(***************************************************************************)
(* An indexed content has its file, or is still being added.               *)
(***************************************************************************)
StoredInv ==
  \A c \in Contents :
    \/ blobs_[K1(c)] = Absent /\ blobs_[K2(c)] = Absent
    \/ disk[Sha256(c)] = c
    \/ \E t \in Threads : pc[t] \in Critical /\ bytes[t] = c

(***************************************************************************)
(* A thread that has inserted both keys sees its own Blob under them, and  *)
(* does not unlock before the file is complete.                            *)
(***************************************************************************)
FilingInv ==
  \A t \in Threads :
    /\ pc[t] \in Filing => blobs_[K1(bytes[t])] = b[t] /\ blobs_[K2(bytes[t])] = b[t]
    /\ pc[t] = "add_unlock" => disk[Sha256(bytes[t])] = bytes[t]

LinkInv == \A t \in Threads : pc[t] = "add_link" => blobs_[key[t]] = Absent

AckedInv ==
  \A c \in acked :
    /\ blobs_[K1(c)] \in Pointers
    /\ blobs_[K2(c)] \in Pointers
    /\ disk[Sha256(c)] = c

FoundInv ==
  \A t \in Threads : pc[t] = "get_use" =>
    \E c \in Contents :
      /\ key[t] = K1(c) \/ key[t] = K2(c)
      /\ heap[b[t]] = NewBlob(c)
      /\ disk[Sha256(c)] = c

CInv ==
  /\ FileInv
  /\ SizeInv
  /\ StoredInv
  /\ FilingInv
  /\ LinkInv
  /\ AckedInv
  /\ FoundInv

(***************************************************************************)
(* Every key is the SHA-1 or the SHA-256 key of a content.                 *)
(***************************************************************************)
LEMMA KeyElements == \A k \in Keys : \E c \in Contents : k = K1(c) \/ k = K2(c)
<1> SUFFICES ASSUME NEW k \in Keys PROVE \E c \in Contents : k = K1(c) \/ k = K2(c)
  BY Zenon
<1>1. \E h \in HashTypes, c \in Contents : k = BlobKeyFor(h, c)
  BY DEF Keys
<1>2. \A h \in HashTypes : h = sha1 \/ h = sha256
  BY Zenon DEF HashTypes
<1> QED BY <1>1, <1>2, Zenon DEF K1, K2

(***************************************************************************)
(* Steps that leave the Blobs and the files alone keep what a thread that  *)
(* has looked up a key knows.                                              *)
(***************************************************************************)
LEMMA FoundKept ==
  ASSUME FoundInv, UNCHANGED <<heap, disk>>,
         \A w \in Threads : pc'[w] = "get_use" =>
           pc[w] = "get_use" /\ b'[w] = b[w] /\ key'[w] = key[w]
  PROVE  FoundInv'
<1> SUFFICES ASSUME NEW w \in Threads, pc'[w] = "get_use"
             PROVE  \E c \in Contents :
                      /\ key'[w] = K1(c) \/ key'[w] = K2(c)
                      /\ heap[b'[w]] = NewBlob(c)
                      /\ disk[Sha256(c)] = c
  BY Zenon DEF FoundInv, K1, K2, NewBlob
<1>1. pc[w] = "get_use" /\ b'[w] = b[w] /\ key'[w] = key[w]
  BY Zenon
<1> QED BY <1>1 DEF FoundInv

(***************************************************************************)
(* Without NUL bytes the whole content is hashed: contents with a key or a *)
(* path in common are equal.                                               *)
(***************************************************************************)
LEMMA NulFreeFacts ==
  ASSUME NulFree
  PROVE  \A c, d \in Contents : K1(c) = K1(d) \/ K2(c) = K2(d) \/ Sha256(c) = Sha256(d) => c = d
<1> SUFFICES ASSUME NEW c \in Contents, NEW d \in Contents,
                    K1(c) = K1(d) \/ K2(c) = K2(d) \/ Sha256(c) = Sha256(d)
             PROVE  c = d
  BY Zenon
<1>1. Sha256(c) = Sha256(d)
  BY KeyFacts, Zenon
<1>2. CString(c) \in CStrings /\ CString(d) \in CStrings
  BY Zenon DEF CStrings
<1>3. CString(c) = CString(d)
  BY <1>1, <1>2, DigestAssumption, Zenon DEF Sha256
<1> QED BY <1>3, Zenon DEF NulFree

(***************************************************************************)
(* A key of one content is no key of another, and a pointer is neither     *)
(* Absent nor NULL.                                                        *)
(***************************************************************************)
LEMMA OtherKeys ==
  ASSUME NulFree, NEW d \in Contents, NEW k, k = K1(d) \/ k = K2(d), NEW c \in Contents \ {d}
  PROVE  K1(c) \in Keys /\ K2(c) \in Keys /\ K1(c) # k /\ K2(c) # k
<1>1. K1(c) # K1(d) /\ K2(c) # K2(d)
  BY NulFreeFacts, Zenon
<1>2. K1(c) # K2(d) /\ K1(d) # K2(c) /\ K1(c) \in Keys /\ K2(c) \in Keys
  BY KeyFacts, Zenon
<1> QED BY <1>1, <1>2, Zenon

LEMMA PointerFacts == \A p \in Pointers : p # Absent /\ p # NULL
BY BoundsAssumption, SMTT(20) DEF Pointers, Absent, NULL

(***************************************************************************)
(* A step of the holder that changes the map under no key but those of its *)
(* own content.                                                            *)
(***************************************************************************)
LEMMA StoredKept ==
  ASSUME StoredInv, UNCHANGED disk, NEW t \in Threads, bytes'[t] = bytes[t], pc'[t] \in Critical,
         \A w \in Threads : pc[w] \in Critical => w = t,
         \A c \in Contents \ {bytes[t]} :
           blobs_'[K1(c)] = blobs_[K1(c)] /\ blobs_'[K2(c)] = blobs_[K2(c)]
  PROVE  StoredInv'
<1> SUFFICES ASSUME NEW c \in Contents
             PROVE  \/ blobs_'[K1(c)] = Absent /\ blobs_'[K2(c)] = Absent
                    \/ disk[Sha256(c)] = c
                    \/ \E w \in Threads : pc'[w] \in Critical /\ bytes'[w] = c
  BY Zenon DEF StoredInv
<1>1. CASE c = bytes[t]
  BY <1>1, Zenon
<1>2. CASE c # bytes[t]
  <2>1. \/ blobs_[K1(c)] = Absent /\ blobs_[K2(c)] = Absent
        \/ disk[Sha256(c)] = c
    BY <1>2, Zenon DEF StoredInv
  <2> QED BY <1>2, <2>1, Zenon
<1> QED BY <1>1, <1>2, Zenon

(***************************************************************************)
(* Steps that leave the map and the disk alone and do not bring a thread   *)
(* into, or forward in, the part of add_blob that writes the file.         *)
(***************************************************************************)
LEMMA QuietStep ==
  ASSUME IInv, CInv, HeapKept, UNCHANGED <<blobs_, disk, acked>>,
         \A w \in Threads : pc[w] \in Critical =>
           pc'[w] \in Critical /\ bytes'[w] = bytes[w] /\ b'[w] = b[w],
         \A w \in Threads : pc[w] = "add_write" => pc'[w] = "add_write",
         \A w \in Threads : pc'[w] \in Filing => pc'[w] = pc[w],
         \A w \in Threads : pc'[w] = "add_link" => blobs_[key'[w]] = Absent,
         \A w \in Threads : pc'[w] = "get_use" =>
           pc[w] = "get_use" /\ b'[w] = b[w] /\ key'[w] = key[w]
  PROVE  CInv'
<1>1. FileInv'
  <2> SUFFICES ASSUME NEW c \in Contents
               PROVE  \/ disk[Sha256(c)] \in {NoFile, c}
                      \/ \E w \in Threads : pc'[w] = "add_write" /\ bytes'[w] = c
    BY Zenon DEF FileInv
  <2>1. CASE disk[Sha256(c)] \in {NoFile, c}
    BY <2>1, Zenon
  <2>2. CASE \E w \in Threads : pc[w] = "add_write" /\ bytes[w] = c
    <3>1. PICK w \in Threads : pc[w] = "add_write" /\ bytes[w] = c
      BY <2>2, Zenon
    <3>2. pc[w] \in Critical
      BY <3>1, Zenon DEF Critical, Filing
    <3> QED BY <3>1, <3>2, Zenon
  <2> QED BY <2>1, <2>2, Zenon DEF CInv, FileInv
<1>2. SizeInv'
  <2> SUFFICES ASSUME NEW c \in Contents
               PROVE  /\ blobs_[K1(c)] \in Pointers => heap'[blobs_[K1(c)]] = NewBlob(c)
                      /\ blobs_[K2(c)] \in Pointers => heap'[blobs_[K2(c)]] = NewBlob(c)
    BY Zenon DEF SizeInv, K1, K2
  <2> QED BY NewBlobFacts DEF CInv, SizeInv, HeapKept
<1>3. StoredInv'
  <2> SUFFICES ASSUME NEW c \in Contents
               PROVE  \/ blobs_[K1(c)] = Absent /\ blobs_[K2(c)] = Absent
                      \/ disk[Sha256(c)] = c
                      \/ \E w \in Threads : pc'[w] \in Critical /\ bytes'[w] = c
    BY Zenon DEF StoredInv
  <2>1. \/ blobs_[K1(c)] = Absent /\ blobs_[K2(c)] = Absent
        \/ disk[Sha256(c)] = c
        \/ \E w \in Threads : pc[w] \in Critical /\ bytes[w] = c
    BY Zenon DEF CInv, StoredInv
  <2> QED BY <2>1, Zenon
<1>4. FilingInv'
  BY DEF CInv, FilingInv, Critical, Filing
<1>5. AckedInv' /\ LinkInv'
  BY Zenon DEF CInv, AckedInv, LinkInv
<1>6. FoundInv'
  <2> SUFFICES ASSUME NEW w \in Threads, pc'[w] = "get_use"
               PROVE  \E c \in Contents :
                        /\ key'[w] = K1(c) \/ key'[w] = K2(c)
                        /\ heap'[b'[w]] = NewBlob(c)
                        /\ disk'[Sha256(c)] = c
    BY Zenon DEF FoundInv
  <2>1. PICK c \in Contents : /\ key[w] = K1(c) \/ key[w] = K2(c)
                             /\ heap[b[w]] = NewBlob(c)
                             /\ disk[Sha256(c)] = c
    BY ZenonT(30) DEF CInv, FoundInv
  <2>2. b[w] \in Pointers
    BY Zenon DEF IInv, GetInv
  <2> QED BY <2>1, <2>2, NewBlobFacts DEF HeapKept
<1> QED BY <1>1, <1>2, <1>3, <1>4, <1>5, <1>6, Zenon DEF CInv

(***************************************************************************)
(* What is known of a thread in the critical section.                      *)
(***************************************************************************)
LEMMA HolderFacts ==
  ASSUME IInv, NEW t \in Threads, pc[t] \in Critical
  PROVE  /\ \A w \in Threads : pc[w] \in Critical => w = t
         /\ bytes[t] \in Contents
         /\ b[t] \in Pointers
         /\ heap[b[t]] = NewBlob(bytes[t])
         /\ FileOf(t) = Sha256(bytes[t])
         /\ Sha256(bytes[t]) \in Paths
BY NewBlobFacts, KeyFacts, Zenon DEF IInv, LockInv, AddInv, FileOf

(***************************************************************************)
(* AddLink, the first half of blobs_[key] = b, keeps the contents          *)
(* invariant.                                                              *)
(***************************************************************************)
LEMMA LinkStepC ==
  ASSUME IInv, CInv, NulFree, NEW t \in Threads, AddLink(t)
  PROVE  CInv'
<1>1. /\ pc[t] = "add_link" /\ pc[t] \in Critical
      /\ key[t] = K1(bytes[t]) \/ key[t] = K2(bytes[t])
      /\ blobs_[key[t]] = Absent
  BY Zenon DEF AddLink, IInv, InsertInv, CInv, LinkInv, Critical, Inserting
<1>2. /\ blobs_' = [blobs_ EXCEPT ![key[t]] = NULL]
      /\ pc' = [pc EXCEPT ![t] = "add_assign"]
      /\ UNCHANGED <<heap, disk, bytes, b, key, acked>>
  BY Zenon DEF AddLink, GoTo, locals
<1>3. /\ \A w \in Threads : pc[w] \in Critical => w = t
      /\ bytes[t] \in Contents
  BY <1>1, HolderFacts, Zenon
<1>4. pc'[t] = "add_assign" /\ \A w \in Threads \ {t} : pc'[w] = pc[w]
  BY <1>2, Zenon DEF IInv, TypeOK
<1>5. \A k \in Keys : blobs_'[k] = IF k = key[t] THEN NULL ELSE blobs_[k]
  BY <1>2, Zenon DEF IInv, TypeOK
<1>6. FileInv'
  BY <1>1, <1>2, <1>4 DEF CInv, FileInv
<1>7. SizeInv'
  BY <1>2, <1>5, KeyFacts DEF CInv, SizeInv, NULL, Pointers
<1>8. StoredInv'
  <2>1. \A c \in Contents \ {bytes[t]} :
          blobs_'[K1(c)] = blobs_[K1(c)] /\ blobs_'[K2(c)] = blobs_[K2(c)]
    <3> SUFFICES ASSUME NEW c \in Contents \ {bytes[t]}
                 PROVE  blobs_'[K1(c)] = blobs_[K1(c)] /\ blobs_'[K2(c)] = blobs_[K2(c)]
      BY Zenon
    <3>1. K1(c) \in Keys /\ K2(c) \in Keys /\ K1(c) # key[t] /\ K2(c) # key[t]
      BY <1>1, <1>3, OtherKeys, Zenon
    <3> QED BY <1>5, <3>1, Zenon
  <2>2. pc'[t] \in Critical /\ bytes'[t] = bytes[t] /\ StoredInv
    BY <1>2, <1>4, Zenon DEF Critical, Inserting, CInv
  <2> QED BY <1>2, <1>3, <2>1, <2>2, StoredKept, Zenon
<1>9. FilingInv' /\ LinkInv'
  BY <1>2, <1>3, <1>4, Zenon DEF FilingInv, LinkInv, Critical, Filing, Inserting
<1>10. AckedInv'
  <2> SUFFICES ASSUME NEW c \in acked
               PROVE  /\ blobs_'[K1(c)] \in Pointers /\ blobs_'[K2(c)] \in Pointers
                      /\ disk[Sha256(c)] = c
    BY <1>2, Zenon DEF AckedInv
  <2>1. blobs_[K1(c)] \in Pointers /\ blobs_[K2(c)] \in Pointers /\ disk[Sha256(c)] = c
    BY Zenon DEF CInv, AckedInv
  <2>2. K1(c) \in Keys /\ K2(c) \in Keys
    BY KeyFacts, Zenon DEF IInv, TypeOK
  <2>3. K1(c) # key[t] /\ K2(c) # key[t]
    BY <1>1, <2>1, PointerFacts, Zenon
  <2> QED BY <1>5, <2>1, <2>2, <2>3, Zenon
<1>11. FoundInv'
  BY <1>2, <1>4, Zenon DEF CInv, FoundInv
<1> QED BY <1>6, <1>7, <1>8, <1>9, <1>10, <1>11, Zenon DEF CInv

(***************************************************************************)
(* AddAssign, the second half of blobs_[key] = b, keeps the contents       *)
(* invariant.                                                              *)
(***************************************************************************)
LEMMA AssignStepC ==
  ASSUME IInv, CInv, NulFree, NEW t \in Threads, AddAssign(t)
  PROVE  CInv'
<1>1. /\ pc[t] = "add_assign" /\ pc[t] \in Critical
      /\ \/ key[t] = K1(bytes[t])
         \/ key[t] = K2(bytes[t]) /\ blobs_[K1(bytes[t])] = b[t]
  BY Zenon DEF AddAssign, IInv, InsertInv, Critical, Inserting
<1>2. /\ blobs_' = [blobs_ EXCEPT ![key[t]] = b[t]]
      /\ UNCHANGED <<heap, disk, bytes, b, acked>>
      /\ pc'[t] \in {"add_insert", "add_exists"}
      /\ \A w \in Threads \ {t} : pc'[w] = pc[w] /\ key'[w] = key[w]
      /\ pc'[t] = "add_exists" => key[t].hash_type = sha256
  BY Zenon DEF AddAssign, GoTo, IInv, TypeOK
<1>3. /\ \A w \in Threads : pc[w] \in Critical => w = t
      /\ bytes[t] \in Contents
      /\ b[t] \in Pointers
      /\ heap[b[t]] = NewBlob(bytes[t])
  BY <1>1, HolderFacts, Zenon
<1>4. \A k \in Keys : blobs_'[k] = IF k = key[t] THEN b[t] ELSE blobs_[k]
  BY <1>2, Zenon DEF IInv, TypeOK
<1>5. FileInv'
  <2> SUFFICES ASSUME NEW c \in Contents, disk[Sha256(c)] \notin {NoFile, c}
               PROVE  \E w \in Threads : pc'[w] = "add_write" /\ bytes[w] = c
    BY <1>2, Zenon DEF FileInv
  <2>1. PICK w \in Threads : pc[w] = "add_write" /\ bytes[w] = c
    BY Zenon DEF CInv, FileInv
  <2> QED BY <1>1, <1>2, <2>1, Zenon
<1>6. SizeInv'
  <2> SUFFICES ASSUME NEW c \in Contents
               PROVE  /\ blobs_'[K1(c)] \in Pointers => heap[blobs_'[K1(c)]] = NewBlob(c)
                      /\ blobs_'[K2(c)] \in Pointers => heap[blobs_'[K2(c)]] = NewBlob(c)
    BY <1>2, Zenon DEF SizeInv
  <2>1. K1(c) \in Keys /\ K2(c) \in Keys
    BY KeyFacts, Zenon
  <2>2. (K1(c) = key[t] \/ K2(c) = key[t]) => c = bytes[t]
    BY <1>1, <1>3, OtherKeys, Zenon
  <2>3. /\ blobs_[K1(c)] \in Pointers => heap[blobs_[K1(c)]] = NewBlob(c)
        /\ blobs_[K2(c)] \in Pointers => heap[blobs_[K2(c)]] = NewBlob(c)
    BY Zenon DEF CInv, SizeInv
  <2> QED BY <1>3, <1>4, <2>1, <2>2, <2>3, Zenon
<1>7. StoredInv'
  <2>1. \A c \in Contents \ {bytes[t]} :
          blobs_'[K1(c)] = blobs_[K1(c)] /\ blobs_'[K2(c)] = blobs_[K2(c)]
    <3> SUFFICES ASSUME NEW c \in Contents \ {bytes[t]}
                 PROVE  blobs_'[K1(c)] = blobs_[K1(c)] /\ blobs_'[K2(c)] = blobs_[K2(c)]
      OBVIOUS
    <3>1. K1(c) \in Keys /\ K2(c) \in Keys /\ K1(c) # key[t] /\ K2(c) # key[t]
      BY <1>1, <1>3, OtherKeys, Zenon
    <3> QED BY <1>4, <3>1, Zenon
  <2>2. pc'[t] \in Critical /\ bytes'[t] = bytes[t] /\ StoredInv
    BY <1>2, Zenon DEF Critical, Inserting, CInv
  <2> QED BY <1>2, <1>3, <2>1, <2>2, StoredKept, ZenonT(30)
<1>8. FilingInv' /\ LinkInv'
  <2>1. pc'[t] = "add_exists" => blobs_'[K1(bytes[t])] = b[t] /\ blobs_'[K2(bytes[t])] = b[t]
    <3> SUFFICES ASSUME pc'[t] = "add_exists"
                 PROVE  blobs_'[K1(bytes[t])] = b[t] /\ blobs_'[K2(bytes[t])] = b[t]
      BY Zenon
    <3>1. /\ K1(bytes[t]) \in Keys /\ K2(bytes[t]) \in Keys /\ K1(bytes[t]) # K2(bytes[t])
          /\ K1(bytes[t]).hash_type = sha1
      BY <1>3, KeyFacts, Zenon
    <3>2. key[t] # K1(bytes[t])
      <4>1. key[t].hash_type = sha256 /\ sha1 # sha256
        BY <1>2 DEF sha1, sha256
      <4> QED BY <3>1, <4>1, Zenon
    <3>3. key[t] = K2(bytes[t]) /\ blobs_[K1(bytes[t])] = b[t]
      BY <1>1, <3>2, Zenon
    <3> QED BY <1>4, <3>1, <3>3, Zenon
  <2> QED BY <1>2, <1>3, <2>1, Zenon DEF FilingInv, LinkInv, Critical, Filing, Inserting
<1>9. AckedInv'
  BY <1>2, <1>3, <1>4, KeyFacts, Zenon DEF CInv, AckedInv, IInv, TypeOK
<1>10. FoundInv'
  BY <1>2, FoundKept, Zenon DEF CInv
<1> QED BY <1>5, <1>6, <1>7, <1>8, <1>9, <1>10 DEF CInv

(***************************************************************************)
(* A step of the holder that changes its own file, which no accepted and   *)
(* no found content is in, and leaves the map alone.                       *)
(***************************************************************************)
LEMMA FileChangeC ==
  ASSUME IInv, CInv, NulFree, NEW t \in Threads, pc[t] \in Filing,
         UNCHANGED <<blobs_, heap, bytes, b, key, acked>>,
         \A w \in Threads \ {t} : pc'[w] = pc[w],
         pc'[t] \in {"add_write", "add_unlock"},
         NEW x, disk' = [disk EXCEPT ![Sha256(bytes[t])] = x],
         disk[Sha256(bytes[t])] # bytes[t],
         pc'[t] = "add_unlock" => x = bytes[t]
  PROVE  CInv'
<1>1. pc[t] \in Critical
  BY Zenon DEF Critical, Filing
<1>2. /\ \A w \in Threads : pc[w] \in Critical => w = t
      /\ bytes[t] \in Contents
      /\ Sha256(bytes[t]) \in Paths
  BY <1>1, HolderFacts, ZenonT(30)
<1>3. \A c \in Contents : disk'[Sha256(c)] = IF c = bytes[t] THEN x ELSE disk[Sha256(c)]
  BY <1>2, KeyFacts, NulFreeFacts, Zenon DEF IInv, TypeOK
<1>4. FileInv'
  <2> SUFFICES ASSUME NEW c \in Contents
               PROVE  \/ disk'[Sha256(c)] \in {NoFile, c}
                      \/ \E w \in Threads : pc'[w] = "add_write" /\ bytes'[w] = c
    BY ZenonT(30) DEF FileInv
  <2>1. CASE c = bytes[t]
    BY <1>3, <2>1, Zenon
  <2>2. CASE c # bytes[t]
    <3>1. disk[Sha256(c)] \in {NoFile, c}
      BY <1>2, <2>2, Zenon DEF CInv, FileInv, Critical
    <3>2. disk'[Sha256(c)] = disk[Sha256(c)]
      BY <1>3, <2>2, Zenon
    <3> QED BY <3>1, <3>2, Zenon
  <2> QED BY <2>1, <2>2, Zenon
<1>5. SizeInv'
  BY Zenon DEF CInv, SizeInv
<1>6. StoredInv'
  <2> SUFFICES ASSUME NEW c \in Contents
               PROVE  \/ blobs_[K1(c)] = Absent /\ blobs_[K2(c)] = Absent
                      \/ disk'[Sha256(c)] = c
                      \/ \E w \in Threads : pc'[w] \in Critical /\ bytes'[w] = c
    BY Zenon DEF StoredInv
  <2>1. CASE c = bytes[t]
    BY <2>1, Zenon DEF Critical
  <2>2. CASE c # bytes[t]
    BY <1>2, <1>3, <2>2, Zenon DEF CInv, StoredInv
  <2> QED BY <2>1, <2>2, Zenon
<1>7. FilingInv' /\ LinkInv'
  <2>1. \A w \in Threads : pc'[w] \in Filing \cup {"add_link"} => w = t
    BY <1>2, Zenon DEF Critical, Filing, Inserting
  <2>2. blobs_[K1(bytes[t])] = b[t] /\ blobs_[K2(bytes[t])] = b[t]
    BY Zenon DEF CInv, FilingInv
  <2>3. pc'[t] = "add_unlock" => disk'[Sha256(bytes[t])] = bytes[t]
    BY <1>2, <1>3, Zenon
  <2> QED BY <2>1, <2>2, <2>3, Zenon DEF FilingInv, LinkInv, Filing
<1>8. AckedInv'
  BY <1>3, Zenon DEF CInv, AckedInv, IInv, TypeOK
<1>9. FoundInv'
  <2> SUFFICES ASSUME NEW w \in Threads, pc'[w] = "get_use"
               PROVE  \E c \in Contents :
                        /\ key[w] = K1(c) \/ key[w] = K2(c)
                        /\ heap[b[w]] = NewBlob(c)
                        /\ disk'[Sha256(c)] = c
    BY Zenon DEF FoundInv
  <2>1. pc[w] = "get_use"
    BY Zenon
  <2>2. PICK c \in Contents : /\ key[w] = K1(c) \/ key[w] = K2(c)
                             /\ heap[b[w]] = NewBlob(c)
                             /\ disk[Sha256(c)] = c
    BY <2>1, Zenon DEF CInv, FoundInv
  <2>3. c # bytes[t]
    BY <2>2, Zenon
  <2> QED BY <1>3, <2>2, <2>3, Zenon
<1> QED BY <1>4, <1>5, <1>6, <1>7, <1>8, <1>9, Zenon DEF CInv

(***************************************************************************)
(* The test for the file in add_blob keeps the contents invariant, whether *)
(* the file is there or is opened.                                         *)
(***************************************************************************)
LEMMA ExistsStepC ==
  ASSUME IInv, CInv, NulFree, Faults = {}, NEW t \in Threads, AddExists(t)
  PROVE  CInv'
<1>1. /\ pc[t] = "add_exists" /\ pc[t] \in Critical
      /\ UNCHANGED <<blobs_, heap, bytes, b, key, acked>>
  BY Zenon DEF AddExists, Critical, locals
<1>2. /\ \A w \in Threads : pc[w] \in Critical => w = t
      /\ bytes[t] \in Contents
      /\ FileOf(t) = Sha256(bytes[t])
  BY <1>1, HolderFacts, Zenon
<1>3. CASE disk[FileOf(t)] # NoFile /\ GoTo(t, "add_unlock") /\ UNCHANGED disk
  <2>1. disk[Sha256(bytes[t])] = bytes[t]
    BY <1>1, <1>2, <1>3, Zenon DEF CInv, FileInv, Critical
  <2>2. pc'[t] = "add_unlock" /\ \A w \in Threads \ {t} : pc'[w] = pc[w]
    BY <1>3, Zenon DEF GoTo, IInv, TypeOK
  <2>3. FileInv'
    BY <1>1, <1>2, <1>3, <2>1, Zenon DEF CInv, FileInv, Critical
  <2>4. StoredInv'
    BY <1>1, <1>2, <1>3, <2>1, Zenon DEF CInv, StoredInv
  <2>5. FilingInv' /\ LinkInv'
    BY <1>1, <1>2, <1>3, <2>1, <2>2, Zenon
       DEF CInv, FilingInv, LinkInv, Critical, Filing, Inserting
  <2>6. SizeInv' /\ AckedInv' /\ FoundInv'
    BY <1>1, <1>3, <2>2, ZenonT(30) DEF CInv, SizeInv, AckedInv, FoundInv
  <2> QED BY <2>3, <2>4, <2>5, <2>6, Zenon DEF CInv
<1>4. CASE /\ disk[FileOf(t)] = NoFile
           /\ disk' = [disk EXCEPT ![FileOf(t)] = <<>>]
           /\ GoTo(t, "add_write")
  <2>1. disk[Sha256(bytes[t])] # bytes[t]
    BY <1>2, <1>4, FileAssumption, ContentsAssumption, Zenon
  <2>2. pc'[t] = "add_write" /\ \A w \in Threads \ {t} : pc'[w] = pc[w]
    BY <1>4, Zenon DEF GoTo, IInv, TypeOK
  <2>3. pc[t] \in Filing
    BY <1>1, Zenon DEF Filing
  <2> QED BY <1>1, <1>2, <1>4, <2>1, <2>2, <2>3, FileChangeC, Zenon
<1> QED BY <1>3, <1>4, Zenon DEF AddExists

(***************************************************************************)
(* A write of add_blob keeps the contents invariant.                       *)
(***************************************************************************)
LEMMA WriteStepC ==
  ASSUME IInv, WriteInv, CInv, NulFree, NEW t \in Threads, AddWrite(t)
  PROVE  CInv'
<1>1. /\ pc[t] = "add_write" /\ pc[t] \in Critical /\ pc[t] \in Filing
      /\ UNCHANGED <<blobs_, heap, bytes, b, key, acked>>
  BY Zenon DEF AddWrite, Critical, Filing, locals
<1>2. bytes[t] \in Contents /\ bytes[t] \in Seq(Byte) /\ FileOf(t) = Sha256(bytes[t])
  BY <1>1, HolderFacts, ContentsAssumption, Zenon
<1>3. PICK n \in Len(disk[FileOf(t)]) + 1 .. Len(bytes[t]) :
         /\ disk' = [disk EXCEPT ![FileOf(t)] = SubSeq(bytes[t], 1, n)]
         /\ GoTo(t, IF n = Len(bytes[t]) THEN "add_unlock" ELSE "add_write")
  BY Zenon DEF AddWrite
<1>4. disk[Sha256(bytes[t])] # bytes[t]
  BY <1>2, <1>3
<1>5. /\ \A w \in Threads \ {t} : pc'[w] = pc[w]
      /\ pc'[t] = IF n = Len(bytes[t]) THEN "add_unlock" ELSE "add_write"
  BY <1>3, Zenon DEF GoTo, IInv, TypeOK
<1>6. pc'[t] = "add_unlock" => SubSeq(bytes[t], 1, n) = bytes[t]
  BY <1>2, <1>5
<1>7. pc'[t] \in {"add_write", "add_unlock"}
  BY <1>5, Zenon
<1> QED BY <1>1, <1>2, <1>3, <1>4, <1>5, <1>6, <1>7, FileChangeC, Zenon

(***************************************************************************)
(* Accepting the blob keeps the contents invariant: its keys and its file  *)
(* are there when the lock is released.                                    *)
(***************************************************************************)
LEMMA ReturnStepC ==
  ASSUME IInv, CInv, NulFree, NEW t \in Threads, AddReturn(t)
  PROVE  CInv'
<1>1. /\ pc[t] = "add_unlock" /\ pc[t] \in Critical /\ pc[t] \in Filing
      /\ acked' = acked \cup {bytes[t]}
      /\ UNCHANGED <<blobs_, heap, disk>>
      /\ pc'[t] = "idle"
      /\ \A w \in Threads \ {t} : /\ pc'[w] = pc[w] /\ bytes'[w] = bytes[w]
                                 /\ b'[w] = b[w] /\ key'[w] = key[w]
  BY Zenon DEF AddReturn, Return, Critical, Filing, IInv, TypeOK
<1>2. /\ \A w \in Threads : pc[w] \in Critical => w = t
      /\ bytes[t] \in Contents
      /\ b[t] \in Pointers
  BY <1>1, HolderFacts, Zenon
<1>3. /\ blobs_[K1(bytes[t])] = b[t] /\ blobs_[K2(bytes[t])] = b[t]
      /\ disk[Sha256(bytes[t])] = bytes[t]
  BY <1>1, Zenon DEF CInv, FilingInv
<1>4. FileInv' /\ StoredInv'
  <2> SUFFICES ASSUME NEW c \in Contents
               PROVE  /\ \/ disk[Sha256(c)] \in {NoFile, c}
                         \/ \E w \in Threads : pc'[w] = "add_write" /\ bytes'[w] = c
                      /\ \/ blobs_[K1(c)] = Absent /\ blobs_[K2(c)] = Absent
                         \/ disk[Sha256(c)] = c
                         \/ \E w \in Threads : pc'[w] \in Critical /\ bytes'[w] = c
    BY <1>1, Zenon DEF FileInv, StoredInv
  <2>1. CASE c = bytes[t]
    BY <1>3, <2>1, Zenon
  <2>2. CASE c # bytes[t]
    <3>1. \A w \in Threads : bytes[w] = c => w # t
      BY <2>2, Zenon
    <3>2. \A w \in Threads : bytes[w] = c => pc[w] \notin Critical /\ pc[w] # "add_write"
      BY <1>2, <3>1, Zenon DEF Critical, Filing
    <3> QED BY <3>2, Zenon DEF CInv, FileInv, StoredInv
  <2> QED BY <2>1, <2>2, Zenon
<1>5. SizeInv' /\ FoundInv'
  <2>1. SizeInv'
    BY <1>1, Zenon DEF CInv, SizeInv
  <2>2. FoundInv'
    BY <1>1, FoundKept, Zenon DEF CInv
  <2> QED BY <2>1, <2>2, Zenon
<1>6. FilingInv' /\ LinkInv'
  BY <1>1, <1>2, Zenon DEF FilingInv, LinkInv, Critical, Filing, Inserting
<1>7. AckedInv'
  BY <1>1, <1>2, <1>3, Zenon DEF CInv, AckedInv
<1> QED BY <1>4, <1>5, <1>6, <1>7, Zenon DEF CInv

(***************************************************************************)
(* A get_blob that finds its key keeps the contents invariant: with the    *)
(* lock free, the file is complete.                                        *)
(***************************************************************************)
LEMMA LookupStepC ==
  ASSUME IInv, CInv, NulFree, NEW t \in Threads, GetLookup(t)
  PROVE  CInv'
<1>1. /\ pc[t] = "get_lock" /\ key[t] \in Keys
      /\ UNCHANGED <<blobs_, heap, disk, acked>>
      /\ \A w \in Threads : pc[w] \notin Critical
      /\ \A w \in Threads \ {t} : /\ pc'[w] = pc[w] /\ bytes'[w] = bytes[w]
                                 /\ b'[w] = b[w] /\ key'[w] = key[w]
      /\ pc'[t] \in {"idle", "get_use"}
  BY ThreadsAssumption, Zenon DEF GetLookup, Return, GoTo, IInv, TypeOK, GetInv, LockInv
<1>2. FileInv' /\ SizeInv' /\ StoredInv' /\ AckedInv'
  BY <1>1, Zenon DEF CInv, FileInv, SizeInv, StoredInv, AckedInv, Critical
<1>3. FilingInv' /\ LinkInv'
  BY <1>1, Zenon DEF FilingInv, LinkInv, Critical, Filing, Inserting
<1>4. FoundInv'
  <2> SUFFICES ASSUME NEW w \in Threads, pc'[w] = "get_use"
               PROVE  \E c \in Contents :
                        /\ key'[w] = K1(c) \/ key'[w] = K2(c)
                        /\ heap[b'[w]] = NewBlob(c)
                        /\ disk[Sha256(c)] = c
    BY <1>1, Zenon DEF FoundInv
  <2>1. CASE w # t
    <3>1. pc[w] = "get_use" /\ b'[w] = b[w] /\ key'[w] = key[w]
      BY <1>1, <2>1, Zenon
    <3> QED BY <3>1, Zenon DEF CInv, FoundInv
  <2>2. CASE w = t
    <3>1. /\ blobs_[key[t]] \in Pointers /\ b'[t] = blobs_[key[t]] /\ key'[t] = key[t]
      BY <1>1, <2>2, Zenon DEF GetLookup, Return, GoTo, IInv, TypeOK
    <3>2. PICK c \in Contents : key[t] = K1(c) \/ key[t] = K2(c)
      BY <1>1, KeyElements, Zenon
    <3>3. heap[blobs_[key[t]]] = NewBlob(c)
      BY <3>1, <3>2, ZenonT(30) DEF CInv, SizeInv
    <3>4. disk[Sha256(c)] = c
      <4>1. blobs_[key[t]] # Absent
        BY <3>1, PointerFacts, Zenon
      <4>2. ~ \E v \in Threads : pc[v] \in Critical /\ bytes[v] = c
        BY <1>1, Zenon
      <4>3. ~ (blobs_[K1(c)] = Absent /\ blobs_[K2(c)] = Absent)
        BY <3>2, <4>1, Zenon
      <4> QED BY <4>2, <4>3, Zenon DEF CInv, StoredInv
    <3> QED BY <2>2, <3>1, <3>2, <3>3, <3>4, Zenon
  <2> QED BY <2>1, <2>2, Zenon
<1> QED BY <1>2, <1>3, <1>4, Zenon DEF CInv

(***************************************************************************)
(* The contents invariant is kept by every step of a process without faults.*)
(***************************************************************************)
LEMMA ContentStep == IInv /\ WriteInv /\ CInv /\ NulFree /\ Faults = {} /\ [Next]_vars => CInv'
<1> SUFFICES ASSUME IInv, WriteInv, CInv, NulFree, Faults = {}, [Next]_vars PROVE CInv'
  BY Zenon
<1> USE DEF IInv, TypeOK
<1>1. CASE UNCHANGED vars
  <2>1. HeapKept /\ UNCHANGED <<blobs_, disk, acked>>
    BY <1>1, Zenon DEF vars, HeapKept
  <2>2. /\ \A w \in Threads : pc[w] \in Critical =>
             pc'[w] \in Critical /\ bytes'[w] = bytes[w] /\ b'[w] = b[w]
        /\ \A w \in Threads : pc[w] = "add_write" => pc'[w] = "add_write"
        /\ \A w \in Threads : pc'[w] \in Filing => pc'[w] = pc[w]
    BY <1>1, Zenon DEF vars, Critical, Inserting, Filing
  <2>3. /\ \A w \in Threads : pc'[w] = "add_link" => blobs_[key'[w]] = Absent
        /\ \A w \in Threads : pc'[w] = "get_use" =>
             pc[w] = "get_use" /\ b'[w] = b[w] /\ key'[w] = key[w]
    BY <1>1, Zenon DEF vars, CInv, LinkInv
  <2> QED BY <2>1, <2>2, <2>3, QuietStep, Zenon
<1>2. CASE Crash
  BY <1>2, Zenon DEF Crash
<1>3. CASE Restart
  BY <1>3, Zenon DEF Restart
<1>4. ASSUME NEW t \in Threads, Call(t) PROVE CInv'
  <2>1. HeapKept /\ UNCHANGED <<blobs_, disk, acked>>
    BY <1>4, Zenon DEF Call, CallAdd, CallGet, CallPaginate, HeapKept
  <2>a. /\ pc[t] = "idle" /\ pc'[t] \in {"add_lock", "get_lock", "page_seek"} /\ b' = b
        /\ \A w \in Threads \ {t} : pc'[w] = pc[w] /\ bytes'[w] = bytes[w] /\ key'[w] = key[w]
    <3>1. CASE \E c \in Contents, k \in Keys \cup {NoKey} : CallAdd(t, c, k)
      BY <3>1, Zenon DEF CallAdd, GoTo
    <3>2. CASE \E k \in Keys : CallGet(t, k)
      BY <3>2, Zenon DEF CallGet, GoTo
    <3>3. CASE \E k \in Keys \cup {NoKey} : CallPaginate(t, k)
      BY <3>3, Zenon DEF CallPaginate, GoTo
    <3> QED BY <1>4, <3>1, <3>2, <3>3, Zenon DEF Call
  <2> HIDE DEF IInv, TypeOK
  <2>2. /\ \A w \in Threads : pc[w] \in Critical =>
             pc'[w] \in Critical /\ bytes'[w] = bytes[w] /\ b'[w] = b[w]
        /\ \A w \in Threads : pc[w] = "add_write" => pc'[w] = "add_write"
        /\ \A w \in Threads : pc'[w] \in Filing => pc'[w] = pc[w]
    BY <2>a, Zenon DEF Critical, Inserting, Filing
  <2>3. /\ \A w \in Threads : pc'[w] = "add_link" => blobs_[key'[w]] = Absent
        /\ \A w \in Threads : pc'[w] = "get_use" =>
             pc[w] = "get_use" /\ b'[w] = b[w] /\ key'[w] = key[w]
    BY <2>a, Zenon DEF CInv, LinkInv
  <2> QED BY <2>1, <2>2, <2>3, QuietStep, Zenon
<1>5. ASSUME NEW t \in Threads, AddAssertFails(t) PROVE CInv'
  <2>1. HeapKept /\ UNCHANGED <<blobs_, disk, acked>>
    BY <1>5, Zenon DEF AddAssertFails, Die, HeapKept
  <2>2. /\ \A w \in Threads : pc[w] \in Critical =>
             pc'[w] \in Critical /\ bytes'[w] = bytes[w] /\ b'[w] = b[w]
        /\ \A w \in Threads : pc[w] = "add_write" => pc'[w] = "add_write"
        /\ \A w \in Threads : pc'[w] \in Filing => pc'[w] = pc[w]
    BY <1>5, Zenon DEF AddAssertFails, Die, locals, Critical, Inserting, Filing
  <2>3. /\ \A w \in Threads : pc'[w] = "add_link" => blobs_[key'[w]] = Absent
        /\ \A w \in Threads : pc'[w] = "get_use" =>
             pc[w] = "get_use" /\ b'[w] = b[w] /\ key'[w] = key[w]
    BY <1>5, Zenon DEF AddAssertFails, Die, locals, CInv, LinkInv
  <2> QED BY <2>1, <2>2, <2>3, QuietStep, Zenon
<1>6. ASSUME NEW t \in Threads, AddReject(t) PROVE CInv'
  <2>1. HeapKept /\ UNCHANGED <<blobs_, disk, acked>>
    BY <1>6, Zenon DEF AddReject, Allocate, HeapKept
  <2>2. /\ \A w \in Threads : pc[w] \in Critical =>
             pc'[w] \in Critical /\ bytes'[w] = bytes[w] /\ b'[w] = b[w]
        /\ \A w \in Threads : pc[w] = "add_write" => pc'[w] = "add_write"
        /\ \A w \in Threads : pc'[w] \in Filing => pc'[w] = pc[w]
    BY <1>6, Zenon DEF AddReject, Return, Critical, Inserting, Filing
  <2>3. /\ \A w \in Threads : pc'[w] = "add_link" => blobs_[key'[w]] = Absent
        /\ \A w \in Threads : pc'[w] = "get_use" =>
             pc[w] = "get_use" /\ b'[w] = b[w] /\ key'[w] = key[w]
    BY <1>6, Zenon DEF AddReject, Return, CInv, LinkInv
  <2> QED BY <2>1, <2>2, <2>3, QuietStep, Zenon
<1>7. ASSUME NEW t \in Threads, AddBegin(t) PROVE CInv'
  <2>1. HeapKept /\ UNCHANGED <<blobs_, disk, acked>>
    BY <1>7, Zenon DEF AddBegin, Allocate, HeapKept
  <2>2. /\ \A w \in Threads : pc[w] \in Critical =>
             pc'[w] \in Critical /\ bytes'[w] = bytes[w] /\ b'[w] = b[w]
        /\ \A w \in Threads : pc[w] = "add_write" => pc'[w] = "add_write"
        /\ \A w \in Threads : pc'[w] \in Filing => pc'[w] = pc[w]
    BY <1>7, ThreadsAssumption, Zenon DEF AddBegin, GoTo, LockInv, Critical, Inserting, Filing
  <2>3. /\ \A w \in Threads : pc'[w] = "add_link" => blobs_[key'[w]] = Absent
        /\ \A w \in Threads : pc'[w] = "get_use" =>
             pc[w] = "get_use" /\ b'[w] = b[w] /\ key'[w] = key[w]
    BY <1>7, Zenon DEF AddBegin, GoTo, LockInv, CInv, LinkInv
  <2> QED BY <2>1, <2>2, <2>3, QuietStep, Zenon
<1>8. ASSUME NEW t \in Threads, AddInsert(t) PROVE CInv'
  <2>1. HeapKept /\ UNCHANGED <<blobs_, disk, acked>>
    BY <1>8, Zenon DEF AddInsert, HeapKept
  <2>2. /\ \A w \in Threads : pc[w] \in Critical =>
             pc'[w] \in Critical /\ bytes'[w] = bytes[w] /\ b'[w] = b[w]
        /\ \A w \in Threads : pc[w] = "add_write" => pc'[w] = "add_write"
        /\ \A w \in Threads : pc'[w] \in Filing => pc'[w] = pc[w]
    BY <1>8, Zenon DEF AddInsert, GoTo, locals, Critical, Inserting, Filing
  <2>3. /\ \A w \in Threads : pc'[w] = "add_link" => blobs_[key'[w]] = Absent
        /\ \A w \in Threads : pc'[w] = "get_use" =>
             pc[w] = "get_use" /\ b'[w] = b[w] /\ key'[w] = key[w]
    BY <1>8, Zenon DEF AddInsert, GoTo, locals, CInv, LinkInv
  <2> QED BY <2>1, <2>2, <2>3, QuietStep, Zenon
<1>9. ASSUME NEW t \in Threads, AddLink(t) PROVE CInv'
  BY <1>9, LinkStepC, Zenon
<1>10. ASSUME NEW t \in Threads, AddAssign(t) PROVE CInv'
  BY <1>10, AssignStepC, Zenon
<1>11. ASSUME NEW t \in Threads, AddExists(t) PROVE CInv'
  BY <1>11, ExistsStepC, Zenon
<1>12. ASSUME NEW t \in Threads, AddWrite(t) PROVE CInv'
  BY <1>12, WriteStepC, Zenon
<1>13. ASSUME NEW t \in Threads, AddWriteFails(t) PROVE CInv'
  BY <1>13, Zenon DEF AddWriteFails
<1>14. ASSUME NEW t \in Threads, AddReturn(t) PROVE CInv'
  BY <1>14, ReturnStepC
<1>15. ASSUME NEW t \in Threads, GetLookup(t) PROVE CInv'
  BY <1>15, LookupStepC
<1>16. ASSUME NEW t \in Threads, GetUse(t) PROVE CInv'
  <2>1. HeapKept /\ UNCHANGED <<blobs_, disk, acked>>
    BY <1>16, Zenon DEF GetUse, HeapKept
  <2>2. /\ \A w \in Threads : pc[w] \in Critical =>
             pc'[w] \in Critical /\ bytes'[w] = bytes[w] /\ b'[w] = b[w]
        /\ \A w \in Threads : pc[w] = "add_write" => pc'[w] = "add_write"
        /\ \A w \in Threads : pc'[w] \in Filing => pc'[w] = pc[w]
    BY <1>16, Zenon DEF GetUse, Return, Critical, Inserting, Filing
  <2>3. /\ \A w \in Threads : pc'[w] = "add_link" => blobs_[key'[w]] = Absent
        /\ \A w \in Threads : pc'[w] = "get_use" =>
             pc[w] = "get_use" /\ b'[w] = b[w] /\ key'[w] = key[w]
    BY <1>16, Zenon DEF GetUse, Return, CInv, LinkInv
  <2> QED BY <2>1, <2>2, <2>3, QuietStep, Zenon
<1>17. ASSUME NEW t \in Threads, PageSeek(t) \/ PageNext(t) PROVE CInv'
  <2>1. HeapKept /\ UNCHANGED <<blobs_, disk, acked>>
    BY <1>17, Zenon DEF PageSeek, PageNext, HeapKept
  <2>2. /\ \A w \in Threads : pc[w] \in Critical =>
             pc'[w] \in Critical /\ bytes'[w] = bytes[w] /\ b'[w] = b[w]
        /\ \A w \in Threads : pc[w] = "add_write" => pc'[w] = "add_write"
        /\ \A w \in Threads : pc'[w] \in Filing => pc'[w] = pc[w]
    BY <1>17, Zenon DEF PageSeek, PageNext, Visit, GoTo, Critical, Inserting, Filing
  <2>3. /\ \A w \in Threads : pc'[w] = "add_link" => blobs_[key'[w]] = Absent
        /\ \A w \in Threads : pc'[w] = "get_use" =>
             pc[w] = "get_use" /\ b'[w] = b[w] /\ key'[w] = key[w]
    BY <1>17, ZenonT(30) DEF PageSeek, PageNext, Visit, GoTo, CInv, LinkInv
  <2> QED BY <2>1, <2>2, <2>3, QuietStep, Zenon
<1>18. ASSUME NEW t \in Threads, PageUse(t) \/ PageSend(t) PROVE CInv'
  <2>1. HeapKept /\ UNCHANGED <<blobs_, disk, acked>>
    BY <1>18, Zenon DEF PageUse, PageSend, Die, HeapKept
  <2>2. /\ \A w \in Threads : pc[w] \in Critical =>
             pc'[w] \in Critical /\ bytes'[w] = bytes[w] /\ b'[w] = b[w]
        /\ \A w \in Threads : pc[w] = "add_write" => pc'[w] = "add_write"
        /\ \A w \in Threads : pc'[w] \in Filing => pc'[w] = pc[w]
    BY <1>18, Zenon DEF PageUse, PageSend, Return, Die, locals, Critical, Inserting, Filing
  <2>3. /\ \A w \in Threads : pc'[w] = "add_link" => blobs_[key'[w]] = Absent
        /\ \A w \in Threads : pc'[w] = "get_use" =>
             pc[w] = "get_use" /\ b'[w] = b[w] /\ key'[w] = key[w]
    BY <1>18, ZenonT(30) DEF PageUse, PageSend, Return, Die, locals, CInv, LinkInv
  <2> QED BY <2>1, <2>2, <2>3, QuietStep, Zenon
<1> QED
  BY <1>1, <1>2, <1>3, <1>4, <1>5, <1>6, <1>7, <1>8, <1>9, <1>10, <1>11, <1>12,
     <1>13, <1>14, <1>15, <1>16, <1>17, <1>18, Zenon
  DEF Next, Step

(***************************************************************************)
(* Without NUL bytes and faults, the contents invariant holds in every     *)
(* reachable state.                                                        *)
(***************************************************************************)
THEOREM ContentInvariant ==
  ASSUME NulFree, Faults = {}
  PROVE  Spec => []CInv
<1>1. Init => CInv
  <2> SUFFICES ASSUME Init PROVE CInv
    BY Zenon
  <2>a. /\ \A k \in Keys : blobs_[k] = Absent
        /\ \A f \in Paths : disk[f] = NoFile
        /\ Absent \notin Pointers
    BY DEF Init, Absent, Pointers
  <2>b. \A c \in Contents : K1(c) \in Keys /\ K2(c) \in Keys /\ Sha256(c) \in Paths
    BY KeyFacts, Zenon
  <2>1. FileInv /\ SizeInv /\ StoredInv
    BY <2>a, <2>b, Zenon DEF FileInv, SizeInv, StoredInv
  <2>2. FilingInv /\ LinkInv /\ AckedInv /\ FoundInv
    BY Zenon DEF Init, FilingInv, LinkInv, AckedInv, FoundInv, Filing
  <2> QED BY <2>1, <2>2, Zenon DEF CInv
<1>2. IInv /\ WriteInv /\ CInv /\ [Next]_vars => CInv'
  BY ContentStep, Zenon
<1> QED BY <1>1, <1>2, IndexInvariant, WritesArePrefixes, PTL DEF Spec

(***************************************************************************)
(* store then get: in a process without faults, and for contents without   *)
(* NUL bytes, a content whose add_blob has returned is under both its keys *)
(* with its size and its bytes, whatever the other threads do.             *)
(***************************************************************************)
THEOREM AcceptedIsRetrievable ==
  ASSUME NulFree, Faults = {}
  PROVE  Spec => []AckedRetrievable
<1>1. IInv /\ CInv => AckedRetrievable
  <2> SUFFICES ASSUME IInv, CInv, NEW c \in acked, NEW h \in HashTypes
               PROVE  /\ blobs_[BlobKeyFor(h, c)] \in Pointers
                      /\ heap[blobs_[BlobKeyFor(h, c)]] = NewBlob(c)
                      /\ disk[heap[blobs_[BlobKeyFor(h, c)]].filePath_] = c
    BY Zenon DEF AckedRetrievable
  <2>1. c \in Contents
    BY Zenon DEF IInv, TypeOK
  <2>2. BlobKeyFor(h, c) = K1(c) \/ BlobKeyFor(h, c) = K2(c)
    BY Zenon DEF HashTypes, K1, K2
  <2>3. /\ blobs_[BlobKeyFor(h, c)] \in Pointers
        /\ heap[blobs_[BlobKeyFor(h, c)]] = NewBlob(c)
        /\ disk[Sha256(c)] = c
    BY <2>1, <2>2, Zenon DEF CInv, AckedInv, SizeInv
  <2> QED BY <2>1, <2>3, NewBlobFacts, Zenon
<1> QED BY <1>1, IndexInvariant, ContentInvariant, PTL

(***************************************************************************)
(* Under the same conditions a handler that was given a Blob finds the     *)
(* content of the requested key in the file, complete, and the reported    *)
(* size is its length: GET, HEAD and stat agree.                           *)
(***************************************************************************)
THEOREM FoundIsReadable ==
  ASSUME NulFree, Faults = {}
  PROVE  Spec => []FoundBlobReadable
<1>1. IInv /\ CInv => FoundBlobReadable
  <2> SUFFICES ASSUME IInv, CInv, NEW t \in Threads, pc[t] = "get_use"
               PROVE  \E c \in Contents, h \in HashTypes :
                        /\ key[t] = BlobKeyFor(h, c)
                        /\ disk[FileOf(t)] = c
                        /\ heap[b[t]].size_ = Len(c)
    BY Zenon DEF FoundBlobReadable
  <2>1. PICK c \in Contents : /\ key[t] = K1(c) \/ key[t] = K2(c)
                             /\ heap[b[t]] = NewBlob(c)
                             /\ disk[Sha256(c)] = c
    BY Zenon DEF CInv, FoundInv
  <2>2. FileOf(t) = Sha256(c) /\ heap[b[t]].size_ = Len(c)
    BY <2>1, SMTT(20) DEF FileOf, NewBlob
  <2>3. \E h \in HashTypes : key[t] = BlobKeyFor(h, c)
    BY <2>1, Zenon DEF K1, K2, HashTypes
  <2> QED BY <2>1, <2>2, <2>3, Zenon
<1> QED BY <1>1, IndexInvariant, ContentInvariant, PTL

------------------------------------------------------------------------------

Has(c) ==
  /\ blobs_[K1(c)] \in Pointers
  /\ blobs_[K2(c)] \in Pointers
  /\ disk[Sha256(c)] = c

(***************************************************************************)
(* The keys of a content, as the refinement writes them.                   *)
(***************************************************************************)
LEMMA KeysOfFacts == \A c \in Contents : KeysOfContent[c] = {K1(c), K2(c)}
BY Zenon DEF KeysOfContent, HashTypes, K1, K2

(***************************************************************************)
(* The call of a thread, by where it is.                                   *)
(***************************************************************************)
LEMMA CallCases ==
  ASSUME NEW t
  PROVE  /\ pc[t] = "add_lock" =>
              CallOf(t) = [op |-> "add", content |-> bytes[t], key |-> key[t]]
         /\ pc[t] = "get_lock" => CallOf(t) = [op |-> "get", key |-> key[t]]
         /\ pc[t] = "get_use" => CallOf(t) = [op |-> "found", content |-> disk[heap[b[t]].filePath_]]
         /\ pc[t] \in {"add_insert", "add_link", "add_assign", "add_exists", "add_write",
                        "add_unlock"} =>
              CallOf(t) = [op |-> "accepted", content |-> bytes[t]]
         /\ pc[t] \notin {"add_lock", "get_lock", "get_use", "add_insert", "add_link", "add_assign",
                          "add_exists", "add_write", "add_unlock"} =>
              CallOf(t) = [op |-> "idle"]
BY Zenon DEF CallOf, FileOf

(***************************************************************************)
(* The same after a step.                                                  *)
(***************************************************************************)
LEMMA NextCallCases ==
  ASSUME NEW t
  PROVE  /\ pc'[t] = "add_lock" =>
              CallOf(t)' = [op |-> "add", content |-> bytes'[t], key |-> key'[t]]
         /\ pc'[t] = "get_lock" => CallOf(t)' = [op |-> "get", key |-> key'[t]]
         /\ pc'[t] = "get_use" =>
              CallOf(t)' = [op |-> "found", content |-> disk'[heap'[b'[t]].filePath_]]
         /\ pc'[t] \in {"add_insert", "add_link", "add_assign", "add_exists", "add_write",
                        "add_unlock"} =>
              CallOf(t)' = [op |-> "accepted", content |-> bytes'[t]]
         /\ pc'[t] \notin {"add_lock", "get_lock", "get_use", "add_insert", "add_link", "add_assign",
                          "add_exists", "add_write", "add_unlock"} =>
              CallOf(t)' = [op |-> "idle"]
BY Zenon DEF CallOf, FileOf

(***************************************************************************)
(* A content is stored when both of its keys have a Blob and its file is   *)
(* complete: that the Blob is its own follows from the contents invariant. *)
(***************************************************************************)
LEMMA StoredFacts ==
  /\ CInv => Stored = {c \in Contents : Has(c)}
  /\ CInv' => Stored' = {c \in Contents : Has(c)'}
<1>1. ASSUME CInv PROVE Stored = {c \in Contents : Has(c)}
  <2>1. ASSUME NEW c \in Contents
        PROVE  (\A k \in KeysOfContent[c] :
                  /\ blobs_[k] \in Pointers /\ heap[blobs_[k]] = NewBlob(c)
                  /\ disk[heap[blobs_[k]].filePath_] = c)
               <=> Has(c)
    <3>1. /\ blobs_[K1(c)] \in Pointers => heap[blobs_[K1(c)]] = NewBlob(c)
          /\ blobs_[K2(c)] \in Pointers => heap[blobs_[K2(c)]] = NewBlob(c)
      BY <1>1, Zenon DEF CInv, SizeInv
    <3>2. KeysOfContent[c] = {K1(c), K2(c)} /\ NewBlob(c).filePath_ = Sha256(c)
      BY KeysOfFacts, NewBlobFacts, Zenon
    <3> QED BY <3>1, <3>2, Zenon DEF Has
  <2> QED BY <2>1, Zenon DEF Stored
<1>2. ASSUME CInv' PROVE Stored' = {c \in Contents : Has(c)'}
  <2>1. ASSUME NEW c \in Contents
        PROVE  (\A k \in KeysOfContent[c] :
                  /\ blobs_'[k] \in Pointers /\ heap'[blobs_'[k]] = NewBlob(c)
                  /\ disk'[heap'[blobs_'[k]].filePath_] = c)
               <=> Has(c)'
    <3>1. /\ blobs_'[K1(c)] \in Pointers => heap'[blobs_'[K1(c)]] = NewBlob(c)
          /\ blobs_'[K2(c)] \in Pointers => heap'[blobs_'[K2(c)]] = NewBlob(c)
      BY <1>2, Zenon DEF CInv, SizeInv
    <3>2. KeysOfContent[c] = {K1(c), K2(c)} /\ NewBlob(c).filePath_ = Sha256(c)
      BY KeysOfFacts, NewBlobFacts, Zenon
    <3> QED BY <3>1, <3>2, Zenon DEF Has
  <2> QED BY <2>1, Zenon DEF Stored
<1> QED BY <1>1, <1>2, Zenon

(***************************************************************************)
(* The call of a thread that does not step stays what it is, also when it  *)
(* holds a Blob: complete files are not changed.                           *)
(***************************************************************************)
CompleteKept == \A c \in Contents : disk[Sha256(c)] = c => disk'[Sha256(c)] = c

(***************************************************************************)
(* A step of another thread leaves the call of a thread as it is.          *)
(***************************************************************************)
LEMMA CallKept ==
  ASSUME IInv, CInv, HeapKept, CompleteKept, NEW w \in Threads,
         pc'[w] = pc[w], bytes'[w] = bytes[w], b'[w] = b[w], key'[w] = key[w]
  PROVE  CallOf(w)' = CallOf(w)
<1>1. CASE pc[w] = "get_use"
  <2>1. PICK c \in Contents : heap[b[w]] = NewBlob(c) /\ disk[Sha256(c)] = c
    BY <1>1, Zenon DEF CInv, FoundInv
  <2>2. heap'[b[w]] = NewBlob(c)
    BY <1>1, <2>1, NewBlobFacts, Zenon DEF HeapKept, IInv, GetInv
  <2>3. disk[heap[b[w]].filePath_] = c /\ disk'[heap'[b'[w]].filePath_] = c
    BY <2>1, <2>2, NewBlobFacts, Zenon DEF CompleteKept
  <2> QED BY <1>1, <2>3, Zenon DEF CallOf, FileOf
<1>2. CASE pc[w] # "get_use"
  BY <1>2, Zenon DEF CallOf, FileOf
<1> QED BY <1>1, <1>2, Zenon

(***************************************************************************)
(* A step of one thread, as the store sees it.                             *)
(***************************************************************************)
LEMMA CallsGo ==
  ASSUME NEW t \in Threads, \A w \in Threads \ {t} : CallOf(w)' = CallOf(w)
  PROVE  /\ Calls[t] = CallOf(t) /\ Calls'[t] = CallOf(t)'
         /\ Calls' = [Calls EXCEPT ![t] = CallOf(t)']
BY ZenonT(30) DEF Calls

(***************************************************************************)
(* The holder of the mutex: its steps before the last are the store's      *)
(* Store or nothing.                                                       *)
(***************************************************************************)
LEMMA HolderStores ==
  ASSUME IInv, CInv, CInv', NulFree, HeapKept, CompleteKept, NEW t \in Threads,
         pc[t] \in Critical, pc'[t] \in Critical,
         UNCHANGED <<bytes, b>>,
         \A w \in Threads \ {t} : pc'[w] = pc[w] /\ key'[w] = key[w],
         \A c \in Contents \ {bytes[t]} : Has(c)' <=> Has(c),
         Has(bytes[t]) => Has(bytes[t])'
  PROVE  Store!Store(t) \/ UNCHANGED <<Stored, Calls>>
<1>1. \A w \in Threads \ {t} : CallOf(w)' = CallOf(w)
  BY CallKept, Zenon
<1>2. /\ CallOf(t) = [op |-> "accepted", content |-> bytes[t]]
      /\ CallOf(t)' = CallOf(t)
  BY Zenon DEF CallOf, FileOf, Critical, Inserting
<1>3. UNCHANGED Calls /\ Calls[t] = [op |-> "accepted", content |-> bytes[t]]
  BY <1>1, <1>2, Zenon DEF Calls
<1>4. Stored' = Stored \/ Stored' = Stored \cup {bytes[t]}
  BY StoredFacts, HolderFacts, Zenon
<1>5. Calls[t].op = "accepted" /\ Calls[t].content = bytes[t]
  BY <1>3, SMTT(20)
<1>6. CASE Stored' = Stored
  BY <1>3, <1>6, Zenon
<1>7. CASE Stored' = Stored \cup {bytes[t]}
  BY <1>3, <1>5, <1>7, Zenon DEF Store!Store
<1> QED BY <1>4, <1>6, <1>7, Zenon

(***************************************************************************)
(* The two halves of blobs_[key] = b are no step of the store, or Store.   *)
(***************************************************************************)
LEMMA InsertStepR ==
  ASSUME IInv, CInv, CInv', NulFree, NEW t \in Threads,
         AddInsert(t) \/ AddLink(t) \/ AddAssign(t)
  PROVE  Store!Store(t) \/ UNCHANGED <<Stored, Calls>>
<1>1. /\ pc[t] \in Inserting /\ pc[t] \in Critical
      /\ UNCHANGED <<heap, disk, bytes, b>>
      /\ pc'[t] \in Critical
      /\ \A w \in Threads \ {t} : pc'[w] = pc[w] /\ key'[w] = key[w]
  <2>1. CASE AddInsert(t)
    BY <2>1, Zenon DEF AddInsert, GoTo, locals, Critical, Inserting, IInv, TypeOK
  <2>2. CASE AddLink(t)
    BY <2>2, Zenon DEF AddLink, GoTo, locals, Critical, Inserting, IInv, TypeOK
  <2>3. CASE AddAssign(t)
    BY <2>3, Zenon DEF AddAssign, GoTo, Critical, Inserting, IInv, TypeOK
  <2> QED BY <2>1, <2>2, <2>3, Zenon
<1>2. bytes[t] \in Contents /\ b[t] \in Pointers
  BY <1>1, HolderFacts, Zenon
<1>3. /\ key[t] = K1(bytes[t]) \/ key[t] = K2(bytes[t])
      /\ K1(bytes[t]) \in Keys /\ K2(bytes[t]) \in Keys
  BY <1>1, <1>2, KeyFacts, Zenon DEF IInv, InsertInv
<1>4. /\ \A k \in Keys \ {key[t]} : blobs_'[k] = blobs_[k]
      /\ blobs_[key[t]] \in Pointers => blobs_'[key[t]] \in Pointers
  <2>1. CASE AddInsert(t)
    BY <2>1, Zenon DEF AddInsert
  <2>2. CASE AddLink(t)
    <3>1. blobs_' = [blobs_ EXCEPT ![key[t]] = NULL] /\ blobs_[key[t]] = Absent
      BY <2>2, Zenon DEF AddLink, CInv, LinkInv
    <3>2. \A k \in Keys \ {key[t]} : blobs_'[k] = blobs_[k]
      BY <3>1, Zenon DEF IInv, TypeOK
    <3> QED BY <3>1, <3>2, PointerFacts, Zenon
  <2>3. CASE AddAssign(t)
    BY <1>2, <1>3, <2>3, Zenon DEF AddAssign, IInv, TypeOK
  <2> QED BY <2>1, <2>2, <2>3, ZenonT(30)
<1>5. ASSUME NEW c \in Contents \ {bytes[t]} PROVE Has(c)' <=> Has(c)
  <2>1. /\ K1(c) \in Keys /\ K2(c) \in Keys
        /\ K1(c) # key[t] /\ K2(c) # key[t]
    BY <1>2, <1>3, OtherKeys, Zenon
  <2> QED BY <1>1, <1>4, <2>1, ZenonT(30) DEF Has
<1>6. Has(bytes[t]) => Has(bytes[t])'
  BY <1>1, <1>3, <1>4, Zenon DEF Has
<1>7. HeapKept /\ CompleteKept
  BY <1>1, Zenon DEF HeapKept, CompleteKept
<1> QED BY <1>1, <1>5, <1>6, <1>7, HolderStores, Zenon

(***************************************************************************)
(* The file is created and written without the store noticing, until the   *)
(* last piece is written.                                                  *)
(***************************************************************************)
LEMMA FileStepR ==
  ASSUME IInv, CInv, CInv', NulFree, Faults = {}, NEW t \in Threads,
         AddExists(t) \/ AddWrite(t)
  PROVE  Store!Store(t) \/ UNCHANGED <<Stored, Calls>>
<1>1. /\ pc[t] \in Critical
      /\ UNCHANGED <<blobs_, heap, bytes, b, key>>
      /\ pc'[t] \in Critical
      /\ \A w \in Threads \ {t} : pc'[w] = pc[w]
  <2>1. CASE AddExists(t)
    BY <2>1, Zenon DEF AddExists, GoTo, locals, Critical, IInv, TypeOK
  <2>2. CASE AddWrite(t)
    BY <2>2, Zenon DEF AddWrite, GoTo, locals, Critical, IInv, TypeOK
  <2> QED BY <2>1, <2>2, ZenonT(30)
<1>2. /\ bytes[t] \in Contents /\ bytes[t] \in Seq(Byte)
      /\ FileOf(t) = Sha256(bytes[t]) /\ Sha256(bytes[t]) \in Paths
  BY <1>1, HolderFacts, ContentsAssumption, ZenonT(30)
<1>3. UNCHANGED disk \/ /\ disk[Sha256(bytes[t])] # bytes[t]
                        /\ \A f \in Paths \ {Sha256(bytes[t])} : disk'[f] = disk[f]
  <2>1. CASE AddExists(t)
    BY <1>2, <2>1, FileAssumption, Zenon DEF AddExists, IInv, TypeOK
  <2>2. CASE AddWrite(t)
    <3>1. PICK n \in Len(disk[FileOf(t)]) + 1 .. Len(bytes[t]) :
             disk' = [disk EXCEPT ![FileOf(t)] = SubSeq(bytes[t], 1, n)]
      BY <2>2, Zenon DEF AddWrite
    <3>2. disk[Sha256(bytes[t])] # bytes[t]
      BY <1>2, <3>1, SMTT(20)
    <3> QED BY <1>2, <3>1, <3>2, Zenon DEF IInv, TypeOK
  <2> QED BY <2>1, <2>2, Zenon
<1>4. \A c \in Contents \ {bytes[t]} : Sha256(c) \in Paths \ {Sha256(bytes[t])}
  BY <1>2, KeyFacts, NulFreeFacts, Zenon
<1>5. ASSUME NEW c \in Contents \ {bytes[t]} PROVE Has(c)' <=> Has(c)
  BY <1>1, <1>3, <1>4, Zenon DEF Has
<1>6. Has(bytes[t]) => Has(bytes[t])'
  BY <1>1, <1>3, Zenon DEF Has
<1>7. HeapKept /\ CompleteKept
  BY <1>1, <1>3, <1>4, Zenon DEF HeapKept, CompleteKept
<1> QED BY <1>1, <1>5, <1>6, <1>7, HolderStores, Zenon

(***************************************************************************)
(* A step that leaves the map and the files alone leaves the stored        *)
(* contents and the calls of the other threads alone.                      *)
(***************************************************************************)
LEMMA StillStored ==
  ASSUME IInv, CInv, CInv', NEW t \in Threads, HeapKept, UNCHANGED <<blobs_, disk>>,
         \A w \in Threads \ {t} : /\ pc'[w] = pc[w] /\ bytes'[w] = bytes[w]
                                 /\ b'[w] = b[w] /\ key'[w] = key[w]
  PROVE  /\ UNCHANGED Stored
         /\ Calls[t] = CallOf(t) /\ Calls'[t] = CallOf(t)'
         /\ Calls' = [Calls EXCEPT ![t] = CallOf(t)']
         /\ CallOf(t)' = CallOf(t) => UNCHANGED Calls
<1>1. UNCHANGED Stored
  BY StoredFacts, Zenon DEF Has
<1>2. \A w \in Threads \ {t} : CallOf(w)' = CallOf(w)
  BY CallKept, Zenon DEF CompleteKept
<1>3. CallOf(t)' = CallOf(t) => UNCHANGED Calls
  BY <1>2, Zenon DEF Calls
<1> QED BY <1>1, <1>2, <1>3, CallsGo, Zenon

(***************************************************************************)
(* Calling add_blob or get is the store's Call; paginate is not seen.      *)
(***************************************************************************)
LEMMA CallStepR ==
  ASSUME IInv, CInv, CInv', NEW t \in Threads, Call(t)
  PROVE  Store!Call(t) \/ UNCHANGED <<Stored, Calls>>
<1>1. /\ pc[t] = "idle" /\ HeapKept /\ UNCHANGED <<blobs_, disk, b>>
      /\ \A w \in Threads \ {t} : /\ pc'[w] = pc[w] /\ bytes'[w] = bytes[w]
                                 /\ b'[w] = b[w] /\ key'[w] = key[w]
  BY Zenon DEF Call, CallAdd, CallGet, CallPaginate, GoTo, HeapKept, IInv, TypeOK
<1>2. /\ UNCHANGED Stored
      /\ Calls[t] = CallOf(t) /\ Calls'[t] = CallOf(t)'
      /\ Calls' = [Calls EXCEPT ![t] = CallOf(t)']
      /\ CallOf(t)' = CallOf(t) => UNCHANGED Calls
  BY <1>1, StillStored, Zenon
<1>3. CallOf(t) = [op |-> "idle"]
  BY <1>1, CallCases, Zenon
<1>4. CASE \E c \in Contents, k \in Keys \cup {NoKey} : CallAdd(t, c, k)
  <2>1. PICK c \in Contents, k \in Keys \cup {NoKey} : CallAdd(t, c, k)
    BY <1>4, Zenon
  <2>2. pc'[t] = "add_lock" /\ bytes'[t] = c /\ key'[t] = k
    BY <2>1, Zenon DEF CallAdd, GoTo, IInv, TypeOK
  <2>3. CallOf(t)' = [op |-> "add", content |-> c, key |-> k]
    BY <2>2, NextCallCases, Zenon
  <2> QED BY <1>2, <1>3, <2>3 DEF Store!Call, Store!Goes, Store!Idle, Store!Adds
<1>5. CASE \E k \in Keys : CallGet(t, k)
  <2>1. PICK k \in Keys : CallGet(t, k)
    BY <1>5, Zenon
  <2>2. pc'[t] = "get_lock" /\ key'[t] = k
    BY <2>1, Zenon DEF CallGet, GoTo, IInv, TypeOK
  <2>3. CallOf(t)' = [op |-> "get", key |-> k]
    BY <2>2, NextCallCases, Zenon
  <2> QED BY <1>2, <1>3, <2>3 DEF Store!Call, Store!Goes, Store!Idle, Store!Gets
<1>6. CASE \E k \in Keys \cup {NoKey} : CallPaginate(t, k)
  <2>1. pc'[t] = "page_seek"
    BY <1>6, Zenon DEF CallPaginate, GoTo, IInv, TypeOK
  <2>2. CallOf(t)' = CallOf(t)
    BY <1>3, <2>1, Zenon DEF CallOf, FileOf
  <2> QED BY <1>2, <2>2, Zenon
<1> QED BY <1>4, <1>5, <1>6, Zenon DEF Call

(***************************************************************************)
(* A wrong reference is refused, a right one or none is accepted.          *)
(***************************************************************************)
LEMMA BeginStepR ==
  ASSUME IInv, CInv, CInv', NEW t \in Threads, AddReject(t) \/ AddBegin(t)
  PROVE  Store!Refuse(t) \/ Store!Accept(t)
<1>1. /\ pc[t] = "add_lock" /\ bytes[t] \in Contents
      /\ HeapKept /\ UNCHANGED <<blobs_, disk>>
      /\ \A w \in Threads \ {t} : /\ pc'[w] = pc[w] /\ bytes'[w] = bytes[w]
                                 /\ b'[w] = b[w] /\ key'[w] = key[w]
  BY Zenon DEF AddReject, AddBegin, Allocate, Return, GoTo, HeapKept, IInv, TypeOK
<1>2. /\ UNCHANGED Stored
      /\ Calls[t] = CallOf(t) /\ Calls' = [Calls EXCEPT ![t] = CallOf(t)']
  BY <1>1, StillStored, Zenon
<1>3. CallOf(t) = [op |-> "add", content |-> bytes[t], key |-> key[t]]
  BY <1>1, CallCases, Zenon
<1>4. HashMatches(t) <=> key[t] = NoKey \/ key[t] \in KeysOfContent[bytes[t]]
  BY <1>1, Zenon DEF HashMatches, KeysOfContent
<1>5. CASE AddReject(t)
  <2>1. pc'[t] = "idle" /\ ~ HashMatches(t)
    BY <1>5, Zenon DEF AddReject, Return, IInv, TypeOK
  <2>2. CallOf(t)' = [op |-> "idle"]
    BY <2>1, NextCallCases, Zenon
  <2>3. Calls[t].op = "add" /\ ~ Store!Own(Calls[t])
    <3>1. Calls[t] = [op |-> "add", content |-> bytes[t], key |-> key[t]]
      BY <1>2, <1>3, Zenon
    <3>2. Calls[t].op = "add" /\ Calls[t].content = bytes[t] /\ Calls[t].key = key[t]
      BY <3>1
    <3> QED BY <1>4, <2>1, <3>2, Zenon DEF Store!Own
  <2>4. Store!Goes(t, Store!Idle)
    BY <1>2, <2>2, Zenon DEF Store!Goes, Store!Idle
  <2> QED BY <1>2, <2>3, <2>4, Zenon DEF Store!Refuse
<1>6. CASE AddBegin(t)
  <2>1. pc'[t] = "add_insert" /\ bytes'[t] = bytes[t] /\ HashMatches(t)
    BY <1>6, Zenon DEF AddBegin, GoTo, IInv, TypeOK
  <2>2. CallOf(t)' = [op |-> "accepted", content |-> bytes[t]]
    BY <2>1, NextCallCases, Zenon
  <2>3. Calls[t].op = "add" /\ Calls[t].content = bytes[t] /\ Store!Own(Calls[t])
    <3>1. Calls[t] = [op |-> "add", content |-> bytes[t], key |-> key[t]]
      BY <1>2, <1>3, Zenon
    <3>2. Calls[t].op = "add" /\ Calls[t].content = bytes[t] /\ Calls[t].key = key[t]
      BY <3>1
    <3> QED BY <1>4, <2>1, <3>2, Zenon DEF Store!Own
  <2>4. Store!Goes(t, Store!Accepted(Calls[t].content))
    BY <1>2, <2>2, <2>3, Zenon DEF Store!Goes, Store!Accepted
  <2> QED BY <1>2, <2>3, <2>4, Zenon DEF Store!Accept
<1> QED BY <1>5, <1>6, Zenon

(***************************************************************************)
(* add_blob returns when its content is stored.                            *)
(***************************************************************************)
LEMMA ReturnStepR ==
  ASSUME IInv, CInv, CInv', NEW t \in Threads, AddReturn(t)
  PROVE  Store!AddReturns(t)
<1>1. /\ pc[t] = "add_unlock" /\ pc[t] \in Critical /\ pc[t] \in Filing
      /\ pc'[t] = "idle"
      /\ HeapKept /\ UNCHANGED <<blobs_, disk>>
      /\ \A w \in Threads \ {t} : /\ pc'[w] = pc[w] /\ bytes'[w] = bytes[w]
                                 /\ b'[w] = b[w] /\ key'[w] = key[w]
  BY Zenon DEF AddReturn, Return, HeapKept, Critical, Filing, IInv, TypeOK
<1>2. /\ UNCHANGED Stored
      /\ Calls[t] = CallOf(t) /\ Calls' = [Calls EXCEPT ![t] = CallOf(t)']
  BY <1>1, StillStored, Zenon
<1>3. CallOf(t) = [op |-> "accepted", content |-> bytes[t]]
  BY <1>1, CallCases, Zenon
<1>4. CallOf(t)' = [op |-> "idle"]
  BY <1>1, NextCallCases, Zenon
<1>5. bytes[t] \in Contents /\ Has(bytes[t])
  BY <1>1, HolderFacts, Zenon DEF CInv, FilingInv, Has
<1>6. bytes[t] \in Stored
  BY <1>5, StoredFacts, Zenon
<1> QED BY <1>2, <1>3, <1>4, <1>6 DEF Store!AddReturns, Store!Goes, Store!Idle

(***************************************************************************)
(* With the mutex free, get finds a Blob exactly if the content is stored. *)
(***************************************************************************)
LEMMA LookupStepR ==
  ASSUME IInv, CInv, CInv', NEW t \in Threads, GetLookup(t)
  PROVE  Store!Find(t) \/ Store!FindNone(t)
<1>1. /\ pc[t] = "get_lock" /\ key[t] \in Keys
      /\ HeapKept /\ UNCHANGED <<blobs_, heap, disk>>
      /\ \A w \in Threads : pc[w] \notin Critical
      /\ \A w \in Threads \ {t} : /\ pc'[w] = pc[w] /\ bytes'[w] = bytes[w]
                                 /\ b'[w] = b[w] /\ key'[w] = key[w]
  BY ThreadsAssumption, Zenon
  DEF GetLookup, Return, GoTo, HeapKept, IInv, TypeOK, GetInv, LockInv
<1>2. /\ UNCHANGED Stored
      /\ Calls[t] = CallOf(t) /\ Calls' = [Calls EXCEPT ![t] = CallOf(t)']
  BY <1>1, StillStored, Zenon
<1>3. CallOf(t) = [op |-> "get", key |-> key[t]]
  BY <1>1, CallCases, Zenon
<1>4. CASE blobs_[key[t]] \in {Absent, NULL}
  <2>1. pc'[t] = "idle"
    BY <1>4, Zenon DEF GetLookup, Return, IInv, TypeOK
  <2>2. CallOf(t)' = [op |-> "idle"]
    BY <2>1, NextCallCases, Zenon
  <2>3. \A c \in Stored : key[t] \notin KeysOfContent[c]
    <3> SUFFICES ASSUME NEW c \in Stored, key[t] \in KeysOfContent[c] PROVE FALSE
      BY Zenon
    <3>1. c \in Contents /\ Has(c)
      BY StoredFacts, Zenon
    <3>2. key[t] = K1(c) \/ key[t] = K2(c)
      BY <3>1, KeysOfFacts, Zenon
    <3>3. blobs_[key[t]] \in Pointers
      BY <3>1, <3>2, Zenon DEF Has
    <3> QED BY <1>4, <3>3, PointerFacts, Zenon
  <2>4. Calls[t].op = "get" /\ Calls[t].key = key[t]
    BY <1>2, <1>3
  <2>5. Store!Goes(t, Store!Idle)
    BY <1>2, <2>2, Zenon DEF Store!Goes, Store!Idle
  <2> QED BY <1>2, <2>3, <2>4, <2>5, Zenon DEF Store!FindNone
<1>5. CASE blobs_[key[t]] \notin {Absent, NULL}
  <2>1. /\ blobs_[key[t]] \in Pointers /\ b'[t] = blobs_[key[t]]
        /\ pc'[t] = "get_use"
    BY <1>1, <1>5, Zenon DEF GetLookup, GoTo, IInv, TypeOK
  <2>2. PICK c \in Contents : key[t] = K1(c) \/ key[t] = K2(c)
    BY <1>1, KeyElements, Zenon
  <2>3. blobs_[K1(c)] = blobs_[K2(c)]
    BY <1>1, Zenon DEF IInv, SiblingInv, Critical
  <2>4. Has(c) /\ heap[b'[t]] = NewBlob(c)
    <3>1. blobs_[K1(c)] \in Pointers /\ blobs_[K2(c)] \in Pointers
      BY <2>1, <2>2, <2>3, Zenon
    <3>2. blobs_[K1(c)] # Absent
      BY <3>1, PointerFacts, Zenon
    <3>3. disk[Sha256(c)] = c
      BY <1>1, <3>2, Zenon DEF CInv, StoredInv
    <3>4. heap[blobs_[key[t]]] = NewBlob(c)
      BY <2>1, <2>2, Zenon DEF CInv, SizeInv
    <3> QED BY <2>1, <3>1, <3>3, <3>4, Zenon DEF Has
  <2>5. disk'[heap'[b'[t]].filePath_] = c
    BY <1>1, <2>4, NewBlobFacts, Zenon DEF Has
  <2>6. CallOf(t)' = [op |-> "found", content |-> c]
    BY <2>1, <2>5, NextCallCases, Zenon
  <2>7. c \in Stored /\ key[t] \in KeysOfContent[c]
    BY <2>2, <2>4, StoredFacts, KeysOfFacts, Zenon
  <2>8. Calls[t].op = "get" /\ Calls[t].key = key[t]
    BY <1>2, <1>3, SMTT(20)
  <2>9. Store!Goes(t, Store!Found(c))
    BY <1>2, <2>6, Zenon DEF Store!Goes, Store!Found
  <2> QED BY <1>2, <2>7, <2>8, <2>9, ZenonT(30) DEF Store!Find
<1> QED BY <1>4, <1>5, Zenon

(***************************************************************************)
(* The caller of get is done with the Blob.                                *)
(***************************************************************************)
LEMMA UseStepR ==
  ASSUME IInv, CInv, CInv', NEW t \in Threads, GetUse(t)
  PROVE  Store!Use(t)
<1>1. /\ pc[t] = "get_use" /\ pc'[t] = "idle"
      /\ HeapKept /\ UNCHANGED <<blobs_, disk>>
      /\ \A w \in Threads \ {t} : /\ pc'[w] = pc[w] /\ bytes'[w] = bytes[w]
                                 /\ b'[w] = b[w] /\ key'[w] = key[w]
  BY Zenon DEF GetUse, Return, HeapKept, IInv, TypeOK
<1>2. /\ UNCHANGED Stored
      /\ Calls[t] = CallOf(t) /\ Calls' = [Calls EXCEPT ![t] = CallOf(t)']
  BY <1>1, StillStored, Zenon
<1>3. CallOf(t) = [op |-> "found", content |-> disk[heap[b[t]].filePath_]]
  BY <1>1, CallCases, Zenon
<1>4. CallOf(t)' = [op |-> "idle"]
  BY <1>1, NextCallCases, Zenon
<1>5. Calls[t].op = "found"
  <2>1. Calls[t] = [op |-> "found", content |-> disk[heap[b[t]].filePath_]]
    BY <1>2, <1>3, Zenon
  <2> QED BY <2>1
<1> QED BY <1>2, <1>4, <1>5, Zenon DEF Store!Use, Store!Goes, Store!Idle

(***************************************************************************)
(* The steps of paginate are none of the store.                            *)
(***************************************************************************)
LEMMA PageStepR ==
  ASSUME IInv, CInv, CInv', NEW t \in Threads,
         PageSeek(t) \/ PageNext(t) \/ PageUse(t) \/ PageSend(t)
  PROVE  UNCHANGED <<Stored, Calls>>
<1> DEFINE Quiet == {"page_seek", "page_next", "page_use", "idle"}
<1>1. /\ pc[t] \in Quiet /\ pc'[t] \in Quiet
      /\ HeapKept /\ UNCHANGED <<blobs_, disk>>
      /\ \A w \in Threads \ {t} : /\ pc'[w] = pc[w] /\ bytes'[w] = bytes[w]
                                 /\ b'[w] = b[w] /\ key'[w] = key[w]
  <2>1. CASE PageSeek(t) \/ PageNext(t)
    BY <2>1, Zenon DEF PageSeek, PageNext, Visit, GoTo, HeapKept, IInv, TypeOK
  <2>2. CASE PageUse(t) \/ PageSend(t)
    BY <2>2, Zenon DEF PageUse, PageSend, Return, Die, locals, HeapKept, IInv, TypeOK
  <2> QED BY <2>1, <2>2, Zenon
<1>2. CallOf(t) = [op |-> "idle"]
  BY <1>1, CallCases, Zenon
<1>3. CallOf(t)' = [op |-> "idle"]
  BY <1>1, NextCallCases, Zenon
<1> QED BY <1>1, <1>2, <1>3, StillStored, Zenon

(***************************************************************************)
(* Nor is the end of the process, which leaves the index and the files.    *)
(***************************************************************************)
LEMMA DieStepR ==
  ASSUME UNCHANGED <<blobs_, heap, disk, pc, bytes, b, key>>
  PROVE  UNCHANGED <<Stored, Calls>>
BY Zenon DEF Stored, Calls, CallOf, FileOf

(***************************************************************************)
(* Every step of the index is one of the store, or none.                   *)
(***************************************************************************)
LEMMA NextR ==
  IInv /\ CInv /\ CInv' /\ NulFree /\ Faults = {} /\ [Next]_vars => [Store!Next]_(Store!svars)
<1> SUFFICES ASSUME IInv, CInv, CInv', NulFree, Faults = {}, [Next]_vars,
                    ~ UNCHANGED <<Stored, Calls>>
             PROVE  Store!Next
  BY Zenon DEF Store!svars
<1>1. ASSUME NEW t \in Threads, Call(t) PROVE Store!Next
  BY <1>1, CallStepR, Zenon DEF Store!Next
<1>2. ASSUME NEW t \in Threads, AddReject(t) \/ AddBegin(t) PROVE Store!Next
  BY <1>2, BeginStepR, Zenon DEF Store!Next
<1>3. ASSUME NEW t \in Threads, AddInsert(t) \/ AddLink(t) \/ AddAssign(t) PROVE Store!Next
  BY <1>3, InsertStepR, Zenon DEF Store!Next
<1>4. ASSUME NEW t \in Threads, AddExists(t) \/ AddWrite(t) PROVE Store!Next
  BY <1>4, FileStepR, Zenon DEF Store!Next
<1>5. ASSUME NEW t \in Threads, AddReturn(t) PROVE Store!Next
  BY <1>5, ReturnStepR, Zenon DEF Store!Next
<1>6. ASSUME NEW t \in Threads, GetLookup(t) PROVE Store!Next
  BY <1>6, LookupStepR, Zenon DEF Store!Next
<1>7. ASSUME NEW t \in Threads, GetUse(t) PROVE Store!Next
  BY <1>7, UseStepR, Zenon DEF Store!Next
<1>8. ASSUME NEW t \in Threads, PageSeek(t) \/ PageNext(t) \/ PageUse(t) \/ PageSend(t)
      PROVE  FALSE
  BY <1>8, PageStepR, Zenon
<1>9. ASSUME NEW t \in Threads, AddAssertFails(t) PROVE FALSE
  BY <1>9, DieStepR, Zenon DEF AddAssertFails, Die, locals
<1>10. ASSUME NEW t \in Threads, AddWriteFails(t) PROVE FALSE
  BY <1>10, Zenon DEF AddWriteFails
<1>11. CASE Crash \/ Restart
  BY <1>11, Zenon DEF Crash, Restart
<1>12. CASE UNCHANGED vars
  BY <1>12, DieStepR, Zenon DEF vars
<1> QED BY <1>1, <1>2, <1>3, <1>4, <1>5, <1>6, <1>7, <1>8, <1>9, <1>10, <1>11, <1>12, Zenon
        DEF Next, Step

(***************************************************************************)
(* The index starts as the empty store.                                    *)
(***************************************************************************)
LEMMA InitR == Init => Store!Init
<1> SUFFICES ASSUME Init PROVE Store!Init
  OBVIOUS
<1>1. \A c \in Contents : K1(c) \in Keys /\ blobs_[K1(c)] = Absent
  BY KeyFacts, Zenon DEF Init
<1>2. Stored = {}
  BY <1>1, KeysOfFacts DEF Stored, Absent, Pointers
<1>3. \A t \in Threads : CallOf(t) = [op |-> "idle"]
  BY Zenon DEF Init, CallOf, FileOf
<1>4. Calls = [t \in Threads |-> [op |-> "idle"]]
  BY <1>3, Zenon DEF Calls
<1> QED BY <1>2, <1>4, Zenon DEF Store!Init, Store!Idle

(***************************************************************************)
(* The index with its mutex, its Blobs and its files is the store of       *)
(* BlobStore: to the callers of add_blob and get, whatever they interleave,*)
(* every call looks atomic, for contents without NUL bytes in a process    *)
(* without faults.                                                         *)
(***************************************************************************)
THEOREM IndexImplementsStore ==
  ASSUME NulFree, Faults = {}
  PROVE  Spec => ImplementsStore
<1>1. IInv /\ CInv /\ CInv' /\ [Next]_vars => [Store!Next]_(Store!svars)
  BY NextR, Zenon
<1> QED BY <1>1, InitR, IndexInvariant, ContentInvariant, PTL
        DEF Spec, ImplementsStore, Store!Spec
==============================================================================
