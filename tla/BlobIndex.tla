------------------------------ MODULE BlobIndex ------------------------------
(***************************************************************************)
(* The blob index and the blob files behind it (BlobIndex.cpp, Blob.cpp)   *)
(* as the threads of one server process use them: the io_service pool that *)
(* runs the request handlers, and the sync thread.                         *)
(*                                                                         *)
(* add_blob and get run under mutex_; paginate takes no lock, and what a   *)
(* handler does with a Blob pointer it was given happens after the lock is *)
(* released.  A crash loses the memory of the process and keeps the disk.  *)
(***************************************************************************)
EXTENDS BlobKey, FiniteSets

CONSTANTS Threads,     \* threads of the process that use the index
          Unlocked,    \* value of mutex_ when no thread holds it
          NoFile,      \* a path at which there is no file
          NoBlob,      \* an address at which there is no Blob object
          MaxBlobs,    \* bound: Blob objects one process allocates
          PageCount,   \* the count given to paginate (26 or 501 in the code)
          Faults       \* which of {"crash", "io"} happen

ASSUME ThreadsAssumption == Unlocked \notin Threads

ASSUME FileAssumption == NoFile \notin Seq(Byte)

ASSUME BoundsAssumption == MaxBlobs \in Nat /\ PageCount \in Nat \ {0}

(***************************************************************************)
(* Blob* values: NULL or an address.  Absent is not a pointer: it says     *)
(* that the map has no node for a key.                                     *)
(***************************************************************************)
NULL == 0

Absent == -1

Pointers == 1 .. MaxBlobs

Paths == {Sha256(c) : c \in Contents}

(***************************************************************************)
(* A Blob object; NoBlob stands for memory that is not an allocated Blob.  *)
(***************************************************************************)
Blob == [filePath_ : Paths, size_ : Nat]

ASSUME HeapAssumption == NoBlob \notin Blob

NewBlob(c) == [filePath_ |-> Sha256(c), size_ |-> Len(c)]

VARIABLES
  up,       \* whether the process runs
  mutex_,   \* the holder of BlobIndex::mutex_
  blobs_,   \* the std::map: for each key Absent, NULL or a Blob*
  heap,     \* for each address NoBlob or the Blob object there
  disk,     \* for each path NoFile or the bytes of the file
  pc,       \* where each thread is
  bytes,    \* add_blob: the argument
  b,        \* add_blob: the new Blob; after get: the Blob it returned
  key,      \* add_blob: the provided hash, then the loop's blob_key;
            \* get: the requested hash; paginate: last, then the iterator
  page,     \* paginate: the vector it fills
  acked     \* history: contents this process's add_blob has returned a Blob for

vars == <<up, mutex_, blobs_, heap, disk, pc, bytes, b, key, page, acked>>

locals == <<bytes, b, key, page>>

NoBytes == <<>>

Init ==
  /\ up = TRUE
  /\ mutex_ = Unlocked
  /\ blobs_ = [k \in Keys |-> Absent]
  /\ heap = [p \in Pointers |-> NoBlob]
  /\ disk = [f \in Paths |-> NoFile]
  /\ pc = [t \in Threads |-> "idle"]
  /\ bytes = [t \in Threads |-> NoBytes]
  /\ b = [t \in Threads |-> NULL]
  /\ key = [t \in Threads |-> NoKey]
  /\ page = [t \in Threads |-> <<>>]
  /\ acked = {}

------------------------------------------------------------------------------
(***************************************************************************)
(* Going back to idle: the locals of the call go out of scope.             *)
(***************************************************************************)
Return(t) ==
  /\ pc' = [pc EXCEPT ![t] = "idle"]
  /\ bytes' = [bytes EXCEPT ![t] = NoBytes]
  /\ b' = [b EXCEPT ![t] = NULL]
  /\ key' = [key EXCEPT ![t] = NoKey]
  /\ page' = [page EXCEPT ![t] = <<>>]

GoTo(t, label) == pc' = [pc EXCEPT ![t] = label]

(***************************************************************************)
(* The process ends: an assertion fails, a NULL pointer is followed, an    *)
(* exception of boost::filesystem leaves its thread, or it is killed.  The *)
(* last two, which may happen at any time, are Crash.                      *)
(***************************************************************************)
Die ==
  /\ up' = FALSE
  /\ UNCHANGED <<mutex_, blobs_, heap, disk, pc, locals, acked>>

Crash == "crash" \in Faults /\ up /\ Die

(***************************************************************************)
(* The process is started again: main builds an empty BlobIndex and reads  *)
(* nothing back from the directory.  The files are still there.            *)
(***************************************************************************)
Restart ==
  /\ "crash" \in Faults
  /\ ~ up
  /\ up' = TRUE
  /\ mutex_' = Unlocked
  /\ blobs_' = [k \in Keys |-> Absent]
  /\ heap' = [p \in Pointers |-> NoBlob]
  /\ pc' = [t \in Threads |-> "idle"]
  /\ bytes' = [t \in Threads |-> NoBytes]
  /\ b' = [t \in Threads |-> NULL]
  /\ key' = [t \in Threads |-> NoKey]
  /\ page' = [t \in Threads |-> <<>>]
  /\ acked' = {}
  /\ UNCHANGED disk

------------------------------------------------------------------------------
(* add_blob *)

FreeAddresses == {p \in Pointers : heap[p] = NoBlob}

(***************************************************************************)
(* handle_put and the start-up loader give no hash, Sync::fetch_blob gives *)
(* the reference it asked a peer for.  handle_put skips empty parts, the   *)
(* other two callers do not.  The second conjunct is the bound MaxBlobs.   *)
(***************************************************************************)
CallAdd(t, c, provided_hash) ==
  /\ pc[t] = "idle"
  /\ Cardinality({w \in Threads : pc[w] = "add_lock"}) < Cardinality(FreeAddresses)
  /\ bytes' = [bytes EXCEPT ![t] = c]
  /\ key' = [key EXCEPT ![t] = provided_hash]
  /\ GoTo(t, "add_lock")
  /\ UNCHANGED <<up, mutex_, blobs_, heap, disk, b, page, acked>>

(***************************************************************************)
(* assert(bytes->size() > 0) aborts the process.                           *)
(***************************************************************************)
AddAssertFails(t) ==
  /\ pc[t] = "add_lock"
  /\ mutex_ = Unlocked
  /\ bytes[t] = NoBytes
  /\ Die

(***************************************************************************)
(* `new Blob(path)': the lowest address that holds no object.              *)
(***************************************************************************)
Allocate(p, c) ==
  /\ heap[p] = NoBlob
  /\ \A q \in 1 .. p - 1 : heap[q] # NoBlob
  /\ heap' = [heap EXCEPT ![p] = NewBlob(c)]

(***************************************************************************)
(* Mutant: the provided hash is not compared.                              *)
(***************************************************************************)
HashNotCompared(t) == TRUE

HashMatches(t) ==
  key[t] = NoKey \/ \E h \in HashTypes : key[t] = BlobKeyFor(h, bytes[t])

(***************************************************************************)
(* The provided hash is none of the content's: add_blob returns none, and  *)
(* the Blob it has built is not deleted.                                   *)
(***************************************************************************)
AddReject(t) ==
  /\ pc[t] = "add_lock"
  /\ mutex_ = Unlocked
  /\ bytes[t] # NoBytes
  /\ ~ HashMatches(t)
  /\ \E p \in Pointers : Allocate(p, bytes[t])
  /\ Return(t)
  /\ UNCHANGED <<up, mutex_, blobs_, disk, acked>>

(***************************************************************************)
(* Mutant: the lock is gone again once the hash has been compared.         *)
(***************************************************************************)
AddBeginUnlocked(t) ==
  /\ pc[t] = "add_lock"
  /\ mutex_ = Unlocked
  /\ bytes[t] # NoBytes
  /\ HashMatches(t)
  /\ \E p \in Pointers : /\ Allocate(p, bytes[t])
                         /\ b' = [b EXCEPT ![t] = p]
  /\ key' = [key EXCEPT ![t] = BlobKeyFor(sha1, bytes[t])]
  /\ GoTo(t, "add_insert")
  /\ UNCHANGED <<up, mutex_, blobs_, disk, bytes, page, acked>>

AddBegin(t) ==
  /\ pc[t] = "add_lock"
  /\ mutex_ = Unlocked
  /\ bytes[t] # NoBytes
  /\ HashMatches(t)
  /\ mutex_' = t
  /\ \E p \in Pointers : /\ Allocate(p, bytes[t])
                         /\ b' = [b EXCEPT ![t] = p]
  /\ key' = [key EXCEPT ![t] = BlobKeyFor(sha1, bytes[t])]
  /\ GoTo(t, "add_insert")
  /\ UNCHANGED <<up, blobs_, disk, bytes, page, acked>>

(***************************************************************************)
(* `blobs_[blob_key] = b' is several steps for a reader without the lock:  *)
(* operator[] looks the key up; if there is no node it links one whose     *)
(* pointer is NULL, rebalancing the tree; then the pointer is assigned.    *)
(***************************************************************************)
AddInsert(t) ==
  /\ pc[t] = "add_insert"
  /\ GoTo(t, IF blobs_[key[t]] = Absent THEN "add_link" ELSE "add_assign")
  /\ UNCHANGED <<up, mutex_, blobs_, heap, disk, locals, acked>>

AddLink(t) ==
  /\ pc[t] = "add_link"
  /\ blobs_' = [blobs_ EXCEPT ![key[t]] = NULL]
  /\ GoTo(t, "add_assign")
  /\ UNCHANGED <<up, mutex_, heap, disk, locals, acked>>

(***************************************************************************)
(* Mutant: the Blob that is replaced is deleted.                           *)
(***************************************************************************)
AddAssignDeletes(t) ==
  /\ pc[t] = "add_assign"
  /\ blobs_' = [blobs_ EXCEPT ![key[t]] = b[t]]
  /\ heap' = [p \in Pointers |-> IF p = blobs_[key[t]] THEN NoBlob ELSE heap[p]]
  /\ \/ /\ key[t].hash_type = sha1
        /\ key' = [key EXCEPT ![t] = BlobKeyFor(sha256, bytes[t])]
        /\ GoTo(t, "add_insert")
     \/ /\ key[t].hash_type = sha256
        /\ GoTo(t, "add_exists")
        /\ UNCHANGED key
  /\ UNCHANGED <<up, mutex_, disk, bytes, b, page, acked>>

(***************************************************************************)
(* Mutant: the mutex covers the index and not the file.                    *)
(***************************************************************************)
AddAssignUnlocks(t) ==
  /\ pc[t] = "add_assign"
  /\ blobs_' = [blobs_ EXCEPT ![key[t]] = b[t]]
  /\ \/ /\ key[t].hash_type = sha1
        /\ key' = [key EXCEPT ![t] = BlobKeyFor(sha256, bytes[t])]
        /\ GoTo(t, "add_insert")
        /\ UNCHANGED mutex_
     \/ /\ key[t].hash_type = sha256
        /\ GoTo(t, "add_exists")
        /\ mutex_' = Unlocked
        /\ UNCHANGED key
  /\ UNCHANGED <<up, heap, disk, bytes, b, page, acked>>

(***************************************************************************)
(* A Blob the key pointed to before is forgotten, not deleted.             *)
(***************************************************************************)
AddAssign(t) ==
  /\ pc[t] = "add_assign"
  /\ blobs_' = [blobs_ EXCEPT ![key[t]] = b[t]]
  /\ \/ /\ key[t].hash_type = sha1
        /\ key' = [key EXCEPT ![t] = BlobKeyFor(sha256, bytes[t])]
        /\ GoTo(t, "add_insert")
     \/ /\ key[t].hash_type = sha256
        /\ GoTo(t, "add_exists")
        /\ UNCHANGED key
  /\ UNCHANGED <<up, mutex_, heap, disk, bytes, b, page, acked>>

(***************************************************************************)
(* A file is written only where there is none; opening it creates it       *)
(* empty.  The state of the stream is never looked at, so a failed open    *)
(* leaves no file and add_blob goes on.                                    *)
(***************************************************************************)
FileOf(t) == heap[b[t]].filePath_

(***************************************************************************)
(* Mutant: the file is opened, and so emptied, whether it exists or not.   *)
(***************************************************************************)
AddAlwaysOpens(t) ==
  /\ pc[t] = "add_exists"
  /\ disk' = [disk EXCEPT ![FileOf(t)] = <<>>]
  /\ GoTo(t, "add_write")
  /\ UNCHANGED <<up, mutex_, blobs_, heap, locals, acked>>

(***************************************************************************)
(* Mutant: add_blob returns early, and the lock is kept, if there is a     *)
(* file.                                                                   *)
(***************************************************************************)
AddExistsKeepsLock(t) ==
  /\ pc[t] = "add_exists"
  /\ \/ /\ disk[FileOf(t)] # NoFile
        /\ Return(t)
        /\ UNCHANGED disk
     \/ /\ disk[FileOf(t)] = NoFile
        /\ disk' = [disk EXCEPT ![FileOf(t)] = <<>>]
        /\ GoTo(t, "add_write")
        /\ UNCHANGED locals
  /\ UNCHANGED <<up, mutex_, blobs_, heap, acked>>

AddExists(t) ==
  /\ pc[t] = "add_exists"
  /\ \/ /\ disk[FileOf(t)] # NoFile
        /\ GoTo(t, "add_unlock")
        /\ UNCHANGED disk
     \/ /\ disk[FileOf(t)] = NoFile
        /\ disk' = [disk EXCEPT ![FileOf(t)] = <<>>]
        /\ GoTo(t, "add_write")
     \/ /\ "io" \in Faults
        /\ disk[FileOf(t)] = NoFile
        /\ GoTo(t, "add_unlock")
        /\ UNCHANGED disk
  /\ UNCHANGED <<up, mutex_, blobs_, heap, locals, acked>>

(***************************************************************************)
(* The bytes reach the file in one or more pieces.                         *)
(***************************************************************************)
AddWrite(t) ==
  /\ pc[t] = "add_write"
  /\ \E n \in Len(disk[FileOf(t)]) + 1 .. Len(bytes[t]) :
       /\ disk' = [disk EXCEPT ![FileOf(t)] = SubSeq(bytes[t], 1, n)]
       /\ GoTo(t, IF n = Len(bytes[t]) THEN "add_unlock" ELSE "add_write")
  /\ UNCHANGED <<up, mutex_, blobs_, heap, locals, acked>>

(***************************************************************************)
(* A write error (a full disk) is not noticed either.                      *)
(***************************************************************************)
AddWriteFails(t) ==
  /\ "io" \in Faults
  /\ pc[t] = "add_write"
  /\ GoTo(t, "add_unlock")
  /\ UNCHANGED <<up, mutex_, blobs_, heap, disk, locals, acked>>

AddReturn(t) ==
  /\ pc[t] = "add_unlock"
  /\ mutex_' = Unlocked
  /\ acked' = acked \cup {bytes[t]}
  /\ Return(t)
  /\ UNCHANGED <<up, blobs_, heap, disk>>

------------------------------------------------------------------------------
(* get *)

CallGet(t, k) ==
  /\ pc[t] = "idle"
  /\ key' = [key EXCEPT ![t] = k]
  /\ GoTo(t, "get_lock")
  /\ UNCHANGED <<up, mutex_, blobs_, heap, disk, bytes, b, page, acked>>

(***************************************************************************)
(* Mutant: the result of find is not compared with end().                  *)
(***************************************************************************)
GetUnchecked(t) ==
  /\ pc[t] = "get_lock"
  /\ mutex_ = Unlocked
  /\ b' = [b EXCEPT ![t] = blobs_[key[t]]]
  /\ GoTo(t, "get_use")
  /\ UNCHANGED <<up, mutex_, blobs_, heap, disk, bytes, key, page, acked>>

(***************************************************************************)
(* The whole critical section: find, and NULL if there is no node.         *)
(***************************************************************************)
GetLookup(t) ==
  /\ pc[t] = "get_lock"
  /\ mutex_ = Unlocked
  /\ \/ /\ blobs_[key[t]] \in {Absent, NULL}
        /\ Return(t)
     \/ /\ blobs_[key[t]] \notin {Absent, NULL}
        /\ b' = [b EXCEPT ![t] = blobs_[key[t]]]
        /\ GoTo(t, "get_use")
        /\ UNCHANGED <<bytes, key, page>>
  /\ UNCHANGED <<up, mutex_, blobs_, heap, disk, acked>>

(***************************************************************************)
(* The caller uses the Blob without the lock: handle_check and handle_stat *)
(* report its size, handle_get and Sync::send_blob read its file.  The     *)
(* properties say what there is to be read in a state where t is here.     *)
(***************************************************************************)
GetUse(t) ==
  /\ pc[t] = "get_use"
  /\ Return(t)
  /\ UNCHANGED <<up, mutex_, blobs_, heap, disk, acked>>

------------------------------------------------------------------------------
(* paginate *)

CallPaginate(t, last) ==
  /\ pc[t] = "idle"
  /\ key' = [key EXCEPT ![t] = last]
  /\ GoTo(t, "page_seek")
  /\ UNCHANGED <<up, mutex_, blobs_, heap, disk, bytes, b, page, acked>>

Present == {k \in Keys : blobs_[k] # Absent}

(***************************************************************************)
(* A tree walk that meets a rebalancing reads links that are being         *)
(* rewritten: it may come out at any node, the new one included, or at the *)
(* end.  Nodes are never freed, so every link leads to a node.             *)
(***************************************************************************)
Rebalancing == {t \in Threads : pc[t] = "add_link"}

Walk(n, From) ==
  \/ IsFirst(n, From)
  \/ /\ Rebalancing # {}
     /\ n \in Present \cup {key[w] : w \in Rebalancing} \cup {NoKey}

PointerAt(n) == IF blobs_[n] = Absent THEN NULL ELSE blobs_[n]

(***************************************************************************)
(* The loop reaches n: at the end, or with count pairs, it returns.        *)
(***************************************************************************)
Visit(t, n) ==
  \/ /\ n = NoKey
     /\ GoTo(t, "page_use")
     /\ UNCHANGED <<key, page>>
  \/ /\ n # NoKey
     /\ key' = [key EXCEPT ![t] = n]
     /\ page' = [page EXCEPT ![t] = Append(@, [first |-> n, second |-> PointerAt(n)])]
     /\ GoTo(t, IF Len(page[t]) + 1 >= PageCount THEN "page_use" ELSE "page_next")

PageSeek(t) ==
  /\ pc[t] = "page_seek"
  /\ \E n \in Keys \cup {NoKey} :
       /\ Walk(n, {k \in Present : key[t] = NoKey \/ KeyLeq(key[t], k)})
       /\ Visit(t, n)
  /\ UNCHANGED <<up, mutex_, blobs_, heap, disk, bytes, b, acked>>

PageNext(t) ==
  /\ pc[t] = "page_next"
  /\ \E n \in Keys \cup {NoKey} :
       /\ Walk(n, {k \in Present : KeyLess(key[t], k)})
       /\ Visit(t, n)
  /\ UNCHANGED <<up, mutex_, blobs_, heap, disk, bytes, b, acked>>

(***************************************************************************)
(* handle_enumerate asks every pair it lists for its size: all of them but *)
(* the PageCount-th, which only becomes continueAfter.                     *)
(***************************************************************************)
ListedPairs(t) == {i \in DOMAIN page[t] : i < PageCount}

PageUse(t) ==
  /\ pc[t] = "page_use"
  /\ \/ /\ \A i \in ListedPairs(t) : page[t][i].second # NULL
        /\ Return(t)
        /\ UNCHANGED <<up, mutex_, blobs_, heap, disk, acked>>
     \/ /\ \E i \in ListedPairs(t) : page[t][i].second = NULL
        /\ Die

(***************************************************************************)
(* Sync::sync_host only reads the keys of the pairs.                       *)
(***************************************************************************)
PageSend(t) ==
  /\ pc[t] = "page_use"
  /\ Return(t)
  /\ UNCHANGED <<up, mutex_, blobs_, heap, disk, acked>>

------------------------------------------------------------------------------
Call(t) ==
  \/ \E c \in Contents, k \in Keys \cup {NoKey} : CallAdd(t, c, k)
  \/ \E k \in Keys : CallGet(t, k)
  \/ \E k \in Keys \cup {NoKey} : CallPaginate(t, k)

Step(t) ==
  \/ AddAssertFails(t) \/ AddReject(t) \/ AddBegin(t)
  \/ AddInsert(t) \/ AddLink(t) \/ AddAssign(t)
  \/ AddExists(t) \/ AddWrite(t) \/ AddWriteFails(t) \/ AddReturn(t)
  \/ GetLookup(t) \/ GetUse(t)
  \/ PageSeek(t) \/ PageNext(t) \/ PageUse(t) \/ PageSend(t)

Next ==
  \/ up /\ \E t \in Threads : Call(t) \/ Step(t)
  \/ Crash
  \/ Restart

Spec == Init /\ [][Next]_vars

(***************************************************************************)
(* A thread inside a call that is not waiting for the mutex takes its next *)
(* step: the code between two lock operations neither blocks nor loops.    *)
(***************************************************************************)
Fairness == \A t \in Threads : WF_vars(up /\ Step(t))

FairSpec == Spec /\ Fairness

------------------------------------------------------------------------------
(* Properties *)

Pair == [first : Keys, second : Pointers \cup {NULL}]

Labels == {"idle", "add_lock", "add_insert", "add_link", "add_assign",
           "add_exists", "add_write", "add_unlock", "get_lock", "get_use",
           "page_seek", "page_next", "page_use"}

(***************************************************************************)
(* Type invariant of the index, the heap, the disk and the locals of the   *)
(* threads.                                                                *)
(***************************************************************************)
TypeOK ==
  /\ up \in BOOLEAN
  /\ mutex_ \in Threads \cup {Unlocked}
  /\ blobs_ \in [Keys -> Pointers \cup {NULL, Absent}]
  /\ heap \in [Pointers -> Blob \cup {NoBlob}]
  /\ disk \in [Paths -> Seq(Byte) \cup {NoFile}]
  /\ pc \in [Threads -> Labels]
  /\ bytes \in [Threads -> Contents \cup {NoBytes}]
  /\ b \in [Threads -> Pointers \cup {NULL}]
  /\ key \in [Threads -> Keys \cup {NoKey}]
  /\ page \in [Threads -> Seq(Pair)]
  /\ acked \subseteq Contents

(***************************************************************************)
(* Whenever the mutex is free the two keys of a content lead to one and    *)
(* the same Blob, or neither is indexed: add_blob's two assignments are    *)
(* one step for every caller of get.                                       *)
(***************************************************************************)
SiblingsAgree ==
  mutex_ = Unlocked =>
    \A c \in Contents :
      blobs_[BlobKeyFor(sha1, c)] = blobs_[BlobKeyFor(sha256, c)]

(***************************************************************************)
(* p is a live Blob whose file is the one of k's content.                  *)
(***************************************************************************)
IsBlobOf(p, k) ==
  /\ heap[p] # NoBlob
  /\ \E c \in Contents, h \in HashTypes :
       k = BlobKeyFor(h, c) /\ heap[p].filePath_ = Sha256(c)

(***************************************************************************)
(* A Blob pointer stays good after the mutex is released, while other      *)
(* threads replace it in the index: the one a caller of get holds, and     *)
(* each one in a page, is a live object and still the Blob of the key it   *)
(* was found under.                                                        *)
(***************************************************************************)
HeldBlobsLive ==
  \A t \in Threads :
    /\ pc[t] = "get_use" => IsBlobOf(b[t], key[t])
    /\ \A i \in DOMAIN page[t] :
         page[t][i].second # NULL => IsBlobOf(page[t][i].second, page[t][i].first)

(***************************************************************************)
(* A caller that was given a Blob finds, when it later opens the file      *)
(* without the lock, exactly the content the requested key is the digest   *)
(* of, and the size HEAD and stat report is the length of that file.       *)
(***************************************************************************)
FoundBlobReadable ==
  \A t \in Threads : pc[t] = "get_use" =>
    \E c \in Contents, h \in HashTypes :
      /\ key[t] = BlobKeyFor(h, c)
      /\ disk[FileOf(t)] = c
      /\ heap[b[t]].size_ = Len(c)

(***************************************************************************)
(* store then get: from the moment add_blob has returned, both keys of the *)
(* content lead to a Blob with its size and a file with its bytes, also    *)
(* while the same content is being added again.                            *)
(***************************************************************************)
AckedRetrievable ==
  \A c \in acked, h \in HashTypes :
    LET p == blobs_[BlobKeyFor(h, c)]
    IN  /\ p \in Pointers
        /\ heap[p] = NewBlob(c)
        /\ disk[heap[p].filePath_] = c

(***************************************************************************)
(* Blobs are immutable: no step, and no crash, changes or removes bytes    *)
(* that are in a file; a file is only ever extended, by the holder of the  *)
(* mutex.                                                                  *)
(***************************************************************************)
FilesOnlyGrow ==
  [][\A f \in Paths : disk[f] # NoFile /\ disk'[f] # disk[f] =>
       /\ disk'[f] # NoFile
       /\ Len(disk[f]) < Len(disk'[f])
       /\ disk[f] = SubSeq(disk'[f], 1, Len(disk[f]))
       /\ mutex_ # Unlocked]_vars

(***************************************************************************)
(* The mutex is never kept: every path out of add_blob, the rejection of a *)
(* wrong hash included, ends with it free.                                 *)
(***************************************************************************)
MutexReleased == mutex_ # Unlocked ~> mutex_ = Unlocked \/ ~ up

(***************************************************************************)
(* handle_enumerate never meets a pair without a Blob in the page it was   *)
(* given, so it can report a size for every reference it lists.            *)
(***************************************************************************)
ListedBlobsHaveSize ==
  \A t \in Threads : pc[t] = "page_use" =>
    \A i \in ListedPairs(t) : page[t][i].second # NULL
==============================================================================
