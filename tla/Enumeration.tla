----------------------------- MODULE Enumeration -----------------------------
(***************************************************************************)
(* Walking through all keys of an index page by page while blobs are being *)
(* added: BlobIndex::paginate called                                       *)
(*   - by request_handler::handle_enumerate for each request of a client   *)
(*     that follows continueAfter, as the first loop of Sync::sync_host    *)
(*     does ("get"), and                                                   *)
(*   - by the second loop of Sync::sync_host on its own index ("send").    *)
(*                                                                         *)
(* Keys appear in the map one at a time between two steps of the walk.     *)
(* What an insertion does to a step it overlaps with is in BlobIndex.      *)
(***************************************************************************)
EXTENDS BlobKey

CONSTANTS Limit,   \* references in an enumerate reply (25 in the code)
          Batch    \* keys in one stat request of the send loop (501)

ASSUME LimitAssumption == Limit \in Nat \ {0}

ASSUME BatchAssumption == Batch \in Nat /\ Batch >= 2

VARIABLES
  index,    \* the keys in the map
  mode,     \* which loop runs: "get" or "send"
  pc,       \* where it is
  after,    \* the argument `last' of the next paginate, NoKey at first
  it,       \* paginate's iterator
  page,     \* the keys paginate has collected
  listed,   \* the references the loop has gone through
  start     \* history: the keys in the map when the loop began

vars == <<index, mode, pc, after, it, page, listed, start>>

(***************************************************************************)
(* The count each caller gives to paginate: handle_enumerate asks for one  *)
(* more than it lists.                                                     *)
(***************************************************************************)
Count == IF mode = "get" THEN Limit + 1 ELSE Batch

Init ==
  /\ index \in SUBSET Keys
  /\ mode \in {"get", "send"}
  /\ pc = "seek"
  /\ after = NoKey
  /\ it = NoKey
  /\ page = <<>>
  /\ listed = <<>>
  /\ start = index

(***************************************************************************)
(* Another thread's add_blob puts a key into the map.                      *)
(***************************************************************************)
Insert(k) ==
  /\ k \notin index
  /\ index' = index \cup {k}
  /\ UNCHANGED <<mode, pc, after, it, page, listed, start>>

(***************************************************************************)
(* Mutant: the loop does not stop at end().                                *)
(***************************************************************************)
VisitPastEnd(n) ==
  /\ it' = n
  /\ page' = Append(page, n)
  /\ pc' = IF Len(page) + 1 >= Count THEN "page" ELSE "next"

(***************************************************************************)
(* paginate's loop body at iterator n, up to the next increment.           *)
(***************************************************************************)
Visit(n) ==
  \/ /\ n = NoKey
     /\ pc' = "page"
     /\ UNCHANGED <<it, page>>
  \/ /\ n # NoKey
     /\ it' = n
     /\ page' = Append(page, n)
     /\ pc' = IF Len(page) + 1 >= Count THEN "page" ELSE "next"

(***************************************************************************)
(* Mutant: upper_bound, as the name continueAfter suggests.                *)
(***************************************************************************)
SeekBehind ==
  /\ pc = "seek"
  /\ \E n \in Keys \cup {NoKey} :
       /\ IsFirst(n, {k \in index : after = NoKey \/ KeyLess(after, k)})
       /\ Visit(n)
  /\ UNCHANGED <<index, mode, after, listed, start>>

(***************************************************************************)
(* begin(), or lower_bound(last), which includes last itself.              *)
(***************************************************************************)
Seek ==
  /\ pc = "seek"
  /\ \E n \in Keys \cup {NoKey} :
       /\ IsFirst(n, {k \in index : after = NoKey \/ KeyLeq(after, k)})
       /\ Visit(n)
  /\ UNCHANGED <<index, mode, after, listed, start>>

Advance ==
  /\ pc = "next"
  /\ \E n \in Keys \cup {NoKey} :
       /\ IsFirst(n, {k \in index : KeyLess(it, k)})
       /\ Visit(n)
  /\ UNCHANGED <<index, mode, after, listed, start>>

(***************************************************************************)
(* Mutant: continueAfter is the last reference that is listed.             *)
(***************************************************************************)
GetPageFromLastListed ==
  /\ mode = "get"
  /\ pc = "page"
  /\ \/ /\ Len(page) > Limit
        /\ listed' = listed \o SubSeq(page, 1, Limit)
        /\ after' = page[Limit]
        /\ pc' = "seek"
     \/ /\ Len(page) <= Limit
        /\ listed' = listed \o page
        /\ pc' = "done"
        /\ UNCHANGED after
  /\ page' = <<>>
  /\ UNCHANGED <<index, mode, it, start>>

(***************************************************************************)
(* handle_enumerate lists the first Limit pairs and, if there is one more, *)
(* names it as continueAfter; sync_host goes through the list and asks     *)
(* again from there, or stops.                                             *)
(***************************************************************************)
GetPage ==
  /\ mode = "get"
  /\ pc = "page"
  /\ \/ /\ Len(page) > Limit
        /\ listed' = listed \o SubSeq(page, 1, Limit)
        /\ after' = page[Len(page)]
        /\ pc' = "seek"
     \/ /\ Len(page) <= Limit
        /\ listed' = listed \o page
        /\ pc' = "done"
        /\ UNCHANGED after
  /\ page' = <<>>
  /\ UNCHANGED <<index, mode, it, start>>

(***************************************************************************)
(* Mutant: a batch that is not full is asked for again.                    *)
(***************************************************************************)
SendPageRetries ==
  /\ mode = "send"
  /\ pc = "page"
  /\ \/ /\ Len(page) = Batch
        /\ listed' = listed \o page
        /\ after' = page[Len(page)]
     \/ /\ Len(page) # Batch
        /\ UNCHANGED <<listed, after>>
  /\ pc' = "seek"
  /\ page' = <<>>
  /\ UNCHANGED <<index, mode, it, start>>

(***************************************************************************)
(* sync_host asks the peer about every key of the batch; a full batch is   *)
(* followed by one that starts with its last key again.                    *)
(***************************************************************************)
SendPage ==
  /\ mode = "send"
  /\ pc = "page"
  /\ listed' = listed \o page
  /\ \/ /\ Len(page) = Batch
        /\ after' = page[Len(page)]
        /\ pc' = "seek"
     \/ /\ Len(page) # Batch
        /\ pc' = "done"
        /\ UNCHANGED after
  /\ page' = <<>>
  /\ UNCHANGED <<index, mode, it, start>>

(***************************************************************************)
(* The request fails or its reply is not an enumeration: the loop stops.   *)
(* No request is made for an empty batch.                                  *)
(***************************************************************************)
Fail ==
  /\ pc = "page"
  /\ mode = "get" \/ page # <<>>
  /\ pc' = "failed"
  /\ page' = <<>>
  /\ UNCHANGED <<index, mode, after, it, listed, start>>

Loop == Seek \/ Advance \/ GetPage \/ SendPage

Next == Loop \/ Fail \/ \E k \in Keys : Insert(k)

Spec == Init /\ [][Next]_vars

(***************************************************************************)
(* paginate takes no lock, so the loop waits for nothing but the peer.     *)
(* That the peer answers or drops the connection is an assumption about    *)
(* it: CURLOPT_TIMEOUT is set before the loops, and the curl_easy_reset    *)
(* after the first request clears it.                                      *)
(***************************************************************************)
FairSpec == Spec /\ WF_vars(Loop)

------------------------------------------------------------------------------
(* Properties *)

(***************************************************************************)
(* Type invariant of the walk.                                             *)
(***************************************************************************)
TypeOK ==
  /\ index \subseteq Keys
  /\ mode \in {"get", "send"}
  /\ pc \in {"seek", "next", "page", "done", "failed"}
  /\ after \in Keys \cup {NoKey}
  /\ it \in Keys \cup {NoKey}
  /\ page \in Seq(Keys)
  /\ listed \in Seq(Keys)
  /\ start \subseteq index

(***************************************************************************)
(* A loop that runs to its end has gone through every key that was in the  *)
(* map when it began: no key is lost between two pages, however many keys  *)
(* are inserted before, at or behind the cursor meanwhile.                 *)
(***************************************************************************)
NothingSkipped ==
  pc = "done" => \A k \in start : \E i \in DOMAIN listed : listed[i] = k

(***************************************************************************)
(* References come in the order of the keys, across pages too, and a       *)
(* client of enumerate-blobs is never given one twice; the send loop       *)
(* repeats only the key two of its batches share.                          *)
(***************************************************************************)
SortedListing ==
  \A i, j \in DOMAIN listed : i < j =>
    \/ KeyLess(listed[i], listed[j])
    \/ mode = "send" /\ listed[i] = listed[j] /\ j = i + 1

(***************************************************************************)
(* The loops end, also while blobs are added.                              *)
(***************************************************************************)
Terminates == <>(pc \in {"done", "failed"})
==============================================================================
