-------------------------------- MODULE Sync --------------------------------
(***************************************************************************)
(* Synchronisation of a server with its peers (Sync.cpp, Config.cpp) and   *)
(* the main thread that starts and stops it (blobserver.cpp).              *)
(*                                                                         *)
(* The sync thread waits for the answer of one request at a time, so a     *)
(* request is one step, at the moment the peer handles it (RequestHandler  *)
(* shows what it does).  It can also fail, with or without having been     *)
(* handled, or stay without an answer for ever.  Clients upload to every   *)
(* server meanwhile, and a peer that restarts has an empty index.          *)
(***************************************************************************)
EXTENDS BlobKey, Functions

CONSTANTS Peers,         \* sync_servers: the peers in the order they are visited
          Mode,          \* the SyncMode of each peer
          Delay,         \* sync_delay
          Limit,         \* references in an enumerate reply (25 in the code)
          Batch,         \* keys in one stat request (501)
          NotFoundPage,  \* the content of the stock reply 404
          MaxFaults      \* bound: failed requests and restarts of peers

ASSUME PeersAssumption ==
  /\ Peers \in Seq(Range(Peers)) \ {<<>>}
  /\ Mode \in [Range(Peers) -> {"get", "send", "get_and_send"}]

ASSUME SizesAssumption == Delay \in Nat \ {0} /\ Limit \in Nat \ {0} /\ Batch \in Nat \ {0, 1}

ASSUME PageAssumption == NotFoundPage \in Contents

VARIABLES
  mine,      \* the contents in this server's index
  theirs,    \* the contents in each peer's index
  main,      \* main: "serving", in "stop", or "ended"
  stopRequested_,
  pc,        \* where the sync thread is
  tick_,
  slept,     \* history: calls of sleep since the last round
  host,      \* the number of the peer being visited
  timeout,   \* whether CURLOPT_TIMEOUT is set on the handle
  last,      \* get loop: where the next page begins, NoKey at first
  refs,      \* get loop: references of the page still to be looked at
  after,     \* send loop: where the next batch begins, NoKey at first
  more,      \* the loop goes on: get_more, check_more
  check,     \* send loop: references still to be sent
  faults     \* faults so far

round == <<host, timeout, last, refs, after, more, check>>

vars == <<mine, theirs, main, stopRequested_, pc, tick_, slept, round, faults>>

Blobs == Contents \ {NotFoundPage}

Peer == Peers[host]

Gets(p) == Mode[p] \in {"get", "get_and_send"}

Sends(p) == Mode[p] \in {"send", "get_and_send"}

(***************************************************************************)
(* paginate: at most count keys, from the first one not below `from'.      *)
(***************************************************************************)
paginate(contents, from, count) ==
  LET keys == InOrder({k \in KeysOf(contents) : from = NoKey \/ KeyLeq(from, k)})
  IN  SubSeq(keys, 1, Min({count, Len(keys)}))

Init ==
  /\ mine = {}
  /\ theirs = [p \in Range(Peers) |-> {}]
  /\ main = "serving"
  /\ stopRequested_ = FALSE
  /\ pc = "loop"
  /\ tick_ = 0
  /\ slept = Delay
  /\ host = 0
  /\ timeout = FALSE
  /\ last = NoKey
  /\ refs = <<>>
  /\ after = NoKey
  /\ more = FALSE
  /\ check = {}
  /\ faults = 0

------------------------------------------------------------------------------
(* Everyone else *)

Upload(c) ==
  /\ c \notin mine
  /\ mine' = mine \cup {c}
  /\ UNCHANGED <<theirs, main, stopRequested_, pc, tick_, slept, round, faults>>

UploadToPeer(p, c) ==
  /\ c \notin theirs[p]
  /\ theirs' = [theirs EXCEPT ![p] = @ \cup {c}]
  /\ UNCHANGED <<mine, main, stopRequested_, pc, tick_, slept, round, faults>>

PeerRestarts(p) ==
  /\ faults < MaxFaults
  /\ theirs[p] # {}
  /\ theirs' = [theirs EXCEPT ![p] = {}]
  /\ faults' = faults + 1
  /\ UNCHANGED <<mine, main, stopRequested_, pc, tick_, slept, round>>

(***************************************************************************)
(* server::run returns or the server cannot be built: Sync::stop sets the  *)
(* flag, and then joins the thread.                                        *)
(***************************************************************************)
Stop ==
  /\ main = "serving"
  /\ main' = "stop"
  /\ stopRequested_' = TRUE
  /\ UNCHANGED <<mine, theirs, pc, tick_, slept, round, faults>>

Join ==
  /\ main = "stop"
  /\ pc = "ended"
  /\ main' = "ended"
  /\ UNCHANGED <<mine, theirs, stopRequested_, pc, tick_, slept, round, faults>>

------------------------------------------------------------------------------
(* Sync::run *)

(***************************************************************************)
(* One turn of the loop: it ends, sleeps, or begins a round over the       *)
(* peers.                                                                  *)
(***************************************************************************)
Run ==
  /\ pc = "loop"
  /\ \/ /\ stopRequested_
        /\ pc' = "ended"
        /\ UNCHANGED <<tick_, slept, host>>
     \/ /\ ~ stopRequested_
        /\ tick_' = tick_ + 1
        /\ \/ /\ tick_' < Delay
              /\ slept' = Min({slept + 1, Delay})
              /\ UNCHANGED <<pc, host>>
           \/ /\ tick_' >= Delay
              /\ pc' = "host"
              /\ host' = 1
              /\ UNCHANGED slept
  /\ UNCHANGED <<mine, theirs, main, stopRequested_, timeout, last, refs, after, more, check, faults>>

(***************************************************************************)
(* Mutant: the second that is slept behind a round counts twice.           *)
(***************************************************************************)
BeginHostCountsTwice ==
  /\ pc = "host"
  /\ \/ /\ host > Len(Peers)
        /\ pc' = "loop"
        /\ host' = 0
        /\ tick_' = 1
        /\ slept' = 1
        /\ UNCHANGED <<timeout, last, refs, after, more, check>>
     \/ /\ host <= Len(Peers)
        /\ pc' = "get"
        /\ timeout' = TRUE
        /\ last' = NoKey
        /\ more' = Gets(Peer)
        /\ UNCHANGED <<tick_, slept, host, refs, after, check>>
  /\ UNCHANGED <<mine, theirs, main, stopRequested_, faults>>

(***************************************************************************)
(* sync_host begins with a handle of its own; behind the last peer the     *)
(* thread sleeps and goes back to the loop.                                *)
(***************************************************************************)
BeginHost ==
  /\ pc = "host"
  /\ \/ /\ host > Len(Peers)
        /\ pc' = "loop"
        /\ host' = 0
        /\ tick_' = 0
        /\ slept' = 1
        /\ UNCHANGED <<timeout, last, refs, after, more, check>>
     \/ /\ host <= Len(Peers)
        /\ pc' = "get"
        /\ timeout' = TRUE
        /\ last' = NoKey
        /\ more' = Gets(Peer)
        /\ UNCHANGED <<tick_, slept, host, refs, after, check>>
  /\ UNCHANGED <<mine, theirs, main, stopRequested_, faults>>

------------------------------------------------------------------------------
(* Requests *)

(***************************************************************************)
(* fetch_url and send_blob reset the handle after a request, its options   *)
(* included.  Without CURLOPT_TIMEOUT a peer that keeps the connection     *)
(* open and says nothing is waited for.                                    *)
(***************************************************************************)
Answered == timeout' = FALSE /\ UNCHANGED faults

Failed ==
  /\ faults < MaxFaults
  /\ faults' = faults + 1
  /\ timeout' = FALSE

(* The thread is about to make a request. *)
Requests ==
  \/ pc = "get" /\ more
  \/ pc = "refs" /\ refs # <<>> /\ Head(refs) \notin KeysOf(mine)
  \/ pc = "send" /\ more /\ paginate(mine, after, Batch) # <<>>
  \/ pc = "check" /\ check # {}

Hang ==
  /\ Requests
  /\ ~ timeout
  /\ faults < MaxFaults
  /\ faults' = faults + 1
  /\ pc' = "hung"
  /\ UNCHANGED <<mine, theirs, main, stopRequested_, tick_, slept, round>>

------------------------------------------------------------------------------
(* The get loop of sync_host *)

(***************************************************************************)
(* Mutant: the loop asks for the first page again.                         *)
(***************************************************************************)
GetPageAgain ==
  LET page == paginate(theirs[Peer], last, Limit + 1)
  IN  /\ pc = "get"
      /\ more
      /\ \/ /\ Answered
            /\ refs' = SubSeq(page, 1, Min({Limit, Len(page)}))
            /\ more' = (Len(page) > Limit)
            /\ last' = last
            /\ pc' = "refs"
         \/ /\ Failed
            /\ more' = FALSE
            /\ UNCHANGED <<pc, refs, last>>
      /\ UNCHANGED <<mine, theirs, main, stopRequested_, tick_, slept, host, after, check>>

(***************************************************************************)
(* build_enumeration_url, fetch_url and parse_sync_enumeration: the page   *)
(* handle_enumerate answers with, and continueAfter if there is more.      *)
(***************************************************************************)
GetPage ==
  LET page == paginate(theirs[Peer], last, Limit + 1)
  IN  /\ pc = "get"
      /\ more
      /\ \/ /\ Answered
            /\ refs' = SubSeq(page, 1, Min({Limit, Len(page)}))
            /\ more' = (Len(page) > Limit)
            /\ last' = IF Len(page) > Limit THEN page[Limit + 1] ELSE last
            /\ pc' = "refs"
         \/ /\ Failed
            /\ more' = FALSE
            /\ UNCHANGED <<pc, refs, last>>
      /\ UNCHANGED <<mine, theirs, main, stopRequested_, tick_, slept, host, after, check>>

(***************************************************************************)
(* What a peer answers to a request for a blob: HTTP errors are answers    *)
(* too.                                                                    *)
(***************************************************************************)
BlobBody(p, k) ==
  IF \E c \in theirs[p] : k \in KeysOf({c})
  THEN CHOOSE c \in theirs[p] : k \in KeysOf({c})
  ELSE NotFoundPage

(***************************************************************************)
(* Mutant: the body is added without the reference it was asked for by.    *)
(***************************************************************************)
AddFetchedUnchecked(k, content) == mine' = mine \cup {content}

(***************************************************************************)
(* add_blob with a provided hash adds a content with that digest only.     *)
(* (It begins with an assertion that the content is not empty.  Neither a  *)
(* blob nor the page of a 404 is; a peer that answers with no body at all  *)
(* is not among the peers here.)                                           *)
(***************************************************************************)
AddFetched(k, content) == mine' = IF k \in KeysOf({content}) THEN mine \cup {content} ELSE mine

(***************************************************************************)
(* The next reference of the page: it is fetched if get does not find it.  *)
(***************************************************************************)
FetchBlob ==
  /\ pc = "refs"
  /\ refs # <<>>
  /\ refs' = Tail(refs)
  /\ \/ /\ Head(refs) \in KeysOf(mine)
        /\ UNCHANGED <<mine, timeout, faults>>
     \/ /\ Head(refs) \notin KeysOf(mine)
        /\ \/ Answered /\ AddFetched(Head(refs), BlobBody(Peer, Head(refs)))
           \/ Failed /\ UNCHANGED mine
  /\ UNCHANGED <<theirs, main, stopRequested_, pc, tick_, slept, host, last, after, more, check>>

PageFetched ==
  /\ pc = "refs"
  /\ refs = <<>>
  /\ pc' = "get"
  /\ UNCHANGED <<mine, theirs, main, stopRequested_, tick_, slept, round, faults>>

GetLoopEnds ==
  /\ pc = "get"
  /\ ~ more
  /\ pc' = "send"
  /\ after' = NoKey
  /\ more' = Sends(Peer)
  /\ UNCHANGED <<mine, theirs, main, stopRequested_, tick_, slept, host, timeout, last, refs, check, faults>>

------------------------------------------------------------------------------
(* The send loop of sync_host *)

(***************************************************************************)
(* A batch of the own keys, and, unless it is empty, a stat request for    *)
(* them; what the peer does not list is to be sent.                        *)
(***************************************************************************)
StatBatch ==
  LET batch == paginate(mine, after, Batch)
  IN  /\ pc = "send"
      /\ more
      /\ after' = IF Len(batch) = Batch THEN batch[Batch] ELSE after
      /\ \/ /\ batch = <<>>
            /\ more' = FALSE
            /\ UNCHANGED <<pc, check, timeout, faults>>
         \/ /\ batch # <<>>
            /\ Answered
            /\ more' = (Len(batch) = Batch)
            /\ check' = Range(batch) \ KeysOf(theirs[Peer])
            /\ pc' = "check"
         \/ /\ batch # <<>>
            /\ Failed
            /\ more' = FALSE
            /\ UNCHANGED <<pc, check>>
      /\ UNCHANGED <<mine, theirs, main, stopRequested_, tick_, slept, host, last, refs>>

(***************************************************************************)
(* send_blob for the next reference in the order of the std::set.  Its     *)
(* result is not looked at; a request that fails may have been handled.    *)
(***************************************************************************)
SendBlob ==
  /\ pc = "check"
  /\ \E k \in check :
       /\ \A j \in check : KeyLeq(k, j)
       /\ check' = check \ {k}
       /\ \E c \in {d \in mine : k \in KeysOf({d})} :
            \/ Answered /\ theirs' = [theirs EXCEPT ![Peer] = @ \cup {c}]
            \/ Failed /\ theirs' = [theirs EXCEPT ![Peer] = @ \cup {c}]
            \/ Failed /\ UNCHANGED theirs
  /\ UNCHANGED <<mine, main, stopRequested_, pc, tick_, slept, host, last, refs, after, more>>

BatchSent ==
  /\ pc = "check"
  /\ check = {}
  /\ pc' = "send"
  /\ UNCHANGED <<mine, theirs, main, stopRequested_, tick_, slept, round, faults>>

(***************************************************************************)
(* Mutant: the loops end the round.                                        *)
(***************************************************************************)
SendLoopEndsRound ==
  /\ pc = "send"
  /\ ~ more
  /\ pc' = "host"
  /\ host' = Len(Peers) + 1
  /\ UNCHANGED <<mine, theirs, main, stopRequested_, tick_, slept, timeout, last, refs, after, more, check, faults>>

SendLoopEnds ==
  /\ pc = "send"
  /\ ~ more
  /\ pc' = "host"
  /\ host' = host + 1
  /\ UNCHANGED <<mine, theirs, main, stopRequested_, tick_, slept, timeout, last, refs, after, more, check, faults>>

------------------------------------------------------------------------------
Thread ==
  \/ Run \/ BeginHost
  \/ GetPage \/ FetchBlob \/ PageFetched \/ GetLoopEnds
  \/ StatBatch \/ SendBlob \/ BatchSent \/ SendLoopEnds

Next ==
  \/ Thread \/ Hang \/ Stop \/ Join
  \/ \E c \in Blobs : Upload(c) \/ \E p \in Range(Peers) : UploadToPeer(p, c)
  \/ \E p \in Range(Peers) : PeerRestarts(p)

Spec == Init /\ [][Next]_vars

(***************************************************************************)
(* The sync thread takes no lock but the one of the index, which is free   *)
(* again and again, so its next step is taken unless it hangs; join        *)
(* returns when the thread has ended.                                      *)
(***************************************************************************)
FairSpec == Spec /\ WF_vars(Thread) /\ WF_vars(Join)

------------------------------------------------------------------------------
(* Properties *)

(***************************************************************************)
(* Only what a client has uploaded comes into an index: the page a peer    *)
(* answers 404 with, when it has restarted between its enumeration and the *)
(* request for the blob, is not stored in place of the blob.               *)
(***************************************************************************)
OnlyUploads ==
  NotFoundPage \notin mine \cup UNION Range(theirs)

(***************************************************************************)
(* --sync-delay is "the minimum amount of time in seconds between syncs":  *)
(* a round begins at least Delay calls of sleep(1) after the last one has  *)
(* ended.                                                                  *)
(***************************************************************************)
RoundsApart == [][pc = "loop" /\ pc' = "host" => slept >= Delay]_vars

(***************************************************************************)
(* Replication: with finitely many faults, and unless the server is        *)
(* stopped or a peer stays silent, what this server has reaches every peer *)
(* it sends to, and what a peer has and does not lose in a restart is      *)
(* fetched.                                                                *)
(***************************************************************************)
Converges ==
  \A c \in Blobs, p \in Range(Peers) :
    /\ Sends(p) => (c \in mine ~> c \in theirs[p] \/ stopRequested_ \/ pc = "hung")
    /\ Gets(p) => (c \in theirs[p] ~> c \in mine \/ c \notin theirs[p] \/ stopRequested_ \/ pc = "hung")

(***************************************************************************)
(* Sync::stop returns, so main ends, from any point of a round; only a     *)
(* peer that stays silent can keep the thread from being joined.           *)
(***************************************************************************)
StopReturns == stopRequested_ ~> main = "ended" \/ pc = "hung"
=============================================================================
