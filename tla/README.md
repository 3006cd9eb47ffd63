# TLA+ models of the camlispp blob server

The blob server (`src/blobserver/src`) keeps immutable, content-addressed blobs
and serves them over HTTP (`src/docs/protocol.markdown`). These modules model
the parts of it that are hard to test, check them with TLC on small instances
and prove the main invariants with TLAPS for all instances.

## The system

| part | state | operations | met by |
|---|---|---|---|
| hashes, keys (`Hash`, `BlobKey`) | none | SHA-1 and SHA-256 of a content, key from a reference, order of keys | everything below |
| index (`BlobIndex`, `Blob`) | `blobs_`, `mutex_`, `Blob` objects, one file per content | `add_blob`, `get` (locked), `paginate` (not locked) | request threads, sync thread, start-up loader |
| request handler | none of its own | `handle_put`, `handle_get`, `handle_check`, `handle_stat`, `handle_enumerate`, `handle_static`, query decoding | connection |
| multipart parser | parts of one body | grammars for chunks, headers, payload | `handle_put` |
| request parser | `state_`, `body_bytes_`, the request so far | `consume` per character | connection |
| connection, server | buffer, request, reply, pending asynchronous operation; io_service, acceptor | `start`, `handle_read`, `handle_write`; `start_accept`, `handle_accept`, `handle_stop`, `run` | thread pool |
| reply, header | status, headers, content | `stock_reply`, `to_buffers` | handler, connection |
| sync | `tick_`, `stopRequested_`, a curl handle | `run`, `sync_host` (get loop, send loop), `fetch_blob`, `send_blob`, `stop` | its own thread |
| JSON library (`src/3rd/json`) | the value being read and pointers into it | write, read | request handler, sync |
| zopfli (`src/3rd/zopfli`) | hash chains, match cache, LZ77 store, bits written | `ZopfliCompress` | `handle_get` |
| main, config | options | build the index, load a directory, save the index, start sync and server | |

Threads: a pool of `threads_` (2 by default) runs every handler of every
connection; the sync thread calls the same `BlobIndex`. The only lock is
`BlobIndex::mutex_`. It is held over file output in `add_blob` and never over a
network operation. Blobs are never removed from the index.

What makes this hard: `paginate` reads the map without the lock; callers of
`get` use the `Blob*` after the lock is released; the index is updated before
the file is written; the process can die in the middle of a write and starts
again with an empty index; digests stop at a NUL byte; listing proceeds page by
page while blobs are added; a peer may fail at any request.

## Modules

`BlobKey` - contents are short byte sequences, digests numbers. `CString` is
what `CryptoPP::StringSource(const char *)` reads: the bytes before the first
NUL. `BlobKeyFor`, `KeyLess` and `IsFirst` are the keys, `operator<` and the
order a `std::map` walk follows. The digests are assumed to be injective on C
strings (`DigestAssumption`); nothing else is assumed of them.

`BlobIndex` - the index, the heap of `Blob` objects, the files, and for each
thread where it is in `add_blob`, `get` or `paginate`.

| action | code |
|---|---|
| `CallAdd`, `AddAssertFails`, `AddReject`, `AddBegin` | `add_blob` up to the comparison with the provided hash; lock, asserts, `new Blob` |
| `AddInsert`, `AddLink`, `AddAssign` | `blobs_[blob_key] = b`, for the sha1 and then the sha256 key |
| `AddExists`, `AddWrite`, `AddWriteFails` | `exists`, `ofstream`, `write`; the stream state is not looked at |
| `AddReturn` | the scoped lock ends |
| `CallGet`, `GetLookup`, `GetUse` | `get` and its callers' use of the `Blob` |
| `CallPaginate`, `PageSeek`, `PageNext`, `PageUse`, `PageSend` | `paginate`, then `handle_enumerate` or the send loop |
| `Crash`, `Restart` | the process is killed; `main` starts with an empty index |

`add_blob`'s steps are separate only because `paginate` can run between them and
because the process can die there; `get` runs in one step since it needs the
lock. `blobs_[k] = b` on a new key is a look-up, the linking of a node whose
pointer is `NULL`, and the assignment. A walk that meets a linking
(`Rebalancing`) is a data race: it may come out at any node or at the end
(`Walk`). Following a `NULL` pointer or failing an assertion ends the process
(`up = FALSE`).

`Enumeration` - walking through all keys: `handle_enumerate` asks `paginate`
for one key more than it lists and names it in `continueAfter`, and the client
asks again from there ("get"); `sync_host` takes batches from its own index and
starts each at the last key of the one before ("send"). Other threads insert
keys between any two steps. What an insertion does to a step of the walk that
it overlaps with is in `BlobIndex`; here a step sees the map before or after it.

`RequestParser` - `request_parser::consume` as a function from a parser record
(state, remaining body bytes, the request so far) and a character to the next
record, and `parse` over the bytes of one read. Characters are the classes the
automaton tells apart; the header name `content-length` is the one-letter name
"c". `atoi` converts through a long to an int of given widths.

`RequestGrammar` - what a request is, written as a definition on whole
character sequences: start line, header lines and their continuations, the
declared length, the body. It shares only the character classes and `atoi` with
the automaton and is its reference definition. `ConnectionGrammar` puts the two
side by side (`ParsedAsSent`). It is a module of its own because the proofs are
about `Connection`, which does not know the grammar.

`Connection` - the handlers of acceptor, connections and signal set on a pool
of threads, over TCP streams that arrive in pieces.

| action | code |
|---|---|
| `HandleAccept` | `server::handle_accept`, `start_accept` |
| `HandleReadBegin`, `HandleRead` | `connection::handle_read` without an error: a completed read of up to the buffer's size; then parse and start a write or the next read |
| `HandleReadError` | `handle_read` with an error |
| `HandleWrite` | `connection::handle_write`; the socket is shut down and closed |
| `HandleStop`, `Exit` | `server::handle_stop`; `server::run` has joined its threads |
| `HandlerThrows` | an exception of `handle_request` on a pool thread |
| `Connect`, `Send`, `Receive`, `Drop` | clients and network |

`handle_read` takes two steps because it runs outside any lock while other
threads run other handlers. What `handle_request` computes is abstracted to a
choice of reply (`Replies`). The strands are
left out; `OneOperation` shows that they have nothing to do.

`BlobStore`, `BlobIndexRefinement` - what the store promises to its callers, as
if every call took effect at one moment: a content is stored for good once its
call returns, and `get` finds it whole if and only if it is stored at that
moment. The refinement maps `BlobIndex` to it: a content is stored when both of
its keys lead to a `Blob` of it and its file is complete, and a thread's
program counter tells which call it is in. `ImplementsStore` says that the
steps of `add_blob` and `get`, interleaved, are steps of that store.

`RequestHandler`, `Multipart` - `handle_request` with url decoding, routing and
every handler, on a pool of threads that share the index.

| action | code |
|---|---|
| `Receive` | a request arrives: the decoding, the test for `..` and the dispatch, then the first step of the handler chosen |
| `HandleBad`, `HandleStatic`, `HandleCheck`, `HandleGet`, `HandleEnumerate` | 400; `handle_static` with MIME types; `handle_check`; `handle_get` with Accept-Encoding; `handle_enumerate` (each in one step: at most one locked lookup) |
| `HandlePut`, `PutAdd`, `PutAnswer` | `handle_put`: boundary and parts, one `add_blob` per part, the answer |
| `HandleStat`, `StatLookup`, `StatAnswer` | `handle_stat`: the references, one lookup each, the answer |
| `Written` | the connection has sent the reply |

A URI is a sequence of words (separators, escapes, names) since nothing looks
inside a word but `create_blob_key`; a form is a sequence of bytes, because what
the three Spirit grammars of `boost-multipart-form.h` do with line ends,
dashes and bytes above 127 is the point. The query decoders keep `find`'s
result in 32 bits and compare it with a 64-bit `npos`, so that the text after
position 0 is used where there is no question mark; `Query` does the same. A
compressed body is the pair of its format and its content; what the formats do
is in `Zopfli`. The JSON of a reply is its record here and its text in `Json`.

`Sync` - the sync thread, the main thread that stops it, and the peers, each a
set of contents that its own clients add to and that a restart empties.

| action | code |
|---|---|
| `Run` | one turn of `Sync::run`: end, sleep, or begin a round |
| `BeginHost` | the next peer, or the end of the round, which resets `tick_` |
| `GetPage`, `FetchBlob`, `PageFetched`, `GetLoopEnds` | the get loop of `sync_host` and `fetch_blob`, one step per request |
| `StatBatch`, `SendBlob`, `BatchSent`, `SendLoopEnds` | the send loop, `stat_request`, `send_blob` |
| `Hang` | a request that is never answered, once the timeout of the first request was cleared by `curl_easy_reset` |
| `Stop`, `Join` | `Sync::stop` |
| `Upload`, `UploadToPeer`, `PeerRestarts` | clients of this server and of the peers; a peer loses its index |

Every request may fail (`Failed`, at most `MaxFaults` times with the restarts).
curl takes the page of a 404 for a success, so a blob that a peer has lost comes
as `NotFoundPage`, and `AddFetched` compares it with the key asked for, as
`add_blob` does with the provided hash. A `send_blob` that was answered is
taken to have stored the blob, which is so for ASCII contents; run upload is
about the others.

`Json`, `JsonReader` - json_spirit as the server uses it. `Json` has values,
`operator==`, `Generator` with its escapes and its indentation, the values
`handle_enumerate` and `handle_stat` build, and `parse_sync_enumeration`.
`JsonReader` has the rules of `Json_grammer` and the `Semantic_actions` as a
state machine: a stack of rules, the iterator, the value built in place, and
raw pointers into it, which are paths. One action is one semantic action with
the lexemes in front of it.

`Huffman`, `PackageMerge` - `katajainen.cc` and the codewords of `tree.cc`. The
nodes are in a pool of `2 * maxbits * (maxbits + 1)` that a collector sweeps
when it is used up; chains, lists and marks are modelled as they are. `Merge`
is one call of `BoundaryPM`.

`Lz77`, `Squeeze`, `DeflateFormat`, `Zopfli` - the compressor behind
`handle_get`.

| module | code |
|---|---|
| `Lz77` | both hashes and their chains (`hash.cc`), the longest-match cache with its sublens (`cache.cc`), `ZopfliFindLongestMatch`, the lazy matching of `ZopfliLZ77Greedy` |
| `Squeeze` | `GetBestLengths`, `TraceBackwards`, `FollowPath`; the block splitter |
| `DeflateFormat` | symbols and extra bits, run-length code of the trees, sizes, the bits of each kind of block, Adler-32 and CRC-32, containers |
| `Zopfli` | one job from `ZopfliCompress` to the last byte: parts, blocks, passes, splits and slices as actions |
| `Inflate` | the reference definition: a reader of deflate, gzip and zlib, written from the format; it shares nothing with the writer |
| `Strict` | two identities that make TLC work out a value once |

Memory past the end of the input, which the hash reads, has any value
(`beyond`). The costs that `squeeze.cc` computes from entropies are floats; the
model runs the passes for each cost model of a set (`CostModels`, integers) and
lets every iteration take any of them. In the same way a comparison of
floating-point costs in the block splitter may come out either way.

The modules `MC...` give the constants values. Definitions whose comment starts
with "Mutant" or "A mutant" are variants of the definition that follows them,
with a mistake a change of the code could bring in; each breaks the property it
was written for.

## Runs

| run | config | result |
|---|---|---|
| concurrent | `BlobIndex_concurrent.cfg` | holds: `FoundBlobReadable`, `AckedRetrievable`, `ImplementsStore` |
| faults | `BlobIndex_faults.cfg` | holds, also with NUL bytes, crashes and I/O errors: `TypeOK`, `SiblingsAgree`, `HeldBlobsLive`, `FilesOnlyGrow`, `MutexReleased` |
| race | `BlobIndex_race.cfg` | violated: `ListedBlobsHaveSize` |
| enumeration | `Enumeration.cfg` | holds: `TypeOK`, `NothingSkipped`, `SortedListing`, `Terminates` |
| connections | `Connection.cfg` | holds: `ReadInOnePiece`, `HandledAsSent`, `OneOperation`, `ReplyKeptWhileWritten`, `RequestIsAnswered`, `DroppedIsClosed`, `StopEnds` |
| parser | `Connection_parser.cfg` | holds: `ParsedAsSent`, for all short start lines, headers and bodies |
| handler | `RequestHandler.cfg` | holds: `UploadsStored`, `StatAnswersAsked`, `FoundAsStored`, `StatusFits` |
| upload | `RequestHandler_upload.cfg` | violated: `UploadsStored` |
| sync | `Sync.cfg` | holds: `OnlyUploads`, `RoundsApart`, `Converges`, `StopReturns` |
| json | `Json.cfg` | holds: `PointersValid`, `ReadBack`, `PageAsWritten`, `AcceptsJson` |
| huffman | `PackageMerge.cfg` | holds: `ChainsOrdered`, `Shortest`, `PrefixFree` |
| zopfli | `Zopfli.cfg` | holds: `AssertionsHold`, `RoundTrip`, `ShortestPath`, `StoreAsPlanned`, `SplitsInside` |

What they show, beyond the index:

- connections: a request arrives in reads of any size, interleaved with other
  connections, and the parser is where it would be had all bytes come in one
  read (`ReadInOnePiece`); when it says that a request is complete, method and
  uri are the first two words of the stream and the content is the bytes behind
  the first empty line, as many as `atoi` makes of Content-Length and at most
  `MaxContent`, also when the declared length wraps, as 11 does in an int of
  four bits (`HandledAsSent`).
- parser: beyond that, the automaton accepts what the grammar calls a request
  and nothing else (`ParsedAsSent`).
- handler: a 200 for an upload means that every part is stored as it was sent,
  line ends at its edges included; `stat` names no blob that was not asked for
  or is not there, and misses none that was there when the request came, though
  it looks them up one by one; a GET body is in the format its Content-Encoding
  names; every request gets a status the code has for it, whatever other
  threads do. Where the code's own test misses its case (a `stat` by GET without
  `camliversion=1`, below), that is the status of the code, 200.
- sync: what a peer has lost does not come back as its 404 page; rounds are at
  least the delay apart; indexes converge once faults end; `stop` returns from
  any point of a round unless a peer stays silent.
- json: the reader's raw pointers stay valid while it appends, what the writer
  writes is read back, a page survives the way from `handle_enumerate` to
  `parse_sync_enumeration`, and a text cut short or with one lexeme replaced is
  accepted only if it is JSON, or would be without the plus signs and leading
  zeros of its integers: `int64_p` takes `+7` and `07`, which JSON has not.
- huffman: the code lengths are as short as any within the limit, with the node
  pool reused under the merge: the collector never frees a node of a chain that
  is still needed (`ChainsOrdered`).
- zopfli: no assertion fails, the dynamic program finds a cheapest plan and the
  second pass carries it out from the cache, split points lie inside, and what
  a client inflates is the input.

The two violated ones are places where the code and its documentation disagree;
the line quoted for each is under "findings" in `PROJECT.json`:

- race: a page of `enumerate-blobs` may hold a key whose pointer is not yet
  assigned, and `handle_enumerate` follows it;
- upload: a part with a byte above 127 is not stored and the answer is 200.

Seen while modelling, and not the subject of a run:

- The second of two contents that agree up to a NUL byte is not stored, since
  the digests stop there (`BlobKey`; `NulFree` in the proofs).
- A file cut short by a crash, or one that could not be opened, is never
  completed, and the stream state is not looked at (`Crash`, `AddWriteFails`).
- A restart does not bring the stored files back into the index (`Restart`).
- `to_buffers` keeps addresses of temporary strings. With a `std::string` that
  shares its representation with its copies (libstdc++ before GCC 5) the bytes
  happen to be still there. The model allows both: the headers on the wire are
  intact or garbage, and no property says which.
- `handle_stat` means to answer 400 to a GET without `camliversion=1`, which
  `protocol.markdown` requires, but compares a 32-bit position with a 64-bit
  `npos` and goes on. The request is among those of run handler, with the 200
  that it gets.
- `protocol.markdown` says that the name of an uploaded part is its blobref and
  that the server must reject a part whose bytes do not match it. `handle_put`
  does not look at the names and calls `add_blob` without a provided hash: the
  part is stored under its own digests. No property is about this rule.
- A file that does not open is answered with 404 by `handle_get`, although the
  index has the blob (`Unreadable`; `FoundAsStored` makes that exception).
- `add_blob` asserts that a content is not empty, also for what `fetch_blob` got
  from a peer. Peers in `Sync` answer with a blob or with the page of a 404,
  never with nothing.
- The reader of JSON takes integers with a plus sign and leading zeros.
- A declared Content-Length above an int wraps in `atoi`, and the parser ends
  the request before its body; `ParsedAsSent` is about lengths that fit, and
  `HandledAsSent` says what is handled when one does not.
- An empty input has no deflate block at all, so a container around it cannot
  be read. `add_blob` takes no empty content, so `handle_get` meets an empty file
  only where a crash or a failed write left one.
- `CalculateTreeSize` may differ from the bits written by up to 8: it is an
  estimate, and only a choice between block types depends on it.
- `ZopfliDeflate` with block type 0 and splitting last goes on into the LZ77
  path behind its detour and meets an assertion. No caller asks for it, and it
  is not among the jobs.

### Bounds

Two threads are enough for every pair of calls to overlap; a third would only
wait for the mutex or repeat what a second reader sees. `MaxBlobs` bounds the
`Blob` objects one process allocates: with three, a content can be added, added
again (replacing the pointer a reader holds) and another content added in
between. `PageCount` 2 and 3 give pages that end at the count and pages that
end at `end()`. Contents have at most three bytes, so a file can be empty,
partial and complete. The bound on allocation is in the guard of `CallAdd`, so
that a call that has begun never lacks an address. `Enumeration` starts from
every subset of six keys with pages of 2 and batches of 3, so walks take up to
three or four pages, with and without a remainder.

In `connections` two clients send one of four streams (a request, a request
with a body and a further byte behind it, a request whose declared length wraps,
a bad one), each in two to four pieces; the buffer is smaller than what may have arrived, so reads end within a piece.
`parser` has one client and reads of one character: that the cut makes no
difference is left to `connections`. It tries all sequences over the alphabet,
up to 15 characters of a stream whose method and target have at most three
characters together, or 9 characters of headers and body behind a fixed start
line. With an `int` of four bits the declared lengths 1 and 11 (which wraps)
are both within reach.

`handler` has two threads and three payloads of one to three bytes, with line
ends before and behind an ordinary byte; forms have one or two parts, one of
them empty in one case; pages list two of up to six keys, so that a listing
goes on. Clients ask for three keys, by `stat` for none, one, two, the same one
twice, or ten, where the order of the `std::map` is no more that of the query
("blob10" is before "blob2"); the file of one content may not open. The other
requests are twelve: for each early return that the code can take there is one,
and for the one it cannot (400 for a `stat` without `camliversion=1`) the request
that was meant, with the answer it gets. `upload` adds a payload with a byte
above 127.

`sync` has one peer to get from and send to and one to send to, two blobs (four
keys, in one order by sha1 and in the other by sha256), pages of one key,
batches of two, a delay of two ticks and two faults: a restart and a failure,
or a failure and a hang, can meet. With pages of one every blob is a page
boundary.

`json` writes some sixty values with nesting up to three, all escapes, integers
at the edges of a scaled-down range, and pages with and without
`continueAfter`; each text is read whole, cut at every place, with something
behind it and with each byte replaced by each of thirteen lexemes, signs and
zero among them.

`huffman` tries every frequency table of five symbols over five frequencies and
rising ones of eight, with limits of 2, 3 and 4 bits: limits that refuse, bind
and do not bind, and runs long enough for the collector.

`zopfli` scales the window to 16, the match length to 5, the cached sublens to
2, the part to 20, the stored block to 4 and the smallest split to 5, so that
inputs of up to 24 bytes wrap the window, overflow the cache, span two parts
and several blocks, and are split once or twice. The symbols, extra bits,
codes, checksums and containers are those of the real format. The jobs cover
the block types, no splitting, splitting first and last, and the containers.

`CHECK_DEADLOCK` is off where a process may die and stay down or where a
computation ends. `RequestHandler` checks it.

### Fairness

`faults` assumes weak fairness of a thread's next step inside a call: between
two operations on the mutex the code does not wait for anything. Starting a call
is not fair, and neither are `Crash` and `Restart`. `connections` assumes that
the pool goes on while some handler is ready, that clients receive what is sent
to them, and that `run` returns when its threads have ended; not that clients
send or go away, nor signals. `enumeration` assumes weak fairness of the loop:
`paginate` waits for nothing, and the requests in between are taken to be
answered or refused.

`sync` does not take that for granted: a request without a timeout may hang, and
then `pc` is "hung" for good. Its properties make that exception, and fairness
is that of the thread's other steps and of `join`. `sync_host` sets a timeout of
5 seconds that `curl_easy_reset` clears after the first request, so `Hang` is
possible from the second one on. Faults are bounded by `MaxFaults`; `Converges`
is about what happens after the last of them.

## Proofs

For any sets of threads and contents, any bounds and any of the faults:

- `CommonLemmas` has what several modules rest on: induction (below), the
  elements of parts and concatenations of sequences, and the facts on keys: the
  order is total, and `InOrder` lists each key of a finite set once, in that
  order.
- `BlobIndexProofs`, the index: `Spec => []IInv`, hence `TypeCorrect`,
  `SiblingsAlwaysAgree` and `BlobsStayLive`. `SiblingsAgree` alone is not
  inductive: it says nothing while the mutex is taken. `IInv` adds who holds the
  mutex where (`LockInv`), what `add_blob`'s locals are (`AddInv`), how far the
  two assignments have come (`InsertInv`), that every pointer in the map is a
  live `Blob` of its content (`IndexInv`), and the same for what callers of
  `get` hold (`GetInv`).
- `EnumerationProofs`: `WalkTypeCorrect`, `EnumerationComplete` and
  `EnumerationSorted`, for any page size of at least one and any batch of at
  least two. `CoverInv` says that up to the iterator every key of the start is
  listed or in the page; `OrderInv` that everything listed precedes the next
  page's first key.
- `BlobIndexProofs`, the files: `WritesArePrefixes` and `FilesAreImmutable`, from the
  invariant that a writer's file is a prefix of what it writes. With the extra
  assumptions that no content holds a NUL byte (`NulFree`) and that `Faults` is
  empty, `AcceptedIsRetrievable` and `FoundIsReadable`: the invariant `CInv`
  says that each file is complete or being written by the holder of the mutex.
  None of these assumptions can be dropped: two contents with one digest share
  a file, and a crash or a failed write leaves an incomplete one.
  `IndexImplementsStore`, that `Spec` implements `BlobStore` under the mapping of
  `BlobIndexRefinement`, has the same assumptions. The initial states map to
  initial states, and with `CInv` each action is one step of the store or none:
  the last of the two assignments and the write of the file is the moment a
  content is stored, and while a caller of `get` holds a `Blob`, its file is
  whole and stays so.
- `ConnectionProofs`, the handlers: `HandlersApart` and `ReplyKept`, for any
  clients, threads, streams, replies and faults, and for any result of the
  parser. `ReplyKept` is about `reply_` only, not about the strings behind the
  header buffers. `Single` says that a connection has one operation or one handler or
  neither, and none of both before it is connected; `OneOperation` counts them.
- `ConnectionProofs`, the parser: `CutsMakeNoDifference` and
  `RequestsAreHandledAsSent`, for any streams over `Char`, any buffer size, any
  widths of int and long and any `MaxContent`. `Moves` is what one call of
  `consume` may do in each state (`ConsumeMoves`, the only place where the
  automaton is taken apart). `ParseConcat`: two calls of `parse` do what one
  call on both pieces does. With it `Stream` is inductive: a connection has
  handed to `parse` what it has read, but for the read its handler is at, and
  its parser is where one call would have left it; `Single` is needed, since a
  second handler could hand over the same bytes again. `Reads` then follows the
  parser along the stream byte by byte (`AtStart`, `AtMethod`, `AtUri`, `AtHead`,
  `AtBody`: how much of the request each state has seen), up to `Complete`.
- `SyncProofs`: `RoundsStayApart` (`DelayInv`: a thread in the loop has slept
  once behind its round and once for every tick), `BatchFound` (`CheckInv`: what
  `check_server` returned names blobs of this server, and those stay) and
  `OnlyUploadsStored`. The last one takes that the digests tell the page of a 404
  from the blobs (`PageDistinct`). It rests on `UploadInv`, which also says
  of a page in progress that its references are those of blobs, since this is
  what `fetch_blob` compares an answer with.
- `MultipartProofs`: `FormReadBack`. Any number of ASCII payloads without the
  boundary (`Carried`) come out of the three grammars as they went into the
  form. The argument goes along the text: where the grammars stop in one part
  (`Chunk`), then from the last part to the first.
- `RequestHandlerInvariants`, `RequestHandlerProofs`: `StatDecoded` and `UploadDecoded`, that the requests
  Sync and curl build are taken apart into what went into them, and the four
  invariants of the handler, for any threads, contents, keys asked for and other
  requests: `UploadsAreStored`, `StatusesFit`, `FoundAsItWasStored`,
  `StatAnswersWhatWasAsked`. `StatDecoded` is about any number of keys. The words
  of the query are those of its pairs, by induction along `stat_request`
  (`StatWords`); the parser finds these pairs, by induction from the last one to
  the first (`StatParsed`); and going through all names in the order of the map
  meets each of them once (`ValuesFound`). The order in which the references are
  looked up is that of the map, so the theorem says which they are (`AllOf`), not
  in which order.

The invariants of the handler are about answers and say nothing while a request
is worked on. Their inductive forms say what each thread has still to do.
`UploadInv`: the parts still to be added are among those asked for, and those
not among them any more are stored. `StatusInv`: a thread that adds or looks
up will answer 200. `GetInv`: what was stored when a request came in is still
stored, and an answer names a content of the key asked for. `StatInv`: the
entries listed so far and the references still to be looked up make up what was
asked for. That each action only moves one thread, and what it does to it, is
stated once (`Step`, `Steps`) and used by all four. `RequestHandlerInvariants`
shows that they are inductive for handlers that find in queries and forms what
the client put in; `RequestHandlerProofs` shows that they do, from
`MultipartProofs` and the query decoders, and concludes.

Hypotheses of these theorems, beside the named `ASSUME`s: every upload is one a
form carries (`AllCarried`; run upload shows that it is needed), no two contents
agree up to their first NUL (`DistinctCStrings`, since a digest stops there),
and the statuses listed for the requests no client of the server builds are the
ones of their routes (`OthersFit`). They all hold in the instance of run
handler.

Induction. The induction theorems of the library take a predicate as a
parameter and cannot be used here. `CommonLemmas` starts from `WFMin` instead, which is about sets: a non-empty set of numbers has a least
one (`LeastNumber`), hence a set that holds 0 and with each number the next is
all of `Nat` (`Induction`), hence a recursive function is what its equation
says (`Iteration`, `Recursion`, `Agreement`). What a recursive function of the model
computes is then proved for a set of arguments.

The assumptions about constants are the named `ASSUME`s of `BlobKey`,
`BlobIndex`, `Enumeration`, `Sync`, `RequestHandler`, `RequestParser` and
`Connection`. In `RequestParser` they say that an int is no wider than a long and
holds `MaxContent` (`WidthAssumption`), in `Connection` that clients send
characters of `Char` (`ConnectionAssumption`). In `RequestHandler` they say that references are not the words of the protocol
and tell keys apart (`BlobRefAssumption`), that the names of a query are told
apart and are all listed, in whatever order (`NamesAssumption`), that a stat
request has as many names as keys (`BatchesAssumption`), that uploads are of
`Contents` or empty (`UploadsAssumption`), that keys asked for are keys
(`AskedAssumption`) and that the other requests carry no parts
(`OtherAssumption`).

Only model-checked: every liveness property (`MutexReleased`, `Terminates`,
`RequestIsAnswered`, `DroppedIsClosed`, `StopEnds`, `Converges`,
`StopReturns`), since liveness is out of the prover's reach; `ParsedAsSent`,
where the automaton meets the grammar: `HandledAsSent` is proved of what is
accepted, but not that all and only the requests of the grammar are; and the
properties of JSON and of the compressor, whose modules use RECURSIVE operators, which the
prover does not take.

## Not modelled

- Floating point: the symbol statistics of `squeeze.cc` and their random
  changes, `ZopfliCalculateEntropy`, the cost comparisons of the block splitter.
  TLA+ has no floats; the choices they lead to are left open.
- Logging, `prettyprint.hpp` and the printing of split points: output for people.
- Option parsing, `Config`'s setters and the rest of `main`: straight-line code
  without state of its own. What a start and an end of the process do is in
  `BlobIndex` and `Sync`.
- The tables of status lines and stock pages in `reply.cpp`.
- `zopfli_bin.cc`, which the server does not use.
- In json_spirit: real numbers, wide strings, `Config_map`, the stream readers
  and `json_spirit_utils.h`, which have no callers in the server.
- Functions without callers: `BlobIndex::empty` and `size`, `request::clear`,
  `is_http11`, `want_keepalive`, `request_parser::reset`, the names of hash
  types, some getters of the multipart classes.
- curl, asio, Boost.Spirit and CryptoPP are modelled from how the code uses them.
