-------------------------------- MODULE Zopfli --------------------------------
(***************************************************************************)
(* A run of the zopfli compressor (src/3rd/zopfli): ZopfliDeflate cuts the *)
(* input into master blocks, each is split into blocks before or after     *)
(* its LZ77 pass, and a dynamic block is squeezed several times, each time *)
(* with another cost model, before the smallest store is encoded.          *)
(*                                                                         *)
(* The operations are those of the modules Lz77, Squeeze, DeflateFormat    *)
(* and Huffman; this module is the control that puts them together, one    *)
(* turn of each loop a step.  A reader then inflates the output by the     *)
(* definition of the format (module Inflate).                              *)
(***************************************************************************)
EXTENDS Squeeze, Inflate

CONSTANTS
  Jobs,          \* the calls: [in, btype, splitting, format, beyond, models]
  CostModels,    \* the bits of each symbol, for each name of a cost model
  MasterBlock,   \* ZOPFLI_MASTER_BLOCK_SIZE
  StoredBlock,   \* the 65535 of DeflateSplittingFirst
  SmallStore,    \* the 1000 of DeflateDynamicBlock
  NumIterations  \* numiterations

(***************************************************************************)
(* The symbols and extra bits of every match length and distance are those *)
(* of the format's tables: what util.cc works out with shifts and compares *)
(* leads a reader back to the same length and distance.                    *)
(***************************************************************************)
ASSUME LengthSymbolsFit ==
  \A l \in 3 .. 258 :
    LET s == ZopfliGetLengthSymbol(l)
    IN  /\ LengthBase[s - 256] + ZopfliGetLengthExtraBitsValue(l) = l
        /\ ZopfliGetLengthExtraBits(l) = LengthExtra(s)
        /\ ZopfliGetLengthExtraBitsValue(l) < 2 ^ LengthExtra(s)

ASSUME DistSymbolsFit ==
  \A d \in 1 .. 32768 :
    LET s == ZopfliGetDistSymbol(d)
    IN  /\ DistBase[s + 1] + ZopfliGetDistExtraBitsValue(d) = d
        /\ ZopfliGetDistExtraBits(d) = DistExtra(s)
        /\ ZopfliGetDistExtraBitsValue(d) < 2 ^ DistExtra(s)

VARIABLES
  job,      \* the call: its data, its options, what lies beyond its data, and the
            \* cost models that the statistics of its stores may come to
  pc,       \* the loop the compressor is in
  next,     \* ZopfliDeflate: where the next part starts
  todo,     \* the blocks, or slices of a store, that are still to be written
  block,    \* the range of the input that is at work
  pass,     \* the state of the pass over the block
  run,      \* the LZ77 run: its goal, its store and what it plans
  split,    \* the state of the block splitter
  out,      \* the bits written
  result    \* the finished bytes, and what a reader makes of them

vars == <<job, pc, next, todo, block, pass, run, split, out, result>>

Nothing == <<>>
in == job.in

Init ==
  /\ job \in Jobs
  /\ pc = "parts" /\ next = 0 /\ todo = <<>> /\ out = <<>>
  /\ block = Nothing /\ pass = Nothing /\ run = Nothing /\ split = Nothing /\ result = Nothing

------------------------------------------------------------------------------

(* Ranges between start and end, cut at the points; the last may be final. *)
Cut(start, end, final, points) ==
  [k \in 1 .. Len(points) + 1 |->
     [start |-> IF k = 1 THEN start ELSE points[k - 1],
      end |-> IF k = Len(points) + 1 THEN end ELSE points[k],
      final |-> final /\ k = Len(points) + 1]]

(* The start of ZopfliLZ77Greedy, and of an optimal run. *)
StartGreedy(b, lmc) ==
  /\ pc' = "greedy"
  /\ pass' = [i |-> b.start, h |-> StartHash(in, b.start, b.end, job.beyond), lmc |-> lmc,
              store |-> <<>>, lazy |-> Match(0, 0), ok |-> TRUE]

LZ77OptimalRun(b, lmc, model) ==
  /\ pc' = "best"
  /\ pass' = StartBest(in, b.start, b.end, lmc, model, job.beyond)

NewRun(goal, iterations) ==
  [goal |-> goal, left |-> iterations, store |-> <<>>, cost |-> Large, btype |-> job.btype,
   plan |-> Nothing]

------------------------------------------------------------------------------
(* ZopfliDeflate: the next part, and how ZopfliDeflatePart goes about it. *)
Part ==
  [start |-> next, end |-> Min({next + MasterBlock, Len(in)}),
   final |-> next + MasterBlock >= Len(in)]

NextPart ==
  /\ pc = "parts" /\ next < Len(in)
  /\ next' = Part.end
  /\ UNCHANGED <<job, split, out, result>>

(* The blocks of the part are known. *)
PartInBlocks(points) ==
  /\ pc' = "blocks"
  /\ todo' = Cut(Part.start, Part.end, Part.final, points)
  /\ UNCHANGED <<block, pass, run>>

DeflateUnsplit ==
  /\ NextPart
  /\ job.splitting = "none"
  /\ PartInBlocks(<<>>)

DeflateSplittingFirst ==
  /\ NextPart
  /\ job.splitting = "first"
  /\ \/ job.btype = 0 /\ PartInBlocks(ZopfliBlockSplitSimple(Part.start, Part.end, StoredBlock))
     \/ job.btype = 1 /\ PartInBlocks(<<>>)
     \/ /\ job.btype = 2
        /\ block' = Part /\ run' = NewRun("split", 0)
        /\ StartGreedy(Part, NoCache)
        /\ UNCHANGED todo

(* Only for LZ77: a call with btype 0, which asserts after its detour, is not among the jobs. *)
DeflateSplittingLast ==
  /\ NextPart
  /\ job.splitting = "last"
  /\ block' = Part /\ run' = NewRun("part", NumIterations)
  /\ LET lmc == ZopfliInitCache(Part.end - Part.start)
     IN  \/ job.btype = 1 /\ LZ77OptimalRun(Part, lmc, FixedModel)
         \/ job.btype = 2 /\ StartGreedy(Part, lmc)
  /\ UNCHANGED todo

------------------------------------------------------------------------------
(* DeflateBlock, for the next block of a part. *)
NextBlock ==
  /\ pc = "blocks"
  /\ block' = Head(todo)
  /\ UNCHANGED <<job, next, split, result>>

(* A block or slice is written; after the last one the part is done. *)
Written(bits) ==
  /\ out' = bits
  /\ todo' = Tail(todo)
  /\ pc' = IF Len(todo) = 1 THEN "parts" ELSE IF pc = "slices" THEN "slices" ELSE "blocks"

NonCompressedBlock ==
  /\ NextBlock
  /\ job.btype = 0
  /\ LET b == Head(todo)
     IN  Written(DeflateNonCompressedBlock(out, b.final, SubSeq(in, b.start + 1, b.end)))
  /\ UNCHANGED <<pass, run>>

DeflateFixedBlock ==
  /\ NextBlock
  /\ job.btype = 1
  /\ run' = NewRun("block", 0)
  /\ LZ77OptimalRun(Head(todo), ZopfliInitCache(Head(todo).end - Head(todo).start), FixedModel)
  /\ UNCHANGED <<todo, out>>

DeflateDynamicBlock ==
  /\ NextBlock
  /\ job.btype = 2
  /\ run' = NewRun("block", NumIterations)
  /\ StartGreedy(Head(todo), ZopfliInitCache(Head(todo).end - Head(todo).start))
  /\ UNCHANGED <<todo, out>>

------------------------------------------------------------------------------
(* The passes over the block. *)
Stays == UNCHANGED <<job, next, todo, block, split, out, result>>

ZopfliLZ77Greedy ==
  /\ pc = "greedy" /\ pass.i < block.end
  /\ pass' = GreedyTurn(pass, in, block.start, block.end, job.beyond)
  /\ UNCHANGED <<pc, run>> /\ Stays

(* ZopfliLZ77Optimal: its loop begins with the statistics of the greedy store. *)
FirstIteration ==
  /\ pc = "greedy" /\ pass.i >= block.end /\ run.goal # "split"
  /\ \E m \in job.models : LZ77OptimalRun(block, pass.lmc, StatModel(CostModels[m]))
  /\ UNCHANGED run /\ Stays

GetBestLengths ==
  /\ pc = "best" /\ pass.i < block.end
  /\ pass' = BestTurn(pass, in, block.start, block.end, job.beyond)
  /\ UNCHANGED <<pc, run>> /\ Stays

TracePath ==
  /\ pc = "best" /\ pass.i >= block.end
  /\ pc' = "follow"
  /\ LET path == IF Traceable(pass.lengths)
                 THEN TraceBackwards(pass.lengths, block.end - block.start) ELSE <<>>
     IN  pass' = [StartFollow(in, block.start, block.end, pass.lmc, path, job.beyond)
                    EXCEPT !.ok = Traceable(pass.lengths)]
  /\ run' = [run EXCEPT !.plan = [model |-> pass.model, cost |-> pass.costs[block.end - block.start]]]
  /\ Stays

FollowPath ==
  /\ pc = "follow" /\ pass.path # <<>>
  /\ pass' = FollowTurn(pass, in, block.start, block.end, job.beyond)
  /\ UNCHANGED <<pc, run>> /\ Stays

RunIsFixed == run.plan.model.fixed
RunEnds == pc = "follow" /\ pass.path = <<>>

(* The smaller of the run's store and the best one so far. *)
Kept ==
  With(ZopfliCalculateBlockSize(pass.store, 2), LAMBDA cost :
    IF cost < run.cost
    THEN [run EXCEPT !.left = @ - 1, !.store = pass.store, !.cost = cost]
    ELSE [run EXCEPT !.left = @ - 1])

NextIteration ==
  /\ RunEnds /\ ~RunIsFixed /\ run.left > 1
  /\ run' = Kept
  /\ \E m \in job.models : LZ77OptimalRun(block, pass.lmc, StatModel(CostModels[m]))
  /\ Stays

(* After the last iteration: a small block is tried with the fixed tree, a part is split. *)
OptimalDone ==
  /\ RunEnds /\ ~RunIsFixed /\ run.left = 1
  /\ run' = Kept
  /\ \/ /\ run.goal = "block" /\ Len(run'.store) < SmallStore
        /\ LZ77OptimalRun(block, pass.lmc, FixedModel)
        /\ Stays
     \/ /\ run.goal = "block" /\ Len(run'.store) >= SmallStore
        /\ Written(out \o AddLZ77Block(2, block.final, run'.store))
        /\ UNCHANGED <<job, next, block, pass, split, result>>
     \/ /\ run.goal = "part"
        /\ pc' = "split" /\ split' = StartSplit(run'.store)
        /\ UNCHANGED <<job, next, todo, block, pass, out, result>>

(* The block's only run, or the one that the dynamic block is compared with. *)
FixedDone ==
  /\ RunEnds /\ RunIsFixed
  /\ IF run.goal = "part"
     THEN /\ run' = [run EXCEPT !.store = pass.store]
          /\ pc' = "slices" /\ todo' = Cut(0, Len(pass.store), block.final, <<>>)
          /\ UNCHANGED out
     ELSE /\ run' = IF \/ job.btype = 1
                       \/ ZopfliCalculateBlockSize(pass.store, 1)
                            < ZopfliCalculateBlockSize(run.store, 2)
                    THEN [run EXCEPT !.store = pass.store, !.btype = 1] ELSE run
          /\ Written(out \o AddLZ77Block(run'.btype, block.final, run'.store))
  /\ UNCHANGED <<job, next, block, pass, split, result>>

------------------------------------------------------------------------------
(* The block splitter. *)
BlockSplitStarts ==
  /\ pc = "greedy" /\ pass.i >= block.end /\ run.goal = "split"
  /\ pc' = "split" /\ split' = StartSplit(pass.store)
  /\ run' = [run EXCEPT !.store = pass.store]
  /\ UNCHANGED <<job, next, todo, block, pass, out, result>>

ZopfliBlockSplitLZ77 ==
  /\ pc = "split" /\ ~split.over
  /\ split' \in SplitTurns(split, Len(run.store))
  /\ UNCHANGED <<job, pc, next, todo, block, pass, run, out, result>>

ZopfliBlockSplit ==
  /\ pc = "split" /\ split.over /\ run.goal = "split"
  /\ pc' = "blocks"
  /\ todo' = Cut(block.start, block.end, block.final,
                 InputPositions(run.store, split.points, block.start))
  /\ UNCHANGED <<job, next, block, pass, run, split, out, result>>

SlicesOfPart ==
  /\ pc = "split" /\ split.over /\ run.goal = "part"
  /\ pc' = "slices"
  /\ todo' = Cut(0, Len(run.store), block.final, split.points)
  /\ UNCHANGED <<job, next, block, pass, run, split, out, result>>

WriteSlice ==
  /\ pc = "slices"
  /\ LET b == Head(todo)
     IN  Written(out \o AddLZ77Block(job.btype, b.final, SubSeq(run.store, b.start + 1, b.end)))
  /\ UNCHANGED <<job, next, block, pass, run, split, result>>

------------------------------------------------------------------------------
Compress ==
  /\ pc = "parts" /\ next >= Len(in)
  /\ pc' = "compressed"
  /\ result' = [bytes |-> ZopfliCompress(job.format, in, out)]
  /\ UNCHANGED <<job, next, todo, block, pass, run, split, out>>

(* The reader *)
Decompress ==
  /\ pc = "compressed"
  /\ pc' = "read"
  /\ result' = Decode(job.format, result.bytes)
  /\ UNCHANGED <<job, next, todo, block, pass, run, split, out>>

Next ==
  \/ DeflateUnsplit \/ DeflateSplittingFirst \/ DeflateSplittingLast
  \/ NonCompressedBlock \/ DeflateFixedBlock \/ DeflateDynamicBlock
  \/ ZopfliLZ77Greedy \/ FirstIteration \/ GetBestLengths \/ TracePath \/ FollowPath
  \/ NextIteration \/ OptimalDone \/ FixedDone
  \/ BlockSplitStarts \/ ZopfliBlockSplitLZ77 \/ ZopfliBlockSplit \/ SlicesOfPart \/ WriteSlice
  \/ Compress \/ Decompress

Spec == Init /\ [][Next]_vars

------------------------------------------------------------------------------
(* Properties *)

(* No assertion of the compressor fails (lz77.cc:173-349, squeeze.cc:319-381,             *)
(* blocksplitter.cc:252-256): the hash chain holds only positions with the hash sought, no *)
(* distance reaches before the input, the cache's sublens agree with its distance, a match *)
(* read back from the cache or searched for again under a lower limit is the one planned.  *)
AssertionsHold ==
  /\ pc \in {"greedy", "best", "follow"} => pass.ok
  /\ pc = "split" /\ ~split.over => split.lend - split.lstart >= 2

(* What a reader of the format inflates is the input that was compressed, whatever the    *)
(* options, the splits, the cost models of the iterations and the memory past the input.  *)
RoundTrip ==
  pc = "read" => result = [ok |-> TRUE, out |-> in]

(* The smallest distance at which the bytes before pos match the next k. *)
Nearest(pos, k) ==
  LET ds == {d \in 1 .. Min({pos, WindowSize - 1}) :
               \A n \in 0 .. k - 1 : Byte(in, pos + n) = Byte(in, pos - d + n)}
  IN  IF ds = {} THEN 0 ELSE Min(ds)

(* The costs GetBestLengths ends with are those of the shortest path through the block,   *)
(* where a step is a literal or a match at its nearest distance (unless a long repetition  *)
(* was skipped): the hash chains, the second hash, the counts of repeated bytes, the match *)
(* cache and the mincost test lose no match that a plain search of the window would find.  *)
ShortestPath ==
  (pc = "best" /\ pass.i >= block.end /\ ~pass.shortcut /\ MaxChainHits = WindowSize - 1) =>
    \A n \in 1 .. block.end - block.start :
      LET Step(k) == LET pos == block.start + n - k
                     IN  IF k = 1 THEN costmodel(pass.model, Byte(in, pos), 0)
                         ELSE costmodel(pass.model, k, Nearest(pos, k))
          steps == {1} \cup {k \in 3 .. Min({n, MaxMatch}) : Nearest(block.start + n - k, k) > 0}
      IN  pass.costs[n] = Min({pass.costs[n - k] + Step(k) : k \in steps})

(* FollowPath's store spells out the block and costs what GetBestLengths planned: looking  *)
(* a match up again, with its length as the limit, finds it at the same distance.          *)
StoreAsPlanned ==
  RunEnds =>
    /\ MapThenSumSet(LAMBDA k : costmodel(run.plan.model, pass.store[k].litlen, pass.store[k].dist),
                     DOMAIN pass.store) = run.plan.cost
    /\ pass.i = block.end

(* Split points are distinct, in order and inside the store, so no block is empty and      *)
(* every one starts at a position of the input.                                            *)
SplitsInside ==
  pc = "split" =>
    /\ \A k \in 1 .. Len(split.points) - 1 : split.points[k] < split.points[k + 1]
    /\ \A k \in DOMAIN split.points : split.points[k] \in 1 .. Len(run.store) - 1
==============================================================================
