------------------------------- MODULE Huffman -------------------------------
(***************************************************************************)
(* Length-limited Huffman codes by boundary package-merge                  *)
(* (src/3rd/zopfli/katajainen.cc) and the codewords that belong to code    *)
(* lengths (tree.cc).                                                      *)
(*                                                                         *)
(* The algorithm's memory, m, is a record: `nodes' is the pool, `inuse'    *)
(* the nodes marked as used, `next' where the search for a free one goes   *)
(* on, and `lists' the two lookahead chains of each list, as nodes.        *)
(***************************************************************************)
EXTENDS Integers, Sequences, FiniteSets, SequencesExt, FiniteSetsExt, Strict

None == -1   \* the null pointer

PoolSize(maxbits) == 2 * maxbits * (maxbits + 1)

(* The nodes on the chain that starts at node n. *)
RECURSIVE Chain(_, _)
Chain(nodes, n) == IF n = None THEN {} ELSE {n} \cup Chain(nodes, nodes[n].tail)

Live(m) ==
  UNION {Chain(m.nodes, m.lists[i][k]) : i \in DOMAIN m.lists, k \in {1, 2}}

(* A collector that keeps only the last chain of each list. *)
GetFreeNodeLastOnly(m) ==
  LET free == {n \in DOMAIN m.nodes : n >= m.next /\ n \notin m.inuse}
  IN  IF free # {} THEN [m EXCEPT !.next = Min(free) + 1]
      ELSE LET live == UNION {Chain(m.nodes, m.lists[i][2]) : i \in DOMAIN m.lists}
           IN  [m EXCEPT !.inuse = live, !.next = Min(DOMAIN m.nodes \ live) + 1]

(***************************************************************************)
(* GetFreeNode: the first free node from `next' on; at the end of the pool *)
(* the nodes no list leads to are freed, and the search starts over.       *)
(***************************************************************************)
GetFreeNode(m) ==
  LET free == {n \in DOMAIN m.nodes : n >= m.next /\ n \notin m.inuse}
  IN  IF free # {} THEN [m EXCEPT !.next = Min(free) + 1]
      ELSE LET live == Live(m)
           IN  [m EXCEPT !.inuse = live, !.next = Min(DOMAIN m.nodes \ live) + 1]

InitNode(m, n, weight, count, tail) ==
  [m EXCEPT !.nodes[n] = [weight |-> weight, count |-> count, tail |-> tail],
            !.inuse = @ \cup {n}]

(* A leaf that is linked to the old chain, not to what that one goes on with. *)
NewChainOnOld(m, leaves, index) ==
  LET free == GetFreeNode(m)
      new == free.next - 1
      old == m.lists[index][2]
      count == m.nodes[old].count
      linked == [free EXCEPT !.lists[index] = <<old, new>>]
      sum == m.nodes[m.lists[index - 1][1]].weight + m.nodes[m.lists[index - 1][2]].weight
  IN  IF index = 0 \/ (count < Len(leaves) /\ sum > leaves[count + 1].weight)
      THEN InitNode(linked, new, leaves[count + 1].weight, count + 1, old)
      ELSE InitNode(linked, new, sum, count, m.lists[index - 1][2])

(* The new last chain of list `index': a leaf or two chains of the list below. *)
NewChain(m, leaves, index) ==
  LET free == GetFreeNode(m)
      new == free.next - 1
      old == m.lists[index][2]
      count == m.nodes[old].count
      linked == [free EXCEPT !.lists[index] = <<old, new>>]
      sum == m.nodes[m.lists[index - 1][1]].weight + m.nodes[m.lists[index - 1][2]].weight
  IN  IF index = 0
      THEN InitNode(linked, new, leaves[count + 1].weight, count + 1, None)
      ELSE IF count < Len(leaves) /\ sum > leaves[count + 1].weight
      THEN InitNode(linked, new, leaves[count + 1].weight, count + 1, m.nodes[old].tail)
      ELSE InitNode(linked, new, sum, count, m.lists[index - 1][2])

(***************************************************************************)
(* A boundary package-merge step in list `index'.  A package, whose count  *)
(* is the old chain's, uses up the two lookahead chains of the list below. *)
(***************************************************************************)
RECURSIVE BoundaryPM(_, _, _, _)
BoundaryPM(m, leaves, index, final) ==
  LET count == m.nodes[m.lists[index][2]].count
  IN  IF index = 0 /\ count >= Len(leaves) THEN m
      ELSE With(NewChain(m, leaves, index), LAMBDA new :
             IF new.nodes[new.lists[index][2]].count = count /\ ~final
             THEN With(BoundaryPM(new, leaves, index - 1, FALSE), LAMBDA once :
                    BoundaryPM(once, leaves, index - 1, FALSE))
             ELSE new)

InitLists(leaves, maxbits) ==
  [nodes |-> Tabulated([n \in 0 .. PoolSize(maxbits) - 1 |->
     [weight |-> IF n < 2 THEN leaves[n + 1].weight ELSE 0,
      count |-> IF n < 2 THEN n + 1 ELSE 0, tail |-> None]]),
   inuse |-> {0, 1},
   next |-> 2,
   lists |-> [i \in 0 .. maxbits - 1 |-> <<0, 1>>]]

RECURSIVE Counts(_, _)
Counts(nodes, n) == IF n = None THEN <<>> ELSE <<nodes[n].count>> \o Counts(nodes, nodes[n].tail)

ExtractBitLengths(m, leaves, maxbits, symbols) ==
  With(Counts(m.nodes, m.lists[maxbits - 1][2]), LAMBDA counts :
    Tabulated([s \in symbols |->
      Cardinality({c \in DOMAIN counts : \E i \in 1 .. counts[c] : leaves[i].count = s})]))

------------------------------------------------------------------------------
(***************************************************************************)
(* ZopfliLengthLimitedCodeLengths.  The leaves are the symbols in use,     *)
(* lightest first; qsort leaves those of one weight in their order here.   *)
(* (LeafComparator returns the difference of two size_t as an int: the     *)
(* weights are taken to be less than 2^31 apart.)                          *)
(***************************************************************************)
Leaves(frequencies) ==
  LET used == {s \in DOMAIN frequencies : frequencies[s] > 0}
      Before(s) == {t \in used : \/ frequencies[t] < frequencies[s]
                                 \/ frequencies[t] = frequencies[s] /\ t < s}
      Nth(i) == CHOOSE s \in used : Cardinality(Before(s)) = i - 1
  IN  Tabulated([i \in 1 .. Cardinality(used) |->
                   [count |-> Nth(i), weight |-> frequencies[Nth(i)]]])

TooManySymbols(leaves, maxbits) == 2 ^ maxbits < Len(leaves)

FewSymbols(leaves, symbols) ==
  Tabulated([s \in symbols |->
    IF \E i \in DOMAIN leaves : leaves[i].count = s THEN 1 ELSE 0])

(* One run too few. *)
BoundaryPMRunsShort(leaves) == Max({0, 2 * Len(leaves) - 5})

BoundaryPMRuns(leaves) == 2 * Len(leaves) - 4

RECURSIVE Runs(_, _, _, _)
Runs(m, leaves, maxbits, left) ==
  IF left <= 0 THEN m
  ELSE With(BoundaryPM(m, leaves, maxbits - 1, left = 1), LAMBDA run :
         Runs(run, leaves, maxbits, left - 1))

ZopfliCalculateBitLengths(frequencies, maxbits) ==
  With(Leaves(frequencies), LAMBDA leaves :
    IF Len(leaves) < 2 THEN FewSymbols(leaves, DOMAIN frequencies)
    ELSE With(Runs(InitLists(leaves, maxbits), leaves, maxbits, BoundaryPMRuns(leaves)),
              LAMBDA m : ExtractBitLengths(m, leaves, maxbits, DOMAIN frequencies)))

(***************************************************************************)
(* ZopfliLengthsToSymbols: the smallest code of each length, then codes    *)
(* given to the symbols in order.                                          *)
(***************************************************************************)
WithLength(lengths, bits) == {s \in DOMAIN lengths : lengths[s] = bits}

(* Codes counted from the symbols without one, too. *)
next_codeOfAll(lengths) ==
  LET bl_count == Tabulated([bits \in 0 .. 15 |-> Cardinality(WithLength(lengths, bits))])
      code[bits \in 0 .. 15] == IF bits = 0 THEN 0 ELSE 2 * (code[bits - 1] + bl_count[bits - 1])
  IN  Tabulated(code)

next_code(lengths) ==
  LET bl_count == Tabulated([bits \in 0 .. 15 |->
                               IF bits = 0 THEN 0 ELSE Cardinality(WithLength(lengths, bits))])
      code[bits \in 0 .. 15] == IF bits = 0 THEN 0 ELSE 2 * (code[bits - 1] + bl_count[bits - 1])
  IN  Tabulated(code)

ZopfliLengthsToSymbols(lengths) ==
  With(next_code(lengths), LAMBDA code :
    Tabulated([s \in DOMAIN lengths |->
      IF lengths[s] = 0 THEN 0
      ELSE code[lengths[s]] + Cardinality({t \in WithLength(lengths, lengths[s]) : t < s})]))
==============================================================================
