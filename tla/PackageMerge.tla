----------------------------- MODULE PackageMerge -----------------------------
(***************************************************************************)
(* ZopfliLengthLimitedCodeLengths and ZopfliLengthsToSymbols step by step, *)
(* for every choice of frequencies, against what a code is for: codewords  *)
(* that can be told apart, of the smallest total length the limit allows.  *)
(***************************************************************************)
EXTENDS Huffman

CONSTANTS
  Frequencies,   \* the frequencies to encode: functions from symbols to numbers
  BitLimits      \* the values of maxbits

VARIABLES
  pc,            \* "leaves", "merge", "symbols", "done" or "error"
  frequencies, maxbits,
  leaves,        \* the symbols in use, lightest first
  m,             \* the lists and the pool they live in; <<>> before and after
  left,          \* the BoundaryPM runs still to make
  bitlengths,    \* the result
  symbols        \* the codewords, as numbers

vars == <<pc, frequencies, maxbits, leaves, m, left, bitlengths, symbols>>

Init ==
  /\ pc = "leaves"
  /\ frequencies \in Frequencies
  /\ maxbits \in BitLimits
  /\ leaves = <<>>
  /\ m = <<>>
  /\ left = 0
  /\ bitlengths = [s \in DOMAIN frequencies |-> 0]
  /\ symbols = [s \in DOMAIN frequencies |-> 0]

(* Too many symbols for the limit: the caller asserts that this never is. *)
Refuse ==
  /\ pc = "leaves"
  /\ TooManySymbols(Leaves(frequencies), maxbits)
  /\ pc' = "error"
  /\ UNCHANGED <<frequencies, maxbits, leaves, m, left, bitlengths, symbols>>

(* At most one symbol: it has a code of one bit. *)
Trivial ==
  /\ pc = "leaves"
  /\ ~TooManySymbols(Leaves(frequencies), maxbits)
  /\ Len(Leaves(frequencies)) < 2
  /\ bitlengths' = FewSymbols(Leaves(frequencies), DOMAIN frequencies)
  /\ pc' = "symbols"
  /\ UNCHANGED <<frequencies, maxbits, leaves, m, left, symbols>>

Start ==
  /\ pc = "leaves"
  /\ ~TooManySymbols(Leaves(frequencies), maxbits)
  /\ Len(Leaves(frequencies)) >= 2
  /\ leaves' = Leaves(frequencies)
  /\ m' = InitLists(leaves', maxbits)
  /\ left' = BoundaryPMRuns(leaves')
  /\ pc' = "merge"
  /\ UNCHANGED <<frequencies, maxbits, bitlengths, symbols>>

Merge ==
  /\ pc = "merge"
  /\ left > 0
  /\ m' = BoundaryPM(m, leaves, maxbits - 1, left = 1)
  /\ left' = left - 1
  /\ UNCHANGED <<pc, frequencies, maxbits, leaves, bitlengths, symbols>>

Extract ==
  /\ pc = "merge"
  /\ left = 0
  /\ bitlengths' = ExtractBitLengths(m, leaves, maxbits, DOMAIN frequencies)
  /\ m' = <<>>
  /\ pc' = "symbols"
  /\ UNCHANGED <<frequencies, maxbits, leaves, left, symbols>>

Assign ==
  /\ pc = "symbols"
  /\ symbols' = ZopfliLengthsToSymbols(bitlengths)
  /\ pc' = "done"
  /\ UNCHANGED <<frequencies, maxbits, leaves, m, left, bitlengths>>

Next == Refuse \/ Trivial \/ Start \/ Merge \/ Extract \/ Assign

Spec == Init /\ [][Next]_vars

------------------------------------------------------------------------------
Used == {s \in DOMAIN frequencies : frequencies[s] > 0}

(***************************************************************************)
(* The collector of GetFreeNode never recycles a node a list still needs:  *)
(* every link goes to a node in use, in every list the earlier lookahead   *)
(* chain weighs no more than the later one, a chain of list i spans at     *)
(* most i + 1 lists, and it has no more leaves in a lower list than in a   *)
(* higher one.  ExtractBitLengths relies on it when it adds up the         *)
(* lengths.                                                                *)
(***************************************************************************)
ChainsOrdered ==
  pc = "merge" =>
    /\ Live(m) \subseteq m.inuse
    /\ \A i \in DOMAIN m.lists :
         /\ m.nodes[m.lists[i][1]].weight <= m.nodes[m.lists[i][2]].weight
         /\ \A k \in {1, 2} :
              LET counts == Counts(m.nodes, m.lists[i][k])
              IN  /\ Len(counts) <= i + 1
                  /\ \A a, b \in DOMAIN counts : a < b => counts[a] >= counts[b]

Kraft(lengths) ==
  MapThenSumSet(LAMBDA s : 2 ^ (maxbits - lengths[s]), Used) <= 2 ^ maxbits

Cost(lengths) == MapThenSumSet(LAMBDA s : frequencies[s] * lengths[s], Used)

(***************************************************************************)
(* The lengths ZopfliLengthLimitedCodeLengths returns belong to a prefix   *)
(* code, and no prefix code with codewords of at most maxbits bits encodes *)
(* the symbols in fewer bits; a symbol that does not occur has no code.    *)
(***************************************************************************)
Shortest ==
  pc \in {"symbols", "done"} =>
    /\ \A s \in DOMAIN frequencies : (bitlengths[s] = 0) = (s \notin Used)
    /\ Kraft(bitlengths)
    /\ \A other \in [Used -> 1 .. maxbits] :
         Kraft(other) => Cost(bitlengths) <= Cost(other)

(***************************************************************************)
(* The codewords ZopfliLengthsToSymbols gives out fit their lengths and    *)
(* none is a prefix of another one, so a decoder can tell them apart.      *)
(***************************************************************************)
PrefixFree ==
  pc = "done" =>
    \A s, t \in Used :
      /\ symbols[s] < 2 ^ bitlengths[s]
      /\ s # t /\ bitlengths[s] <= bitlengths[t] =>
           symbols[t] \div 2 ^ (bitlengths[t] - bitlengths[s]) # symbols[s]
==============================================================================
