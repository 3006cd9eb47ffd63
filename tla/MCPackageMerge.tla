---------------------------- MODULE MCPackageMerge ----------------------------
(* Frequencies for which limits bind, symbols are absent and the pool is reused. *)
EXTENDS PackageMerge

(* Every assignment to five symbols, and rising ones to eight. *)
MCFrequencies ==
  [1 .. 5 -> {0, 1, 2, 4, 9}]
    \cup {f \in [1 .. 8 -> {1, 2, 5}] : \A s \in 1 .. 7 : f[s] <= f[s + 1]}
==============================================================================
