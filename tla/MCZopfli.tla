------------------------------- MODULE MCZopfli -------------------------------
(***************************************************************************)
(* The window, the match length, the cache and the block sizes are scaled  *)
(* down so that short inputs wrap the window, overflow the cached sublens, *)
(* meet the limits of match length and span several parts.                 *)
(***************************************************************************)
EXTENDS Zopfli

Repeat(s, n) == FlattenSeq([k \in 1 .. n |-> s])

(* Bytes 0, 0, 32 and 0, 1, 0 have the same hash; 200 has a 9-bit fixed code. *)
Short == UNION {[1 .. n -> {7, 200}] : n \in 1 .. 5}
Long ==
  {<<0, 0, 32, 0, 1, 0, 0, 0, 32, 0, 1>>,
   <<1, 2, 3, 4, 5, 1, 2, 3, 4, 1, 2, 3, 1, 2, 3, 4, 5, 1, 2, 3, 4, 1, 2>>,
   <<1, 1, 1, 2, 1, 1, 1, 1, 2, 1, 1>>,
   <<1, 2, 1, 2, 1, 2, 3, 3, 3, 3, 3, 4, 5, 6, 7, 8, 1, 2, 1, 2, 1, 3, 3, 3>>,
   <<9, 8, 7, 1, 1, 2, 2, 3, 3, 4, 4, 5, 5, 6, 6, 1, 1, 9, 8, 7>>,
   Repeat(<<7>>, 24)}
Splitting == {<<1, 2, 3, 1, 2, 3, 4, 5, 1, 2, 3, 4>>, Repeat(<<1, 2>>, 11) \o <<3, 4, 5, 6>>}

Uniform(lit, len, dist) ==
  [lit |-> [b \in 0 .. 255 |-> lit], len |-> [s \in 257 .. 285 |-> len],
   dist |-> [s \in 0 .. 29 |-> dist]]

(* Literals cheap; matches cheap; and matches whose length and distance pull apart. *)
MCCostModels ==
  [literals |-> Uniform(1, 9, 5),
   matches |-> Uniform(8, 1, 0),
   uneven |-> [lit |-> [b \in 0 .. 255 |-> 2 + (b % 3)],
               len |-> [s \in 257 .. 285 |-> IF s = 258 THEN 0 ELSE 4],
               dist |-> [s \in 0 .. 29 |-> IF s = 1 THEN 0 ELSE 5]]]

Job(data, btype, splitting, format, beyond, models) ==
  [in |-> data, btype |-> btype, splitting |-> splitting, format |-> format, beyond |-> beyond,
   models |-> models]

MCJobs ==
  {Job(d, 2, "none", "deflate", b, {"matches", "uneven"}) : d \in Short, b \in {0, 9}}
    \cup {Job(d, 2, "none", "gzip", 9, {"literals", "matches", "uneven"}) : d \in Long}
    \cup {Job(d, 2, s, "gzip", 9, {"matches"}) : d \in Splitting, s \in {"first", "last"}}
    \cup {Job(d, t, s, "zlib", 9, {}) : d \in Long, t \in {0, 1}, s \in {"none", "first"}}
    \cup {Job(d, 1, "last", "deflate", 9, {}) : d \in Long}
==============================================================================
