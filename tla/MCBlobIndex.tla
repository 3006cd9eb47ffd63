----------------------------- MODULE MCBlobIndex -----------------------------
(***************************************************************************)
(* Instances of BlobIndex for TLC.  The digests order the contents one way *)
(* by sha1 and the other way by sha256, as real digests are unrelated.     *)
(***************************************************************************)
EXTENDS BlobIndexRefinement, TLC

A == <<65>>

AB == <<65, 66>>

AnulB == <<65, 0, 66>>

TextContents == {AB, <<67>>}

AnyContents == TextContents \cup {<<>>}

NulContents == {A, AnulB}

Digest(s) == 256 * (IF s = <<>> THEN 0 ELSE s[1]) + Len(s)

MCSha1 == [s \in CStrings |-> Digest(s)]

MCSha256 == [s \in CStrings |-> 256 * 256 - Digest(s)]

Symmetry == Permutations(Threads)
==============================================================================
