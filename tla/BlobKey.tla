------------------------------- MODULE BlobKey -------------------------------
(***************************************************************************)
(* Blob contents, their digests and the keys of the index                  *)
(* (Hash.cpp, Hash.hpp, BlobKey.cpp, BlobKey.hpp).                         *)
(*                                                                         *)
(* A blob's content is a short sequence of bytes.  A digest is a number:   *)
(* upper-case hex strings of one length are ordered like the numbers they  *)
(* write.                                                                  *)
(***************************************************************************)
EXTENDS Integers, Sequences, FiniteSets, FiniteSetsExt

CONSTANTS Contents,      \* the byte strings the server may be handed
          Sha1Digest,    \* what SHA-1 computes, as a function on C strings
          Sha256Digest,  \* what SHA-256 computes, as a function on C strings
          NoKey          \* no key: an absent argument, or an iterator at end()

NUL == 0

Byte == 0..255

(***************************************************************************)
(* Both hash functors give CryptoPP::StringSource a `const char *': that   *)
(* constructor reads up to the first NUL byte, and the functors' `len'     *)
(* argument is not used.                                                   *)
(***************************************************************************)
CString(s) ==
  LET nuls == {i \in DOMAIN s : s[i] = NUL}
  IN  IF nuls = {} THEN s ELSE SubSeq(s, 1, Min(nuls) - 1)

CStrings == {CString(c) : c \in Contents}

(***************************************************************************)
(* The digests are ideal: two C strings never collide.                     *)
(***************************************************************************)
ASSUME ContentsAssumption == Contents \subseteq Seq(Byte)

ASSUME DigestAssumption ==
  /\ Sha1Digest \in [CStrings -> Nat]
  /\ Sha256Digest \in [CStrings -> Nat]
  /\ \A s, t \in CStrings : s # t => /\ Sha1Digest[s] # Sha1Digest[t]
                                     /\ Sha256Digest[s] # Sha256Digest[t]

------------------------------------------------------------------------------
(***************************************************************************)
(* enum class HashType; BlobKey spells the types "sha1" and "sha256",      *)
(* which are ordered like the enumerators.                                 *)
(***************************************************************************)
sha1 == 1

sha256 == 2

HashTypes == {sha1, sha256}

Sha1(bytes) == Sha1Digest[CString(bytes)]

Sha256(bytes) == Sha256Digest[CString(bytes)]

BlobKeyFor(hash_type, bytes) ==
  [hash_type  |-> hash_type,
   hash_value |-> IF hash_type = sha1 THEN Sha1(bytes) ELSE Sha256(bytes)]

Keys == {BlobKeyFor(h, c) : h \in HashTypes, c \in Contents}

ASSUME KeyAssumption == NoKey \notin Keys

(***************************************************************************)
(* BlobKey's operator<, the order of the std::map.                         *)
(***************************************************************************)
KeyLess(mk1, mk2) ==
  IF mk1.hash_type # mk2.hash_type
  THEN mk1.hash_type < mk2.hash_type
  ELSE mk1.hash_value < mk2.hash_value

KeyLeq(mk1, mk2) == ~ KeyLess(mk2, mk1)

(***************************************************************************)
(* n is the first key of the set From in the order of the map, or end().   *)
(***************************************************************************)
IsFirst(n, From) ==
  \/ n \in From /\ \A k \in From : KeyLeq(n, k)
  \/ n = NoKey /\ From = {}

(***************************************************************************)
(* The keys of a set in the order the map iterates over them.              *)
(***************************************************************************)
KeysBelow == [k \in Keys |-> {j \in Keys : KeyLess(j, k)}]

InOrder(From) ==
  [i \in 1 .. Cardinality(From) |->
     CHOOSE k \in From : Cardinality(KeysBelow[k] \cap From) = i - 1]

KeysOfContent == [c \in Contents |-> {BlobKeyFor(h, c) : h \in HashTypes}]

KeysOf(contents) == UNION {KeysOfContent[c] : c \in contents}
==============================================================================
