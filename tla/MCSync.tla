------------------------------- MODULE MCSync -------------------------------
(***************************************************************************)
(* Instances of Sync for TLC: two blobs, hence four keys, in one order by  *)
(* sha1 and in the other by sha256, and the page of a 404.                 *)
(***************************************************************************)
EXTENDS Sync

MCContents == {<<65>>, <<66>>, <<67>>}

MCNotFoundPage == <<67>>

MCSha1 == [s \in CStrings |-> s[1]]

MCSha256 == [s \in CStrings |-> 200 - s[1]]

OnePeer == <<"p">>

TwoPeers == <<"p", "q">>

MCMode == [p \in Range(Peers) |-> IF p = "p" THEN "get_and_send" ELSE "send"]
=============================================================================
