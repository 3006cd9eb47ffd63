--------------------------- MODULE MCEnumeration ---------------------------
(***************************************************************************)
(* Instances of Enumeration for TLC: three contents, hence six keys, in    *)
(* one order by sha1 and in another by sha256.                             *)
(***************************************************************************)
EXTENDS Enumeration

MCContents == {<<65>>, <<66>>, <<67>>}

MCSha1 == [s \in CStrings |-> s[1]]

MCSha256 == [s \in CStrings |-> 200 - s[1]]
============================================================================
