------------------------------- MODULE MCFeed -------------------------------
(***************************************************************************)
(* An instance of Feed: ann and bob are friends and may part, cid is a     *)
(* stranger to both and may become a friend of bob; ann writes post 1 and  *)
(* cid post 2, and bob reads his feed.                                     *)
(***************************************************************************)
EXTENDS Feed

CONSTANTS ann, bob, cid, w1, b1, d1

MCAuthor   == [p \in Posts |-> IF p = 1 THEN ann ELSE cid]
MCReader   == [b \in Builders |-> bob]
MCFriends  == {<<bob, ann>>}
MCChanging == {<<bob, ann>>, <<bob, cid>>}
=============================================================================
