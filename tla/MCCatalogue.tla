----------------------------- MODULE MCCatalogue -----------------------------
(* A small instance of Catalogue for TLC. *)
EXTENDS Catalogue, TLC

CONSTANTS w1, w2, s1, s2, s3

(* One creator owns every product; a list of both wallets, one of a wallet *)
(* twice, and one whose shares do not sum to 100.                          *)
MCOwnerOf == [p \in Products |-> CHOOSE u \in Users : TRUE]
MCWalletsOf == s1 :> {w1, w2} @@ s2 :> {w2} @@ s3 :> {w1}

MCParts == {{"socials", "links"}, {"featured"}}

RequestSymmetry == Permutations(Requests)
=============================================================================
