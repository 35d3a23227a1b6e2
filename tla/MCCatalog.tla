------------------------------ MODULE MCCatalog ------------------------------
(* Builds for TLC, each sharing files with the one before it: the second    *)
(* tops up the artwork alone, the third has new cards.                       *)
EXTENDS CatalogPublish

CONSTANTS c1, c2, p1, a1

CardsOf   == [b \in Builds |-> IF b = 3 THEN c2 ELSE c1]
PrintsOf  == [b \in Builds |-> p1]
ArtworkOf == [b \in Builds |-> IF b = 1 THEN None ELSE a1]
=============================================================================
