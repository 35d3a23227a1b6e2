---------------------------- MODULE MCCollection ----------------------------
(* A small collection for TLC: one card filed and one not, and files whose   *)
(* parts hold copies of them, loose or in a place.                           *)
EXTENDS Collection, TLC

Id(card, place) == [card |-> card, place |-> place]
One(card, place) == [id |-> Id(card, place), n |-> 1]

CONSTANTS c1, c2, x

Few == 1 :> One(c1, Unfiled)
Two == Few @@ 2 :> One(c1, x)

In(place, cards) == [id \in Ids |-> IF id.place = place /\ id.card \in cards THEN 1 ELSE 0]
Repeating == [p \in Parts |-> IF p = 1 THEN In(Unfiled, Cards) ELSE In(Unfiled, {c1})]
Placed == [p \in Parts |-> In(x, {c1})]
=============================================================================
