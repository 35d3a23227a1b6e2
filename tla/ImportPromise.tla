---------------------------- MODULE ImportPromise ----------------------------
(***************************************************************************)
(* What an import promises of each part of a file, whatever is lost,       *)
(* retried or discarded on the way: it goes from the device that read it   *)
(* into the repository, and from there it becomes cards or is discarded.   *)
(* No part is ever written twice, becomes cards twice, or comes back from  *)
(* a discard.  docs/data-model.md, "An import lands whole, then becomes    *)
(* cards".                                                                 *)
(***************************************************************************)
CONSTANT Parts
VARIABLE place

Places == {"device", "repo", "cards", "gone"}

Init == place = [p \in Parts |-> "device"]

Moves(some, from, to) ==
    /\ \A p \in some : place[p] = from
    /\ place' = [p \in Parts |-> IF p \in some THEN to ELSE place[p]]

\* One call uploads as many parts as it has room for; a part drains alone.
Upload  == \E some \in SUBSET Parts : Moves(some, "device", "repo")
Drain   == \E p \in Parts : Moves({p}, "repo", "cards")
Discard == \E p \in Parts : Moves({p}, "repo", "gone")

Next == Upload \/ Drain \/ Discard

Spec == Init /\ [][Next]_place
=============================================================================
