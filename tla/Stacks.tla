------------------------------- MODULE Stacks -------------------------------
(***************************************************************************)
(* The arithmetic of a collection: web/src/collection/cards.ts (joins,     *)
(* merge, apply, then, fold) and web/src/import/part.ts (index, drain,     *)
(* without).  A stack is a number of copies that nothing tells apart.      *)
(*                                                                         *)
(* A card stands for all of a stack's identity but its place: printing,    *)
(* finish, grade, tags, note and proxy.  Acquisitions and dates ride along *)
(* and are left out.  A view is a function from record keys to stacks;     *)
(* where the code takes the first of a list that fits, any that fits may   *)
(* be taken, so an operator returns the set of what may come of it.        *)
(***************************************************************************)
EXTENDS Naturals, FiniteSetsExt

CONSTANTS Cards, Places,
          Unfiled,    \* the place of a card that names no container
          COPIES      \* the most copies one record may hold

ASSUME PlaceAssumption == Unfiled \notin Places
ASSUME CopiesAssumption == COPIES \in Nat \ {0}

Ids == [card : Cards, place : Places \cup {Unfiled}]
Owned == [id : Ids, n : Nat \ {0}]

Nothing == [k \in {} |-> 0]
But(view, keys) == Restrict(view, DOMAIN view \ keys)
Only(k, one) == [j \in {k} |-> one]
Over(some, view) ==
    [k \in DOMAIN some \cup DOMAIN view |-> IF k \in DOMAIN some THEN some[k] ELSE view[k]]

Joins(one, other) == one.id = other.id /\ one.n + other.n <= COPIES
MergeOver(one, other) == other                      \* mutant: written over
Merge(one, other) == [one EXCEPT !.n = @ + other.n]

\* What a view holds of one identity.
Count(view, id) == SumFunction([k \in DOMAIN view |-> IF view[k].id = id THEN view[k].n ELSE 0])

Copies(view) == SumFunction([k \in DOMAIN view |-> view[k].n])

-----------------------------------------------------------------------------
(* An amendment: the records to write, those to drop, the view after.      *)

NoChange(view) == [writes |-> Nothing, drops |-> {}, view |-> view]

ApplyToNone(view, k, next) ==                       \* mutant: a stack of none is kept
    IF k \notin DOMAIN view THEN {NoChange(view)}
    ELSE {[writes |-> Only(k, next), drops |-> {}, view |-> [view EXCEPT ![k] = next]]}
\* A stack left with nothing is dropped, and one that lands on another's
\* identity joins it.
Apply(view, k, next) ==
    LET into == {j \in DOMAIN view \ {k} : Joins(view[j], next)} IN
    IF k \notin DOMAIN view THEN {NoChange(view)}
    ELSE IF next.n = 0 THEN {[writes |-> Nothing, drops |-> {k}, view |-> But(view, {k})]}
    ELSE IF into = {} THEN {[writes |-> Only(k, next), drops |-> {}, view |-> [view EXCEPT ![k] = next]]}
    ELSE {[writes |-> Only(j, Merge(view[j], next)), drops |-> {k},
           view |-> But([view EXCEPT ![j] = Merge(@, next)], {k})] : j \in into}

ThenAlone(first, second) == second                  \* mutant: the last change alone
\* A record written and then dropped is only dropped.
Then(first, second) ==
    [writes |-> But(Over(second.writes, first.writes), second.drops),
     drops  |-> first.drops \cup second.drops,
     view   |-> second.view]

\* Every stack of one place, unfiled in one change.
Emptied(view, place) ==
    LET Unfile(k, changes) ==
            UNION {{Then(one, next) :
                       next \in Apply(one.view, k, [view[k] EXCEPT !.id.place = Unfiled])} :
                   one \in changes}
    IN  FoldSet(Unfile, {NoChange(view)}, {k \in DOMAIN view : view[k].id.place = place})

FoldUnder(found, since) == Over(found, since)       \* mutant: laid under
\* What was written since, laid over what a read found.
Fold(found, since) == Over(since, found)

-----------------------------------------------------------------------------
(* A part is how many copies of each identity it still holds.              *)

Entries == [Ids -> Nat]
Empty(part) == \A id \in Ids : part[id] = 0

\* The record an entry would join: what a drain just wrote comes before the view.
Index(held, later, id) ==
    LET kept == {k \in DOMAIN held : held[k].id = id}
        new  == {k \in DOMAIN later : later[k].id = id}
    IN  IF new # {} THEN {<<k, later[k]>> : k \in new} ELSE {<<k, held[k]>> : k \in kept}

\* The writes that turn one part into records: an update of the record an entry
\* joins, or a create where there is none or it has no room.
Drained(part, held, later) ==
    LET ids == {id \in Ids : part[id] > 0}
        found == [id \in ids |-> Index(held, later, id)]
        Entry(id) == [id |-> id, n |-> part[id]]
        Joined(id, at) == at[2].n + part[id] <= COPIES
    IN  {LET into == {id \in ids : found[id] # {} /\ Joined(id, pick[id])}
         IN  [updates |-> [k \in {pick[id][1] : id \in into} |->
                  LET id == CHOOSE id \in into : pick[id][1] = k
                  IN  Merge(pick[id][2], Entry(id))],
              creates |-> {Entry(id) : id \in ids \ into}] :
         pick \in {f \in [ids -> UNION {found[id] : id \in ids} \cup {<<>>}] :
                       \A id \in ids : IF found[id] = {} THEN f[id] = <<>> ELSE f[id] \in found[id]}}

\* Copies of one identity taken out of the parts, from the first that hold any.
Shed(parts, id, copies) ==
    LET Before(p) == SumFunction([q \in DOMAIN parts |-> IF q < p THEN parts[q][id] ELSE 0])
        Owed(p) == IF Before(p) >= copies THEN 0 ELSE copies - Before(p)
        Left(p) == IF parts[p][id] <= Owed(p) THEN 0 ELSE parts[p][id] - Owed(p)
        kept == [p \in DOMAIN parts |-> [parts[p] EXCEPT ![id] = Left(p)]]
    IN  RestrictValues(kept, LAMBDA part : ~Empty(part))
=============================================================================
