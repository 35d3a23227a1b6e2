------------------------------ MODULE ScanList ------------------------------
(***************************************************************************)
(* The list a scan lands in and every move that can be made on it:         *)
(* web/src/scan/scratch.ts, and the frames a development build holds back, *)
(* web/src/scan/frames.ts.                                                 *)
(*                                                                         *)
(* A read is what the index answered for one frame: its matches nearest    *)
(* first, each an artwork with its distance and the printings carrying it, *)
(* none where the catalog names none.  An entry is one stack of the list.  *)
(***************************************************************************)
EXTENDS Integers, SequencesExt, FiniteSetsExt, TLC

CONSTANTS Printings,
          Made,       \* the finishes each printing was made in, in order
          FLOOR,      \* the margin, in bits, from which a read is believed
          COPIES      \* the most copies one stack may hold

ASSUME MadeAssumption == \A p \in Printings : IsInjective(Made[p])
ASSUME FloorAssumption == FLOOR \in Nat
ASSUME CopiesAssumption == COPIES \in Nat \ {0}

NONFOIL == "nonfoil"

\* A printing the catalog does not hold was made in no finish it knows of.
Finishes(print) == IF print \in Printings THEN Made[print] ELSE <<>>

-----------------------------------------------------------------------------
(* From a read to an entry.                                                *)

Among(one) == IF one.matched = <<>> THEN <<>> ELSE one.matched[1].prints

\* Whether the reader settled it on its own.
Sure(one) == one.margin >= FLOOR /\ Len(Among(one)) = 1

\* A printing made one way settles its own finish.
Settled(finishes) ==
    IF Len(finishes) = 1 THEN finishes[1]
    ELSE IF NONFOIL \in Range(finishes) \/ finishes = <<>> THEN NONFOIL
    ELSE finishes[1]

\* How far the next artwork the catalog can name was.
Gap(found, matched) ==
    CASE matched = <<>> -> 0
      [] Len(matched) > 1 -> matched[2].distance - matched[1].distance
      [] OTHER -> IF found.found[1].prints = <<>> THEN 0 ELSE found.margin

NoEntry == [id |-> 0]

\* One scan, one stack: none where nothing it matched is a printing.
Scanned(found, id, condition) ==
    LET matched == SelectSeq(found.found, LAMBDA one : one.prints # <<>>) IN
    IF matched = <<>> THEN NoEntry
    ELSE LET first == matched[1].prints[1] IN
         [id |-> id, margin |-> Gap(found, matched), matched |-> matched,
          print |-> first, picked |-> FALSE, reported |-> FALSE,
          finish |-> Settled(Finishes(first)), condition |-> condition, quantity |-> 1]

-----------------------------------------------------------------------------
(* The moves, each the list in and another out.                            *)

With(list, id, Change(_)) == [i \in DOMAIN list |-> IF list[i].id = id THEN Change(list[i]) ELSE list[i]]

Plus(list, id) ==
    With(list, id, LAMBDA one : IF one.quantity < COPIES THEN [one EXCEPT !.quantity = @ + 1] ELSE one)

\* The list but for the stacks that are gone.
Without(list, gone) ==
    FoldLeft(LAMBDA kept, one : IF one \in gone THEN kept ELSE Append(kept, one), <<>>, list)

Dropped(list, id) == Without(list, {one \in Range(list) : one.id = id})

\* The last copy takes the stack with it.
Minus(list, id) ==
    With(Without(list, {one \in Range(list) : one.id = id /\ one.quantity <= 1}), id,
         LAMBDA one : [one EXCEPT !.quantity = @ - 1])

Reported(list, id) == With(list, id, LAMBDA one : [one EXCEPT !.reported = TRUE])

\* Agreeing with what the reader said is an answer too, and changes no finish.
Choose(list, id, print) ==
    With(list, id, LAMBDA one :
        IF one.print = print THEN [one EXCEPT !.picked = TRUE]
        ELSE [one EXCEPT !.picked = TRUE, !.print = print, !.finish = Settled(Finishes(print))])

Offered(one, print) == \E i \in DOMAIN one.matched : print \in Range(one.matched[i].prints)

\* Every printing the list needs a catalog row for.
Referenced(list) ==
    UNION {{one.print} \cup UNION {Range(one.matched[i].prints) : i \in DOMAIN one.matched} : one \in Range(list)}

\* A finish the printing was never made in is refused.
Refinish(list, id, finish) ==
    With(list, id, LAMBDA one :
        IF finish \in Range(Finishes(one.print)) THEN [one EXCEPT !.finish = finish] ELSE one)

\* The next finish the printing was made in, wrapping; the first where the
\* stack's own is not among them.
Cycled(list, id) ==
    With(list, id, LAMBDA one :
        LET made == Finishes(one.print)
            at == IF one.finish \in Range(made) THEN CHOOSE i \in DOMAIN made : made[i] = one.finish ELSE 0
        IN  IF Len(made) < 2 THEN one ELSE [one EXCEPT !.finish = made[(at % Len(made)) + 1]])

Regraded(list, id, condition) == With(list, id, LAMBDA one : [one EXCEPT !.condition = condition])

Alike(one, other) ==
    one.print = other.print /\ one.finish = other.finish /\ one.condition = other.condition

Joined(kept, one, room) ==
    LET like == {i \in DOMAIN kept : Alike(kept[i], one)}
        first == Min(like)
    IN  IF like # {} /\ kept[first].quantity + one.quantity \in room
        THEN [kept EXCEPT ![first].quantity = @ + one.quantity]
        ELSE Append(kept, one)

\* Stacks of one printing become one.  One the ceiling has closed stays the
\* one to try, so what follows still joins it where there is room.
Merged(list) == FoldLeft(LAMBDA kept, one : Joined(kept, one, 1 .. COPIES), <<>>, list)

Joinable(list) == Len(list) - Len(Merged(list))

Copies(list) == FoldLeft(LAMBDA sum, one : sum + one.quantity, 0, list)

\* The list as the cards an import writes.
CardsOf(list) ==
    [i \in DOMAIN list |-> [print |-> list[i].print, finish |-> list[i].finish,
                            condition |-> list[i].condition, quantity |-> list[i].quantity]]

-----------------------------------------------------------------------------
(* The frames held back: a frame and when it was held.                     *)

\* A frame is put, then what is as old as `for` goes, then the oldest of what
\* is left beyond `most`.
Held(frames, id, now, most, for) ==
    LET put   == {f \in frames : f.id # id} \cup {[id |-> id, at |-> now]}
        left  == {f \in put : f.at > now - for}
        Older(f) == Cardinality({g \in left : g.at < f.at \/ (g.at = f.at /\ g.id < f.id)})
    IN  {f \in left : Older(f) >= Cardinality(left) - most}
=============================================================================
