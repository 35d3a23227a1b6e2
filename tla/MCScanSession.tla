--------------------------- MODULE MCScanSession ---------------------------
(* A short session for TLC: two printings, and reads the margin carries and  *)
(* does not.                                                                 *)
EXTENDS ScanSession

CONSTANTS p1, p2

TwoMade == p1 :> <<"nonfoil", "foil">> @@ p2 :> <<"foil">>

Art(distance, prints) == [distance |-> distance, prints |-> prints]
Clear1  == [found |-> <<Art(2, <<p1>>), Art(9, <<p2>>)>>, margin |-> 7]
Thin    == [found |-> <<Art(2, <<p1>>), Art(3, <<p2>>)>>, margin |-> 1]
Several == [found |-> <<Art(2, <<p1, p2>>)>>, margin |-> 7]
Unnamed == [found |-> <<Art(2, <<>>)>>, margin |-> 7]
SomeReads == {Clear1, Several}

-----------------------------------------------------------------------------

Entries(quantities) ==
    {[Scanned(Several, 1, USUALLY) EXCEPT !.finish = finish, !.quantity = n] : finish \in {"nonfoil", "foil"}, n \in quantities}
Numbered(some) == [i \in DOMAIN some |-> [some[i] EXCEPT !.id = i]]
Lists == {Numbered(some) : some \in UNION {[1 .. n -> Entries(1 .. COPIES)] : n \in 0 .. 3}}

\* Joining the stacks of a list changes no count of any card, leaves no stack
\* past the ceiling and nothing a second press would join (scratch.ts merged).
ASSUME JoinedWhole ==
    \A some \in Lists :
        LET of(any, finish) == Copies(SelectSeq(any, LAMBDA one : one.finish = finish)) IN
        /\ \A finish \in {"nonfoil", "foil"} : of(Merged(some), finish) = of(some, finish)
        /\ \A one \in Range(Merged(some)) : one.quantity <= COPIES
        /\ Joinable(Merged(some)) = 0
        /\ FoldLeft(LAMBDA sum, one : sum + one.quantity, 0, CardsOf(Merged(some))) = Copies(some)

\* A card named that nothing matched is one the list needs a row for, and the
\* finish shown of it is one it was made in (scratch.ts choose, referenced).
ASSUME NamedShown ==
    \A one \in {Clear1, Thin, Several}, p \in Printings :
        LET some == Choose(<<Scanned(one, 1, USUALLY)>>, 1, p) IN
        /\ p \in Referenced(some)
        /\ some[1].finish \in Range(Finishes(p))
        /\ Offered(some[1], p) <=> p \in UNION {Range(art.prints) : art \in Range(one.found)}
ASSUME NothingNamed == Scanned(Unnamed, 1, USUALLY) = NoEntry

\* A frame held is there to be reported, and never more of them or for longer
\* than is said (frames.ts hold, evict).
ASSUME FramesHeld ==
    \A frames \in SUBSET [id : 1 .. 3, at : 0 .. 2], most \in 1 .. 3, for \in 1 .. 2 :
        (\A f, g \in frames : f.id = g.id => f = g) =>
            LET held == Held(frames, 4, 2, most, for) IN
            /\ [id |-> 4, at |-> 2] \in held
            /\ Cardinality(held) <= most
            /\ \A f \in held : f.at > 2 - for
=============================================================================
