------------------------------- MODULE Search -------------------------------
(***************************************************************************)
(* The search page and a set's: web/src/Search.tsx and Sets.tsx over the   *)
(* query of the address, and the controls of web/src/filters, each a view  *)
(* of the query that edits it in place.                                    *)
(*                                                                         *)
(* `text` is what the box says and `query` what the address does: typing   *)
(* moves the first, a submit or any press of a control both.  `every` is   *)
(* the one thing a control keeps of its own, whether the select of the     *)
(* subtypes reads "All of them", and `meant` a record of what was typed    *)
(* and pressed, for the properties to compare with.                        *)
(***************************************************************************)
EXTENDS CatalogIndex

CONSTANTS FOUND,      \* how many cards one query collects
          SUPER, TYPES, Subtypes, \* the words of the three type controls
          MANY,       \* the counts of colors on offer
          Orders,     \* the orders on offer
          Typed,      \* what may be typed into the box
          Plain,      \* of those, the ones whose groups are each one control's
          Pressable,  \* the colors, sets and languages anybody moves
          MaxMoves

VARIABLES text, query, code, every, meant
vars == <<text, query, code, every, meant>>

-----------------------------------------------------------------------------
(* filters/Colors.tsx and Count.tsx.                                       *)

LETTERS == [Picking EXCEPT !.shape = "letters"]
COUNT == [Picking EXCEPT !.shape = "count"]
Spelled(key) == IF key = "id" THEN Identity ELSE Colors
Lit(held) == FlattenSeq(held.values)

Refusing == [LETTERS EXCEPT !.not = TRUE, !.all = TRUE]

AskedAs(key, held, refused) ==
    [key |-> key, match |-> IF Len(held.values) > 1 THEN "any" ELSE held.op,
     colors |-> Lit(held), refused |-> Lit(refused)]
AskedOf(written, key) ==
    AskedAs(key, Read(written, Spelled(key), LETTERS), Read(written, Spelled(key), Refusing))

\* The pips are of the identity where any identity is wanted.
Asked(written) == AskedOf(written, IF Read(written, Identity, LETTERS).values # <<>> THEN "id" ELSE "c")

Singly(colors) == [i \in DOMAIN colors |-> <<colors[i]>>]
Put(key, match, colors, t) ==
    IF match = "any" THEN Write(t, Spelled(key), key, Singly(colors), LETTERS)
    ELSE Write(t, Spelled(key), key, IF colors = <<>> THEN <<>> ELSE <<colors>>, [LETTERS EXCEPT !.op = match])
\* Each refusal stands alone.
Deny(key, colors, t) == Write(t, Spelled(key), key, Singly(colors), Refusing)

Dropped(colors, color) == IF color \in Range(colors) THEN RemoveFirst(colors, color) ELSE colors
\* Colorless is asked for alone.
Added(colors, color) == IF color = "C" \/ colors = <<"C">> THEN <<color>> ELSE Append(colors, color)

\* Wanted, refused, then neither.
PressedOn(so, t, color) ==
    CASE color \in Range(so.colors) ->
            Deny(so.key, Added(so.refused, color), Put(so.key, so.match, Dropped(so.colors, color), t))
      [] color \in Range(so.refused) /\ color \notin Range(so.colors) -> Deny(so.key, Dropped(so.refused, color), t)
      [] OTHER -> Put(so.key, so.match, Added(so.colors, color), Deny(so.key, Dropped(so.refused, color), t))
Pressed(t, color) == PressedOn(Asked(Written(t)), t, color)

\* A range is two comparisons of one key, or one where its ends meet.
CountingOf(terms) ==
    LET at(ops) == LET found == SelectSeq(terms, LAMBDA one : one.op \in ops) IN
                   IF found = <<>> THEN <<>> ELSE found[1].value
        exact == at({"=", ":"})
    IN  IF exact # <<>> THEN [low |-> exact, high |-> exact]
        ELSE [low |-> at({">=", ">"}), high |-> at({"<=", "<"})]
Counting(written, key) == CountingOf(Read(written, Spelled(key), COUNT).terms)

Counted(t, key, low, high) ==
    Write(t, Spelled(key), key, <<>>, COUNT) \o
    IF low # <<>> /\ low = high THEN <<Term(key, "=", low)>>
    ELSE (IF low = <<>> THEN <<>> ELSE <<Term(key, ">=", low)>>) \o
         (IF high = <<>> THEN <<>> ELSE <<Term(key, "<=", high)>>)

Ordered(low, high) == low = <<>> \/ high = <<>> \/ AsNumber(low) <= AsNumber(high)

\* Asking the other question moves everything already asked.
MovedTo(t, from, to, so, span) ==
    LET left == Write(Write(t, Spelled(from), from, <<>>, LETTERS), Spelled(from), from, <<>>, Refusing)
        wanted == Put(to, so.match, so.colors, Counted(left, from, <<>>, <<>>))
    IN  Counted(Deny(to, so.refused, wanted), to, span.low, span.high)
Moved(t, from, to) == MovedTo(t, from, to, AskedOf(Written(t), from), Counting(Written(t), from))

-----------------------------------------------------------------------------
(* filters/Types.tsx: three controls over one run of terms.                *)

Firsts(values) == [i \in DOMAIN values |-> values[i][1]]
Words(written) == Firsts(Read(written, Type, Picking).values)
Supers(written) == SelectSeq(Words(written), LAMBDA one : one \in SUPER)
Types(written) == SelectSeq(Words(written), LAMBDA one : one \in TYPES)
Subs(written) == SelectSeq(Words(written), LAMBDA one : one \in Subtypes)

\* The run is cut once and composed whole.
Rebuilt(t, supers, types, subs, all) ==
    Without(t, Type, Picking)
        \o Compose("t", Singly(supers \o types), [Picking EXCEPT !.all = TRUE])
        \o Compose("t", Singly(subs), [Picking EXCEPT !.all = all])

Toggled(held, one) == IF one \in Range(held) THEN SelectSeq(held, LAMBDA each : each # one) ELSE Append(held, one)

\* filters/Sort.tsx, Language.tsx and SetFilter.tsx.
Chosen(written) == Firsts(Read(written, Set, Picking).values)
OneOf(t, spellings, key, wanted) ==
    Write(t, spellings, key, IF wanted = <<>> THEN <<>> ELSE <<wanted>>, Picking)

-----------------------------------------------------------------------------
(* What the page shows.                                                    *)

\* Search.tsx: a row for each card, by the printing that answered.
AnswerOf(answering, prints) == IF answering # <<>> THEN answering[1] ELSE prints[1]
ResultsOf(asked, found) ==
    [i \in DOMAIN found |->
        [card |-> found[i], print |-> AnswerOf(Answering(asked, Cards[found[i]], Runs[found[i]]), Runs[found[i]])]]
Results(asked) == ResultsOf(asked, Find(asked, FOUND))

\* Sets.tsx: a row for each printing of the set, the query put to it alone.
Narrowed(asked, name, rows) ==
    SelectSeq(rows, LAMBDA row :
        /\ Matches(asked, Cards[row.card], <<row.print>>)
        /\ name = <<>> \/ Within(Cards[row.card].name, name))
Printings(one, asked) == Narrowed(asked, Text(asked.words), SetPrints({one}))

Shown == IF code = "" THEN Results(Parse(query)) ELSE Printings(code, Parse(query))

-----------------------------------------------------------------------------
(* What each control says of a query.                                      *)

\* The terms of both questions of color, of which the page shows one.
PipsOf(so) == [wanted |-> Range(so.colors), match |-> so.match, refused |-> Range(so.refused)]
Pips(written, key) == PipsOf(AskedOf(written, key))
Terms(written) ==
    [c |-> Pips(written, "c"), id |-> Pips(written, "id"), cCount |-> Counting(written, "c"), idCount |-> Counting(written, "id"),
     supers |-> Range(Supers(written)), types |-> Range(Types(written)), subs |-> Range(Subs(written)), sets |-> Range(Chosen(written)),
     lang |-> Value(written, {"lang"}), order |-> Value(written, {"order"}), dir |-> Value(written, Dir)]
Wrote == Written(text)
Readings(t) == Terms(Written(t))
Bare == Readings(<<>>)

\* A pip of the question shown.
PipOf(so, color) ==
    CASE color \in Range(so.colors) -> "wanted"
      [] color \in Range(so.refused) \ Range(so.colors) -> "refused"
      [] OTHER -> "neither"
Pip(written, color) == PipOf(Asked(written), color)

-----------------------------------------------------------------------------

Init ==
    /\ text = <<>> /\ query = <<>>
    /\ code = "" /\ every = FALSE
    /\ meant = [typed |-> <<>>, joined |-> FALSE, asked |-> [typed |-> <<>>, joined |-> FALSE],
                moves |-> 0, terms |-> Bare, which |-> "c"]

\* A control writes into the box and asks at once.
Push(next, terms, which, joined) ==
    /\ meant.moves < MaxMoves
    /\ text' = next
    /\ query' = next
    /\ meant' = [meant EXCEPT !.moves = @ + 1, !.terms = terms @@ @, !.which = which, !.joined = joined,
                               !.asked = [typed |-> meant.typed, joined |-> joined]]
    /\ UNCHANGED code

Match(wanted, match) == IF wanted = {} \/ (match = "any" /\ Cardinality(wanted) = 1) THEN ":" ELSE match
With(held, color) == IF color = "C" \/ held = {"C"} THEN {color} ELSE held \cup {color}

Presses(color) ==
    LET so == Asked(Wrote)
        was == Pips(Wrote, so.key)
        now == CASE color \in was.wanted -> [was EXCEPT !.wanted = @ \ {color}, !.refused = With(@, color)]
                 [] color \in was.refused \ was.wanted -> [was EXCEPT !.refused = @ \ {color}]
                 [] OTHER -> [was EXCEPT !.wanted = With(@, color)]
    IN  /\ Push(Pressed(text, color),
                so.key :> [now EXCEPT !.match = Match(now.wanted, @)], so.key, meant.joined)
        /\ UNCHANGED every

Asking(match) ==
    LET so == Asked(Wrote)
        was == Pips(Wrote, so.key)
    IN  /\ match # so.match
        /\ Push(Put(so.key, match, so.colors, text),
                so.key :> [was EXCEPT !.match = Match(was.wanted, match)], so.key, meant.joined)
        /\ UNCHANGED every

Moves ==
    LET from == Asked(Wrote).key
        to == IF from = "c" THEN "id" ELSE "c"
        span(key) == IF key = "c" THEN "cCount" ELSE "idCount"
        bare == [wanted |-> {}, match |-> ":", refused |-> {}]
    IN  /\ Push(Moved(text, from, to),
                from :> bare @@ to :> [Pips(Wrote, from) EXCEPT !.match = Match(Pips(Wrote, from).wanted, @)]
                    @@ span(from) :> [low |-> <<>>, high |-> <<>>] @@ span(to) :> Counting(Wrote, from),
                to, meant.joined)
        /\ UNCHANGED every

Counts(low, high) ==
    LET key == Asked(Wrote).key
        now == Counting(Wrote, key)
    IN  /\ Ordered(low, high)
        /\ (low = now.low) # (high = now.high)
        /\ Push(Counted(text, key, low, high),
                (IF key = "c" THEN "cCount" ELSE "idCount") :> [low |-> low, high |-> high], key, meant.joined)
        /\ UNCHANGED every

Super(wanted) ==
    /\ wanted # Supers(Wrote)
    /\ Push(Rebuilt(text, wanted, Types(Wrote), Subs(Wrote), every), "supers" :> Range(wanted), meant.which, every)
    /\ UNCHANGED every

TypeIs(wanted) ==
    /\ wanted # Types(Wrote)
    /\ Push(Rebuilt(text, Supers(Wrote), wanted, Subs(Wrote), every), "types" :> Range(wanted), meant.which, every)
    /\ UNCHANGED every

Sub(one) ==
    LET wanted == Toggled(Subs(Wrote), one) IN
    /\ Push(Rebuilt(text, Supers(Wrote), Types(Wrote), wanted, every), "subs" :> Range(wanted), meant.which, every)
    /\ UNCHANGED every

AnySub ==
    /\ Subs(Wrote) # <<>>
    /\ Push(Rebuilt(text, Supers(Wrote), Types(Wrote), <<>>, every), "subs" :> {}, meant.which, every)
    /\ UNCHANGED every

Joins ==
    /\ Len(Subs(Wrote)) > 1
    /\ every' = ~every
    /\ Push(Rebuilt(text, Supers(Wrote), Types(Wrote), Subs(Wrote), ~every), <<>>, meant.which, ~every)

\* The sets are chosen from on the search page alone.
Picks(one) ==
    LET wanted == Toggled(Chosen(Wrote), one) IN
    /\ code = ""
    /\ Push(Write(text, Set, "s", Singly(wanted), Picking), "sets" :> Range(wanted), meant.which, meant.joined)
    /\ UNCHANGED every

AllSets ==
    /\ code = "" /\ Chosen(Wrote) # <<>>
    /\ Push(Write(text, Set, "s", <<>>, Picking), "sets" :> {}, meant.which, meant.joined)
    /\ UNCHANGED every

Speaks(lang) ==
    /\ lang # Value(Wrote, {"lang"})
    /\ Push(OneOf(text, {"lang"}, "lang", lang), "lang" :> lang, meant.which, meant.joined)
    /\ UNCHANGED every

Sorts(order) ==
    /\ order # Value(Wrote, {"order"})
    /\ Push(OneOf(text, {"order"}, "order", order), "order" :> order, meant.which, meant.joined)
    /\ UNCHANGED every

Turns ==
    LET down == IF Value(Wrote, Dir) = <<"desc">> THEN <<>> ELSE <<"desc">> IN
    /\ Value(Wrote, {"order"}) # <<>>
    /\ Push(OneOf(text, Dir, "dir", down), "dir" :> down, meant.which, meant.joined)
    /\ UNCHANGED every

-----------------------------------------------------------------------------
(* The box and the address.                                                *)

TypesIn(typed) ==
    /\ meant.moves < MaxMoves
    /\ typed # text
    /\ text' = typed
    /\ meant' = [meant EXCEPT !.moves = @ + 1, !.typed = typed, !.joined = FALSE,
                               !.terms = Readings(typed), !.which = Asked(Written(typed)).key]
    /\ UNCHANGED <<query, code, every>>

Submits ==
    /\ query # text
    /\ query' = text
    /\ meant' = [meant EXCEPT !.asked = [typed |-> meant.typed, joined |-> meant.joined]]
    /\ UNCHANGED <<text, code, every>>

\* Another tab of the app and back: the address is kept, the page is not.
Returns ==
    /\ every \/ text # query
    /\ every' = FALSE
    /\ text' = query
    /\ meant' = [meant EXCEPT !.typed = meant.asked.typed, !.joined = meant.asked.joined,
                               !.terms = Readings(query), !.which = Asked(Written(query)).key]
    /\ UNCHANGED <<query, code>>

\* A link to the sets, and one of them pressed; a link keeps no query.
Opens(one) ==
    /\ code # one
    /\ code' = one
    /\ text' = <<>> /\ query' = <<>>
    /\ every' = FALSE
    /\ meant' = [meant EXCEPT !.typed = <<>>, !.joined = FALSE, !.asked = [typed |-> <<>>, joined |-> FALSE],
                               !.terms = Bare, !.which = "c"]

Next ==
    \/ \E color \in Pressable.colors : Presses(color)
    \/ \E match \in {":", "=", "<=", "any"} : Asking(match)
    \/ Moves
    \/ \E low, high \in MANY \cup {<<>>} : Counts(low, high)
    \/ \E wanted \in {<<>>} \cup {<<one>> : one \in SUPER} : Super(wanted)
    \/ \E wanted \in {<<>>} \cup {<<one>> : one \in TYPES} : TypeIs(wanted)
    \/ \E one \in Pressable.subtypes : Sub(one)
    \/ AnySub
    \/ Joins
    \/ \E one \in Pressable.sets : Picks(one)
    \/ AllSets
    \/ \E lang \in Pressable.langs \cup {<<>>} : Speaks(lang)
    \/ \E order \in Orders \cup {<<>>} : Sorts(order)
    \/ Turns
    \/ \E typed \in Typed : TypesIn(typed)
    \/ Submits
    \/ Returns
    \/ \E one \in Pressable.sets \cup {""} : Opens(one)

Spec == Init /\ [][Next]_vars

-----------------------------------------------------------------------------
(* The properties.                                                         *)

\* A control shows what it was last pressed to, and nothing any other control
\* was: whatever is written between them, each reads and edits its own terms
\* alone (terms.ts `write`, "A control reading the wrong term is the failure
\* mode of all of this").  The pips and the range shown are those of the
\* question last asked, save that an identity nothing is wanted of is shown as
\* a color (Colors.tsx `asked`), and the terms of the question not shown,
\* which go on filtering, are the ones it was left with.
Steered ==
    /\ Readings(text) = meant.terms
    /\ Asked(Wrote).key = IF meant.which = "id" /\ meant.terms.id.wanted = {} THEN "c" ELSE meant.which

\* A press takes a pip to the next of its three states (docs/search.md "a pip
\* carries three states rather than two - wanted, refused, neither").  It does
\* not: refusing the last color an identity wants turns the page to the other
\* question, whose pip is unlit, and a second press asks for the color there.
NextPip(state) == CASE state = "wanted" -> "refused" [] state = "refused" -> "neither" [] OTHER -> "wanted"
ThreeStates ==
    [][\A color \in Pressable.colors :
           Presses(color) => Pip(Written(text'), color) = NextPip(Pip(Wrote, color))]_vars

\* What the pips and the range of one key ask of the colors something has,
\* of which a two-sided card has several.
Wants(pips, counts, mines) ==
    LET wanted(mine) == CASE pips.wanted = {"C"} -> mine = {}
                          [] pips.match = "=" -> mine = pips.wanted
                          [] pips.match = "<=" -> mine \subseteq pips.wanted
                          [] pips.match = "any" -> mine \cap pips.wanted # {}
                          [] OTHER -> pips.wanted \subseteq mine
        some(P(_)) == \E mine \in mines : P(mine)
    IN  /\ pips.wanted = {} \/ some(wanted)
        /\ \A one \in pips.refused : ~some(LAMBDA mine : IF one = "C" THEN mine = {} ELSE one \in mine)
        /\ IF counts.low = counts.high
           THEN counts.low = <<>> \/ some(LAMBDA mine : Cardinality(mine) = AsNumber(counts.low))
           ELSE /\ counts.low = <<>> \/ some(LAMBDA mine : Cardinality(mine) >= AsNumber(counts.low))
                /\ counts.high = <<>> \/ some(LAMBDA mine : Cardinality(mine) <= AsNumber(counts.high))

Means(said, rest, each, card, print, all) ==
    LET words == IF card.typeLine = <<>> THEN {} ELSE card.typeLine[1]
        kept == Parse(rest).node
        sides == {of.colors : of \in {card} \cup Range(card.faces)} \ {<<>>}
    IN  /\ Wants(said.c, said.cCount, {colors[1] : colors \in sides})
        /\ Wants(said.id, said.idCount, {card.colorIdentity})
        /\ said.supers \cup said.types \subseteq words
        /\ said.subs = {} \/ IF each THEN said.subs \subseteq words ELSE said.subs \cap words # {}
        /\ said.sets = {} \/ print.set \in said.sets
        /\ said.lang = <<>> \/ <<print.lang>> = said.lang
        /\ kept = Nothing \/ Truth(kept, card, <<print>>, all)

Answers(tree, at) ==
    LET card == Behinds[at].card IN
    tree = Nothing \/ Truth(tree, Cards[card], <<Behinds[at].print>>, Runs[card])

\* The question a query asks is the one its controls show, the select of the
\* subtypes with them, beside what was typed: no group, half cut or written
\* after another, takes a neighbour's term into its `or`, and no term a control
\* still owns is lost from the tree (query.ts parse against terms.ts cut and
\* compose, docs/search.md "the query string is the state and the controls are
\* a view over it").
AsksWhatIsShown ==
    LET tree == Parse(text).node
        said == Readings(text)
    IN  \A at \in DOMAIN PrintRows :
            LET card == Behinds[at].card IN
            Answers(tree, at) = Means(said, Plain[meant.typed], every, Cards[card], Behinds[at].print, Runs[card])
Viewed == meant.typed \in DOMAIN Plain => AsksWhatIsShown

\* What holds of it: `every` is the page's own and not read from the query
\* (Types.tsx:54), so the select is right only of subtypes written while it
\* read as it does.  Where two of them were written otherwise, typed or before
\* the page was left, it shows what the query does not ask until a type
\* control is pressed, and any such press writes them as the select reads.
Stale == every # meant.joined /\ Len(Subs(Wrote)) > 1
Unmixed == meant.typed \in DOMAIN Plain /\ ~Stale => AsksWhatIsShown

\* Where a card stands: by the order asked for, or by tier, kind and popularity.
Standing(i, order, wanted) ==
    (IF order = "" THEN <<>> ELSE <<Standings(order)[i]>>)
    \o (IF wanted = <<>> THEN <<>> ELSE <<Tier(CardRows[i].name, wanted)[1], CardRows[i].kind, Scores[i]>>)
    \o <<i>>
Less(one, other) == \E n \in DOMAIN one : one[n] < other[n] /\ \A m \in 1 .. n - 1 : one[m] = other[m]
Ahead(one, other, asked) ==
    IF asked.order # "" /\ asked.direction = "desc" THEN Less(other, one) ELSE Less(one, other)

NamedBy(i, wanted) == wanted = <<>> \/ Within(CardRows[i].name, wanted)
AnsweringAt(asked, wanted) == {at \in DOMAIN PrintRows : NamedBy(Behinds[at].card, wanted) /\ Answers(asked.node, at)}
CardsOf(asked, wanted, answering) ==
    IF wanted = <<>> /\ asked.node = Nothing THEN {} ELSE {Behinds[at].card : at \in answering}

BestFirst(asked, cards, standing, answering, rows) ==
    /\ Len(rows) = Min({FOUND, Cardinality(cards)})
    /\ \A n \in DOMAIN rows :
           /\ rows[n].card \in cards
           /\ Cardinality({i \in cards : Ahead(standing[i], standing[rows[n].card], asked)}) = n - 1
           /\ Printed(asked) => \E at \in answering : rows[n] = Behinds[at]
InOrderOfSet(answering, rows) ==
    /\ Range(rows) = {Behinds[at] : at \in {at \in answering : Behinds[at].print.set = code}}
    /\ \A n \in 2 .. Len(rows) : rows[n - 1].print.collectorNumber <= rows[n].print.collectorNumber
RightRows(asked, wanted, answering, cards, rows) ==
    IF code # "" THEN InOrderOfSet(answering, rows)
    ELSE BestFirst(asked, cards, [i \in cards |-> Standing(i, asked.order, wanted)], answering, rows)

RightAt(asked, wanted, answering) ==
    RightRows(asked, wanted, answering, CardsOf(asked, wanted, answering), Shown)
RightFor(asked) == RightAt(asked, Text(asked.words), AnsweringAt(asked, Text(asked.words)))

\* What is shown is what was asked, the best first: on the search page the
\* first FOUND of the cards with one printing answering the whole query, in
\* the order asked for and otherwise by tier, kind and popularity; in a set
\* each printing that answers, in collector order (index.ts find, search.ts,
\* Sets.tsx Printings, docs/search.md "An order sorts everything that matched
\* rather than the page of it that came back").
Found == RightFor(Parse(query))
=============================================================================
