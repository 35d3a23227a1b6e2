------------------------------- MODULE Query -------------------------------
(***************************************************************************)
(* Scryfall's query language as web/src/catalog/query.ts reads it, and the *)
(* edits web/src/terms.ts makes to a query.  A query is the sequence of    *)
(* its tokens and a token's place in it the span the code cuts by.         *)
(*                                                                         *)
(* A value is the sequence of its parts: the letters of a color, the one   *)
(* word of a set, a type or a number, the syllables of a name.  A field    *)
(* that may be absent is a sequence of at most one.                        *)
(***************************************************************************)
EXTENDS Integers, SequencesExt, FiniteSetsExt

Token(kind, not, key, op, value) == [kind |-> kind, not |-> not, key |-> key, op |-> op, value |-> value]
Term(key, op, value) == Token("term", FALSE, key, op, value)
Minus(token) == [token EXCEPT !.not = TRUE]
Word(value) == Token("word", FALSE, "", "", value)
Open  == Token("open", FALSE, "", "", <<>>)
Close == Token("close", FALSE, "", "", <<>>)
Or    == Token("or", FALSE, "", "", <<>>)
And   == Token("and", FALSE, "", "", <<>>)
Ended == Token("ended", FALSE, "", "", <<>>)

-----------------------------------------------------------------------------
(* Parsing.                                                                *)

\* Terms about what the pair does not hold.
LATER == [o |-> "oracle text", oracle |-> "oracle text", kw |-> "oracle text", keyword |-> "oracle text",
          f |-> "legality", format |-> "legality", legal |-> "legality", banned |-> "legality",
          restricted |-> "legality", usd |-> "prices", eur |-> "prices", tix |-> "prices"]
ORDER == {"name", "mv", "cmc", "pow", "tou", "rarity", "released", "set", "cn", "edhrec", "printings"}

Colors == {"c", "color", "colors"}
Identity == {"id", "identity"}
Type == {"t", "type"}
ManaValue == {"mv", "cmc", "manavalue"}
ManaCost == {"m", "mana"}
Power == {"pow", "power"}
Toughness == {"tou", "toughness"}
Rarity == {"r", "rarity"}
Set == {"s", "set", "e", "edition"}
Number == {"cn", "number"}
Artist == {"a", "artist"}
Dir == {"dir", "direction"}
Flag == {"is", "not"}

PRINTED == Rarity \cup Set \cup Number \cup Artist \cup Flag \cup {"lang", "in", "layout", "year"}
KEYS == PRINTED \cup Colors \cup Identity \cup Type \cup ManaValue \cup ManaCost \cup Power \cup Toughness

Node(kind, of, term) == [kind |-> kind, of |-> of, term |-> term]
Nothing == Node("nothing", <<>>, Ended)

Gather(of, kind) ==
    CASE Len(of) = 0 -> Nothing
      [] Len(of) = 1 -> of[1]
      [] OTHER -> Node(kind, of, Ended)

Held(of, node) == IF node = Nothing THEN of ELSE Append(of, node)
Peek(reading) == IF reading.at > Len(reading.tokens) THEN Ended ELSE reading.tokens[reading.at]
Past(reading) == [reading EXCEPT !.at = @ + 1]

\* A token that is neither a bracket nor a joining word.  What narrows
\* nothing is kept beside the tree, in the reading it came from.
Single(token, reading) ==
    LET key == token.key
        wrote == [reading EXCEPT !.written =
                     Append(@, [key |-> key, op |-> token.op, value |-> token.value,
                                not |-> token.not, at |-> reading.at - 1])]
        held == Node("term", <<>>, [token EXCEPT !.not = FALSE])
        given(r) == [reading |-> r, node |-> Nothing]
    IN  CASE token.kind = "word" -> given([reading EXCEPT !.words = Append(@, token.value)])
          [] key = "order" ->
                given([wrote EXCEPT !.order =
                          IF \E one \in ORDER : token.value = <<one>> THEN token.value[1] ELSE @])
          [] key \in Dir -> given([wrote EXCEPT !.direction = IF token.value = <<"desc">> THEN "desc" ELSE "asc"])
          [] key \in DOMAIN LATER -> given([wrote EXCEPT !.missing = @ \cup {LATER[key]}])
          [] key \notin KEYS \cup {"order"} \cup Dir \cup DOMAIN LATER ->
                given([wrote EXCEPT !.missing = @ \cup {key}])
          [] OTHER -> [reading |-> wrote, node |-> IF token.not THEN Node("not", <<held>>, Ended) ELSE held]

\* A bracket left open closes at the end.
Shut(token, inner) ==
    [reading |-> IF Peek(inner.reading) = Close THEN Past(inner.reading) ELSE inner.reading,
     node |-> IF inner.node = Nothing \/ ~token.not THEN inner.node ELSE Node("not", <<inner.node>>, Ended)]

RECURSIVE AnyOf(_, _), EveryOf(_, _)
One(token, reading) ==
    IF token.kind = "open" THEN Shut(token, AnyOf(reading, <<>>)) ELSE Single(token, reading)

EveryAfter(of, one) == EveryOf(one.reading, Held(of, one.node))
EveryOf(reading, of) ==
    CASE Peek(reading).kind \in {"ended", "close", "or"} -> [reading |-> reading, node |-> Gather(of, "and")]
      [] Peek(reading).kind = "and" -> EveryOf(Past(reading), of)
      [] OTHER -> EveryAfter(of, One(Peek(reading), Past(reading)))

\* `or` binds loosest, so it is read over runs of everything else.
AnyAfter(of, run) ==
    IF Peek(run.reading).kind = "or" THEN AnyOf(Past(run.reading), Held(of, run.node))
    ELSE [reading |-> run.reading, node |-> Gather(Held(of, run.node), "or")]
AnyOf(reading, of) == AnyAfter(of, EveryOf(reading, <<>>))

Parsed(reading, node) ==
    [words |-> reading.words, node |-> node, order |-> reading.order,
     direction |-> reading.direction, missing |-> reading.missing, written |-> reading.written]
ParsedOf(all) == Parsed(all.reading, all.node)
Parse(tokens) ==
    ParsedOf(AnyOf([tokens |-> tokens, at |-> 1, words |-> <<>>, missing |-> {}, written |-> <<>>,
                    order |-> "", direction |-> ""], <<>>))

-----------------------------------------------------------------------------
(* What a term asks.                                                       *)

NaN == -100
Digits == [x \in {"0", "1", "2", "3", "4", "5", "1993", "2020"} |->
              CASE x = "0" -> 0 [] x = "1" -> 1 [] x = "2" -> 2 [] x = "3" -> 3 [] x = "4" -> 4
                [] x = "5" -> 5 [] x = "1993" -> 1993 [] OTHER -> 2020]
\* Number(text), of an empty text too.
AsNumber(value) ==
    CASE value = <<>> -> 0
      [] Len(value) = 1 /\ value[1] \in DOMAIN Digits -> Digits[value[1]]
      [] OTHER -> NaN

Compares(mine, other, op) ==
    /\ mine # NaN /\ other # NaN
    /\ CASE op = ">"  -> mine > other
         [] op = "<"  -> mine < other
         [] op = ">=" -> mine >= other
         [] op = "<=" -> mine <= other
         [] op = "!=" -> mine # other
         [] OTHER     -> mine = other

COLORS == <<"W", "U", "B", "R", "G">>
NAMED == [white |-> {"W"}, blue |-> {"U"}, black |-> {"B"}, red |-> {"R"}, green |-> {"G"},
    colorless |-> {}, C |-> {}, azorius |-> {"W", "U"}, dimir |-> {"U", "B"}, rakdos |-> {"B", "R"},
    gruul |-> {"R", "G"}, selesnya |-> {"G", "W"}, orzhov |-> {"W", "B"}, izzet |-> {"U", "R"},
    golgari |-> {"B", "G"}, boros |-> {"R", "W"}, simic |-> {"G", "U"}, bant |-> {"G", "W", "U"},
    esper |-> {"W", "U", "B"}, grixis |-> {"U", "B", "R"}, jund |-> {"B", "R", "G"}, naya |-> {"R", "G", "W"},
    abzan |-> {"W", "B", "G"}, jeskai |-> {"U", "R", "W"}, sultai |-> {"B", "G", "U"}, mardu |-> {"R", "W", "B"},
    temur |-> {"G", "U", "R"}, glint |-> {"U", "B", "R", "G"}, dune |-> {"W", "B", "R", "G"},
    ink |-> {"G", "W", "U", "R"}, witch |-> {"W", "U", "B", "G"}, yore |-> {"W", "U", "B", "R"},
    chaos |-> {"U", "B", "R", "G"}, aggression |-> {"W", "B", "R", "G"}, altruism |-> {"G", "W", "U", "R"},
    growth |-> {"W", "U", "B", "G"}, artifice |-> {"W", "U", "B", "R"},
    wubrg |-> Range(COLORS), five |-> Range(COLORS)]

\* The colors a value names, or none where it names none at all.
Masked(value) ==
    CASE Len(value) = 1 /\ value[1] \in DOMAIN NAMED -> <<NAMED[value[1]]>>
      [] value # <<>> /\ Range(value) \subseteq Range(COLORS) -> <<Range(value)>>
      [] OTHER -> <<>>

\* Colorless is the empty set, under every comparison.
NoColor(op, mine) ==
    CASE op = ">=" -> TRUE
      [] op \in {">", "!="} -> mine # {}
      [] op = "<" -> FALSE
      [] OTHER -> mine = {}

ColoredAs(op, value, named, mine) ==
    LET wanted == named[1]
        covers == wanted \subseteq mine
        inside == mine \subseteq wanted
    IN  CASE value # <<>> /\ AsNumber(value) # NaN -> Compares(Cardinality(mine), AsNumber(value), op)
          [] value \in {<<"M">>, <<"multicolor">>} -> Cardinality(mine) > 1
          [] named = <<>> -> FALSE
          [] wanted = {} -> NoColor(op, mine)
          [] op \in {":", ">="} -> covers
          [] op = ">" -> covers /\ Cardinality(mine) > Cardinality(wanted)
          [] op = "<=" -> inside
          [] op = "<" -> inside /\ Cardinality(mine) < Cardinality(wanted)
          [] op = "!=" -> ~(covers /\ inside)
          [] OTHER -> covers /\ inside

Colored(op, value, mine) == ColoredAs(op, value, Masked(value), mine)

\* How many of each symbol, generic mana counted rather than named.
Symbols(cost) ==
    LET name(part) == IF AsNumber(<<part>>) = NaN THEN part ELSE "generic"
        worth(part) == IF AsNumber(<<part>>) = NaN THEN 1 ELSE AsNumber(<<part>>)
    IN  [symbol \in {name(part) : part \in Range(cost)} |->
            FoldLeft(LAMBDA sum, part : sum + worth(part), 0, SelectSeq(cost, LAMBDA part : name(part) = symbol))]

Costs(op, wanted, held) ==
    LET of(cost, one) == IF one \in DOMAIN cost THEN cost[one] ELSE 0
        size(cost) == FoldFunction(+, 0, cost)
        covers == \A one \in DOMAIN wanted : of(held, one) >= wanted[one]
        inside == \A one \in DOMAIN held : of(wanted, one) >= held[one]
    IN  CASE op = ">"  -> covers /\ size(held) > size(wanted)
          [] op = "<"  -> inside /\ size(held) < size(wanted)
          [] op = "<=" -> inside
          [] op = "!=" -> ~(covers /\ inside)
          [] op = "="  -> covers /\ inside
          [] OTHER     -> covers

\* One of a power and a toughness, against a number or the other of the two.
Stat(stats, at, op, value) ==
    LET part(i) == IF i \in DOMAIN stats THEN stats[i] ELSE NaN
        other == CASE value \in {<<one>> : one \in Power} -> part(1)
                   [] value \in {<<one>> : one \in Toughness} -> part(2)
                   [] OTHER -> AsNumber(value)
    IN  Compares(part(at), other, op)

\* Whether a field names the words of a value; absent, it names nothing.
Has(field, value) == field # <<>> /\ Range(value) \subseteq field[1]

\* What a two-sided card cannot answer for itself is put to each side.
Sided(card, asks(_)) == asks(card) \/ \E face \in Range(card.faces) : asks(face)

FINISHES == {"nonfoil", "foil", "etched"}
Flagged(value, card, print) ==
    \E one \in Range(value) :
        IF one \in FINISHES THEN print # <<>> /\ one \in print[1].finishes
        ELSE one \in card.flags \/ (print # <<>> /\ one \in print[1].flags)

RARITY == <<"common", "uncommon", "rare", "mythic">>
\* indexOf, whose -1 is a number like any other.
Rare(one) == IF one \in Range(RARITY) THEN CHOOSE at \in DOMAIN RARITY : RARITY[at] = one ELSE -1

Holds(term, card, print, all) ==
    LET key == term.key
        op == term.op
        value == term.value
        word == IF value = <<>> THEN "" ELSE value[1]
        mine(field) == IF field = <<>> THEN NaN ELSE field[1]
    IN  CASE key \in Colors -> Sided(card, LAMBDA of : of.colors # <<>> /\ Colored(op, value, of.colors[1]))
          [] key \in Identity -> Colored(op, value, card.colorIdentity)
          [] key \in Type -> Has(card.typeLine, value)
          [] key \in ManaValue -> Compares(mine(card.cmc), AsNumber(value), op)
          [] key \in ManaCost -> Sided(card, LAMBDA of : of.manaCost # <<>> /\ Costs(op, Symbols(value), Symbols(of.manaCost[1])))
          [] key \in Power -> Sided(card, LAMBDA of : Stat(of.stats, 1, op, value))
          [] key \in Toughness -> Sided(card, LAMBDA of : Stat(of.stats, 2, op, value))
          [] key \in Flag -> (key = "not") # Flagged(value, card, print)
          [] key = "in" -> word = "paper" \/ \E one \in Range(all) : word \in {one.set, one.rarity, one.lang}
          [] key \in Rarity -> Compares(IF print = <<>> THEN -1 ELSE Rare(print[1].rarity), Rare(word), op)
          [] key \in Set -> print # <<>> /\ print[1].set = word
          [] key \in Number -> print # <<>> /\ print[1].collectorNumber = AsNumber(value)
          [] key \in Artist -> print # <<>> /\ Has(print[1].artist, value)
          [] key = "lang" -> print # <<>> /\ print[1].lang = word
          [] key = "layout" -> print # <<>> /\ print[1].layout = word
          [] key = "year" -> Compares(IF print = <<>> THEN NaN ELSE print[1].released, AsNumber(value), op)
          [] OTHER -> FALSE

RECURSIVE Truth(_, _, _, _), Asks(_)
Truth(node, card, print, all) ==
    CASE node.kind = "term" -> Holds(node.term, card, print, all)
      [] node.kind = "not" -> ~Truth(node.of[1], card, print, all)
      [] node.kind = "and" -> \A one \in Range(node.of) : Truth(one, card, print, all)
      [] OTHER -> \E one \in Range(node.of) : Truth(one, card, print, all)

Asks(node) == IF node.kind = "term" THEN node.term.key \in PRINTED ELSE \E one \in Range(node.of) : Asks(one)
Printed(query) == query.node # Nothing /\ Asks(query.node)

\* The printing that answered, the whole query being put to each in turn.
Answering(query, card, prints) ==
    IF ~Printed(query) THEN <<>>
    ELSE LET answers == {i \in DOMAIN prints : Truth(query.node, card, <<prints[i]>>, prints)} IN
         IF answers = {} THEN <<>> ELSE <<prints[Min(answers)]>>

MatchesApart(query, card, prints) ==  \* mutant: two printings between them
    \/ query.node = Nothing
    \/ IF query.node.kind = "and" /\ Printed(query)
       THEN \A one \in Range(query.node.of) :
                \E i \in DOMAIN prints : Truth(one, card, <<prints[i]>>, prints)
       ELSE IF ~Printed(query) THEN Truth(query.node, card, <<>>, prints) ELSE Answering(query, card, prints) # <<>>
Matches(query, card, prints) ==
    \/ query.node = Nothing
    \/ IF ~Printed(query) THEN Truth(query.node, card, <<>>, prints) ELSE Answering(query, card, prints) # <<>>

-----------------------------------------------------------------------------
(* Editing a query by span.                                                *)

Picking == [op |-> ":", not |-> FALSE, shape |-> "any", all |-> FALSE]

Fits(value, shape) ==
    LET counts == value # <<>> /\ AsNumber(value) # NaN IN
    CASE shape = "count" -> counts
      [] shape = "letters" -> value # <<>> /\ ~counts
      [] OTHER -> TRUE

OwnedEither(term, spellings, how) == term.key \in spellings /\ Fits(term.value, how.shape)  \* mutant: either polarity
Owned(term, spellings, how) ==
    /\ term.key \in spellings
    /\ term.not = how.not
    /\ Fits(term.value, how.shape)

Written(text) == Parse(text).written
Mine(written, spellings, how) == SelectSeq(written, LAMBDA term : Owned(term, spellings, how))

Reading(found) ==
    [op |-> IF found = <<>> THEN ":" ELSE found[1].op,
     values |-> [i \in DOMAIN found |-> found[i].value],
     terms |-> [i \in DOMAIN found |-> [op |-> found[i].op, value |-> found[i].value]]]
Read(written, spellings, how) == Reading(Mine(written, spellings, how))

First(values) == IF values = <<>> THEN <<>> ELSE values[1]
Value(written, spellings) == First(Read(written, spellings, Picking).values)

\* An `or` or an `and` with a group edge, or another, on either side of it.
Dangling(all, gone) ==
    LET live(over, places) == {i \in places : i \notin over}
        joins(i) == all[i].kind \in {"or", "and"}
        bare(over, at) ==
            LET before == live(over, 1 .. at - 1)
                after == live(over, at + 1 .. Len(all))
            IN  \/ before = {} \/ after = {}
                \/ joins(Max(before)) \/ all[Max(before)].kind = "open"
                \/ all[Min(after)].kind = "close"
    IN  FoldLeft(LAMBDA over, at : IF at \notin over /\ joins(at) /\ bare(over, at) THEN over \cup {at} ELSE over,
                 gone, [i \in DOMAIN all |-> i])

\* A group of nothing goes, and one of a single term sheds its brackets; a
\* negated one keeps them, the minus being on them.
Bracketed(all, gone) ==
    LET step(so, at) ==
            LET from == Last(so.open)
                inside == {i \in from + 1 .. at - 1 : i \notin so.gone}
                alone == /\ Cardinality(inside) = 1 /\ ~all[from].not
                         /\ \A i \in inside : all[i].kind # "open"
            IN  CASE at \in so.gone -> so
                  [] all[at].kind = "open" -> [so EXCEPT !.open = Append(@, at)]
                  [] all[at].kind = "close" /\ so.open # <<>> ->
                        [open |-> Front(so.open),
                         gone |-> IF inside = {} \/ alone THEN so.gone \cup {from, at} ELSE so.gone]
                  [] OTHER -> so
    IN  FoldLeft(step, [open |-> <<>>, gone |-> gone], [i \in DOMAIN all |-> i]).gone

RECURSIVE Tidy(_, _)
TidyFrom(all, gone, dangling, bracketed) ==
    CASE dangling # gone -> Tidy(all, dangling)
      [] bracketed # gone -> Tidy(all, bracketed)
      [] OTHER -> gone
Tidy(all, gone) == TidyFrom(all, gone, Dangling(all, gone), Bracketed(all, gone))

Keeping(text, gone) ==
    FoldLeft(LAMBDA kept, at : IF at \in gone THEN kept ELSE Append(kept, text[at]), <<>>, [i \in DOMAIN text |-> i])
Cut(text, terms) == Keeping(text, Tidy(text, {term.at : term \in Range(terms)}))

Without(text, spellings, how) == Cut(text, Mine(Written(text), spellings, how))

\* Every one of the values as terms apart, any of them as a group.
ComposeBare(key, wanted, how) ==  \* mutant: a group without its brackets
    FlattenSeq([i \in DOMAIN wanted |->
        LET term == [Term(key, how.op, wanted[i]) EXCEPT !.not = how.not] IN
        IF i = 1 \/ how.all THEN <<term>> ELSE <<Or, term>>])
Compose(key, wanted, how) ==
    LET term(i) == [Term(key, how.op, wanted[i]) EXCEPT !.not = how.not]
        apart == [i \in DOMAIN wanted |-> term(i)]
    IN  IF how.all \/ Len(wanted) < 2 THEN apart
        ELSE <<Open>> \o FlattenSeq([i \in DOMAIN wanted |-> IF i = 1 THEN <<term(i)>> ELSE <<Or, term(i)>>]) \o <<Close>>

\* The key a control writes is the first of its spellings.
Write(text, spellings, key, wanted, how) == Without(text, spellings, how) \o Compose(key, wanted, how)
=============================================================================
