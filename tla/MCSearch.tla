------------------------------ MODULE MCSearch ------------------------------
(* A catalog of six cards for TLC: a land without a rank, a two-sided card   *)
(* whose colors are on its faces, a token of a card's name, and printings of *)
(* three sets, two languages and four rarities.                              *)
EXTENDS Search, TLC

Named(name, line, colors, identity, cmc, kind, printings, rank, stats, faces) ==
    [name |-> name, typeLine |-> <<line>>, manaCost |-> <<>>, cmc |-> cmc, colors |-> colors,
     colorIdentity |-> identity, kind |-> kind, printings |-> printings, edhrecRank |-> rank,
     stats |-> stats, flags |-> 0, faces |-> faces]
Face(line, colors, stats) ==
    [typeLine |-> <<line>>, manaCost |-> <<>>, colors |-> colors, stats |-> stats]

\* The bits of W, U, B, R and G are 1, 2, 4, 8 and 16.
CardsHeld == <<
    Named(<<"for", "est">>, {"land"}, <<0>>, 16, <<0>>, 0, 2, <<>>, <<>>, <<>>),
    Named(<<"for", "est", " ", "bear">>, {"creature", "bear"}, <<16>>, 16, <<2>>, 0, 1, <<3>>, <<2, 2>>, <<>>),
    Named(<<"gob", "lin">>, {"creature", "goblin"}, <<8>>, 8, <<0>>, 1, 1, <<>>, <<1, 1>>, <<>>),
    Named(<<"gob", "lin", " ", "king">>, {"legendary", "creature", "goblin"}, <<8>>, 8, <<3>>, 0, 2, <<9>>,
          <<2, NaN>>, <<>>),
    Named(<<"gob", "lin", " ", "elf">>, {"legendary", "creature", "goblin", "elf"}, <<>>, 9, <<>>, 0, 1, <<1>>, <<>>,
          << Face({"creature", "goblin"}, 8, <<3, 1>>), Face({"creature", "elf"}, 1, <<0, 4>>) >>),
    Named(<<"hob", "gob", "lin">>, {"creature", "goblin"}, <<9>>, 9, <<2>>, 0, 1, <<2>>, <<2, 1>>, <<>>) >>

PrintRow(id, set, number, finishes, rarity, lang, artwork) ==
    [id |-> id, set |-> set, collectorNumber |-> number, finishes |-> finishes, rarity |-> rarity, layout |-> 0,
     lang |-> lang, artist |-> <<>>, flags |-> 0, artwork |-> artwork]

PrintsHeld == <<
    PrintRow("f1", 0, 9, 1, 0, 0, <<0>>), PrintRow("f2", 1, 10, 3, 0, 1, <<1>>),
    PrintRow("b1", 1, 2, 1, 1, 0, <<2>>),
    PrintRow("t1", 2, 1, 1, 0, 0, <<>>),
    PrintRow("k1", 0, 4, 1, 0, 1, <<3>>), PrintRow("k2", 1, 1, 2, 2, 0, <<3>>),
    PrintRow("e1", 1, 5, 2, 3, 0, <<4>>),
    PrintRow("h1", 0, 3, 3, 2, 0, <<5>>) >>

CardsHeader == [version |-> 1, kinds |-> <<"card", "token">>, flags |-> <<"commander">>]
SetOf(letters, released) == [code |-> letters, released |-> released]
PrintsHeader ==
    [version |-> 1, finishes |-> <<"nonfoil", "foil">>, flags |-> <<"promo">>,
     rarities |-> RARITY, layouts |-> <<"normal">>, langs |-> <<"en", "ja">>, artists |-> <<{"ann"}>>,
     sets |-> << SetOf("lea", 1993), SetOf("m10", 2020), SetOf("tok", 2020) >>,
     alphabet |-> <<"lea", "m10", "tok">>]

Rest == <<Minus(Open), Term("r", ":", <<"rare">>), Or, Term("is", ":", <<"foil">>), Close>>
HalfGroup == <<Open, Term("s", ":", <<"lea">>), Or, Term("s", ":", <<"m10">>)>>
Crossed == <<Term("t", ":", <<"legendary">>), Or, Open, Term("s", ":", <<"lea">>), Or, Term("c", ":", <<"R">>), Close, And>>

\* What is typed, and what of it is left when no control owns a term of it.
PlainTexts ==
    <<>> :> <<>>
    @@ <<Word(<<"gob", "lin">>), Open, Term("t", ":", <<"goblin">>), Or, Term("type", ":", <<"elf">>), Close>> :> <<>>
    @@ (<<Word(<<"gob">>), Open, Term("s", ":", <<"lea">>), Or, Term("edition", ":", <<"m10">>), Close>> \o Rest) :> Rest
    @@ <<Minus(Term("c", ":", <<"W">>)), Term("c", ">=", <<"1">>), Term("o", ":", <<"draw">>), Term("mv", "<=", <<"2">>)>>
          :> <<Term("mv", "<=", <<"2">>)>>
TypedTexts == (DOMAIN PlainTexts \ {<<>>}) \cup {HalfGroup, Crossed}

Buttons == [colors |-> {"W", "R", "C"}, subtypes |-> {"goblin", "elf"}, sets |-> {"lea", "m10"}, langs |-> {<<"ja">>}]
CountsOffered == {<<"1">>, <<"2">>}
OrdersOffered == {<<"mv">>, <<"rarity">>}

-----------------------------------------------------------------------------

\* The files read back: a batch ends where a row does, whatever its strings
\* hold, and no row is read twice or left out (rows.ts).
OneRow(inside) == <<"[">> \o inside \o <<"]">>
Insides == {<<>>, <<"x">>, <<"quote", "]", "quote">>, <<"quote", "backslash", "quote", "[", "quote">>, <<"[", "x", "]">>}
Comma(rows) == FlattenSeq([i \in DOMAIN rows |-> IF i = 1 THEN rows[i] ELSE <<",">> \o rows[i]])
ASSUME RowsRead ==
    \A n \in 0 .. 3 : \A rows \in [1 .. n -> {OneRow(inside) : inside \in Insides}], each \in 1 .. 2 :
        LET bytes == Comma(rows)
            batches == Chunks(bytes, each)
            upTo(k) == IF k * each < n THEN k * each ELSE n
        IN  /\ Count(bytes) = n
            /\ Len(batches) = (n + each - 1) \div each
            /\ \A k \in DOMAIN batches : batches[k] = Comma(SubSeq(rows, (k - 1) * each + 1, upTo(k)))

\* The array is the last place of its name, whatever a string of the header reads.
Mark == <<",", "quote", "x", "quote", ":", "[">>
ASSUME RowsParted ==
    \A header \in {<<"{">>, <<"{">> \o Mark, <<"{">> \o Mark \o <<"x">>}, rows \in {<<>>, OneRow(<<"x">>)} :
        Split(header \o Mark \o rows \o <<"]", "}">>, Mark) = <<[header |-> Append(header, "}"), rows |-> rows]>>

\* A column of strings gives back what was put in, the empty and the absent
\* apart, whatever the width of its characters and however little was reserved.
Strings == {<<>>, <<<<>>>>, <<<<<<"a">>>>>>, <<<<<<"e", "1">>, <<"b">>>>>>, <<<<<<"w", "2", "3">>, <<"w", "2", "3">>>>>>,
            <<<<<<"p", "2", "3", "4">>>>>>}
ASSUME StringsKept ==
    \A n \in 1 .. 3 : \A values \in [1 .. n -> Strings], guess \in 0 .. 2 :
        \A i \in 1 .. n : Get(Run(values, guess), i) =
            IF values[i] = <<>> THEN <<>> ELSE <<FlattenSeq(values[i][1])>>

\* The largest entry a table may have is still its own in its column, and is
\* not the number that stands for none (columns.ts fits).
ASSUME ColumnsKept ==
    \A name \in DOMAIN COLUMNS :
        LET most == COLUMNS[name].most IN
        /\ \A value \in {0, 1, most - 1} : Through(name, <<value>>) = <<value>>
        /\ COLUMNS[name].none # NeverAbsent => Through(name, <<>>) = <<>>

\* A printing is found behind the card whose run holds it, and a card's
\* printings are its run (index.ts owner, prints, resolve, locate, bySet).
ASSUME RunsKept ==
    /\ Whole
    /\ \A at \in DOMAIN PrintRows :
          /\ Offsets[Owner(at)] < at /\ at <= Offsets[Owner(at) + 1]
          /\ Resolve({PrintRows[at].id}) = {[card |-> Owner(at), print |-> Printing(at)]}
          /\ Printing(at) \in Range(Prints(Owner(at)))
          /\ Locate(Printing(at).set, Printing(at).collectorNumber) = {PrintRows[at].id}
          /\ PrintRows[at].artwork # <<>> => Behind(at) \in Range(OfArtwork(PrintRows[at].artwork[1]))
    /\ \A set \in Range(Sets) : BySet({PrintRows[at].id : at \in DOMAIN PrintRows})[set.code] = SetSize(set.code)
=============================================================================
