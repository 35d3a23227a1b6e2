---------------------------- MODULE CatalogIndex ----------------------------
(***************************************************************************)
(* The catalog a device holds, from the bytes of its two files to what a   *)
(* query finds in it: web/src/catalog/rows.ts, strings.ts, columns.ts,     *)
(* search.ts and index.ts.  Rows are numbered from one; a table's entries, *)
(* as in the files, from zero.                                             *)
(*                                                                         *)
(* A name is the sequence of its normalized syllables, " " between words;  *)
(* a collector number and a release are numbers.                           *)
(***************************************************************************)
EXTENDS Query

CONSTANTS CardRows, PrintRows,    \* the rows of the two files
          CardTables, PrintTables \* and their headers

-----------------------------------------------------------------------------
(* rows.ts: a file of one array, read a batch of rows at a time.           *)

\* Where the row starting at `from` ends, or none past the last.
Ends(bytes, from) ==
    LET step(so, at) ==
            LET one == bytes[at] IN
            CASE so.end > 0 \/ so.skip -> [so EXCEPT !.skip = FALSE]
              [] so.quoted /\ one = "backslash" -> [so EXCEPT !.skip = TRUE]
              [] one = "quote" -> [so EXCEPT !.quoted = ~@]
              [] ~so.quoted /\ one = "[" -> [so EXCEPT !.depth = @ + 1]
              [] ~so.quoted /\ one = "]" -> [so EXCEPT !.depth = @ - 1, !.end = IF so.depth = 1 THEN at ELSE 0]
              [] OTHER -> so
    IN  FoldLeft(step, [depth |-> 0, quoted |-> FALSE, skip |-> FALSE, end |-> 0],
                 [i \in 1 .. Len(bytes) - from + 1 |-> from + i - 1]).end

\* The last place of each row, in order; each row is past the comma after the one before.
RECURSIVE Rows(_, _)
Rows(bytes, at) ==
    LET end == Ends(bytes, at) IN
    IF at > Len(bytes) \/ end = 0 THEN <<>> ELSE <<end>> \o Rows(bytes, end + 2)

Count(bytes) == Len(Rows(bytes, 1))

\* The last batch is what is left, to the end of the bytes.
Chunks(bytes, each) ==
    LET ends == Rows(bytes, 1)
        batches == (Len(ends) + each - 1) \div each
        from(n) == IF n = 1 THEN 1 ELSE ends[(n - 1) * each] + 2
        to(n) == IF n * each <= Len(ends) THEN ends[n * each] ELSE Len(bytes)
    IN  [n \in 1 .. batches |-> SubSeq(bytes, from(n), to(n))]

\* The header and the rows, parted at the last place the array is named.
Split(bytes, mark) ==
    LET here == {at \in 1 .. Len(bytes) - Len(mark) + 1 : SubSeq(bytes, at, at + Len(mark) - 1) = mark}
        shut == Len(bytes) > 1 /\ SubSeq(bytes, Len(bytes) - 1, Len(bytes)) = <<"]", "}">>
    IN  IF here = {} \/ ~shut THEN <<>>
        ELSE <<[header |-> Append(SubSeq(bytes, 1, Max(here) - 1), "}"),
                rows |-> SubSeq(bytes, Max(here) + Len(mark), Len(bytes) - 2)]>>

-----------------------------------------------------------------------------
(* strings.ts: a column of strings as one run of bytes.  A character is    *)
(* the sequence of its bytes; one of four is two units of a string.        *)

WIDEST == 3
Units(value) == FoldLeft(LAMBDA sum, one : sum + (IF Len(one) = 4 THEN 2 ELSE 1), 0, value)

RECURSIVE Doubled(_, _)
Doubled(size, want) == IF size >= want THEN size ELSE Doubled(2 * size, want)
Fit(size, want) == IF want <= size THEN size ELSE Doubled(IF size = 0 THEN 1 ELSE size, want)

\* A byte written past the end of what is reserved is lost.
Pushed(run, value) ==
    LET end == Last(run.at) IN
    IF value = <<>> THEN [run EXCEPT !.at = Append(@, end), !.some = Append(@, FALSE)]
    ELSE LET size == Fit(run.size, end + Units(value[1]) * WIDEST)
             all == run.bytes \o FlattenSeq(value[1])
             bytes == SubSeq(all, 1, Min({size, Len(all)}))
         IN  [bytes |-> bytes, size |-> size,
              at |-> Append(run.at, end + Len(FlattenSeq(value[1]))), some |-> Append(run.some, TRUE)]

Run(values, guess) ==
    FoldLeft(Pushed, [bytes |-> <<>>, size |-> Len(values) * guess, at |-> <<0>>, some |-> <<>>], values)

Get(run, at) == IF ~run.some[at] THEN <<>> ELSE <<SubSeq(run.bytes, run.at[at] + 1, run.at[at + 1])>>

-----------------------------------------------------------------------------
(* columns.ts: each column an array of one width, an absent value a number *)
(* no entry of its table has.                                              *)

Column(most, bits, none) == [most |-> most, bits |-> bits, none |-> none]
NeverAbsent == -2
PRINT_COLUMNS ==
    [set |-> Column(65535, 16, NeverAbsent), artist |-> Column(65534, 16, 65535),
     rarity |-> Column(255, 8, NeverAbsent), layout |-> Column(255, 8, NeverAbsent),
     lang |-> Column(31, 8, NeverAbsent), finishes |-> Column(256, 8, NeverAbsent), flags |-> Column(256, 8, NeverAbsent)]
CARD_COLUMNS ==
    [kind |-> Column(255, 8, NeverAbsent), colors |-> Column(32, 8, 255), flags |-> Column(256, 8, NeverAbsent)]
COLUMNS == CARD_COLUMNS @@ PRINT_COLUMNS

Stored(column, value) == IF value = <<>> THEN column.none ELSE value[1] % (2 ^ column.bits)
Loaded(column, held) == IF held = column.none THEN <<>> ELSE <<held>>
\* What a column gives back of what a row held.
Through(name, value) == Loaded(COLUMNS[name], Stored(COLUMNS[name], value))
Entry(name, table, value) == table[Through(name, <<value>>)[1] + 1]

Decode(mask, names) == {names[bit + 1] : bit \in {b \in 0 .. Len(names) - 1 : (mask \div (2 ^ b)) % 2 = 1}}
Letters(mask) == Decode(mask, COLORS)

-----------------------------------------------------------------------------
(* index.ts: the cards, each with its run of printings.                    *)

\* Where each card's run starts, with the total on the end.
Offsets == [i \in 1 .. Len(CardRows) + 1 |->
               FoldLeft(LAMBDA sum, row : sum + row.printings, 0, SubSeq(CardRows, 1, i - 1))]

Whole == /\ CardTables.version = PrintTables.version
         /\ Offsets[Len(CardRows) + 1] = Len(PrintRows)

Card(i) ==
    LET row == CardRows[i]
        optional(mask) == IF mask = <<>> THEN <<>> ELSE <<Letters(mask[1])>>
    IN  [row EXCEPT !.colors = optional(Through("colors", row.colors)),
                    !.colorIdentity = Letters(row.colorIdentity),
                    !.kind = Entry("kind", CardTables.kinds, row.kind),
                    !.flags = Decode(Through("flags", <<row.flags>>)[1], CardTables.flags),
                    !.faces = [f \in DOMAIN row.faces |->
                                  [row.faces[f] EXCEPT !.colors = <<Letters(row.faces[f].colors)>>]]]

Printing(at) ==
    LET row == PrintRows[at]
        set == Entry("set", PrintTables.sets, row.set)
        artist == Through("artist", row.artist)
    IN  [id |-> row.id, set |-> set.code, released |-> set.released, collectorNumber |-> row.collectorNumber,
         finishes |-> Decode(Through("finishes", <<row.finishes>>)[1], PrintTables.finishes),
         rarity |-> Entry("rarity", PrintTables.rarities, row.rarity),
         layout |-> Entry("layout", PrintTables.layouts, row.layout),
         lang |-> Entry("lang", PrintTables.langs, row.lang),
         artist |-> IF artist = <<>> THEN <<>> ELSE <<PrintTables.artists[artist[1] + 1]>>,
         flags |-> Decode(Through("flags", <<row.flags>>)[1], PrintTables.flags),
         artwork |-> row.artwork]

Prints(card) ==
    [i \in 1 .. Offsets[card + 1] - Offsets[card] |-> Printing(Offsets[card] + i)]

\* Each of them, worked out once.
Cards == [i \in DOMAIN CardRows |-> Card(i)]
Runs == [i \in DOMAIN CardRows |-> Prints(i)]

\* Which card a printing belongs to, by halving the runs.
Owner(print) ==
    LET half[low \in DOMAIN CardRows, high \in DOMAIN CardRows] ==
            LET mid == (low + high + 1) \div 2 IN
            IF low >= high THEN low
            ELSE IF Offsets[mid] < print THEN half[mid, high] ELSE half[low, mid - 1]
    IN  half[1, Len(CardRows)]

Behind(at) == [card |-> Owner(at), print |-> Printing(at)]
Behinds == [at \in DOMAIN PrintRows |-> Behind(at)]
Where(Test(_)) == SelectSeq([at \in DOMAIN PrintRows |-> at], Test)

Resolve(ids) == {Behind(at) : at \in {at \in DOMAIN PrintRows : PrintRows[at].id \in ids}}
Locate(set, number) ==
    {Printing(at).id : at \in {at \in DOMAIN PrintRows : Printing(at).set = set /\ Printing(at).collectorNumber = number}}
BySet(ids) ==
    LET held(code) == {at \in DOMAIN PrintRows : PrintRows[at].id \in ids /\ Printing(at).set = code} IN
    [code \in {Printing(at).set : at \in {at \in DOMAIN PrintRows : PrintRows[at].id \in ids}} |-> Cardinality(held(code))]
OfArtwork(number) ==
    LET on == Where(LAMBDA at : PrintRows[at].artwork = <<number>>) IN [i \in DOMAIN on |-> Behind(on[i])]
SetSize(code) == Cardinality({at \in DOMAIN PrintRows : Printing(at).set = code})

\* In an order, what it leaves equal as it stood.
Sorted(sequence, Before(_, _)) ==
    LET earlier(i, j) == \/ Before(sequence[i], sequence[j])
                         \/ ~Before(sequence[j], sequence[i]) /\ i < j
        order == SortSeq([i \in DOMAIN sequence |-> i], earlier)
    IN  [i \in DOMAIN sequence |-> sequence[order[i]]]

Rising(cards, standings) == Sorted(cards, LAMBDA one, other : standings[one] < standings[other])

\* Every set with a paper printing, the newest first.
Sets == Sorted(SelectSeq(PrintTables.sets, LAMBDA set : SetSize(set.code) > 0),
               LAMBDA one, other : one.released > other.released)

\* Every printing of these sets, the newest first, then by collector number.
SetPrints(codes) ==
    LET rank == Sorted(SelectSeq(PrintTables.sets, LAMBDA set : set.code \in codes),
                       LAMBDA one, other : one.released > other.released)
        at(print) == CHOOSE i \in DOMAIN rank : rank[i].code = print.set
        found == Where(LAMBDA p : Printing(p).set \in codes)
    IN  Sorted([i \in DOMAIN found |-> Behind(found[i])],
               LAMBDA one, other :
                   \/ at(one.print) < at(other.print)
                   \/ /\ at(one.print) = at(other.print)
                      /\ one.print.collectorNumber < other.print.collectorNumber)

-----------------------------------------------------------------------------
(* search.ts: names, ranked.                                               *)

\* Sixtieths, so that the worst rank over a count of printings is whole.
PARTS == 60
Ranked == {i \in DOMAIN CardRows : CardRows[i].edhrecRank # <<>>}
Score(i) ==
    LET worst == Max({0} \cup {CardRows[r].edhrecRank[1] : r \in Ranked}) IN
    IF i \in Ranked THEN CardRows[i].edhrecRank[1] * PARTS ELSE (worst * PARTS) \div CardRows[i].printings

Scores == [i \in DOMAIN CardRows |-> Score(i)]

\* The bare words of a query as one name.
Text(words) == FlattenSeq([i \in DOMAIN words |-> IF i = 1 THEN words[i] ELSE <<" ">> \o words[i]])

Within(name, wanted) ==
    \E from \in 0 .. Len(name) - Len(wanted) : SubSeq(name, from + 1, from + Len(wanted)) = wanted

\* Exact, then starting a word, then anywhere.
Tier(name, wanted) ==
    CASE name = wanted -> <<0>>
      [] IsPrefix(wanted, name) \/ Within(name, <<" ">> \o wanted) -> <<1>>
      [] Within(name, wanted) -> <<2>>
      [] OTHER -> <<>>

Least(cards, limit) == SubSeq(cards, 1, Min({limit, Len(cards)}))
Walked == [i \in DOMAIN CardRows |-> i]

\* The cards of one tier and kind, the most popular first.
Bucket(wanted, tier, kind, keep) ==
    Rising(SelectSeq(Walked, LAMBDA i :
               i \in keep /\ Tier(CardRows[i].name, wanted) = <<tier>> /\ CardRows[i].kind = kind), Scores)
SearchNames(wanted, limit, keep) ==
    LET kinds == Len(CardTables.kinds) IN
    Least(FlattenSeq([b \in 1 .. 3 * kinds |-> Bucket(wanted, (b - 1) \div kinds, (b - 1) % kinds, keep)]), limit)

Walk(limit, keep) == Least(SelectSeq(Walked, LAMBDA i : i \in keep), limit)

UNRANKED == 1000000
\* What an order sorts by: the least first.
By(order, card, held, first) ==
    LET of(field, absent) == IF field = <<>> THEN absent ELSE field[1]
        stat(at) == IF at \in DOMAIN held.stats /\ held.stats[at] # NaN THEN held.stats[at] ELSE UNRANKED
        code(set) == CHOOSE i \in DOMAIN PrintTables.alphabet : PrintTables.alphabet[i] = set
    IN  CASE order \in {"mv", "cmc"} -> of(held.cmc, 0)
          [] order = "pow" -> stat(1)
          [] order = "tou" -> stat(2)
          [] order = "printings" -> 0 - held.printings
          [] order = "edhrec" -> of(held.edhrecRank, UNRANKED)
          [] order = "released" -> IF first = <<>> THEN 0 ELSE 0 - first[1].released
          [] order = "rarity" -> IF first = <<>> THEN -1 ELSE Rare(first[1].rarity)
          [] order = "set" -> IF first = <<>> THEN 0 ELSE code(first[1].set)
          [] order = "cn" -> IF first = <<>> THEN 0 ELSE first[1].collectorNumber
          [] OTHER -> card
Standings(order) == [i \in DOMAIN CardRows |-> By(order, i, Cards[i], Runs[i])]

Keeps(query) ==
    {i \in DOMAIN CardRows : Matches(query, Cards[i], IF Printed(query) THEN Runs[i] ELSE <<>>)}
Ranking(text, cap, keep) == IF text # <<>> THEN SearchNames(text, cap, keep) ELSE Walk(cap, keep)
Turned(cards, direction) == IF direction = "desc" THEN Reverse(cards) ELSE cards
InOrder(query, cards) == Turned(Rising(cards, Standings(query.order)), query.direction)

\* Names are ranked and terms only narrow.  An order sorts everything that
\* matched, so the cap comes off the scan and goes on what is handed back.
Find(query, limit) ==
    CASE Text(query.words) = <<>> /\ query.node = Nothing -> <<>>
      [] query.order = "" -> Ranking(Text(query.words), limit, Keeps(query))
      [] OTHER -> Least(InOrder(query, Ranking(Text(query.words), Len(CardRows), Keeps(query))), limit)
=============================================================================
