------------------------------ MODULE CardFile ------------------------------
(***************************************************************************)
(* A collection as a file and back: web/src/import/csv.ts, formats.ts,     *)
(* read.ts and plan.ts, web/src/export/csv.ts, rows.ts and scope.ts, and   *)
(* what cards.ts makes of the stacks they hold (stack, joins, merge,       *)
(* collapse).  Here are the functions; Files has the two pages.            *)
(*                                                                         *)
(* A row is a function from column names to cells.  A date is an instant,  *)
(* 0 where there is none and negative where the text is not a date; a      *)
(* count that is not one is 0; "" is an absent text.  A label is the       *)
(* sequence of its parts between commas, and a tags cell the parts of all. *)
(***************************************************************************)
EXTENDS Integers, SequencesExt, FiniteSetsExt, TLC

CONSTANTS COPIES, LOTS, TAGS,
          Printing,    \* the catalog: id to [name, set, number, rarity, lang, finishes, rank]
          Now

\* The text a catalog has of a printing, and its place among the others.
Described == [name : STRING, set : STRING, number : STRING, rarity : STRING, lang : STRING,
              finishes : SUBSET STRING, rank : Int]
ASSUME PrintingAssumption == \A print \in DOMAIN Printing : Printing[print] \in Described
ASSUME NowAssumption == Now \in Nat \ {0}
ASSUME CeilingsAssumption == {COPIES, LOTS, TAGS} \subseteq Nat \ {0}

\* The lexicon's grades, and how each is spelled in a file.
Snake == [mint |-> "mint", nearMint |-> "near_mint", excellent |-> "excellent", good |-> "good",
          lightPlayed |-> "light_played", played |-> "played", poor |-> "poor"]
CONDITIONS == DOMAIN Snake

Blank(text) == text = ""

\* The words the code itself puts into a field or a cell are texts.
ASSUME WordsAssumption ==
    {"", "en", "unknown", "normal", "nonfoil", "foil", "etched", "mint", "nearMint", "near_mint", "excellent", "good",
     "lightPlayed", "light_played", "played", "poor", "altered", "misprint", "signed"} \subseteq STRING

-----------------------------------------------------------------------------
(* Lists.                                                                  *)

\* Those of a list that are among some, in its order.
Only(list, some) == FoldLeft(LAMBDA kept, one : IF one \in some THEN Append(kept, one) ELSE kept, <<>>, list)

\* One more of the places of a list, put before the first it goes before, where
\* `ahead` are the pairs of places of which the first goes before the second.
Placed(order, i, ahead) ==
    LET later == {k \in DOMAIN order : <<i, order[k]>> \in ahead} IN
    IF later = {} THEN Append(order, i) ELSE InsertAt(order, Min(later), i)
Arranged(n, ahead) == FoldLeft(LAMBDA order, i : Placed(order, i, ahead), <<>>, [i \in 1 .. n |-> i])

\* A list put in order; what none goes before stays as it stood.
InOrder(list, Before(_, _)) ==
    LET order == Arranged(Len(list), {at \in (DOMAIN list) \X (DOMAIN list) : Before(list[at[1]], list[at[2]])})
    IN  [k \in DOMAIN list |-> list[order[k]]]

Values(records) == [i \in DOMAIN records |-> records[i].value]

-----------------------------------------------------------------------------
(* Stacks, and what tells two apart.                                       *)

\* What a record says, an absent field by "", 0 or nothing.
Acquisition == [quantity : Int, price : STRING, currency : STRING, marketValue : STRING, marketCurrency : STRING, at : Int]
Owned == [scryfallId : STRING, finish : STRING, quantity : Nat, condition : STRING, container : STRING,
          proxy : BOOLEAN, tags : Seq(Seq(STRING)), note : STRING, createdAt : Int, updatedAt : Int,
          acquisitions : Seq(Acquisition)]

Stack(one) == <<one.scryfallId, one.finish, one.condition, one.container, one.proxy, Range(one.tags), one.note>>

Joins(one, other) ==
    /\ Stack(one) = Stack(other)
    /\ one.quantity + other.quantity <= COPIES
    /\ Len(one.acquisitions) + Len(other.acquisitions) <= LOTS

\* History in date order, undated first; lots of one day as they stood.
History(lots) == InOrder(lots, LAMBDA a, b : a.at < b.at)

Earlier(one, other) == IF one <= other THEN one ELSE other
Later(one, other) == IF one >= other THEN one ELSE other

\* The record that replaces both.  With no time it is not written yet, and
\* keeps the later of the two changes.
Merge(one, other, at) ==
    [one EXCEPT !.quantity = @ + other.quantity,
                !.acquisitions = History(@ \o other.acquisitions),
                !.createdAt = Earlier(@, other.createdAt),
                !.updatedAt = IF at > 0 THEN at ELSE Later(@, other.updatedAt)]

Unwritten == 0

\* One stack per identity, in the order each was first seen; a ceiling alone
\* leaves two.
Collapsed(kept, one) ==
    LET fits == {i \in DOMAIN kept : Joins(kept[i], one)} IN
    IF fits = {} THEN Append(kept, one)
    ELSE [kept EXCEPT ![Min(fits)] = Merge(@, one, Unwritten)]
Collapse(rows) == FoldLeft(LAMBDA kept, one : Collapsed(kept, one), <<>>, rows)

CopiesOf(stacks) == SumFunction([i \in DOMAIN stacks |-> stacks[i].quantity])

DigestAsRead(stacks) == [i \in DOMAIN stacks |-> <<stacks[i].quantity, Stack(stacks[i])>>]  \* mutant: unsorted
\* What the file said, however its rows are ordered.
Digest(stacks) ==
    LET lines == [i \in DOMAIN stacks |-> <<stacks[i].quantity, Stack(stacks[i])>>]
    IN  [line \in Range(lines) |-> Cardinality({i \in DOMAIN lines : lines[i] = line})]

-----------------------------------------------------------------------------
(* Formats: which column feeds each field.                                 *)

MANABOX ==
    [name |-> "ManaBox",
     binding |-> [scryfallId |-> "Scryfall ID", name |-> "Name", setCode |-> "Set code", setName |-> "Set name",
                  collectorNumber |-> "Collector number", rarity |-> "Rarity", language |-> "Language",
                  finish |-> "Foil", quantity |-> "Quantity", condition |-> "Condition", altered |-> "Altered",
                  misprint |-> "Misprint", signed |-> "Signed", proxy |-> "Proxy",
                  marketValue |-> "Purchase price", marketCurrency |-> "Purchase price currency",
                  createdAt |-> "Added"],
     issued |-> {"ManaBox ID"}, refuses |-> {"ph"}, optional |-> {"signed", "proxy"}]

MANAWEB ==
    [name |-> "Manaweb",
     binding |-> [scryfallId |-> "Scryfall ID", name |-> "Name", setCode |-> "Set code", setName |-> "Set name",
                  collectorNumber |-> "Collector number", rarity |-> "Rarity", language |-> "Language",
                  finish |-> "Finish", quantity |-> "Quantity", condition |-> "Condition",
                  container |-> "Container", proxy |-> "Proxy", tags |-> "Tags", note |-> "Note",
                  price |-> "Price", currency |-> "Price currency", marketValue |-> "Market value",
                  marketCurrency |-> "Market value currency", acquiredAt |-> "Acquired", createdAt |-> "Added",
                  updatedAt |-> "Updated"],
     issued |-> {}, refuses |-> {}, optional |-> {}]

FORMATS == <<MANABOX, MANAWEB>>

Binds(format, field) == field \in DOMAIN format.binding

\* The columns an export writes: those it binds, and those a vendor issues.
Columns(format) == Range(format.binding) \cup format.issued

\* The same file read as figures its owner typed.
Rebindable(format) ==
    Binds(format, "marketValue") /\ ~Binds(format, "price") /\ ~Binds(format, "currency")
AsPaid(format) ==
    LET Source(field) == CASE field = "price" -> "marketValue" [] field = "currency" -> "marketCurrency" [] OTHER -> field
        fields == (DOMAIN format.binding \ {"marketValue", "marketCurrency"}) \cup {"price"}
                  \cup (IF Binds(format, "marketCurrency") THEN {"currency"} ELSE {})
    IN  [format EXCEPT !.binding = [field \in fields |-> format.binding[Source(field)]]]

\* What a file has to carry for a row to be a card.
Needed(binding) ==
    {"finish", "quantity"} \cup
    IF "scryfallId" \in DOMAIN binding THEN {"scryfallId"} ELSE {"setCode", "collectorNumber"}

\* A column an export fills in from the catalog, or that the vendor added
\* late, is not what a file is recognized by.
Required(format, field) == field \notin {"setName", "rarity", "language"} \cup format.optional

Fits(format, head) == \A field \in DOMAIN format.binding : Required(format, field) => format.binding[field] \in head

\* The first format whose every required column the file carries, by its place.
Detect(head) ==
    LET fits == {i \in DOMAIN FORMATS : Fits(FORMATS[i], head)} IN
    IF fits = {} THEN {} ELSE {Min(fits)}

WRITTEN == [nonfoil |-> "normal", foil |-> "foil", etched |-> "etched"]
FINISHES == [f \in {"", "normal"} \cup DOMAIN WRITTEN |-> IF f \in DOMAIN WRITTEN THEN f ELSE "nonfoil"]

Spelled(finish) == finish \in DOMAIN WRITTEN
\* A finish this vendor has no word for goes out as the record holds it.
Foil(finish) == IF Spelled(finish) THEN WRITTEN[finish] ELSE finish
Finish(text) == IF text \in DOMAIN FINISHES THEN FINISHES[text] ELSE "unknown"

Graded(condition) == IF condition \in CONDITIONS THEN Snake[condition] ELSE condition
\* Matched on what it says, not how it was typed.
Grade(text) ==
    LET said == {c \in CONDITIONS : text \in {c, Snake[c]}}
    IN  IF said = {} THEN "" ELSE CHOOSE c \in said : TRUE

-----------------------------------------------------------------------------
(* Export.                                                                 *)

NoLot == [quantity |-> 0, price |-> "", currency |-> "", marketValue |-> "", marketCurrency |-> "", at |-> 0]

Shown(one) == one.value.quantity + one.waiting

\* A lot worth counting as lost: something to say, and a column to say it in.
Carried(lot, format) ==
    \/ Binds(format, "price") /\ ~Blank(lot.price)
    \/ Binds(format, "marketValue") /\ ~Blank(lot.marketValue)
    \/ Binds(format, "acquiredAt") /\ lot.at # 0

\* Lots are spent in order until the copies run out.
Spend(acc, lot, format) ==
    IF lot.quantity < 1 THEN acc
    ELSE IF acc.left < 1 THEN [acc EXCEPT !.unspent = @ + IF Carried(lot, format) THEN 1 ELSE 0]
    ELSE LET q == Min({lot.quantity, acc.left}) IN
         [acc EXCEPT !.lots = Append(@, [lot EXCEPT !.quantity = q]), !.left = @ - q]

Unspent(count) == [lots |-> <<>>, left |-> count, unspent |-> 0]
Spent(count, acquisitions, format) == FoldLeft(LAMBDA acc, lot : Spend(acc, lot, format), Unspent(count), acquisitions)

\* One row per lot, and one with no figure for the copies past them all.
Split(count, acquisitions, format) ==
    LET spent == Spent(count, acquisitions, format) IN
    IF spent.left > 0
    THEN [spent EXCEPT !.lots = Append(@, [NoLot EXCEPT !.quantity = spent.left])] ELSE spent

Labeled(one, label) == <<label>> \in Range(one.tags)
Named(one) == one.scryfallId \in DOMAIN Printing
About(one) == Printing[one.scryfallId]

Cell(field, one, lot, places, lang) ==
    CASE field = "scryfallId" -> one.scryfallId
      [] field = "name" -> IF Named(one) THEN About(one).name ELSE ""
      [] field = "setCode" -> IF Named(one) THEN About(one).set ELSE ""
      [] field = "setName" -> IF Named(one) THEN About(one).set ELSE ""
      [] field = "collectorNumber" -> IF Named(one) THEN About(one).number ELSE ""
      [] field = "rarity" -> IF Named(one) THEN About(one).rarity ELSE ""
      [] field = "language" -> lang
      [] field = "finish" -> Foil(one.finish)
      [] field = "quantity" -> lot.quantity
      [] field = "condition" -> Graded(one.condition)
      [] field = "container" -> IF one.container \in DOMAIN places THEN places[one.container] ELSE ""
      [] field \in {"altered", "misprint", "signed"} -> Labeled(one, field)
      [] field = "tags" -> FlattenSeq(one.tags)
      [] field = "note" -> one.note
      [] field = "proxy" -> one.proxy
      [] field = "price" -> lot.price
      [] field = "currency" -> lot.currency
      [] field = "marketValue" -> lot.marketValue
      [] field = "marketCurrency" -> lot.marketCurrency
      [] field = "acquiredAt" -> lot.at
      [] field = "createdAt" -> one.createdAt
      [] field = "updatedAt" -> one.updatedAt

\* By set, number, finish and grade; what the catalog cannot name comes last.
Order(one) == IF Named(one) THEN <<About(one).rank, Len(one.finish), Len(one.condition)>> ELSE <<Cardinality(DOMAIN Printing) + 1, 0, 0>>
Before(a, b) ==
    LET x == Order(a.value) y == Order(b.value) IN
    \/ x[1] < y[1]
    \/ x[1] = y[1] /\ x[2] < y[2]
    \/ x[1] = y[1] /\ x[2] = y[2] /\ x[3] < y[3]
Sorted(stacks) == InOrder(stacks, Before)

\* What a read rebuilds of a lot: every figure it states, its date, and one
\* of the three there at all.
Money(amount, currency) == amount \in {"1.00", "2.50"} /\ currency \in {"GBP", "USD"}
Legible(lot) ==
    LET paid == ~Blank(lot.price) \/ ~Blank(lot.currency)
        worth == ~Blank(lot.marketValue) \/ ~Blank(lot.marketCurrency)
    IN  /\ paid => Money(lot.price, lot.currency)
        /\ worth => Money(lot.marketValue, lot.marketCurrency)
        /\ lot.at >= 0
        /\ paid \/ worth \/ lot.at # 0

VagueOfTags(one, format) == Binds(format, "tags") /\ \E tag \in Range(one.tags) : Len(tag) > 1   \* mutant: lots go unsaid
\* What a row carries that a read makes less of.
Vague(one, format) ==
    \/ Binds(format, "tags") /\ \E tag \in Range(one.tags) : Len(tag) > 1
    \/ \E lot \in Range(one.acquisitions) : ~Legible(lot)

States(one, Said(_)) == \E lot \in Range(one.acquisitions) : Said(lot)

\* Every field this card fills that a format may have no column for.
Filled(one) ==
    (IF Blank(one.container) THEN {} ELSE {"container"})
    \cup (IF Blank(one.note) THEN {} ELSE {"note"})
    \cup (IF one.proxy THEN {"proxy"} ELSE {})
    \cup (IF Blank(one.condition) THEN {} ELSE {"condition"})
    \cup (IF States(one, LAMBDA lot : ~Blank(lot.price)) THEN {"price"} ELSE {})
    \cup (IF States(one, LAMBDA lot : ~Blank(lot.currency)) THEN {"currency"} ELSE {})
    \cup (IF States(one, LAMBDA lot : ~Blank(lot.marketValue)) THEN {"marketValue"} ELSE {})
    \cup (IF States(one, LAMBDA lot : ~Blank(lot.marketCurrency)) THEN {"marketCurrency"} ELSE {})
    \cup (IF States(one, LAMBDA lot : lot.at # 0) THEN {"acquiredAt"} ELSE {})
    \cup {"createdAt"}
    \cup (IF one.updatedAt = 0 THEN {} ELSE {"updatedAt"})

FLAGGED == {"altered", "misprint", "signed"}
\* A label with a column of its own survives a format carrying no tags.
KeptLabel(tag, format) ==
    \/ Binds(format, "tags")
    \/ \E flag \in FLAGGED : tag = <<flag>> /\ Binds(format, flag)

\* What the file will not say, named before it is written.
Dropped(values, format) ==
    {field \in UNION {Filled(one) : one \in values} : ~Binds(format, field)}
    \cup (IF \E one \in values : \E tag \in Range(one.tags) : ~KeptLabel(tag, format) THEN {"tags"} ELSE {})

UNREAD == {"container"}
Unreadable(values, format) ==
    {field \in UNREAD : Binds(format, field) /\ \E one \in values : ~Blank(one[field])}

\* The file, and what it does not say: copies, except where a field is named.
Rows(stacks, format, places, english) ==
    LET out == Sorted(Only(stacks, {one \in Range(stacks) : Shown(one) >= 1}))
        values == {one.value : one \in Range(stacks)}
        Lang(one) == IF Named(one) THEN About(one).lang ELSE ""
        Turned(one) == Lang(one) \in format.refuses
        Said(one) == IF Turned(one) /\ english THEN "en" ELSE Lang(one)
        spent == [i \in DOMAIN out |-> Split(Shown(out[i]), out[i].value.acquisitions, format)]
        fields == [column \in Range(format.binding) |-> CHOOSE f \in DOMAIN format.binding : format.binding[f] = column]
        Row(one, lot) ==
            [column \in Columns(format) |->
                IF column \in DOMAIN fields THEN Cell(fields[column], one, lot, places, Said(one)) ELSE ""]
        Counting(Is(_)) == SumFunction([i \in DOMAIN out |-> IF Is(out[i].value) THEN Shown(out[i]) ELSE 0])
    IN  [head |-> Columns(format),
         rows |-> FlattenSeq([i \in DOMAIN out |->
                      [j \in DOMAIN spent[i].lots |-> Row(out[i].value, spent[i].lots[j])]]),
         losses |->
            [unnamed |-> Counting(LAMBDA one : ~Named(one)),
             unspelled |-> Counting(LAMBDA one : ~Spelled(one.finish)),
             unkept |-> Counting(LAMBDA one : Vague(one, format)),
             unspent |-> SumFunction([i \in DOMAIN spent |-> spent[i].unspent]),
             refused |-> Counting(Turned),
             dropped |-> Dropped(values, format),
             unread |-> Unreadable(values, format)]]

\* Everything, what no place holds, or one place.
ALL == "all"
UNFILED == "unfiled"
Within(stacks, scope) ==
    IF scope = ALL THEN stacks
    ELSE Only(stacks, {one \in Range(stacks) : one.value.container = IF scope = UNFILED THEN "" ELSE scope})

-----------------------------------------------------------------------------
(* Import.                                                                 *)

When(text) == IF text > 0 THEN text ELSE 0

LOT == {"price", "currency", "marketValue", "marketCurrency"}
LotRead(quantity, says, acquiredAt) ==
    LET Kept(amount, currency) == IF Money(says[amount], says[currency]) THEN {amount, currency} ELSE {}
        kept == Kept("price", "currency") \cup Kept("marketValue", "marketCurrency")
        Said(field) == IF field \in kept THEN says[field] ELSE ""
    IN  [quantity |-> quantity, price |-> Said("price"), currency |-> Said("currency"),
         marketValue |-> Said("marketValue"), marketCurrency |-> Said("marketCurrency"), at |-> When(acquiredAt)]

\* Flags first, then each part of the tags cell, once each and no more than fit.
TagsRead(flags, labels) ==
    LET said == flags \o labels
        first == Only([i \in DOMAIN said |-> i], {i \in DOMAIN said : \A j \in 1 .. i - 1 : said[j] # said[i]})
    IN  [k \in 1 .. Min({Len(first), TAGS}) |-> <<said[first[k]]>>]

\* What one row says, or why nothing can be made of it.
RowRead(row, format, catalog) ==
    LET Says(field, absent) ==
            IF Binds(format, field) /\ format.binding[field] \in DOMAIN row THEN row[format.binding[field]] ELSE absent
        print == Says("scryfallId", "")
        how == Finish(Says("finish", ""))
        quantity == Says("quantity", 0)
        lot == LotRead(quantity, [each \in LOT |-> Says(each, "")], Says("acquiredAt", 0))
        flags == Only(<<"altered", "misprint", "signed">>, {flag \in FLAGGED : Says(flag, FALSE)})
        one == [scryfallId |-> print, finish |-> how, quantity |-> quantity,
                createdAt |-> IF When(Says("createdAt", 0)) = 0 THEN Now ELSE Says("createdAt", 0),
                updatedAt |-> When(Says("updatedAt", 0)), condition |-> Grade(Says("condition", "")),
                tags |-> TagsRead(flags, Says("tags", <<>>)), note |-> Says("note", ""), proxy |-> Says("proxy", FALSE),
                container |-> "",
                acquisitions |-> IF Blank(lot.price) /\ Blank(lot.marketValue) /\ lot.at = 0 THEN <<>> ELSE <<lot>>]
    IN  CASE print = "" -> [why |-> "no print"]
          [] print # "" /\ how = "unknown" -> [why |-> "unknown finish"]
          [] print # "" /\ how # "unknown" /\ quantity \notin 1 .. COPIES -> [why |-> "not a count"]
          [] print # "" /\ how # "unknown" /\ quantity \in 1 .. COPIES /\ catalog
                /\ print \in DOMAIN Printing /\ how \notin Printing[print].finishes -> [why |-> "never made"]
          [] OTHER -> [why |-> "", one |-> one]

\* Rows in the file's order, and the lines nothing could be made of.  A file
\* without a needed column is one line skipped.
Read(file, format, catalog) ==
    IF \E field \in Needed(format.binding) : format.binding[field] \notin file.head
    THEN [rows |-> <<>>, skipped |-> {<<1, "no column">>}]
    ELSE LET read == [i \in DOMAIN file.rows |-> RowRead(file.rows[i], format, catalog)]
             good == Only(read, {r \in Range(read) : r.why = ""})
         IN  [rows |-> [i \in DOMAIN good |-> good[i].one],
              skipped |-> {<<i + 1, read[i].why>> : i \in {j \in DOMAIN read : read[j].why # ""}}]

\* What an import comes to against the collection as it stands: the steps, each
\* a record to write, and whether the collection holds it already.
Planned(all, one, at) ==
    LET fits == {i \in DOMAIN all : Joins(all[i].value, one)}
        Onto(so) == Merge(so.value, one, IF so.held THEN at ELSE Unwritten)
    IN  IF fits = {} THEN Append(all, [value |-> one, held |-> FALSE, step |-> TRUE])
        ELSE [i \in DOMAIN all |->
                 IF i = Min(fits) THEN [value |-> Onto(all[i]), held |-> all[i].held, step |-> TRUE] ELSE all[i]]
Planning(imported, all, at) == FoldLeft(LAMBDA so, one : Planned(so, one, at), all, imported)
Plan(imported, held, at) ==
    Planning(imported, [i \in DOMAIN held |-> [value |-> held[i].value, held |-> TRUE, step |-> FALSE]], at)

Weigh(plan, held) ==
    LET before == CopiesOf(Values(held))
        after == CopiesOf(Values(plan))
    IN  [records |-> Cardinality({i \in DOMAIN plan : plan[i].step}),
         joined |-> Cardinality({i \in DOMAIN plan : plan[i].step /\ plan[i].held}),
         adding |-> after - before, before |-> before, after |-> after]

-----------------------------------------------------------------------------
(* The characters a file is made of.                                       *)

COMMA == "comma"
QUOTE == "quote"
CR == "cr"
LF == "lf"
Special == {COMMA, QUOTE, CR, LF}

Doubled(text) == FlattenSeq([i \in DOMAIN text |-> IF text[i] = QUOTE THEN <<QUOTE, QUOTE>> ELSE <<text[i]>>])

\* Quoted only where a bare field would read as something else.
FieldWritten(text) ==
    IF Range(text) \cap Special # {} THEN <<QUOTE>> \o Doubled(text) \o <<QUOTE>> ELSE text

Between(parts, by) == FlattenSeq([i \in DOMAIN parts |-> IF i = 1 THEN parts[i] ELSE by \o parts[i]])

WriteText(rows) ==
    Between([i \in DOMAIN rows |-> Between([j \in DOMAIN rows[i] |-> FieldWritten(rows[i][j])], <<COMMA>>)], <<LF>>)
    \o <<LF>>

AtStart == [rows |-> <<>>, row |-> <<>>, field |-> <<>>, quoted |-> FALSE, skip |-> FALSE,
            line |-> 1, start |-> 1, begun |-> FALSE]

EndRow(s) == [s EXCEPT !.rows = Append(@, [fields |-> Append(s.row, s.field), line |-> s.start]),
                       !.row = <<>>, !.field = <<>>, !.begun = FALSE, !.line = @ + 1]

\* One character, knowing the next: a doubled quote and a line ending of two
\* are taken whole, the second of each being skipped.
Step(s0, ch, next) ==
    LET s == IF s0.begun THEN s0 ELSE [s0 EXCEPT !.start = s0.line, !.begun = TRUE] IN
    CASE s0.skip -> [s0 EXCEPT !.skip = FALSE]
      [] ~s0.skip /\ s.quoted /\ ch # QUOTE ->
            [s EXCEPT !.field = Append(@, ch),
                      !.line = IF ch = LF \/ (ch = CR /\ next # LF) THEN @ + 1 ELSE @]
      [] ~s0.skip /\ s.quoted /\ ch = QUOTE ->
            IF next = QUOTE THEN [s EXCEPT !.field = Append(@, QUOTE), !.skip = TRUE] ELSE [s EXCEPT !.quoted = FALSE]
      [] ~s0.skip /\ ~s.quoted /\ ch = QUOTE -> [s EXCEPT !.quoted = TRUE]
      [] ~s0.skip /\ ~s.quoted /\ ch = COMMA -> [s EXCEPT !.row = Append(@, s.field), !.field = <<>>]
      [] ~s0.skip /\ ~s.quoted /\ ch \in {CR, LF} ->
            [EndRow(s) EXCEPT !.skip = ch = CR /\ next = LF]
      [] OTHER -> [s EXCEPT !.field = Append(@, ch)]

Lined(text) ==
    LET Next(at) == IF at < Len(text) THEN text[at + 1] ELSE "end"
        end == FoldLeft(LAMBDA s, at : Step(s, text[at], Next(at)), AtStart, [at \in DOMAIN text |-> at])
    IN  IF end.field # <<>> \/ end.row # <<>> THEN EndRow(end).rows ELSE end.rows

Parse(text) == LET rows == Lined(text) IN [i \in DOMAIN rows |-> rows[i].fields]
=============================================================================
