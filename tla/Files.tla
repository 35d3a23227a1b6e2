-------------------------------- MODULE Files --------------------------------
(***************************************************************************)
(* The two pages a collection leaves and arrives by: web/src/export/       *)
(* Export.tsx and web/src/import/Import.tsx, over the view of the          *)
(* collection cards.ts gives them and the drain of import/part.ts.         *)
(*                                                                         *)
(* `repo` is what the repository holds, oldest first, and `parts` what an  *)
(* import put there and has not made into records yet.  A page sees `held` *)
(* and, once `listed`, the parts folded in.  Failed calls, second tabs and *)
(* devices are Collection's and ImportRunner's.                            *)
(***************************************************************************)
EXTENDS CardFile

CONSTANTS Goods,      \* the collections there may be at first: the records' values, and those
                      \* an earlier import has yet to land
          Strangers,  \* files of somebody else's an owner may choose
          Places,     \* containers, by key, and their names
          Added,      \* what an owner may add by hand
          Keys,       \* bound: the records the repository can mint
          Picks,      \* bound: how often a file is chosen or read again
          Edits       \* bound: how often the owner changes the collection, or it is read again

\* What a cell of each column holds.
CellOf(column) ==
    CASE column \in {"Quantity", "Added", "Updated", "Acquired"} -> Int
      [] column \in {"Altered", "Misprint", "Signed", "Proxy"} -> BOOLEAN
      [] column = "Tags" -> Seq(STRING)
      [] OTHER -> STRING
IsFile(text) ==
    /\ {"head", "rows"} \subseteq DOMAIN text
    /\ text.rows \in Seq(Range(text.rows))
    /\ \A i \in DOMAIN text.rows : \A column \in DOMAIN text.rows[i] : text.rows[i][column] \in CellOf(column)

ASSUME GoodsAssumption == \A some \in Goods : some.records \in Seq(Owned) /\ some.parts \in Seq(Owned)
ASSUME StrangersAssumption == \A text \in Strangers : IsFile(text)
ASSUME PlacesAssumption == \A key \in DOMAIN Places : Places[key] \in STRING
ASSUME AddedAssumption == Added \subseteq Owned
ASSUME FileBounds == {Keys, Picks, Edits} \subseteq Nat

VARIABLES
    repo, parts, minted,      \* the records, what is waiting, the last key minted
    held, ready, fresh, listed, \* the view: what it shows, and what has answered
    file,                     \* the file last downloaded, none or one
    readings, found, problem, \* the import page: reads under way, the one shown
    job, chosen, edited

repoVars == <<repo, parts, minted>>
viewVars == <<held, ready, fresh, listed>>
pageVars == <<readings, found, problem, chosen>>
vars == <<repoVars, viewVars, file, pageVars, job, edited>>

\* The collection with what an import is still landing folded in.  The first
\* record of an identity takes what fits; the rest are stacks no record holds.
Landed(all, entry) ==
    LET same == {i \in DOMAIN all : Stack(all[i].value) = Stack(entry)}
        into == all[Min(same)]
    IN  IF same # {} /\ Joins([into.value EXCEPT !.quantity = Shown(into)], entry)
        THEN [i \in DOMAIN all |->
                 IF i = Min(same) THEN [into EXCEPT !.waiting = @ + entry.quantity] ELSE all[i]]
        ELSE Append(all, [value |-> [entry EXCEPT !.quantity = 0], waiting |-> entry.quantity])
Shelved(records) == [i \in DOMAIN records |-> [value |-> records[i].value, waiting |-> 0]]
Landing(records, entries) == FoldLeft(LAMBDA all, entry : Landed(all, entry), Shelved(records), entries)

Stacks == Landing(held, IF listed THEN parts ELSE <<>>)

NoJob == [on |-> FALSE, after |-> 0, records |-> 0, sound |-> FALSE, wrote |-> {}]

Numbered(values) == [i \in DOMAIN values |-> [key |-> i, value |-> values[i]]]

Init ==
    /\ \E some \in Goods : repo = Numbered(some.records) /\ minted = Len(some.records) /\ parts = some.parts
    /\ ready \in BOOLEAN                      \* whether the cache painted
    /\ held = IF ready THEN repo ELSE <<>>
    /\ fresh = FALSE /\ listed = FALSE
    /\ file = {} /\ readings = {} /\ found = {} /\ problem = FALSE /\ chosen = 0
    /\ job = [NoJob EXCEPT !.on = parts # <<>>]
    /\ edited = 0

-----------------------------------------------------------------------------
(* The collection.                                                         *)

\* The repository answers, newest first.
Answers ==
    /\ ~fresh
    /\ held' = Reverse(repo)
    /\ ready' = TRUE /\ fresh' = TRUE
    /\ UNCHANGED <<repoVars, listed, file, pageVars, job, edited>>

Reloads ==
    /\ fresh /\ edited < Edits
    /\ edited' = edited + 1
    /\ fresh' = FALSE
    /\ UNCHANGED <<repoVars, held, ready, listed, file, pageVars, job>>

Lists ==
    /\ ~listed
    /\ listed' = TRUE
    /\ UNCHANGED <<repoVars, held, ready, fresh, file, pageVars, job, edited>>

\* One page at a time: another one is open only once this has been left.
Elsewhere == readings = {} /\ found = {}

Meanwhile == Elsewhere /\ edited < Edits /\ edited' = edited + 1 /\ job' = [job EXCEPT !.sound = FALSE]

Rewrites(key, value) ==
    LET Put(records) == [i \in DOMAIN records |-> IF records[i].key = key THEN [records[i] EXCEPT !.value = value] ELSE records[i]]
    IN  repo' = Put(repo) /\ held' = Put(held)

\* A plus: a copy more of the bare stack, or a record of its own.
Adds(value) ==
    LET same == {i \in DOMAIN held : Stack(held[i].value) = Stack(value)} IN
    /\ fresh
    /\ IF same # {}
       THEN LET one == held[Min(same)] IN
            one.value.quantity < COPIES /\ Rewrites(one.key, [one.value EXCEPT !.quantity = @ + 1]) /\ UNCHANGED minted
       ELSE /\ minted < Keys
            /\ minted' = minted + 1
            /\ repo' = Append(repo, [key |-> minted', value |-> value])
            /\ held' = Append(held, [key |-> minted', value |-> value])
    /\ Meanwhile
    /\ UNCHANGED <<parts, ready, fresh, listed, file, pageVars>>

\* The last copy of a stack goes, and its record with it.
Removes(key) ==
    /\ fresh
    /\ repo' = Only(repo, {one \in Range(repo) : one.key # key})
    /\ held' = Only(held, {one \in Range(held) : one.key # key})
    /\ Meanwhile
    /\ UNCHANGED <<parts, minted, ready, fresh, listed, file, pageVars>>

-----------------------------------------------------------------------------
(* Export.                                                                 *)

ReadyUnlisted == fresh                              \* mutant: the parts are not waited for
\* A view the repository has not answered for is a wrong file, and so is one
\* without what an import has not landed yet.
Ready == fresh /\ listed

Exports(at, scope) ==
    LET picked == Within(Stacks, scope)
        said == Rows(picked, FORMATS[at], Places, FALSE)
        inEnglish == Rows(picked, FORMATS[at], Places, TRUE)
    IN  /\ Ready /\ Elsewhere
        /\ \E one \in Range(picked) : Shown(one) > 0
        /\ \E text \in {said} \cup (IF said.losses.refused > 0 THEN {inEnglish} ELSE {}) :
              file' = {[format |-> at, of |-> picked, truth |-> Within(Landing(repo, parts), scope), text |-> text]}
        /\ UNCHANGED <<repoVars, viewVars, pageVars, job, edited>>

-----------------------------------------------------------------------------
(* Import.                                                                 *)

\* A file chosen is read; what was shown goes at once.
Chooses(text) ==
    /\ ~job.on /\ chosen < Picks
    /\ chosen' = chosen + 1
    /\ found' = {}
    /\ problem' = FALSE
    /\ readings' = readings \cup {[text |-> text, paid |-> FALSE, again |-> {}]}
    /\ UNCHANGED <<repoVars, viewVars, file, job, edited>>

\* The same text read as figures its owner typed, or back again.
Rereads ==
    \E one \in found :
       /\ ~job.on /\ chosen < Picks
       /\ Rebindable(FORMATS[one.format])
       /\ chosen' = chosen + 1
       /\ readings' = readings \cup {[text |-> one.text, paid |-> ~one.paid, again |-> {one.format}]}
       /\ UNCHANGED <<repoVars, viewVars, file, found, problem, job, edited>>

Reading(text, paid, at) ==
    LET stacks == Collapse(Read(text, IF paid THEN AsPaid(FORMATS[at]) ELSE FORMATS[at], TRUE).rows)
    IN  [text |-> text, paid |-> paid, format |-> at, stacks |-> stacks]

\* Nothing says which reading was asked for last: whichever ends is shown.
ReadsEnd(one) ==
    LET known == IF one.again # {} THEN one.again ELSE Detect(one.text.head) IN
    /\ one \in readings
    /\ readings' = readings \ {one}
    /\ IF known = {} THEN problem' = TRUE /\ UNCHANGED found
       ELSE found' = {Reading(one.text, one.paid, at) : at \in known} /\ UNCHANGED problem
    /\ UNCHANGED <<repoVars, viewVars, file, job, chosen, edited>>

Single(records) == \A i, j \in DOMAIN records : Stack(records[i].value) = Stack(records[j].value) => i = j

\* The file goes to the repository whole, weighed against the collection as the
\* page shows it.  `sound` while that was the collection, and still is.
Starts ==
    \E one \in found :
       LET weight == Weigh(Plan(one.stacks, Stacks, Now), Stacks) IN
       /\ ~job.on /\ ready
       /\ IF one.stacks = <<>> THEN problem' = TRUE /\ UNCHANGED <<parts, job>>
          ELSE /\ minted + Len(one.stacks) <= Keys
               /\ parts' = one.stacks
               /\ job' = [on |-> TRUE, after |-> weight.after,
                          records |-> Len(repo) + weight.records - weight.joined,
                          sound |-> fresh, wrote |-> {}]
               /\ UNCHANGED problem
       /\ UNCHANGED <<repo, minted, viewVars, file, readings, found, chosen, edited>>

DrainedOver(value, entry) == [entry EXCEPT !.updatedAt = Now]      \* mutant: written over
DrainedOnto(value, entry) == Merge(value, entry, Now)

\* An entry becomes copies of the record of its identity, one this import wrote
\* before the first the view holds, or a record of its own.
Drains ==
    LET entry == Head(parts)
        same == {i \in DOMAIN held : Stack(held[i].value) = Stack(entry)}
        recent == {i \in same : held[i].key \in job.wrote}
        one == held[IF recent # {} THEN CHOOSE i \in recent : \A j \in recent : held[j].key <= held[i].key ELSE Min(same)]
    IN  /\ parts # <<>> /\ fresh
        /\ parts' = Tail(parts)
        /\ IF same # {} /\ Joins(one.value, entry)
           THEN /\ Rewrites(one.key, DrainedOnto(one.value, entry))
                /\ job' = [job EXCEPT !.wrote = @ \cup {one.key}]
                /\ UNCHANGED minted
           ELSE /\ minted < Keys
                /\ minted' = minted + 1
                /\ repo' = Append(repo, [key |-> minted', value |-> entry])
                /\ held' = Append(held, [key |-> minted', value |-> entry])
                /\ job' = [job EXCEPT !.wrote = @ \cup {minted'}]
        /\ UNCHANGED <<ready, fresh, listed, file, pageVars, edited>>

\* The page left forgets what it showed; a reading that ends later shows nowhere.
Leaves ==
    /\ ~Elsewhere
    /\ readings' = {} /\ found' = {} /\ problem' = FALSE
    /\ UNCHANGED <<repoVars, viewVars, file, chosen, job, edited>>

\* The job is done with, or discarded; its file goes from the page with it.
Forgets ==
    /\ job.on
    /\ job' = NoJob
    /\ parts' = <<>>
    /\ found' = {}
    /\ problem' = FALSE
    /\ UNCHANGED <<repo, minted, viewVars, file, readings, chosen, edited>>

Texts == {one.text : one \in file} \cup Strangers

Next ==
    \/ Answers \/ Reloads \/ Lists
    \/ \E value \in Added : Adds(value)
    \/ \E one \in Range(held) : Removes(one.key)
    \/ \E at \in DOMAIN FORMATS, scope \in {ALL, UNFILED} \cup DOMAIN Places : Exports(at, scope)
    \/ \E text \in Texts : Chooses(text)
    \/ Rereads
    \/ \E one \in readings : ReadsEnd(one)
    \/ Starts \/ Drains \/ Leaves \/ Forgets

Spec == Init /\ [][Next]_vars

-----------------------------------------------------------------------------
(* Properties.                                                             *)

\* Copies by what `Of` says of each stack, however many stacks say it.
CopiesBy(stacks, Of(_)) ==
    LET said == [i \in DOMAIN stacks |-> Of(stacks[i])] IN
    [key \in Range(said) |-> SumFunction([i \in DOMAIN stacks |-> IF said[i] = key THEN stacks[i].quantity ELSE 0])]

Whole(stacks) == [i \in DOMAIN stacks |-> [stacks[i].value EXCEPT !.quantity = Shown(stacks[i])]]
Counted(stacks) == Only(Whole(stacks), {each \in Range(Whole(stacks)) : each.quantity > 0})

\* A file counts every copy there is of each printing and finish, those an
\* import has put in the repository and not made into records among them
\* (Export.tsx, ready; runner.ts, useListed: "short without saying so").
NeverShort ==
    \A one \in file :
       LET binding == FORMATS[one.format].binding
           rows == [i \in DOMAIN one.text.rows |->
                       [one |-> one.text.rows[i], quantity |-> one.text.rows[i][binding["quantity"]]]]
       IN  CopiesBy(rows, LAMBDA row : <<row.one[binding["scryfallId"]], row.one[binding["finish"]]>>)
           = CopiesBy(Counted(one.truth),
                      LAMBDA each : <<each.scryfallId, Foil(each.finish)>>)

\* A record a row of a file can say again: of a finish its printing came in
\* where the catalog knows it, a grade of the scale, and no more copies and tags
\* than a record may hold.  This app writes no other with a catalog at hand;
\* another client may, and nothing checks what a repository hands back.
Sayable(each) ==
    /\ ~Blank(each.scryfallId)
    /\ Named(each) /\ Spelled(each.finish) => each.finish \in About(each).finishes
    /\ Blank(each.condition) \/ each.condition \in CONDITIONS
    /\ each.quantity <= COPIES
    /\ Cardinality(Range(each.tags)) <= TAGS

\* The lots of a stack as far as its copies reach, the last cut to those left.
Reached(each) ==
    LET lots == each.acquisitions
        whole == [i \in DOMAIN lots |-> Max({0, lots[i].quantity})]
        before(i) == SumFunction([j \in 1 .. i - 1 |-> whole[j]])
    IN  [i \in DOMAIN lots |-> [lots[i] EXCEPT !.quantity = Max({0, Min({whole[i], each.quantity - before(i)})})]]

\* Whatever a read of the file would not put back, the export named: what is
\* told of each copy in fields the losses do not name is what was held, and so
\* is what each copy cost and when it came, where no figure is named.
Names(one) ==
    LET losses == one.text.losses
        unsaid == losses.dropped \cup losses.unread
        back == Collapse(Read(one.text, FORMATS[one.format], TRUE).rows)
        out == Counted(one.of)
        Field(each, field) == IF field \in unsaid THEN {} ELSE {each[field]}
        Said(each) == <<each.scryfallId, each.finish, Field(each, "condition"), Field(each, "container"),
                        Field(each, "proxy"), Field(each, "note"),
                        IF "tags" \in unsaid THEN {} ELSE {Range(each.tags)}>>
        Lots(stacks, Of(_)) == FlattenSeq([i \in DOMAIN stacks |->
            LET lots == Only(Of(stacks[i]), {lot \in Range(Of(stacks[i])) : lot.quantity > 0}) IN
            [j \in DOMAIN lots |->
                [of |-> stacks[i].scryfallId, said |-> [lots[j] EXCEPT !.quantity = 1], quantity |-> lots[j].quantity]]])
        Figures(lots) == CopiesBy(lots, LAMBDA lot : <<lot.of, lot.said>>)
    IN  /\ losses.unspelled + losses.unkept = 0 => CopiesBy(back, Said) = CopiesBy(out, Said)
        /\ losses.unspelled + losses.unkept + losses.unspent = 0
              /\ unsaid \cap {"price", "currency", "marketValue", "marketCurrency", "acquiredAt"} = {}
           => Figures(Lots(back, LAMBDA each : each.acquisitions)) = Figures(Lots(out, Reached))

\* So it is of every file of records a row can say, save what the docs say is
\* left silent: the lot the copies run out in is cut to those there are, and
\* what it stated beyond them is named nowhere (rows.ts, the losses; read.ts;
\* docs/scryfall.md "One lot ending short of the copies it states is the case
\* this leaves silent").
LossNamed == \A one \in file : (\A each \in Range(one.of) : Sayable(each.value)) => Names(one)

\* Every file names what a read cannot put back, whoever wrote its records
\* (rows.ts: "Copies saying something a row carries but a read cannot put
\* back").  It does not: a grade off the scale is carried, read as no grade
\* and counted nowhere (rows.ts, vague; formats.ts, grade).
UnkeptCounted == \A one \in file : Names(one)

\* While no identity passes a ceiling, a file read backwards is the same file:
\* what its receipt is recognized by does not depend on the order of its rows
\* (receipt.ts, digest).
Recognized ==
    \A one \in file :
       LET Marked(text) == LET rows == Read(text, FORMATS[one.format], TRUE).rows
                               stacks == Collapse(rows)
                           IN  [digest |-> Digest(stacks), single |-> Cardinality({Stack(s) : s \in Range(rows)}) = Len(stacks)]
           forth == Marked(one.text)
       IN  forth.single => Marked([one.text EXCEPT !.rows = Reverse(@)]).digest = forth.digest

\* The copies and the stacks the page weighed are those that land, when nothing
\* else changed the collection meanwhile (Import.tsx, lands; plan.ts, weigh;
\* part.ts, drain).
Promised ==
    job.on /\ job.sound /\ parts = <<>> =>
       /\ CopiesOf(Values(repo)) = job.after
       /\ Single(repo) => Len(repo) = job.records
=============================================================================
