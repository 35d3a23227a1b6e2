# Manaweb, specified

TLA+ models of [Manaweb](https://github.com/eth0net/manaweb), a Magic collection
manager whose owner's cards are records in the owner's own atproto repository
(a PDS), whose catalog of printings is built by a server and published to a
bucket, and whose browser client does nearly everything else. Paths below are
those of the repository; the line numbers of every definition are in
`PROJECT.json` under `map`.

Three kinds of part are modelled. Those where several actors change shared
state a step at a time: the import runner, the collection it writes into, the
publishing of the catalog, the browser's cached copy of it, and a scan, from
the camera to the import that carries it. Those that turn one form of the
owner's data into another and must not lose any of it: a file read and a file
written. And those that keep two views of one thing in step: the search page's
controls over a query, and the answer the page shows.

## The system and its parts

| Part | State | Operations | Acts on |
| --- | --- | --- | --- |
| Import runner, `web/src/import/runner.ts`, `part.ts`, `store.ts`, `receipt.ts` | one stored job per browser, a Web Lock, the parts last listed, what recent drains wrote, the era of the presses | attach, begin, tick (upload, drain), stop, carry on, discard, shed | the PDS, the collection's view |
| Collection, `web/src/collection/cards.ts`, `store.ts`, `Destination.tsx` | the held records, what drains wrote since the read, a cached copy | full read, add, amend, unfile, landed | the PDS |
| PDS client, `web/src/oauth/repo.ts` | none | list, create, put, delete, applyWrites | the PDS |
| Catalog publishing, `crates/appview/src/main.rs`, `crates/core/src/catalog.rs`, `crates/objects` | the card cache's current build, a directory, a bucket with a manifest | startup publish, weekly refresh and its retries, export, sweep, prune, upload | files browsers fetch |
| Browser catalog, `web/src/catalog/load.ts`, `store.ts`, `useCatalog.ts` | a disk cache, the loads out, what each page shows | load, check, apply, forget | the bucket |
| Card cache and artwork hashes, `crates/core/src/cards.rs`, `crates/artwork` | a SQLite database, attempts per artwork | replace, top up | publishing |
| Scan session, `web/src/scan/Scan.tsx`, `Review.tsx`, `store.ts`, `scratch.ts`, `load.ts`, `frames.ts` | the list and the grade in memory and in the browser's database, the camera's attempt, the reads out, the keep under way | start, stop, take, agree, every move of the list, join, throw away, keep | the runner's `begin()` |
| Scan engine, `web/src/scan/engine.ts`, `crates/scanner` | a worker, an index of hashes | read a frame | the scan session |
| Import reading, `web/src/import/{csv,formats,read,plan,receipt}.ts`, `Import.tsx` | the readings under way, the one shown | choose, read again, start, forget | the runner |
| Export, `web/src/export/{rows,csv,scope}.ts`, `Export.tsx` | none | the view to a file and what it loses | a file |
| Catalog format and search, `web/src/catalog/{rows,columns,strings,query,search,index}.ts` | the decoded columns | decode, parse, find, order | pages |
| Pages and filters, `web/src/{Search,Sets}.tsx`, `terms.ts`, `filters/` | the text of the box, the query of the address | type, submit, press a control | search |
| Session, service worker, Scryfall client, bucket verification, tools | the OAuth library's session, an HTTP cache | — | — |

How they meet: a press on a page goes to the runner or to the collection, and
both write to the same card records of the same PDS. The runner reads the
collection's view when it drains (`snapshot`) and hands it what it wrote
(`landed`). Every tab has a runner and a collection of its own; tabs of a
browser share the stored job and the lock, and nothing tells one tab of a
record another wrote. Devices share only the PDS. Publishing and the browser
meet only through the bucket. A scanned list and a file chosen both end in
`begin()`, one job to a browser, and an export reads the same view, with what an
import is still landing folded in. Every control of the search page edits the one query
string, and the page shows what `find` answers for it.

What is hard here, and what each part has to get right:

* **Runner.** Calls whose answer is lost though they landed; two tabs or two
  devices on one part; a stop or a discard pressed while a call is out; a tab
  that dies at any await. *A card is in the job, in the repository or drained
  until the owner discards it; each part drains once; a receipt comes before
  its parts; a stop and a discard last; "done" means drained.*
* **Collection.** Whole-record writes computed from a view; a merge is two
  calls; a paged read that drains overtake; two stores that must change
  together. *The repository comes to hold what was asked for; no copy is lost
  half way; the total never dips; a deleted place is empty.*
* **Publishing.** A file that is half written, a manifest put that lands and
  answers with an error, a death anywhere, a failure that must not wait a week.
  *A file a client may be fetching is there; a torn file is never uploaded; the
  newest build is published in the end.*
* **Browser catalog.** Loads that overlap, a disk that fills, a cache cleared
  under a load. *The stored manifest never names a file that is not stored; an
  open page comes to offer a new build.*
* **Scan session.** Cameras and reads that answer after the person has left or
  asked again; a database that may refuse any transaction; a read of what was
  saved that answers after a press; a hand-over to an import that clears the
  only copy. *A card written down stays until it is taken off or carried; what is stored
  is what is shown; no camera stays lit; a card counts once.*
* **Files.** A view the repository has not answered for, parts still landing,
  fields a format has no column for, ceilings that split a stack, readings that
  end in any order. *A file is never short without saying so; what it loses is
  named; a file is recognized however its rows are ordered; what was weighed is
  what lands.*
* **Search.** One string that a person types and nine controls cut and compose
  in place; groups, negation and questions about one printing in a tree about
  cards; columns where a number stands for none. *What the controls show is what is
  asked; a term nobody owns survives; the answer is the first of what matches, in
  order.*

The full list of hazards, each at its line and with the property that watches
it, is in `PROJECT.json`.

## The modules

| Module | Models |
| --- | --- |
| `ImportRunner` | the runner in every tab of every browser, against one PDS |
| `ImportPromise` | what it promises of one part: device, repository, then cards or gone |
| `ImportRunnerProofs` | twelve theorems about the runner: four always, four where a browser has one tab, four where there is one tab in all, one of them the refinement of `ImportPromise` |
| `Stacks` | the arithmetic of stacks and parts: joins, apply, then, fold, index, drain, without |
| `Collection` | the views, the presses and the drains of every tab of one browser |
| `CollectionProofs` | five theorems about it |
| `CatalogBuilds` | builds and the files they name |
| `CatalogShelf` | what a client may count on: the abstract specification of publishing |
| `CatalogPublish` | the server's process, its directory and the bucket |
| `CatalogPublishProofs` | four theorems, one of them the refinement of `CatalogShelf` |
| `CatalogLoad` | the browser's side, composed with `CatalogShelf` instead of the server |
| `CatalogLoadProofs` | three theorems about it, for one page |
| `ScanList` | a read made into a stack, every move of the list, the frames held back |
| `ScanSession` | one tab's scan: camera, reads, list, grade, database, keep |
| `ScanSessionProofs` | six theorems about it |
| `CardFile` | files to stacks and stacks to files: formats, rows, lots, losses, collapse, plan, digest, quoting |
| `Files` | the export and the import page over one collection |
| `CardFileProofs` | what the algorithms of `CardFile` and `Files` compute, for lists of any length |
| `FilesProofs` | four theorems about `Files` |
| `Query` | the query language and the edits of `terms.ts` |
| `CatalogIndex` | the catalog's rows, strings and columns, and search over them |
| `Search` | the search page, a set's page and their controls |
| `FoldFacts` | induction over the numbers, the greatest and the least of a set, that a fold of the community modules computes what it says, and what becomes of a sum when terms are taken, added, split or none; folds over sequences, and what is weighed of one |
| `MCImportRunner`, `MCCollection`, `MCCatalog`, `MCCatalogLoad`, `MCScanSession`, `MCFiles`, `MCSearch` | values of the constants for TLC, and the pure operators checked over bounded inputs |

`CatalogLoad` and `CatalogPublish` meet in `CatalogShelf`: the server is shown
to implement the shelf, and the browser is checked against any shelf.

### ImportRunner

A tab runs three threads, and any await of one lets the others in: `attaching`
(`attach()`), `step` (what one tick does under the lock: upload, list, drain,
and the listing after a refusal), and `press` (begin, stop, carry on, discard).
A call is three steps: it is sent (`StepSends`, `StepDrains`, `DropRemoves`), the PDS decides it
(`Lands`, `Denies`, `Declines`), and the tab hears of it (`UploadLanded`,
`DrainLanded`, `Delayed`, `UploadDenied`, `Fails`...). `moved` is the era having changed
since the step began, which `Keep` compares as `keep()` does; `stopping` is the flag
`tick`'s finally block honours. `created`, `drained`, `removed` count what
became of each part and `fate` what the owner asked of each file: they are there for
the properties and nothing in the model reads them except `fate`, through which
each reading is begun once.

Abstracted: time (a step whose deadline is ahead does nothing but announce, so
a deadline passing is the step being taken); the number of misses (only whether
there are any is ever tested, apart from the length of a wait); totals,
progress and wording; the burst loop, whose iterations are the same steps. A
listing is read and answered in one step. The deletes of a discard are one step
with three outcomes. A call whose answer is lost has landed by then or never
does. A press waits for the one before it in the same tab, which the buttons of
the import page do not: a stop whose write of the job comes after the clear of a
discard pressed within the same read of the disk is not in the model
(`CanPress`). Sign-out, and a job store that fails inside `keep()`, are left out.

With Web Locks a job stands for as long as a step is out, so nothing else can be
begun under one; without them a discard clears the job while its step still
waits for an answer, and the import begun then is `exposed` to it (`Begins`):
that step may clear the new job. `NeverLost` and `DoneIsDone` are of the imports
begun with no step out, with Web Locks or without; `Sheltered`, that with them
no import is begun otherwise; and `EraGuards`, violated, is the same claim of
every import.

### Collection

A card stands for a stack's whole identity but its place, so regrading and
moving are the same change to the model as to `stack()`. A view is a function from record
keys to counts; where the code takes the first record that fits, the model
takes any. A press computes its writes, its deletes and the view after it when
it is pressed (`Amends`, `Adds`, `Unfiles`), sends them a call at a time
(`Puts`, `Makes`, `Removes`), and only then shows the view it computed
(`PressEnds`). A drain is computed from the view and `later` (the runner's
`recent`), lands as one transaction, and is heard with the part leaving
`pending` in the same step (`Hears`, which is `moved()`). A read goes from the newest
record down, a page of one at a time, so that a write may fall on either side of
where it has come to. A cache may paint first (`Paints`) and is written when the view
differs (`Remembers`).

No button waits for the press before it, so two presses of a tab may be under way
(`press` and `aside`, whose calls come in any order, `Turns`); two is a bound. A
list scanned into a place lands in it and a file unfiled (`Imports`).

The upload belongs to `ImportRunner`: here the parts of a file appear with the
listing that finds them, and a drain that is refused for want of time does not
appear. `wanted`, `least` and `sure` are the owner's account, kept by the
presses and read only by properties. After a press whose call failed, the owner
was shown an error and what is wanted is what the next full read shows: until
then `Kept` and `Seen` say nothing and `NeverFewer` still does.

The code computes whole records from a view, and what that rests on does not
always hold. The steps where it does not are named, `Events`, each a thing the
pages allow: a press that overlaps another, is out together with a drain, meets what a
drain wrote or comes before the repository has answered; a place removed that waiting
copies name; a lost answer of a drain or of the last call of a merge; an
unfile that fails. Such a step sets `astray`, which the page opened anew resets, since
its read shows what there is. `Kept`, `NeverFewer`, `Seen` and `Filed` are of
the time before a step goes astray and after the page is opened anew, and hold whatever is
in `Events`; `Asked`, `NeverDips` and `EmptiedFirst` are what the
repository says of itself without that condition, and *Violated* below names the step by
which each is.

`Only` and `Over` are a map of one record and one map laid over another. They stand
where `:>` and `@@` would, whose definitions in `TLC` the prover does not expand, and counts are
`SumFunction` of a function for the same reason.

### CatalogPublish, CatalogShelf, CatalogLoad

`CatalogPublish` is one process: sync, top up, export, sweep, prune, upload,
close, put the manifest, sleep. The writes of one export and the puts of one
upload are each one step with an action for their partial failure, since nobody
reads the files before a manifest names them; a write that fails or a death
leaves any file torn. The bucket's clock is one bit, whether its manifest has stood
for a day. `told` is the set of builds a client may still be fetching: all named
since, until the day passes. A server with no bucket, with the sync turned off, or
beside a second publisher is left out.

`CatalogLoad` models each load as its own thread of reads, fetches and writes,
a page holding at most one at a time by its promise and letting go of it
without stopping it. That a client takes less than a day is the guard of
`Expires`. The browser's HTTP cache and the decoding of a file are left out.

### ScanList and ScanSession

`ScanList` has a definition for each function of `scratch.ts`, with the list as a
sequence of stacks, and `ScanSession` the state around it. The browser's
database is a queue, `txns`: a tab's transactions run in the order they were
made and any may fail, so a write, a clear or a read is asked in one step and done,
or refused, in another, with presses, reads and a death between. `Change` is the list
and the write that `commit` follows it with, one step because the code awaits nothing
between them; `joined` and `sealed` are the refs of `useScratch`, `graded` that of
`useGrade`. An attempt at the camera carries the `run` it began with, as
`start()` does, and goes through the index, the camera and the play; `lit` is the
set of attempts whose tracks are live. A read is one step with any answer of
`Reads`, because the engine's work ends in one message.

`saved`, `gone` and `untidy` are the person's account: what was once stored, what was
taken off or carried, and whether a clear or a grade failed to reach the database
(after which the database is known to lag). `keep` is the keep the review page
knows of; leaving the page loses `keeping`, which is the component's own, and the keep goes on in
`left`, so that a second may be pressed of the same list (`again`). `standing` is
the runner's job. Abstracted: what a frame looks like and
where a card lies in it, the torch, the margins and distances but for their order
against `FLOOR`, and the wording of a problem but for whether there is one. The runner
is `Finds` (no job stands), `Begins` (its job is written down), `Refuses`, and `Lands` (its import is over). One tab: two over one scratch store
are left out.

### CardFile and Files

A row is a function from column names to cells, so the parser of a file is
checked by itself (`CsvRoundTrip`) and the pages work on rows. A printing's name, set,
number and language are what the catalog says; dates are instants, prices texts.
`CardFile` keeps every refusal and every loss the code counts: rows skipped, fields
dropped, fields a read would not put back, figures without a currency, lots
past their ceiling. `Files` is one owner with one page open at a time over a
collection as `cards.ts` shows it, with an earlier import's parts still waiting at first or not; the
repository answers, the parts are listed, and the cache paints, in any order.
`file.truth` is what the collection really was when a file was made, kept for
`NeverShort`. Calls do not fail here and nothing else writes: that is
`Collection`'s and `ImportRunner`'s.

What the code does with `sort`, `filter` and `reduce` is written so that it can be
proved about: a stable sort is an order of places (`InOrder`, from `Placed` one by one), a filter is
`Only`, and each loop is a fold over a step of its own name (`Collapsed`,
`Planned`, `Spend`). The assumptions on the constants say which set each is
from and nothing of their values (`PrintingAssumption`, `GoodsAssumption`, `StrangersAssumption`).

### Query, CatalogIndex and Search

A query is the sequence of its tokens, so a span is a place in it; a value is the
sequence of its parts, and a name the sequence of its syllables. `Query` is
`query.ts`, the recursive descent as one function of a place in the tokens, and `terms.ts`, which
cuts a control's terms out and composes them again. `CatalogIndex` reads rows out of bytes,
strings out of a pool and numbers out of columns as the code does, a width and a
value for none for each, and `Truth` answers a tree for a card, one printing at a
time where a term is about printings. `Search` has the box, the address, the set
page's code and every control that rewrites the query; `meant` is what was typed and
pressed, kept for the properties. The terms of both questions of color are read
(`Terms`), and which of them the page shows (`Asked`); the select of the
subtypes is `every`, the page's own. Left out: compression and UTF-8 but for how many
bytes a character takes, `prints()` by language, printed names, images, the paging of rows, the
set list's own filter, and the subtypes, which are a constant.

## The runs

Passing:

| Run | States | Shows |
| --- | --- | --- |
| `runner_alone` | 400,194 | one tab with Web Locks or without, two files one after the other, every event but one: `NeverLost`, `Sheltered`, `StopSticks`, `NoRevival`, `DoneIsDone`, and that the runner implements `ImportPromise` (`KeepsPromise`) |
| `runner_devices` | 728,082 | three tabs on two browsers, with or without locks, on one part: `Accounted`, `ReceiptFirst`, `OneWriter` |
| `runner_live` | 1,412 | a tab that stays open: `Finishes`, `NeverCollides`, `NeverFails` |
| `collection` | 4,581,391 | one tab opened and closed at will, dying too, two presses, two parts of one card landing in a place, and nine of the ten events: `Kept`, `NeverFewer`, `Seen`, `Filed` until a step goes astray and once the page is opened anew |
| `catalog_publish` | 103,131 | three builds with every failure: `KeepsShelf`, `SendsWhole`, `SleepsPublished`, `Published` |
| `catalog_load` | 20,434 | a page against the shelf, offline, full disk, reset and close: `CachedWhole`, `NeverGone`, `Offers` |
| `scan_session` | 1,023,828 | one tab, two frames, three starts of the camera, any transaction failing and the tab dying: `WrittenThrough`, `LightOut`, `CountedOnce`, `PickWins`, and that a read is `Answered` |
| `scan_left` | 2,775,984 | the same with one start, and the review page left while a keep waits and come back to: `SavedStays`, `KeptOnce` |
| `files` | 141,948 | fourteen collections, either format, two choices of a file, one change between: `NeverShort`, `LossNamed`, `Recognized`, `Promised` |
| `search` | 17,037 | six cards and eight printings, a query typed and three presses: `Steered`, `Unmixed`, `Found` |

Pure operators are checked by TLC as named `ASSUME`s of the MC modules, over every
input up to a size: `JoinedWhole`, `NamedShown`, `NothingNamed` and `FramesHeld` in
`MCScanSession`, `CsvRoundTrip` in `MCFiles`, and `RowsRead`, `RowsParted`,
`StringsKept`, `ColumnsKept` and `RunsKept` in `MCSearch`.

Every action fires in one of them, and every property has a mutant: a
plausible slip in one mapped definition, listed in `PROJECT.json`, under which
TLC finds it violated.

**Bounds.** Two files of two and one parts are the least in which a part is left
when another lands, in which one file is discarded while the other runs, and in which a
partial upload differs from a whole one. `MaxLandings` = 2 is one duplicate. Three
tabs on two browsers are the least with two tabs on one lock and one outside
it. In `collection` both parts hold the card that has a record in the place already and
one outside it, so that a drain joins a record of the read and then one of the last
drain, or makes one where a press took it away; two presses are the least that overlap,
and enough to build a stack and then merge, split or unfile it; `COPIES` is 3, so merges meet the
ceiling; `Keys` is 4, the two records at first and two more, and a behaviour that would
mint a fifth is cut there. A step goes astray within the first press or two, and closing
the tab lets the account begin again. Three builds are two replacements: the second build
shares its pair with the first and adds an artwork index, the third has new cards; the waits 9, 1, 3 stand
for a week, five minutes and six hours, of which only the order is used.
In `scan_session` two reads are the least that can be joined, or be out at once;
three starts let a camera answer for an attempt two before; one press on the list or
the grade is enough for each kind of press to meet every other step, since `Moves` bounds
only presses and deaths while reads, agreements, keeps and transactions are free; `FLOOR` is 5,
with one read the margin carries and one that names two printings. In
`files` each collection holds one thing a file may lose, or two stacks a ceiling keeps
apart; `COPIES` is 4, `LOTS` and `TAGS` 2, so all three ceilings are met; two choices are
the least that race. In `search` three presses are the least that can ask, refuse and
move a color after something was typed, and the six cards are one for each case the
code tells apart: no rank, two faces, a token, a name within a name.

**What a passing run leaves out**, by leaving a name out of `Events`. In
`runner_alone` "early", an import begun before the opening listing answers, which violates
`NeverLost`. In `collection` "early", a press over what the cache painted, for the number of states
it makes: with one card and three keys TLC finds the same properties to hold with it as well (7,686,529
states), and the theorems have it. In `catalog_load` "again", a second
Forget while the first is out, and more than one page. In `scan_session` and `scan_left` "meanwhile", a move
while a keep waits for the import to begin, and "early", a move before the database has answered what
it holds: either violates `SavedStays`. In `scan_session` "leaves", the page left while a keep waits, for the
number of states it makes with three starts. What `LossNamed` leaves out is in the
property: records no row can say again (`Sayable`), which `files` has among its collections, and the lot the
copies run out in, which the docs leave silent. So is what `Unmixed` leaves out, a select that reads what
the query does not ask (`Stale`).

**Fairness.** For the runner: weak for the tab's own steps (a tick every few
seconds while a job stands), strong for a call landing, a listing answering and
a verdict being heard, because a network loses calls again and again and only must not lose all
of one kind for ever; none for presses, failures, closing. `Finishes` is checked where no
discard, stop, close or named error happens. For publishing: weak fairness of the
process's own progress; `Published` is conditional on nothing breaking from
some point on. For the browser: weak for a load's own steps and for the clear, and
for a check asking; strong for its answer. For a scan: weak for a fetch, for the read that
follows it and for the database, since each ends or fails (`store.ts` settles
every transaction); none for the camera or the person.

### Violated

Two runs each end in a disagreement between the code and what the repository says of it:

| Run | Property | What happens |
| --- | --- | --- |
| `import_discard` | `DiscardSticks` | an upload stopped half way has parts landed that this tab never listed; discard deletes what was listed, none, and the next open drains them |
| `collection_overlap` | `Asked` | two quick pluses write one count (`cards.ts:467`) |

The rest of them are not runs of their own. TLC finds each within seconds once the property
stands alone in the cfg of a passing run, with the events and constants named:

| Property | In | With | What happens |
| --- | --- | --- | --- |
| `EraGuards` | `runner_alone` | as it is | without Web Locks a listing that comes back empty after its import was discarded and another begun clears the new job (`runner.ts:317-321`, against the comment at 100-101) |
| `NeverLost` | `runner_alone` | "early" added | `attach()` writes the job it found over one begun while its listing was out (`runner.ts:503-516`, against 554-556) |
| `Kept` | `collection` | `Tabs` = {t1, t2}, `Presses` = 0, no events | a second tab merges a part into the count it read before the first tab drained the other part (`part.ts:113`), and copies are lost, where `docs/data-model.md:281-283` has the tabs race with no lock and no bookkeeping |
| `Asked` | `collection` | "fails", "lost" | a drain whose answer is lost is not in the view, and the next press writes the older record, where `docs/atproto.md:63` says a lost answer needs no investigation |
| `Asked` | `collection` | "mixed" | the next drain of a card takes the record as the last drain wrote it, and a press between them is undone (`part.ts:68-81`) |
| `NeverDips` | `collection` | "together" | a press shows the view it was pressed on, without what a drain wrote meanwhile (`cards.ts:449`, `docs/data-model.md:298-300`) |
| `EmptiedFirst` | `collection` | "fails", "stuck" | a place is deleted although a card in it failed to be unfiled (`Destination.tsx:63-65`, `cards.ts:113-114`) |
| `EmptiedFirst` | `collection` | "waits" | a place is deleted while copies scanned into it wait to be drained (`cards.ts:510`) |
| `OnePlace` | `scan_left` | as it is | Keep, Back, Review and Keep again: two keeps find no job standing and both write theirs (`Review.tsx:95`, against 219-220) |
| `SavedStays` | `scan_left` | "meanwhile" added | a card read while `begin()` waits for the runner is cleared with the list that was handed on, which it is not in (`Review.tsx:139`, against 126-127) |
| `ThreeStates` | `search` | as it is | refusing the last color an identity wants turns the page to the other question, and the pip refused is unlit (`Colors.tsx:34`, `docs/search.md:184-185`) |
| `Viewed` | `search` | as it is | the select of the subtypes is not read from the query: after a return it shows any where the query asks all (`Types.tsx:54`, `docs/search.md:138`) |
| `UnkeptCounted` | `files` | as it is | a grade off the scale is exported, read as none and counted nowhere (`rows.ts:259-265`, against 39-41) |

## The proofs

For every value of the constants, under the named assumptions of each module
(finite counts are assumed only in `Collection`, whose sums need them; that a browser has
locks is assumed nowhere):

* `ImportRunnerProofs`: **TypeCorrect**. `Shaped`, which ties the position of a
  step or a press to what it carries, is what makes the type inductive.
  **AlwaysAccounted**: every landing of a part is drained once, removed once or
  still there. Only what the PDS does changes any of the four, and each such
  step changes two of them together. **AlwaysOneWriter** from `Locked`, which
  says a tab whose step or discard is out owns its browser's lock. `Locked` is needed
  because `OneWriter` alone says nothing of the lock.
  **AlwaysReceiptFirst** from `Receipted`: every copy of a job anywhere, stored, in a
  step, in a press or in an opening tab, is backed by a receipt it still owes or
  one that has landed. Without the copies in flight the invariant is not inductive,
  since any of them may be written back.
* `ImportRunnerProofs` as well, for any number of devices with one tab to a browser (`OneTab`), any files,
  losses and refusals. **StopsStick**, **NothingLost** and **NoneExposed** without "early" (an import begun before
  the opening listing answers). None asks for Web Locks: where a browser has none, `NeverLost` is of what was
  begun with no step out, and NoneExposed says that where it has them there is nothing else. Its invariant is
  `Ordered` with `Locked`: while a step is out its tab owns the lock, so the job it was sent for still stands and begin() gives way. `Ordered` says which of a tab's three threads may be under way
  together and what the job in a step has to do with the job stored; `Told`, that what a tab
  says is stored is; `Apart`, that no two browsers hold one part; `Covered` and `Reached`, that a
  part of an import begun with no step out and not yet landed is in the job its own browser keeps. **NothingCollides** where
  besides no tab is closed or carried on (`Patient`) and no two files are alike (`Distinct`):
  `Signed` ties receipts to the imports begun and `Unsent` says that a job without misses has no
  part of the burst it is about to send in the repository. Closing or carrying on forgets the misses, and TLC
  violates `NeverCollides` with either.
* `ImportRunnerProofs` as well, for one tab (`Alone`) with or without Web Locks, whatever is lost,
  refused, closed, stopped or discarded. **PromiseKept**, the refinement of `ImportPromise` step by
  step, and **DoneDrained** from `Settled`: a listing that was sent before a part landed is never the
  one that ends the import it was sent for, nor one begun since with no step out. **NothingRevives** from `Revived` (after a discard no copy of the job in
  a step or a press is written back) where a file has something in it (`Filled`). **NothingFails** from `Unfailed` where
  the PDS names no error of its own (`Spared`). With a second device TLC
  violates each of the four, since another tab's drains and discards pass this one by: that is what
  `Alone` is for.
* `CatalogPublishProofs`: **TypeCorrect**; **ImplementsShelf**, the refinement of
  `CatalogShelf`, from `Onward` (neither the directory nor the bucket names a
  build the cache has not reached) and `Promising` (what is promised is in the
  bucket, and what prune is about to take is not promised); **AlwaysSendsWhole**
  from what export has just made whole; **AlwaysSleepsPublished**.
* `CatalogLoadProofs`: **TypeCorrect**, for any number of pages. **AlwaysCachedWhole** and
  **AlwaysNeverGone** for one page that is asked to forget once at a time (without "again"), which
  is what the violated cases of *Seen, and not run* show to be needed. `Alone`
  says one load at most is out, and none while the cache is cleared; `Shelved`,
  that the shelf holds what it promises; `Carried`, where the pair of the manifest a
  load carries is at each of its steps: still promised, in hand, or stored.
* `ScanSessionProofs`: **AlwaysLightOut** from `Attempts`: an attempt that is
  waiting for its camera belongs to a run, and only the last run's tracks may be
  live. **AlwaysPickWins** and **AlwaysWrittenThrough**, both without "early". The last grade queued is the
  one shown and no write-across of an old one stands behind it (`Said`, `Words`); the last
  write of the list in the queue leaves what is shown, and the recall is first in it and finds nothing to
  join (`Due`, `Through`). **AlwaysSavedStays**, **AlwaysCountedOnce** and **AlwaysKeptOnce**, without
  "early" and "meanwhile", the page left during a keep or not (`KeptOnce` is of lists no second keep took): every list the queue holds loses nothing of what was saved nor
  of what the lists before it leave, and none after the last clear holds a stack an import carries
  (`Holding`, `Carries`); a read's number is in a list only once the read is neither out nor offered
  (`Numbered`, `Past`). Under them are lemmas on what each move makes of a list of any
  length: no second stack of a read, and no stack gone but the one named. The queue is
  what makes all of these inductive: what the database holds says nothing while a write waits.
* `CollectionProofs`: **AlwaysTyped**, for any tabs and events. `Typed` says besides `TypeOK` that
  a view, a call or what a tab remembers names only keys at or below the last one minted,
  since `TypeOK` with any key up to the bound says nothing of the next one. Emptying a
  place is a fold whose order is not told, so what it comes to is proved of every subset of the place's
  stacks (`EmptiedTable`). **OneTabKeeps** and **OneTabSeen**, for one tab (`Alone`), whatever the
  events, the start, the file and the presses, two of them at once included: the hypotheses are that there is one tab and nothing else,
  `astray` says in the claim itself what it is not about, and *Violated* above what a second tab does. Neither is inductive, for the repository leaves the
  account at every call of a press and comes back with the last. `Minded` is: while no step went astray `Orderly`
  says which of a tab's reads, presses and calls go together, that what was read so far is what the
  repository holds from there on, and that its list of parts is the parts there are but for
  a call not yet heard of; `Accounted` says for each of nine moments what is to come
  to the owner's account: at rest, an add not made and made, an edit with writes
  still to send (the view it ends in is the repository with those laid over it and the drops gone), a
  container about to be deleted, a drain out, a shed out, a call landed, a call denied. Each step that sets `astray` is shown to be the only one that meets
  what it names (`PressMeets`, `FailMeets`), and a page opened anew to start over from what the repository holds. Under it
  is the arithmetic: a merge, a split and a move exchange as many copies as they name (`ApplyDoes`), an emptied
  place gives up all of its own (`EmptiedMoves`), a drain adds what its part held whichever
  entries join and whichever keys are minted (`LandingCounts`), a shed takes out what it was asked to over
  any number of parts (`ShedWaits`).
  **OneTabFiles**, under `Alone` as well: a container is deleted only once no record and no waiting copy names it. `Cleared`
  says so of the repository when the container is about to go, and of the view after when its last calls are still
  to be sent; that the repository comes to be that view is what `Accounted` gives.
  **OneTabNeverFewer**, for `Alone` and any events. It holds at every moment and also after a
  press that failed, where `Accounted` is silent, so its invariant is another: what the view and the
  repository have in common (`Common`, the lower of the two counts of each record) with the parts
  that wait is as much as is owed (`Backs`), since the next press writes what its view says and
  takes away only what the view knew. `Stocked` says which view does so at each moment: at rest and before an add the one
  shown; in a press half sent the one it was computed from if it only lifts records,
  else what is left of that one (`Base`), with the calls still to be sent enough for the one it ends in (`After`);
  with a drain landed and not heard of, the one with what it wrote laid over. A merge writes before it
  drops, and this is why it must: failing between the two counts a stack twice, the
  other order would lose it. Under it: copies are counted record by record, up to the last
  key minted (`Padded`, `CopiesPadded`), or card by card as the parts count them (`CopiesIds`, `WaitsIds`), the
  two being one sum taken by rows and by columns (`SumSwap`); and an emptied place lifts records and never lowers one
  that it keeps (`EmptiedLevels`).
  Both proofs corrected the model first. `Filed` spoke of any record without a place, when a press that
  failed may have left one in a place deleted before: it is about the place that is
  deleted now. `Merged` knew a merge only where the count did not fall, but an amendment may merge and take copies
  away at once: with three presses `NeverFewer` was violated for want of it. TLC
  found `Stocked` true on `collection`, with two containers and four presses, and with three presses, before it was proved.
* `FilesProofs`, for any goods, printings, files and scopes, and lists of any length: **FilesInvariant**,
  which is `Typed`, `Filed` (what is exported or read is a file, a reading is stacks), `Keyed` (no two records have
  one key; a view that answered holds the repository's records in some
  order, which is less than equality and all the code gives, as it shows the newest first) and `Promising` (a job that
  is sound still comes to the copies and the records it was promised).
  **AlwaysPromised** is the last of them in the words of the run. A plan is weighed on the
  view and lands on the repository, so it needs that a plan depends on the identities it meets
  and not on the order it meets them in (`PlanSays`), and that landing after the landing of
  the parts before is one landing of both. **AlwaysRecognized**: an export with its rows reversed has the digest of the export
  while no identity passes a ceiling (both pages recognize a file by that digest), since a list collapses to one stack an identity
  with what the list holds of it, in whatever order the identities first come.
  **AlwaysNeverShort**: a file shows as many copies of every printing and
  finish as the repository held with its parts landed. Its invariant, `Shipped`, says so of the file; that a step
  makes it so goes through every pass of an export, each shown to lose no copy of any identity: records merged
  with what waits, a landing, the filter of a scope (the same of both sides), the sort, the split of a
  stack into a row for each lot and one for the rest, and the rows of all the stacks put together.
* `CardFileProofs`: those passes. A fold is first shown to be the steps it takes
  (`FoldLeft` is a recursion which the provers do not see through, so there is a function of the length
  that does the same), then what every step keeps. What a list "holds" is a sum over its places of a weight that depends on
  the identity only, so that each pass is one lemma for all the weights: copies, copies of one identity, whether there are any.
* `FoldFacts`: a fold of the community modules is a function defined by itself on the
  subsets of a set, and nothing is known of it before it is proved that there is one (`FoldTable`).
  With that, and with induction in the form of a set of numbers closed under the next
  (`NatSetInduction`), what `Without` and `Merged` make of a list is proved for lists of any length,
  and a sum is shown not to depend on the order it is taken in (`SumTable`). Folds over sequences and
  what is weighed of one are there too, for the two modules above.
  `Without` is a fold in the model for that reason: the prover cannot expand `SelectSeq`.

Only model-checked:

* `LossNamed` of `Files`. It is about reading a written file back row by row, of records a row can say
  (`Sayable`); on the fourteen collections of `files`, and what is done to them, it is checked lot by lot.
* `Search` (`Steered`, `Unmixed`, `Found`). Its parser and its printer are recursive descents over tokens
  of any nesting, which is induction over data.
* Liveness under fairness, which the proof system does not reach: `Finishes`, `Published`, `Offers`
  and `Answered`.

## Seen, and not run

Each of these was met while modelling, by reading or as a counterexample.

*The runner.*

* `begin.test.ts` says "a job already standing is given way to, not taken over", which with "early"
  `attach()` does not do. Two tabs of one browser lose `NeverLost` even without "early": the
  second's opening listing writes the job it found over one the first began meanwhile.
* `runner.ts:235`: `part.ts:30-33` counts on "the re-send collides with what is already there
  and the call fails whole". Once another device has drained that part its key is
  free again: the create is accepted and the part drains twice.
* A file imported twice, which `docs/data-model.md:328-330` allows, has one receipt key
  (`part.ts:34-37`): the second import is refused by name and shows as failed.
* A tab that dies between a call landing and `keep()`, or a resume after a lost answer
  (`runner.ts:616` resets `misses`), sends what has landed: a failed import, nothing lost.
* `runner.ts:350`: a drain refused because its part is gone is told from a failure by
  a listing; if the listing fails too, it is shown as a failure.

*The collection.* Besides what is violated above:

* "untold": a merge whose last delete lands unheard leaves the view without it, and a press then
  writes the older counts.
* "early": a press over a cached view writes counts of the last visit, and the full read's
  answer then replaces the view.
* "mixed", besides: a record deleted between two parts of one card
  (`runner.ts:89-91`) makes each later drain of that card fail.
* `cards.ts:477`: plus raises a count in place with no look at `COPIES`.

*Publishing and the cached catalog.*

* `load.ts:30-34`: with two pages, or "again" in `catalog_load`, one load's sweep takes the pair another
  then writes its manifest for.
* `useCatalog.ts:72-76`: a load that was let go of may still fail the page (`OwnFailure`).
* `crates/core/src/catalog.rs:256-258` settles a file by its modification time, not by how long
  it has been unnamed, which is what `docs/configuration.md:75-80` speaks of.
* `crates/appview/src/main.rs:259`: after a week's sleep the first retry waits six hours, since the
  wait that is doubled and capped is the week.
* The operator's `manaweb-upload` and the server may publish at once; nothing keeps them apart.

*A scan.*

* "early": a card scanned and dropped before the recall answers queues a write of an
  empty list. The recall, already asked, then shows what was stored while the
  database is emptied: it writes back only what was scanned meanwhile
  (`store.ts:226-236`).
* "early": `recallGrade` moves a grade kept by an older build across, over one picked meanwhile
  (`store.ts:94-118`, `186-190`).
* A write queued behind a recall that fails replaces the stored list with the one shown.
* Two tabs over one scratch store each write their own list over the other's.
* `landing()` and a drain part one stack differently at `LOTS`.
* `scan/load.ts:34` fetches the artwork index of the manifest it was given, which may be gone by then.

*Files.*

* `Import.tsx:85` reads the receipts once when the page opens, so a file imported since, here or
  elsewhere, is not recognized until it is opened again.
* Two stacks equal in set, number, finish and condition go out in the order of the view, so two exports of
  one collection may differ (`docs/scryfall.md:200-203`).
* A stack over `COPIES` is exported as a row a read skips, and is not named among the losses.
* At the ceilings of copies and lots the digest depends on the order of the rows.

*Search.*

* `Types.tsx:54-68`: the press after what violates `Viewed` rewrites all as any, which is not
  the round trip of `docs/search.md:180-181`. A `t:` word it does not know is dropped by a press there.
* `Colors.tsx:31-42`: `-id:r` typed alone lights no pip, though a tapped refusal of the color does.
* `c:w c:u` typed by hand is shown as "any", and `c>2` comes back from a press as `c>=2`.
* A press after a top-level `or`, or on a group left open, lands inside the last alternative.
* A stray `)` ends the query and what follows it is dropped without a word.
* `Sets.tsx:105`: the view of a set asks `in:` of its own row only (`docs/search.md:216-228`).
* `c:esper` lights R, since the letters of a color's name are read as pips.

## Not modelled, and the plan

Not planned: image processing and floating point in the scan engine, the compression
of the catalog, the OAuth library, the service worker's HTTP cache, rendering,
the Scryfall client, read-only tools. They are listed with their reasons under
`components`.

What is left, in order:

1. The card cache and the top-up of artwork hashes: the guards that refuse a bulk file that shrinks too
   much, replace as one transaction, attempts and budget, with the
   "may change the build" step of `CatalogPublish` as their specification.
2. A second publisher beside `CatalogPublish`; the artwork index's own file in `CatalogLoad`;
   devices without a common lock in `Collection`; two tabs over one scratch store.
3. Proofs: `LossNamed`; `CatalogLoad` for several pages
   that share a clear; `Collection` for tabs that do not overlap.
