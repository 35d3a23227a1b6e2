----------------------------- MODULE Collection -----------------------------
(***************************************************************************)
(* The collection of one owner, as every open tab of a browser holds it    *)
(* and writes to it: web/src/collection/cards.ts (useCollection), the      *)
(* drains and the shed of web/src/import/runner.ts, and the removal of a   *)
(* place in Destination.tsx.                                               *)
(*                                                                         *)
(* The repository is the truth.  A tab reads it page by page when it       *)
(* opens, over what the browser's cache painted, and never again: from     *)
(* there its view is what it read and what it wrote.  A press writes whole *)
(* records computed from that view, one call each; a drain merges a part   *)
(* of an import into the records its tab knows, in one transaction.        *)
(*                                                                         *)
(* The upload is ImportRunner's, and so are the job, the waits and the     *)
(* retries: here the parts of a file land with the listing that finds      *)
(* them, and a drain is taken whenever it may be.                          *)
(***************************************************************************)
EXTENDS Stacks

CONSTANTS Tabs,
          Parts,      \* numbered in the order a listing returns them
          File,       \* what each part holds when it lands
          Start,      \* the records there are at first
          Keys,       \* bound: the record keys the repository can mint, 1 .. Keys
          Presses,    \* bound: how often the owner presses
          Events      \* see EventNames

\* What may happen besides.  Nothing in the pages rules any of it out; a run names
\* what it lets happen.
EventNames ==
    {"overlap",   \* a press while another of the same tab is under way
     "together",  \* a press that is out together with a drain
     "mixed",     \* a press that meets what an import wrote since the tab opened
     "early",     \* a press before the repository has answered
     "waits",     \* a place removed that copies still to land name
     "fails",     \* a call of a press fails, or lands and its answer never comes
     "untold",    \* the last call of a press that merges does
     "stuck",     \* and one that empties a place, too
     "lost",      \* the call of a drain does
     "dies"}      \* a tab dies with a press under way

ASSUME PartsAssumption == Parts \subseteq Nat /\ File \in [Parts -> Entries]
ASSUME FiniteAssumption == IsFiniteSet(Cards) /\ IsFiniteSet(Places) /\ IsFiniteSet(Parts)
ASSUME StartAssumption == \E n \in 0 .. Keys : Start \in [1 .. n -> Owned]
ASSUME BoundsAssumption == Keys \in Nat /\ Presses \in Nat
ASSUME EventsAssumption == Events \subseteq EventNames

VARIABLES
    repo, minted,          \* the card records, and the last key the server minted
    parts, coming,         \* the parts left to drain, and those not imported yet
    places,                \* the containers there are
    wanted, least, sure,   \* what the owner asked for, see The owner's account
    astray,
    pressed,
    cache,                 \* the view the browser last kept
    open, reading,         \* a tab, and the full read it is in
    held, ready, fresh, since,     \* its view, and what drains put in it
    pending, listed, later,        \* its runner: the parts listed, what it wrote
    press, out,                    \* the press and the transaction under way
    aside                          \* another press of the same tab, under way too

repoVars   == <<repo, minted, parts, coming, places>>
ownerVars  == <<wanted, least, sure, astray, pressed>>
viewVars   == <<open, reading, held, ready, fresh, since>>
importVars == <<pending, listed, later>>
vars == <<repoVars, ownerVars, cache, viewVars, importVars, press, aside, out>>

Unread == [at |-> Keys + 1, seen |-> Nothing, on |-> FALSE]
NoPress == [kind |-> "none", makes |-> {}, writes |-> Nothing, drops |-> {},
            view |-> Nothing, place |-> Unfiled, gain |-> 0]
NotOut == [said |-> "nothing", updates |-> Nothing, creates |-> {},
           takes |-> {}, leaves |-> Nothing, wrote |-> Nothing, sheds |-> FALSE]

IsView(view) == DOMAIN view \subseteq 1 .. Keys /\ \A k \in DOMAIN view : view[k] \in Owned
IsListing(some) == DOMAIN some \subseteq Parts /\ \A p \in DOMAIN some : some[p] \in Entries

IsPress(one) ==
    /\ one.kind \in {"none", "add", "made", "edit", "unfile", "drop"}
    /\ one.makes \subseteq Owned
    /\ IsView(one.writes) /\ IsView(one.view)
    /\ one.drops \subseteq 1 .. Keys

TypeOK ==
    /\ IsView(repo) /\ IsView(cache) /\ IsListing(parts)
    /\ minted \in 0 .. Keys
    /\ coming \subseteq Parts
    /\ places \subseteq Places
    /\ wanted \in Entries /\ least \in Nat /\ sure \in BOOLEAN /\ astray \in BOOLEAN
    /\ pressed \in 0 .. Presses
    /\ open \in [Tabs -> BOOLEAN] /\ ready \in [Tabs -> BOOLEAN]
    /\ fresh \in [Tabs -> BOOLEAN] /\ listed \in [Tabs -> BOOLEAN]
    /\ \A t \in Tabs :
          /\ IsView(held[t]) /\ IsView(since[t]) /\ IsView(later[t])
          /\ IsListing(pending[t])
          /\ reading[t].at \in 1 .. Keys + 1 /\ IsView(reading[t].seen)
          /\ IsPress(press[t]) /\ IsPress(aside[t])
          /\ out[t].said \in {"nothing", "out", "landed", "denied"}
          /\ IsView(out[t].updates) /\ IsView(out[t].wrote)
          /\ \A one \in out[t].creates : one \in Owned
          /\ out[t].takes \subseteq Parts /\ IsListing(out[t].leaves)

Init ==
    /\ repo = Start
    /\ minted = Cardinality(DOMAIN Start)
    /\ parts = Nothing
    /\ coming = Parts
    /\ places = Places
    /\ wanted = [id \in Ids |-> Count(Start, id)]
    /\ least = Copies(Start)
    /\ sure = TRUE
    /\ astray = FALSE
    /\ pressed = 0
    /\ cache = Nothing
    /\ open = [t \in Tabs |-> FALSE]
    /\ reading = [t \in Tabs |-> Unread]
    /\ held = [t \in Tabs |-> Nothing]
    /\ ready = [t \in Tabs |-> FALSE]
    /\ fresh = [t \in Tabs |-> FALSE]
    /\ since = [t \in Tabs |-> Nothing]
    /\ pending = [t \in Tabs |-> Nothing]
    /\ listed = [t \in Tabs |-> FALSE]
    /\ later = [t \in Tabs |-> Nothing]
    /\ press = [t \in Tabs |-> NoPress]
    /\ aside = [t \in Tabs |-> NoPress]
    /\ out = [t \in Tabs |-> NotOut]

-----------------------------------------------------------------------------
(* The owner's account: `wanted` copies of each identity, `least` copies   *)
(* in all, whatever becomes of the presses that failed.  After one, what   *)
(* was wanted is whatever the next read shows.                             *)
(*                                                                         *)
(* The account is kept of what was asked and not of what came of it, so it *)
(* goes `astray` where the code computes from a view that is no longer     *)
(* what the repository holds: a press that meets another, a drain, or what *)
(* drains wrote; a place removed that waiting copies name; an answer lost. *)
(* From then on it is kept no more, until the page is opened anew and its  *)
(* read shows what there is.                                               *)

Waiting(listing, id) == SumFunction([p \in DOMAIN listing |-> listing[p][id]])
InRepo(id) == Count(repo, id) + Waiting(parts, id)
InAll == Copies(repo) + SumFunction([p \in DOMAIN parts |-> SumFunction(parts[p])])
Quiet == \A t \in Tabs : press[t] = NoPress /\ aside[t] = NoPress /\ out[t] = NotOut
Known == sure /\ ~astray

\* A step that may go astray, by the events it takes for it.
Straying(met) == met \subseteq Events /\ astray' = (astray \/ met # {})
When(event, met) == IF met THEN {event} ELSE {}

Learns ==
    IF Quiet /\ ~sure THEN wanted' = [id \in Ids |-> InRepo(id)] /\ sure' = TRUE
    ELSE UNCHANGED <<wanted, sure>>

Less(n, m) == IF m > n THEN 0 ELSE n - m
Asks(more, fewer, copies) ==
    wanted' = [id \in Ids |-> Less(wanted[id] + (IF id \in more THEN copies ELSE 0),
                                   IF id \in fewer THEN copies ELSE 0)]

-----------------------------------------------------------------------------
(* Opening a tab: the cache paints, the repository is read a page at a     *)
(* time, and the import it finds is listed.                                *)

Opens(t) ==
    /\ ~open[t]
    /\ open' = [open EXCEPT ![t] = TRUE]
    /\ reading' = [reading EXCEPT ![t] = [Unread EXCEPT !.on = TRUE]]
    /\ UNCHANGED <<repoVars, ownerVars, cache, held, ready, fresh, since, importVars, press, aside, out>>

\* Nothing the last visit saw is laid over what the repository answered.
Paints(t) ==
    /\ reading[t].on
    /\ cache # Nothing
    /\ ~ready[t]
    /\ held' = [held EXCEPT ![t] = Fold(cache, since[t])]
    /\ ready' = [ready EXCEPT ![t] = TRUE]
    /\ UNCHANGED <<repoVars, ownerVars, cache, open, reading, fresh, since, importVars, press, aside, out>>

\* listRecords answers newest first, from the cursor on.
Unpaged(t) == {k \in DOMAIN repo : k < reading[t].at}

ReadsPage(t) ==
    /\ reading[t].on
    /\ Unpaged(t) # {}
    /\ LET k == Max(Unpaged(t)) IN
       reading' = [reading EXCEPT ![t].at = k, ![t].seen = Over(Only(k, repo[k]), @)]
    /\ UNCHANGED <<repoVars, ownerVars, cache, open, held, ready, fresh, since,
                   importVars, press, aside, out>>

ReadEnds(t) ==
    /\ reading[t].on
    /\ Unpaged(t) = {}
    /\ held' = [held EXCEPT ![t] = Fold(reading[t].seen, since[t])]
    /\ since' = [since EXCEPT ![t] = Nothing]
    /\ ready' = [ready EXCEPT ![t] = TRUE]
    /\ fresh' = [fresh EXCEPT ![t] = TRUE]
    /\ reading' = [reading EXCEPT ![t] = Unread]
    /\ Learns
    /\ UNCHANGED <<repoVars, least, astray, pressed, cache, open, importVars, press, aside, out>>

\* A second after the view settles the browser keeps it.
Remembers(t) ==
    /\ ready[t]
    /\ cache # held[t]
    /\ cache' = held[t]
    /\ UNCHANGED <<repoVars, ownerVars, viewVars, importVars, press, aside, out>>

Attaches(t) ==
    /\ open[t]
    /\ ~listed[t]
    /\ pending' = [pending EXCEPT ![t] = parts]
    /\ listed' = [listed EXCEPT ![t] = TRUE]
    /\ UNCHANGED <<repoVars, ownerVars, cache, viewVars, later, press, aside, out>>

\* A call that is out when its tab goes has landed by then or never does.
Idle(t) == press[t] = NoPress /\ aside[t] = NoPress /\ ~out[t].sheds
LastOpen(t) == \A s \in Tabs \ {t} : ~open[s]

Closes(t) ==
    /\ open[t]
    /\ "dies" \in Events \/ Idle(t)
    /\ sure' = (sure /\ ~astray /\ Idle(t))
    /\ astray' = (astray /\ ~LastOpen(t))
    /\ least' = IF astray THEN InAll ELSE least
    /\ open' = [open EXCEPT ![t] = FALSE]
    /\ reading' = [reading EXCEPT ![t] = Unread]
    /\ held' = [held EXCEPT ![t] = Nothing]
    /\ ready' = [ready EXCEPT ![t] = FALSE]
    /\ fresh' = [fresh EXCEPT ![t] = FALSE]
    /\ since' = [since EXCEPT ![t] = Nothing]
    /\ pending' = [pending EXCEPT ![t] = Nothing]
    /\ listed' = [listed EXCEPT ![t] = FALSE]
    /\ later' = [later EXCEPT ![t] = Nothing]
    /\ press' = [press EXCEPT ![t] = NoPress]
    /\ aside' = [aside EXCEPT ![t] = NoPress]
    /\ out' = [out EXCEPT ![t] = NotOut]
    /\ UNCHANGED <<repoVars, wanted, pressed, cache>>

-----------------------------------------------------------------------------
(* A press: the records to write and to drop are computed from the view    *)
(* there and then, and sent one call after another.                        *)

\* No button waits for the press before it.  A bound: two presses of a tab are under
\* way at most.
CanPress(t) ==
    /\ ready[t]
    /\ aside[t] = NoPress
    /\ pressed < Presses
    /\ pressed' = pressed + 1

\* What a press on some records runs into.
Against(t, keys) ==
    When("overlap", press[t] # NoPress) \cup When("together", out[t] # NotOut)
    \cup When("early", ~fresh[t]) \cup When("mixed", keys \cap DOMAIN since[t] # {})

Begin(t, one) ==
    /\ press' = [press EXCEPT ![t] = one]
    /\ aside' = [aside EXCEPT ![t] = press[t]]

\* The calls of two presses come in any order.
Turns(t) ==
    /\ aside[t] # NoPress
    /\ press' = [press EXCEPT ![t] = aside[t]]
    /\ aside' = [aside EXCEPT ![t] = press[t]]
    /\ UNCHANGED <<repoVars, ownerVars, cache, viewVars, importVars, out>>

Filing == places \cup {Unfiled}

\* What one press can make of a stack: a copy more or fewer, none at all, or
\* another grade or place.
Edits(one) ==
    {[one EXCEPT !.n = @ + 1], [one EXCEPT !.n = @ - 1], [one EXCEPT !.n = 0]}
    \cup {[one EXCEPT !.id.card = card] : card \in Cards}
    \cup {[one EXCEPT !.id.place = place] : place \in Filing}

Amends(t) ==
    /\ CanPress(t)
    /\ \E k \in DOMAIN held[t] : \E next \in Edits(held[t][k]) \ {held[t][k]} :
          LET one == held[t][k] IN
          /\ \E change \in Apply(held[t], k, next) :
                /\ Straying(Against(t, DOMAIN change.writes \cup change.drops))
                /\ Begin(t, [NoPress EXCEPT
                       !.kind = "edit", !.writes = change.writes,
                       !.drops = change.drops, !.view = change.view,
                       !.gain = IF next.n > one.n THEN 1 ELSE 0])
          /\ IF next.id # one.id THEN Asks({next.id}, {one.id}, one.n) /\ UNCHANGED least
             ELSE IF next.n > one.n THEN Asks({one.id}, {}, 1) /\ UNCHANGED least
             ELSE Asks({}, {one.id}, one.n - next.n) /\ least' = Less(least, one.n - next.n)
    /\ UNCHANGED <<repoVars, sure, cache, viewVars, importVars, out>>

\* The first copy of a stack is a record of its own, and the key is the server's.
Adds(t) ==
    /\ CanPress(t)
    /\ Straying(Against(t, {}))
    /\ \E card \in Cards, place \in Filing :
          LET id == [card |-> card, place |-> place] IN
          /\ \A k \in DOMAIN held[t] : held[t][k].id # id
          /\ Begin(t, [NoPress EXCEPT
                 !.kind = "add", !.makes = {[id |-> id, n |-> 1]}, !.gain = 1])
          /\ Asks({id}, {}, 1)
    /\ UNCHANGED <<repoVars, least, sure, cache, viewVars, importVars, out>>

\* Copies still to land that name a place.
Awaits(listing, place) == \E p \in DOMAIN listing : \E id \in Ids :
                              id.place = place /\ listing[p][id] > 0
Removed(place) == \E t \in Tabs : place \in {press[t].place, aside[t].place}

\* A place is emptied before it is deleted, of the records there are.
Unfiles(t) ==
    /\ CanPress(t)
    /\ \E place \in places :
          /\ \E change \in Emptied(held[t], place) :
                /\ Straying(Against(t, DOMAIN change.writes \cup change.drops)
                            \cup When("waits", Awaits(parts, place)))
                /\ Begin(t, [NoPress EXCEPT
                       !.kind = IF change = NoChange(held[t]) THEN "drop" ELSE "unfile",
                       !.writes = change.writes, !.drops = change.drops,
                       !.view = change.view, !.place = place])
          /\ wanted' = [id \in Ids |->
                 IF id.place = place THEN 0
                 ELSE IF id.place = Unfiled THEN wanted[id] + wanted[[id EXCEPT !.place = place]]
                 ELSE wanted[id]]
    /\ UNCHANGED <<repoVars, least, sure, cache, viewVars, importVars, out>>

Done(t) == press' = [press EXCEPT ![t] = NoPress]

Makes(t) ==
    /\ press[t].kind = "add"
    /\ minted < Keys
    /\ minted' = minted + 1
    /\ \E one \in press[t].makes :
          /\ repo' = Over(Only(minted', one), repo)
          /\ press' = [press EXCEPT ![t] = [NoPress EXCEPT
                 !.kind = "made", !.view = Only(minted', one), !.gain = 1]]
    /\ UNCHANGED <<parts, coming, places, ownerVars, cache, viewVars, importVars, aside, out>>

\* putRecord writes the record whether or not there is one.
Puts(t) ==
    /\ \E k \in DOMAIN press[t].writes :
          /\ repo' = Over(Only(k, press[t].writes[k]), repo)
          /\ press' = [press EXCEPT ![t].writes = But(@, {k})]
    /\ UNCHANGED <<minted, parts, coming, places, ownerVars, cache, viewVars, importVars, aside, out>>

WrittenAnyway(t) == t \in Tabs                      \* mutant: dropped in any order
\* Every record written before any is dropped.
Written(t) == press[t].writes = Nothing

Removes(t) ==
    /\ Written(t)
    /\ \E k \in press[t].drops :
          /\ repo' = But(repo, {k})
          /\ press' = [press EXCEPT ![t].drops = @ \ {k}]
    /\ UNCHANGED <<minted, parts, coming, places, ownerVars, cache, viewVars, importVars, aside, out>>

\* The view after is the one computed at the press.
PressEnds(t) ==
    /\ press[t].kind \in {"edit", "unfile"}
    /\ Written(t)
    /\ press[t].drops = {}
    /\ held' = [held EXCEPT ![t] = press[t].view]
    /\ least' = least + press[t].gain
    /\ press' = [press EXCEPT ![t] = IF @.kind = "edit" THEN NoPress
                                     ELSE [NoPress EXCEPT !.kind = "drop", !.place = press[t].place]]
    /\ UNCHANGED <<repoVars, wanted, sure, astray, pressed, cache, open, reading, ready, fresh,
                   since, importVars, aside, out>>

AddEnds(t) ==
    /\ press[t].kind = "made"
    /\ held' = [held EXCEPT ![t] = Over(press[t].view, @)]
    /\ least' = least + press[t].gain
    /\ Done(t)
    /\ UNCHANGED <<repoVars, wanted, sure, astray, pressed, cache, open, reading, ready, fresh,
                   since, importVars, aside, out>>

\* What is left of a merge, of a stack that is gone into one that is not as it was,
\* when all its calls have landed: only the answer.
Merged(t) == /\ press[t].writes = Nothing /\ press[t].drops = {}
             /\ press[t].view # Restrict(held[t], DOMAIN held[t] \cap DOMAIN press[t].view)
             /\ DOMAIN press[t].view # DOMAIN held[t]

\* A call fails, or it lands and its answer is lost: the rest is not sent, the view
\* stays as it was, and a place whose cards were to be unfiled is deleted all the same,
\* which nobody asked for.
PressFails(t) ==
    /\ "fails" \in Events
    /\ press[t].kind \in {"add", "made", "edit", "unfile"}
    /\ Straying(When("stuck", press[t].kind = "unfile")
                \cup When("untold", press[t].kind = "edit" /\ Merged(t)))
    /\ press' = [press EXCEPT ![t] = IF @.kind # "unfile" THEN NoPress
                                     ELSE [NoPress EXCEPT !.kind = "drop", !.place = press[t].place]]
    /\ sure' = FALSE
    /\ UNCHANGED <<repoVars, wanted, least, pressed, cache, viewVars, importVars, aside, out>>

DropsPlace(t) ==
    /\ press[t].kind = "drop"
    /\ places' = places \ {press[t].place}
    /\ Done(t)
    /\ UNCHANGED <<repo, minted, parts, coming, ownerVars, cache, viewVars, importVars, aside, out>>

-----------------------------------------------------------------------------
(* An import: its parts land, and are drained into records one at a time,  *)
(* by whichever tab has the lock.                                          *)

LockFree == \A t \in Tabs : out[t] = NotOut
AllOf(part) == SumFunction(part)

\* A new import forgets what the last one wrote.  A list lands where the owner said,
\* and a file unfiled.
Imports(t) ==
    /\ open[t] /\ listed[t]
    /\ pending[t] = Nothing
    /\ out[t] = NotOut
    /\ \E some \in SUBSET coming \ {{}} :
          /\ \A p \in some, id \in Ids : File[p][id] > 0 => id.place \in Filing
          /\ Straying(When("waits", \E place \in Places :
                                       Removed(place) /\ Awaits(Restrict(File, some), place)))
          /\ parts' = Over(Restrict(File, some), parts)
          /\ coming' = coming \ some
          /\ wanted' = [id \in Ids |-> wanted[id] + Waiting(Restrict(File, some), id)]
          /\ least' = least + SumFunction([p \in some |-> AllOf(File[p])])
    /\ pending' = [pending EXCEPT ![t] = parts']
    /\ later' = [later EXCEPT ![t] = Nothing]
    /\ UNCHANGED <<repo, minted, places, sure, pressed, cache, viewVars, listed, press, aside, out>>

\* A drain waits for the repository's own answer, and resolves each entry of the
\* next part against the view as it stands.
Drains(t) ==
    /\ LockFree
    /\ fresh[t] /\ listed[t]
    /\ Straying(When("together", press[t] # NoPress))
    /\ pending[t] # Nothing
    /\ LET p == Min(DOMAIN pending[t]) IN
       \E writes \in Drained(pending[t][p], held[t], later[t]) :
          out' = [out EXCEPT ![t] = [NotOut EXCEPT
              !.said = "out", !.updates = writes.updates, !.creates = writes.creates,
              !.takes = {p}]]
    /\ UNCHANGED <<repoVars, wanted, least, sure, pressed, cache, viewVars, importVars, press, aside>>

\* Copies no record holds yet are taken out of the parts listed under the lock.
Sheds(t) ==
    /\ LockFree
    /\ CanPress(t)
    /\ Straying(Against(t, {}))
    /\ listed[t]
    /\ pending' = [pending EXCEPT ![t] = parts]
    /\ \E id \in Ids : \E copies \in {1, Waiting(parts, id)} :
          /\ \A k \in DOMAIN held[t] : held[t][k].id # id
          /\ Waiting(pending[t], id) > 0 /\ Waiting(parts, id) > 0
          /\ LET left == Shed(parts, id, copies)
                 touched == {p \in DOMAIN parts : p \notin DOMAIN left \/ left[p] # parts[p]}
             IN  out' = [out EXCEPT ![t] = [NotOut EXCEPT
                     !.said = "out", !.takes = touched,
                     !.leaves = Restrict(left, touched \cap DOMAIN left),
                     !.sheds = TRUE]]
          /\ Asks({}, {id}, copies)
          /\ least' = Less(least, copies)
    /\ UNCHANGED <<repoVars, sure, cache, viewVars, listed, later, press, aside>>

\* One transaction: it fails whole where a record or a part it names is gone.
Accepts(call) == DOMAIN call.updates \subseteq DOMAIN repo /\ call.takes \subseteq DOMAIN parts

Taken(call) == Over(call.leaves, But(parts, call.takes))

Lands(t) ==
    LET call == out[t]
        last == minted + Cardinality(call.creates)
    IN
    /\ call.said = "out"
    /\ Accepts(call)
    /\ last <= Keys
    /\ \E made \in {f \in [minted + 1 .. last -> call.creates] : Range(f) = call.creates} :
          /\ repo' = Over(call.updates, Over(made, repo))
          /\ out' = [out EXCEPT ![t].said = "landed", ![t].wrote = Over(call.updates, made)]
    /\ minted' = last
    /\ parts' = Taken(call)
    /\ UNCHANGED <<coming, places, ownerVars, cache, viewVars, importVars, press, aside>>

Denies(t) ==
    /\ out[t].said = "out"
    /\ ~Accepts(out[t])
    /\ out' = [out EXCEPT ![t].said = "denied"]
    /\ UNCHANGED <<repoVars, ownerVars, cache, viewVars, importVars, press, aside>>

\* The records written join the view as the part leaves what is waiting, with
\* nothing between the two.
Hears(t) ==
    /\ out[t].said = "landed"
    /\ since' = [since EXCEPT ![t] = Over(out[t].wrote, @)]
    /\ held' = [held EXCEPT ![t] = Fold(@, since'[t])]
    /\ later' = [later EXCEPT ![t] = Over(out[t].wrote, @)]
    /\ pending' = [pending EXCEPT ![t] = Over(out[t].leaves, But(@, out[t].takes))]
    /\ out' = [out EXCEPT ![t] = NotOut]
    /\ UNCHANGED <<repoVars, ownerVars, cache, open, reading, ready, fresh, listed, press, aside>>

\* A call is refused, fails, or lands and its answer never comes: the parts are listed
\* again, and the part is there or it is drained.
Relists(t) ==
    /\ out[t].said \in {"denied"} \cup (IF "fails" \in Events THEN {"out", "landed"} ELSE {})
    /\ Straying(When("lost", out[t].said = "landed" /\ ~out[t].sheds))
    /\ sure' = (sure /\ ~out[t].sheds)
    /\ pending' = [pending EXCEPT ![t] = parts]
    /\ out' = [out EXCEPT ![t] = NotOut]
    /\ UNCHANGED <<repoVars, wanted, least, pressed, cache, viewVars, listed, later, press, aside>>

-----------------------------------------------------------------------------
Viewing(t) == \/ Opens(t) \/ Paints(t) \/ ReadsPage(t) \/ ReadEnds(t) \/ Remembers(t)
              \/ Attaches(t) \/ Closes(t)
Pressing(t) == \/ Turns(t) \/ Amends(t) \/ Adds(t) \/ Unfiles(t) \/ Makes(t) \/ Puts(t) \/ Removes(t)
               \/ PressEnds(t) \/ AddEnds(t) \/ PressFails(t) \/ DropsPlace(t)
Importing(t) == Imports(t) \/ Drains(t) \/ Sheds(t) \/ Lands(t) \/ Denies(t) \/ Hears(t) \/ Relists(t)

Next == \E t \in Tabs : Viewing(t) \/ Pressing(t) \/ Importing(t)

Spec == Init /\ [][Next]_vars

-----------------------------------------------------------------------------
(* Safety.                                                                 *)

\* Whatever was merged, split, moved, unfiled, imported, shed or read meanwhile,
\* the repository comes to hold the copies the owner asked for, each as the card
\* and in the place they were asked for, as long as no step went astray.
Kept == Quiet /\ Known => \A id \in Ids : InRepo(id) = wanted[id]

\* Copies may come to be counted twice by a press that fails or dies half way,
\* but none are lost by one, at any moment, as long as no step went astray.
NeverFewer == ~astray => InAll >= least

\* What a tab shows, what an import has still to land folded in, is what the
\* owner has: it never dips while parts turn into records, as long as no step
\* went astray.
Shown(t, id) == Count(held[t], id) + Waiting(pending[t], id)
Settled(t) == /\ fresh[t] /\ listed[t]
              /\ press[t] = NoPress /\ aside[t] = NoPress /\ ~out[t].sheds
Seen == \A t \in Tabs : Settled(t) /\ Known => \A id \in Ids : Shown(t, id) = wanted[id]

\* A place that is deleted leaves no card behind that names it, a record or one
\* still to land, as long as no press failed and no step went astray.
Unhoused == \E place \in places \ places' : \/ \E k \in DOMAIN repo : repo[k].id.place = place
                                             \/ Awaits(parts, place)
Filed == [][Known /\ places' # places => ~Unhoused]_vars

-----------------------------------------------------------------------------
(* What the repository says of itself, and the steps that go astray do not *)
(* keep: the same claims without `astray`, of each of which TLC finds a    *)
(* counterexample with the one event that is named.                        *)

\* Every press is one of the collection: cards.ts:352-354, "Writes this client made
\* are the collection too", and "five presses of a plus" ("overlap").  A lost answer
\* needs no investigation: docs/atproto.md:63 ("lost").  What a drain just wrote wins
\* because "a render is not owed to it yet": part.ts:68-69 ("mixed").
Asked == Quiet /\ sure => \A id \in Ids : InRepo(id) = wanted[id]

\* docs/data-model.md:298-300, "The count a person reads therefore never dips while
\* an import turns into records, which is the property worth protecting" ("together").
NeverDips == \A t \in Tabs : Settled(t) /\ sure => \A id \in Ids : Shown(t, id) >= wanted[id]

\* cards.ts:113-114, "Cards outlive the container naming them, so a place is emptied
\* before it is deleted" ("stuck", "waits").
EmptiedFirst == [][places' # places => ~Unhoused]_vars
=============================================================================
