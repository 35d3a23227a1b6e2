---------------------------- MODULE CatalogLoad ----------------------------
(***************************************************************************)
(* How a browser gets the catalog and keeps it: web/src/catalog/load.ts    *)
(* and store.ts, which every page of the browser runs over one IndexedDB,  *)
(* and useCatalog.ts, which decides when a page loads and what it shows.   *)
(* What is published is the shelf of CatalogShelf, which moves on its own. *)
(*                                                                         *)
(* A load reads a manifest, then takes the pair it names from the disk or  *)
(* the network, both files at once, and only then writes the manifest down *)
(* and sweeps; every read, fetch and write is a step, and other loads, of  *)
(* this page or another, run in between.  A page holds a load as a promise *)
(* and lets go of it when it starts another, without stopping it.          *)
(***************************************************************************)
EXTENDS CatalogBuilds

CONSTANTS Pages,
          Loads,      \* bound: the loads that can be out at once
          Events      \* "offline" (a fetch fails), "full" (a write does not
                      \* reach the disk), "reset", "again" (a press while an
                      \* earlier one is not answered yet), "close"

ASSUME LoadEventsAssumption == Events \subseteq {"offline", "full", "reset", "again", "close"}
ASSUME NoLoadAssumption == None \notin Loads /\ None \notin Pages

VARIABLES
    manifest, objects, told,     \* the shelf
    disk, named,                 \* IndexedDB: the files, and the build of the manifest
    load,                        \* each load out, and the page that began it
    pending,                     \* the load a page waits for
    status, loaded, available,   \* what a page shows
    clearing,                    \* the page has asked for its cache to be cleared
    checking                     \* the build a check was told of, 0 for no check

shelfVars == <<manifest, objects, told>>
diskVars  == <<disk, named>>
pageVars  == <<pending, status, loaded, available, clearing, checking>>
vars      == <<shelfVars, diskVars, load, pageVars>>

Free == [at |-> "free", page |-> None, build |-> 0, fresh |-> FALSE,
         left |-> {}, putting |-> {}, held |-> TRUE]
LoadStates == [at : {"free", "manifest", "pair", "naming", "sweeping", "done", "failed"},
               page : Pages \cup {None}, build : Builds \cup {0}, fresh : BOOLEAN,
               left : SUBSET Files, putting : SUBSET Files, held : BOOLEAN]

TypeOK ==
    /\ manifest \in Builds \cup {0}
    /\ objects \in SUBSET Files
    /\ told \in SUBSET Builds
    /\ disk \in SUBSET Files
    /\ named \in Builds \cup {0}
    /\ load \in [Loads -> LoadStates]
    /\ pending \in [Pages -> Loads \cup {None}]
    /\ status \in [Pages -> {"closed", "loading", "ready", "failed"}]
    /\ loaded \in [Pages -> Builds \cup {0}]
    /\ available \in [Pages -> Builds \cup {0}]
    /\ clearing \in [Pages -> BOOLEAN]
    /\ checking \in [Pages -> Builds \cup {0}]

Shelf == INSTANCE CatalogShelf

Init ==
    /\ Shelf!Init
    /\ disk = {}
    /\ named = 0
    /\ load = [l \in Loads |-> Free]
    /\ pending = [p \in Pages |-> None]
    /\ status = [p \in Pages |-> "closed"]
    /\ loaded = [p \in Pages |-> 0]
    /\ available = [p \in Pages |-> 0]
    /\ clearing = [p \in Pages |-> FALSE]
    /\ checking = [p \in Pages |-> 0]

-----------------------------------------------------------------------------
(* load.ts: one load.                                                      *)

Goes(l, at) == load' = [load EXCEPT ![l].at = at]

Told(l, b, fresh) ==
    load' = [load EXCEPT ![l] = [@ EXCEPT !.at = "pair", !.build = b, !.fresh = fresh,
                                          !.left = PairOf(b)]]

\* readManifest(): the network first.
ReadsManifest(l) ==
    /\ load[l].at = "manifest"
    /\ manifest # 0
    /\ Told(l, manifest, TRUE)
    /\ UNCHANGED <<shelfVars, diskVars, pageVars>>

\* Then the cache, and with neither the load is over.
ReadsCached(l) ==
    /\ load[l].at = "manifest"
    /\ manifest = 0 \/ "offline" \in Events
    /\ IF named # 0 THEN Told(l, named, FALSE) ELSE Goes(l, "failed")
    /\ UNCHANGED <<shelfVars, diskVars, pageVars>>

\* file(): what the disk holds under the name needs no fetching.
Hits(l, f) ==
    /\ load[l].at = "pair"
    /\ f \in load[l].left \cap disk
    /\ load' = [load EXCEPT ![l].left = @ \ {f}]
    /\ UNCHANGED <<shelfVars, diskVars, pageVars>>

Fetches(l, f) ==
    /\ load[l].at = "pair"
    /\ f \in (load[l].left \ disk) \cap objects
    /\ load' = [load EXCEPT ![l].left = @ \ {f}, ![l].putting = @ \cup {f}]
    /\ UNCHANGED <<shelfVars, diskVars, pageVars>>

\* One file that will not come fails the load; the other is still written.
FetchFails(l, f) ==
    /\ load[l].at = "pair"
    /\ f \in load[l].left \ disk
    /\ f \notin objects \/ "offline" \in Events
    /\ load' = [load EXCEPT ![l].at = "failed", ![l].left = {}]
    /\ UNCHANGED <<shelfVars, diskVars, pageVars>>

Stores(l, f) ==
    /\ f \in load[l].putting
    /\ \/ /\ disk' = disk \cup {f}
          /\ load' = [load EXCEPT ![l].putting = @ \ {f}]
       \/ /\ "full" \in Events
          /\ load' = [load EXCEPT ![l].putting = @ \ {f}, ![l].held = FALSE]
          /\ UNCHANGED disk
    /\ UNCHANGED <<shelfVars, named, pageVars>>

HeldAnyway(l) == l \in Loads                        \* mutant: stored or not
\* The pair the manifest names is on the disk.
Held(l) == load[l].held

Gathered(l) ==
    /\ load[l].at = "pair"
    /\ load[l].left = {}
    /\ load[l].putting = {}
    /\ Goes(l, IF ~Held(l) THEN "done"
               ELSE IF load[l].fresh THEN "naming" ELSE "sweeping")
    /\ UNCHANGED <<shelfVars, diskVars, pageVars>>

WritesManifest(l) ==
    /\ load[l].at = "naming"
    /\ \/ named' = load[l].build /\ Goes(l, "sweeping")
       \/ "full" \in Events /\ Goes(l, "done") /\ UNCHANGED named
    /\ UNCHANGED <<shelfVars, disk, pageVars>>

KeptNewest(l) == NamesOf(manifest)                  \* mutant: the newest manifest's names
\* Every part the manifest names, the ones fetched later included.
Kept(l) == NamesOf(load[l].build)

\* prune(): one transaction lists the keys and deletes.
Sweeps(l) ==
    /\ load[l].at = "sweeping"
    /\ disk' = disk \cap Kept(l)
    /\ Goes(l, "done")
    /\ UNCHANGED <<shelfVars, named, pageVars>>

-----------------------------------------------------------------------------
(* useCatalog.ts: a page.                                                  *)

Show(p, what) == status' = [status EXCEPT ![p] = what]

\* start(): a new load, whatever became of the one before.
StartsLoad(p) ==
    \E l \in Loads :
        /\ load[l] = Free
        /\ load' = [load EXCEPT ![l] = [Free EXCEPT !.at = "manifest", !.page = p]]
        /\ pending' = [pending EXCEPT ![p] = l]

Opens(p) ==
    /\ status[p] = "closed"
    /\ \A l \in Loads : load[l].page # p
    /\ StartsLoad(p)
    /\ Show(p, "loading")
    /\ UNCHANGED <<shelfVars, diskVars, loaded, available, clearing, checking>>

\* "A load `apply` orphaned must not land on the one replacing it."
Current(p, l) == pending[p] = l

Delivers(l) ==
    LET p == load[l].page IN
    /\ load[l].at = "done"
    /\ load[l].putting = {}
    /\ load' = [load EXCEPT ![l] = Free]
    /\ IF Current(p, l)
       THEN /\ loaded' = [loaded EXCEPT ![p] = load[l].build]
            /\ Show(p, "ready")
            /\ available' = [available EXCEPT ![p] = 0]
       ELSE UNCHANGED <<loaded, status, available>>
    /\ UNCHANGED <<shelfVars, diskVars, pending, clearing, checking>>

\* A load that failed is not kept, and the page says so, its own or not.
Fails(l) ==
    LET p == load[l].page IN
    /\ load[l].at = "failed"
    /\ load[l].putting = {}
    /\ load' = [load EXCEPT ![l] = Free]
    /\ pending' = [pending EXCEPT ![p] = IF @ = l THEN None ELSE @]
    /\ Show(p, "failed")
    /\ UNCHANGED <<shelfVars, diskVars, loaded, available, clearing, checking>>

\* A check asks every six hours, when a tab comes back, and when pressed.
ChecksAsk(p) ==
    /\ status[p] = "ready"
    /\ checking[p] = 0
    /\ manifest # 0
    /\ checking' = [checking EXCEPT ![p] = manifest]
    /\ UNCHANGED <<shelfVars, diskVars, load, pending, status, loaded, available, clearing>>

SamePair(a, b) == PairOf(a) = PairOf(b)             \* mutant: the two parts it knows
\* By filename, and every part of the manifest counts.
Same(a, b) == NamesOf(a) = NamesOf(b)

ChecksAnswer(p) ==
    /\ checking[p] # 0
    /\ available' = [available EXCEPT ![p] =
           IF loaded[p] # 0 /\ ~Same(loaded[p], checking[p]) THEN checking[p] ELSE 0]
    /\ checking' = [checking EXCEPT ![p] = 0]
    /\ UNCHANGED <<shelfVars, diskVars, load, pending, status, loaded, clearing>>

CheckFails(p) ==
    /\ "offline" \in Events
    /\ checking[p] # 0
    /\ checking' = [checking EXCEPT ![p] = 0]
    /\ UNCHANGED <<shelfVars, diskVars, load, pending, status, loaded, available, clearing>>

\* A press while nothing of an earlier one is still under way.
Calm(p) == "again" \in Events \/ (~clearing[p] /\ \A l \in Loads : load[l].page # p)

Applies(p) ==
    /\ StartsLoad(p)
    /\ available' = [available EXCEPT ![p] = 0]
    /\ Show(p, "loading")
    /\ UNCHANGED <<loaded, checking>>

Apply(p) ==
    /\ available[p] # 0
    /\ Calm(p)
    /\ Applies(p)
    /\ UNCHANGED <<shelfVars, diskVars, clearing>>

Reset(p) ==
    /\ "reset" \in Events
    /\ status[p] = "ready"
    /\ Calm(p)
    /\ clearing' = [clearing EXCEPT ![p] = TRUE]
    /\ UNCHANGED <<shelfVars, diskVars, load, pending, status, loaded, available, checking>>

\* The whole database is deleted, and then the page loads again.
Clears(p) ==
    /\ clearing[p]
    /\ disk' = {}
    /\ named' = 0
    /\ Applies(p)
    /\ clearing' = [clearing EXCEPT ![p] = FALSE]
    /\ UNCHANGED shelfVars

\* part(): the artwork index of the catalog shown, for the first scan.
ReadsPart(p) ==
    LET f == Artwork[loaded[p]] IN
    /\ status[p] = "ready"
    /\ loaded[p] # 0 /\ f # None
    /\ f \in objects
    /\ disk' = disk \cup {f}
    /\ UNCHANGED <<shelfVars, named, load, pageVars>>

\* A page closed takes its loads with it.
Closes(p) ==
    /\ "close" \in Events
    /\ status[p] # "closed"
    /\ Show(p, "closed")
    /\ load' = [l \in Loads |-> IF load[l].page = p THEN Free ELSE load[l]]
    /\ pending' = [pending EXCEPT ![p] = None]
    /\ loaded' = [loaded EXCEPT ![p] = 0]
    /\ available' = [available EXCEPT ![p] = 0]
    /\ clearing' = [clearing EXCEPT ![p] = FALSE]
    /\ checking' = [checking EXCEPT ![p] = 0]
    /\ UNCHANGED <<shelfVars, diskVars>>

-----------------------------------------------------------------------------
(* The shelf moves on its own, but no faster than a client: a load that    *)
(* read a manifest is over within the day that manifest's files still have.*)

Publishes ==
    \E b \in Builds :
        /\ manifest < b
        /\ \/ NamesOf(b) \subseteq objects /\ Shelf!Name(b)
           \/ ~(NamesOf(b) \subseteq objects) /\ Shelf!Add(NamesOf(b))
    /\ UNCHANGED <<diskVars, load, pageVars>>

Expires ==
    /\ \A l \in Loads : load[l].at = "pair" /\ load[l].fresh => load[l].build = manifest
    /\ Shelf!Settle
    /\ UNCHANGED <<diskVars, load, pageVars>>

TakesAway ==
    /\ objects # Shelf!Promised
    /\ Shelf!Take(objects \ Shelf!Promised)
    /\ UNCHANGED <<diskVars, load, pageVars>>

-----------------------------------------------------------------------------
Loading(l) == \/ ReadsManifest(l) \/ ReadsCached(l) \/ Gathered(l) \/ WritesManifest(l)
              \/ Sweeps(l) \/ Delivers(l) \/ Fails(l)
              \/ \E f \in Files : Hits(l, f) \/ Fetches(l, f) \/ FetchFails(l, f) \/ Stores(l, f)
Paging(p) == \/ Opens(p) \/ ChecksAsk(p) \/ ChecksAnswer(p) \/ CheckFails(p)
             \/ Apply(p) \/ Reset(p) \/ Clears(p) \/ ReadsPart(p) \/ Closes(p)

Next == \/ \E l \in Loads : Loading(l)
        \/ \E p \in Pages : Paging(p)
        \/ Publishes \/ Expires \/ TakesAway

Spec == Init /\ [][Next]_vars

-----------------------------------------------------------------------------
(* Safety.                                                                 *)

\* The manifest on the disk always has its pair beside it, or a load with no
\* network reads a manifest pointing at files this device does not hold.
CachedWhole == PairOf(named) \subseteq disk

\* No load, whichever manifest it read, is ever left with a file that is neither
\* on this device nor published.
NeverGone == \A l \in Loads : load[l].at = "pair" => load[l].left \subseteq disk \cup objects

\* A page says it failed only where the load it waits for did.
OwnFailure == \A p \in Pages : status[p] = "failed" => pending[p] = None

-----------------------------------------------------------------------------
(* Liveness, for a page that stays open with a network.                    *)

Fairness ==
    /\ \A l \in Loads :
          WF_vars(\/ ReadsManifest(l) \/ Gathered(l) \/ WritesManifest(l) \/ Sweeps(l)
                  \/ Delivers(l) \/ Fails(l)
                  \/ \E f \in Files : Hits(l, f) \/ Fetches(l, f) \/ Stores(l, f))
    /\ \A p \in Pages : WF_vars(Clears(p)) /\ WF_vars(ChecksAsk(p)) /\ SF_vars(ChecksAnswer(p))

FairSpec == Spec /\ Fairness

\* A page left open across a publish comes to offer it, a file rebuilt beside an
\* unchanged pair included.
Behind(p) == status[p] = "ready" /\ NamesOf(loaded[p]) # NamesOf(manifest)
Offers == \A p \in Pages : Behind(p) ~> available[p] # 0 \/ ~Behind(p)
=============================================================================
