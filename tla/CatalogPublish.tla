--------------------------- MODULE CatalogPublish ---------------------------
(***************************************************************************)
(* How the server publishes the catalog: at startup and then in a loop     *)
(* (crates/appview/src/main.rs), it exports what the cache holds to a      *)
(* directory (crates/core/src/catalog.rs, write) and brings the bucket up  *)
(* to that directory, taking away what the last upload replaced before it  *)
(* adds anything (crates/objects/src/lib.rs, prune then upload).  One      *)
(* process does it, a step at a time; any step may fail, and the process   *)
(* may die between any two and start over.                                 *)
(*                                                                         *)
(* Time is a clock, whether the bucket's manifest has stood for SETTLED,   *)
(* and the wait the refresh loop sleeps.  The writes of one export, and    *)
(* the puts of one upload, are each one step: nobody acts on the files     *)
(* before a manifest names them.                                           *)
(***************************************************************************)
EXTENDS CatalogBuilds

CONSTANT Events    \* what may go wrong: "fails", "lost" (a write that lands
                   \* and answers with an error), "dies"
CONSTANTS REFRESH, RETRY, RETRY_MAX    \* the waits of the refresh loop: a week,
                                       \* five minutes, six hours
ASSUME EventsAssumption == Events \subseteq {"fails", "lost", "dies"}
ASSUME WaitsAssumption == /\ RETRY \in Nat \ {0} /\ RETRY_MAX \in Nat /\ REFRESH \in Nat
                          /\ RETRY <= RETRY_MAX /\ RETRY_MAX < REFRESH

VARIABLES
    at,            \* what the process is doing
    boot,          \* whether this is the publish before the refresh loop
    wait,          \* minutes slept before the refresh under way
    cache,         \* the build an export makes now, 0 while nothing has synced
    keep,          \* what the export under way will not sweep
    dir,           \* each file of the catalog directory
    named,         \* the build the directory's manifest names
    manifest, objects,    \* the bucket
    settled,       \* whether its manifest has stood for SETTLED
    told           \* the builds a client may still be fetching from it

serverVars == <<at, boot, wait, cache, keep>>
dirVars    == <<dir, named>>
bucketVars == <<manifest, objects, settled, told>>
vars       == <<serverVars, dirVars, bucketVars>>

Steps == {"down", "asking", "topping", "exporting", "naming", "sweeping",
          "pruning", "uploading", "closing", "replacing", "asleep"}

TypeOK ==
    /\ at \in Steps
    /\ boot \in BOOLEAN
    /\ wait \in Nat
    /\ cache \in Builds \cup {0}
    /\ keep \in SUBSET Files
    /\ dir \in [Files -> {"absent", "torn", "whole"}]
    /\ named \in Builds \cup {0}
    /\ manifest \in Builds \cup {0}
    /\ objects \in SUBSET Files
    /\ settled \in BOOLEAN
    /\ told \in SUBSET Builds

Init ==
    /\ at = "down"
    /\ boot = TRUE
    /\ wait = 0
    /\ cache = 0
    /\ keep = {}
    /\ dir = [f \in Files |-> "absent"]
    /\ named = 0
    /\ manifest = 0
    /\ objects = {}
    /\ settled = FALSE
    /\ told = {}

-----------------------------------------------------------------------------
(* run and refresh_weekly.                                                 *)

ClampBelow(n, low, high) ==                         \* mutant: taken away from the floor
    IF n < low THEN n - low ELSE IF n > high THEN high ELSE n
Clamp(n, low, high) == IF n < low THEN low ELSE IF n > high THEN high ELSE n

\* A publish that ends at startup is followed by the loop, which asks at once;
\* one that ends in the loop sleeps.
EndsOk ==
    /\ at' = IF boot THEN "asking" ELSE "asleep"
    /\ wait' = IF boot THEN 0 ELSE REFRESH
    /\ boot' = FALSE

EndsBadlyAsOk ==                                    \* mutant: a failure waits a week
    /\ at' = IF boot THEN "asking" ELSE "asleep"
    /\ wait' = IF boot THEN 0 ELSE REFRESH
    /\ boot' = FALSE
EndsBadly ==
    /\ at' = IF boot THEN "asking" ELSE "asleep"
    /\ wait' = IF boot THEN 0 ELSE Clamp(wait * 2, RETRY, RETRY_MAX)
    /\ boot' = FALSE

\* A cache with nothing synced exports nothing, and startup only warns of it.
Starts ==
    /\ at = "down"
    /\ boot' = TRUE
    /\ wait' = 0
    /\ at' = "exporting"
    /\ UNCHANGED <<cache, keep, dirVars, bucketVars>>

Wakes ==
    /\ at = "asleep"
    /\ at' = "asking"
    /\ UNCHANGED <<boot, wait, cache, keep, dirVars, bucketVars>>

SyncsOrSleeps ==                                    \* mutant: a current cache is left at that
    /\ at = "asking"
    /\ \/ cache # 0 /\ UNCHANGED cache /\ at' = "asleep" /\ wait' = REFRESH
       \/ at' = "topping" /\ UNCHANGED wait /\ \E b \in Builds : cache < b /\ cache' = b
    /\ UNCHANGED <<boot, keep, dirVars, bucketVars>>
\* Scryfall's bulk file is the one synced, or it is downloaded and replaces the
\* cache in one transaction.
Syncs ==
    /\ at = "asking"
    /\ at' = "topping"
    /\ \/ cache # 0 /\ UNCHANGED cache
       \/ \E b \in Builds : cache < b /\ cache' = b
    /\ UNCHANGED <<boot, wait, keep, dirVars, bucketVars>>

\* New hashes in the store change the build; a top up that fails is only logged.
TopsUp ==
    /\ at = "topping"
    /\ at' = "exporting"
    /\ \/ UNCHANGED cache
       \/ \E b \in Builds : cache < b /\ cache' = b
    /\ UNCHANGED <<boot, wait, keep, dirVars, bucketVars>>

\* Any step of a refresh can fail, and nothing it had not written yet is.
Fails ==
    /\ "fails" \in Events
    /\ at \in {"asking", "exporting", "pruning", "uploading", "replacing"}
    /\ EndsBadly
    /\ UNCHANGED <<cache, keep, dirVars, bucketVars>>

Dies ==
    /\ "dies" \in Events
    /\ at # "down"
    /\ at' = "down"
    /\ UNCHANGED <<boot, wait, cache, keep, dirVars, bucketVars>>

-----------------------------------------------------------------------------
(* Catalog::write.                                                         *)

NothingSynced ==
    /\ at = "exporting"
    /\ cache = 0
    /\ EndsBadly
    /\ UNCHANGED <<cache, keep, dirVars, bucketVars>>

\* What the directory's manifest names stays a generation longer.
Keeps == NamesOf(named) \cup NamesOf(cache)

\* fs::write truncates the file it is about to fill, whatever it held.
Fill(how, some) == [f \in Files |-> IF f \in some THEN how ELSE dir[f]]

WritesMissing == {f \in NamesOf(cache) : dir[f] = "absent"}   \* mutant: what is there is skipped
Writes == NamesOf(cache)

Exports ==
    /\ at = "exporting"
    /\ cache # 0
    /\ keep' = Keeps
    /\ dir' = Fill("whole", Writes)
    /\ at' = "naming"
    /\ UNCHANGED <<boot, wait, cache, named, bucketVars>>

\* The disk fills or the process dies part way: some files are written, and one
\* may be left cut short.
ExportBreaks ==
    /\ at = "exporting"
    /\ cache # 0
    /\ \E some \in SUBSET Writes : \E f \in Writes \ some :
          dir' = [Fill("whole", some) EXCEPT ![f] = "torn"]
    /\ \/ "fails" \in Events /\ EndsBadly
       \/ "dies" \in Events /\ at' = "down" /\ UNCHANGED <<boot, wait>>
    /\ UNCHANGED <<cache, keep, named, bucketVars>>

Names ==
    /\ at = "naming"
    /\ named' = cache
    /\ at' = "sweeping"
    /\ UNCHANGED <<boot, wait, cache, keep, dir, bucketVars>>

\* A manifest cut short reads as none at all.
NamingBreaks ==
    /\ at = "naming"
    /\ named' = 0
    /\ \/ "fails" \in Events /\ EndsBadly
       \/ "dies" \in Events /\ at' = "down" /\ UNCHANGED <<boot, wait>>
    /\ UNCHANGED <<cache, keep, dir, bucketVars>>

\* sweep(): what is not kept goes, unless it was written within SETTLING or the
\* file system will not let it go.
Sweeps ==
    /\ at = "sweeping"
    /\ \E some \in SUBSET ({f \in Files : dir[f] # "absent"} \ keep) :
          dir' = Fill("absent", some)
    /\ at' = "pruning"
    /\ UNCHANGED <<boot, wait, cache, keep, named, bucketVars>>

-----------------------------------------------------------------------------
(* Bucket::prune and Bucket::upload.                                       *)

GoingAtOnce == objects \ NamesOf(manifest)          \* mutant: no day's grace
\* What prune takes away: nothing before a first publish, nothing while the
\* manifest is young, and then whatever it does not name.
Going == IF manifest # 0 /\ settled THEN objects \ NamesOf(manifest) ELSE {}

Prunes ==
    /\ at = "pruning"
    /\ objects' = objects \ Going
    /\ at' = "uploading"
    /\ UNCHANGED <<boot, wait, cache, keep, dirVars, manifest, settled, told>>

\* Some are deleted and the call answers with an error, or never.
PruneBreaks ==
    /\ "lost" \in Events
    /\ at = "pruning"
    /\ \E some \in SUBSET Going : objects' = objects \ some
    /\ EndsBadly
    /\ UNCHANGED <<cache, keep, dirVars, manifest, settled, told>>

\* upload() reads the manifest of the directory, and each file the bucket has not.
NeedsNone == {}                                     \* mutant: the manifest goes first
Needs == NamesOf(named) \ objects

Uploads ==
    /\ at = "uploading"
    /\ \A f \in Needs : dir[f] # "absent"
    /\ objects' = objects \cup Needs
    /\ at' = IF Needs = {} THEN "closing" ELSE "replacing"
    /\ UNCHANGED <<boot, wait, cache, keep, dirVars, manifest, settled, told>>

UploadBreaks ==
    /\ at = "uploading"
    /\ \/ "lost" \in Events
       \/ \E f \in Needs : dir[f] = "absent"
    /\ \E some \in SUBSET {f \in Needs : dir[f] # "absent"} : objects' = objects \cup some
    /\ EndsBadly
    /\ UNCHANGED <<cache, keep, dirVars, manifest, settled, told>>

Replaced ==
    /\ manifest' = named
    /\ settled' = FALSE
    /\ told' = told \cup {named}
    /\ UNCHANGED objects

\* A manifest nobody changed is left alone, so its clock runs on; one the bucket
\* would not show is written again.
Closes ==
    /\ at = "closing"
    /\ IF named = manifest THEN EndsOk /\ UNCHANGED bucketVars
       ELSE at' = "replacing" /\ UNCHANGED <<boot, wait, bucketVars>>
    /\ UNCHANGED <<cache, keep, dirVars>>

Rewrites ==
    /\ "fails" \in Events
    /\ at = "closing"
    /\ at' = "replacing"
    /\ UNCHANGED <<boot, wait, cache, keep, dirVars, bucketVars>>

Replaces ==
    /\ at = "replacing"
    /\ Replaced
    /\ EndsOk
    /\ UNCHANGED <<cache, keep, dirVars>>

ReplaceBreaks ==
    /\ "lost" \in Events
    /\ at = "replacing"
    /\ Replaced
    /\ EndsBadly
    /\ UNCHANGED <<cache, keep, dirVars>>

\* The bucket's manifest has stood a day, and a client takes less than that.
DayPasses ==
    /\ manifest # 0
    /\ ~settled
    /\ settled' = TRUE
    /\ told' = {manifest}
    /\ UNCHANGED <<serverVars, dirVars, manifest, objects>>

-----------------------------------------------------------------------------
Next == \/ Starts \/ Wakes \/ Syncs \/ TopsUp \/ Fails \/ Dies
        \/ NothingSynced \/ Exports \/ ExportBreaks \/ Names \/ NamingBreaks \/ Sweeps
        \/ Prunes \/ PruneBreaks \/ Uploads \/ UploadBreaks
        \/ Closes \/ Rewrites \/ Replaces \/ ReplaceBreaks
        \/ DayPasses

Spec == Init /\ [][Next]_vars

-----------------------------------------------------------------------------
(* Safety.                                                                 *)

\* Publishing keeps the promise: a file goes only once no client can still be
\* fetching it, and a manifest is written only once all it names is there.
Shelf == INSTANCE CatalogShelf
KeepsShelf == Shelf!Spec

\* What upload() sends is what export wrote: no file cut short by a death or a
\* full disk is ever put in the bucket, where its name would last for ever.
SendsWhole == at = "uploading" => \A f \in NamesOf(named) : dir[f] = "whole"

\* The process sleeps for a week only once what its cache holds is published:
\* anything short of that is tried again within RETRY_MAX.
SleepsPublished == at = "asleep" /\ wait > RETRY_MAX => manifest = cache

-----------------------------------------------------------------------------
(* Liveness: the process takes its steps, and is started again when it     *)
(* dies.                                                                   *)

Progress == \/ Starts \/ Wakes \/ Syncs \/ TopsUp \/ NothingSynced \/ Exports \/ Names
            \/ Sweeps \/ Prunes \/ Uploads \/ Closes \/ Replaces
Breaks == \/ Fails \/ Dies \/ ExportBreaks \/ NamingBreaks \/ PruneBreaks \/ UploadBreaks
          \/ Rewrites \/ ReplaceBreaks

FairSpec == Spec /\ WF_vars(Progress)

\* Once nothing more goes wrong, the build the cache holds is published, however
\* the failures before left the directory and the bucket, and without Scryfall
\* having to publish again.
Published == []<><<Breaks>>_vars \/ <>[](manifest = cache /\ manifest # 0)
=============================================================================
