---------------------------- MODULE ImportRunner ----------------------------
(***************************************************************************)
(* The import runner, web/src/import/runner.ts: a collection file goes to  *)
(* the owner's repository whole, as parts, and each part is then drained   *)
(* into card records by one transaction that also deletes the part.        *)
(*                                                                         *)
(* A browser keeps one job (IndexedDB) and one Web Lock; the tabs of a     *)
(* browser share both.  A tab runs three threads that interleave at every  *)
(* await: attach (once, at opening), the step a tick runs under the lock,  *)
(* and the press of a button.  The repository is the owner's PDS, shared   *)
(* by every browser: a call is sent, decided by the PDS and answered in    *)
(* three separate steps, so other tabs, presses and crashes come between.  *)
(*                                                                         *)
(* Time is not counted.  A step that finds its deadline still ahead does   *)
(* nothing but announce (StepWaits); a deadline passing is the step being  *)
(* taken.  A part is an identifier: what it holds, and what draining it    *)
(* writes, is not this module's concern.                                   *)
(***************************************************************************)
EXTENDS Naturals, FiniteSets

CONSTANTS
    Tabs, Browsers,
    Home,          \* the browser a tab is in: its job store and its lock
    Imports,       \* readings of a file: each is begun at most once
    Digests,
    Digest,        \* the digest of what a reading lists, equal for one file read twice
    Parts,
    ImportOf,      \* the reading a part was packed from
    None,
    Events,        \* what the environment and the owner may do, see EventNames
    MaxLandings    \* bound: how often the PDS may be asked to create one part

EventNames ==
    {"lost",       \* an answer never comes, whether or not the call landed
     "refused",    \* the PDS answers 429
     "named",      \* the PDS answers with an error it names, for a reason of its own
     "unlisted",   \* a listing fails
     "full",       \* the browser cannot store a new job
     "close",      \* a tab is closed, or dies
     "early",      \* an import is begun before the opening listing answers
     "halt", "carryOn", "drop"}    \* the owner's presses

DigestOf(p) == Digest[ImportOf[p]]
PartsOf(i) == {p \in Parts : ImportOf[p] = i}

\* store.ts Job.  A number of misses is kept as whether there is any; the
\* deadline and the total, which only time and wording depend on, are left out.
Jobs == [receipt : Digests \cup {None}, parts : SUBSET Parts,
         missed : BOOLEAN, paused : BOOLEAN]

ASSUME HomeAssumption == Home \in [Tabs -> Browsers]
ASSUME DigestAssumption == Digest \in [Imports -> Digests]
ASSUME PartsAssumption == ImportOf \in [Parts -> Imports]
ASSUME NoneAssumption == /\ None \notin Jobs
                         /\ None \notin Digests
                         /\ None \notin Tabs
                         /\ None \notin Imports
ASSUME EventsAssumption == Events \subseteq EventNames
ASSUME BoundAssumption == MaxLandings \in Nat

VARIABLES
    \* The repository, and what has become of every part in it.
    receipts, inRepo, created, drained, removed,
    \* Each browser: its stored job, and the tab that holds its lock.
    jobs, lock,
    \* The browsers that have navigator.locks, which never change; whether a tab
    \* is open, and whether its collection has been read.
    locks, session, fresh,
    \* What a tab shows and holds: state.at, the parts last listed, the interval.
    state, pending, ticking,
    \* The presses: a stop not yet written down, an era that moved while a step
    \* was out, the press under way, and what the owner asked of each import.
    stopping, moved, press, fate,
    \* The threads that wait on the network.
    attaching, step

repoVars   == <<receipts, inRepo, created, drained, removed>>
deviceVars == <<jobs, lock>>
tabVars    == <<locks, session, fresh>>
viewVars   == <<state, pending, ticking>>
pressVars  == <<stopping, moved, press, fate>>
threadVars == <<attaching, step>>
vars == <<repoVars, deviceVars, tabVars, viewVars, pressVars, threadVars>>

States == {"none", "uploading", "running", "stopped", "done", "failed"}
\* An import begun while a step of its tab was out is exposed to that step.
Fates == {"unread", "begun", "exposed", "givenUp", "discarded"}

Idle == [at |-> "idle", job |-> None, taking |-> {}, said |-> "nothing"]
\* The step is over and tick's finally block owes the store a stop.
Halting == [Idle EXCEPT !.at = "halting"]
NoPress == [kind |-> "none", job |-> None, import |-> None, left |-> {}]
NotAttaching == [at |-> "idle", job |-> None]

Steps == [at : {"idle", "halting", "relisting", "sending",
                "listing", "draining", "checking"},
          job : Jobs \cup {None}, taking : SUBSET Parts,
          said : {"nothing", "out", "landed", "verdict", "refused"}]
Presses == [kind : {"none", "begin", "halt", "carryOn", "drop", "dropping"},
            job : Jobs \cup {None}, import : Imports \cup {None},
            left : SUBSET Parts]
Attachings == [at : {"idle", "listing"}, job : Jobs \cup {None}]

TypeOK ==
    /\ receipts \in SUBSET Digests
    /\ inRepo \in SUBSET Parts
    /\ created \in [Parts -> Nat]
    /\ drained \in [Parts -> Nat]
    /\ removed \in [Parts -> Nat]
    /\ locks \in SUBSET Browsers
    /\ jobs \in [Browsers -> Jobs \cup {None}]
    /\ lock \in [Browsers -> Tabs \cup {None}]
    /\ session \in [Tabs -> BOOLEAN]
    /\ fresh \in [Tabs -> BOOLEAN]
    /\ state \in [Tabs -> States]
    /\ pending \in [Tabs -> SUBSET Parts]
    /\ ticking \in [Tabs -> BOOLEAN]
    /\ stopping \in [Tabs -> BOOLEAN]
    /\ moved \in [Tabs -> BOOLEAN]
    /\ press \in [Tabs -> Presses]
    /\ fate \in [Imports -> Fates]
    /\ attaching \in [Tabs -> Attachings]
    /\ step \in [Tabs -> Steps]

Init ==
    /\ receipts = {}
    /\ inRepo = {}
    /\ created = [p \in Parts |-> 0]
    /\ drained = [p \in Parts |-> 0]
    /\ removed = [p \in Parts |-> 0]
    /\ locks \in SUBSET Browsers
    /\ jobs = [b \in Browsers |-> None]
    /\ lock = [b \in Browsers |-> None]
    /\ session = [t \in Tabs |-> FALSE]
    /\ fresh = [t \in Tabs |-> FALSE]
    /\ state = [t \in Tabs |-> "none"]
    /\ pending = [t \in Tabs |-> {}]
    /\ ticking = [t \in Tabs |-> FALSE]
    /\ stopping = [t \in Tabs |-> FALSE]
    /\ moved = [t \in Tabs |-> FALSE]
    /\ press = [t \in Tabs |-> NoPress]
    /\ fate = [i \in Imports |-> "unread"]
    /\ attaching = [t \in Tabs |-> NotAttaching]
    /\ step = [t \in Tabs |-> Idle]

-----------------------------------------------------------------------------
(* The job store and the lock of a tab's browser.                          *)

Stored(t) == jobs[Home[t]]
Store(t, job) == jobs' = [jobs EXCEPT ![Home[t]] = job]

\* Parts the repository does not hold yet, or the receipt before them.
UploadingReceiptOnly(job) == job.receipt # None     \* mutant: the parts forgotten
Uploading(job) == job.receipt # None \/ job.parts # {}

KeepWhateverEra(t, job) ==                          \* mutant: no look at the era
    Store(t, [job EXCEPT !.paused = @ \/ stopping[t]])
\* keep(): nothing once the era has moved on, and a stop folded in.
Keep(t, job) ==
    IF moved[t] THEN UNCHANGED jobs
    ELSE Store(t, [job EXCEPT !.paused = @ \/ stopping[t]])

Announce(t, at) == state' = [state EXCEPT ![t] = at]
AnnounceKept(t, at) == IF moved[t] THEN UNCHANGED state ELSE Announce(t, at)
Ticks(t, on) == ticking' = [ticking EXCEPT ![t] = on]
Holding(t, parts) == pending' = [pending EXCEPT ![t] = parts]

LockIgnored(t) == t \in Tabs                        \* mutant: no lock is asked for
LockFree(t) == Home[t] \in locks => lock[Home[t]] = None
Lock(t) == lock' = IF Home[t] \in locks THEN [lock EXCEPT ![Home[t]] = t] ELSE lock
Unlock(t) == lock' = [lock EXCEPT ![Home[t]] = IF @ = t THEN None ELSE @]

-----------------------------------------------------------------------------
(* One step, under the lock: tick, locked, step, upload, sink.             *)

CanStep(t) == session[t] /\ ticking[t] /\ step[t] = Idle /\ LockFree(t)
Standing(t) == Stored(t) # None /\ ~Stored(t).paused

\* A step that has listed goes on to its call without letting go of the lock.
Calls(t, at, job, taking) ==
    step' = [step EXCEPT ![t] = [at |-> at, job |-> job, taking |-> taking, said |-> "out"]]

\* A step begins at its load; the era it remembers is the one it finds.
Out(t, at, job, taking) ==
    /\ step' = [step EXCEPT ![t] = [at |-> at, job |-> job, taking |-> taking,
                    said |-> IF at \in {"sending", "draining"}
                             THEN "out" ELSE "nothing"]]
    /\ moved' = [moved EXCEPT ![t] = FALSE]

EndStepAtOnce(t) ==                                 \* mutant: no finally in tick
    /\ step' = [step EXCEPT ![t] = Idle]
    /\ Unlock(t)
EndStep(t) ==
    /\ step' = [step EXCEPT ![t] = IF stopping[t] THEN Halting ELSE Idle]
    /\ Unlock(t)

\* The receipt alone first, then as many parts as one call has room for.
BatchesWithNone(job) ==                             \* mutant: room() may be zero
    IF job.receipt # None THEN {{}} ELSE SUBSET job.parts
Batches(job) == IF job.receipt # None THEN {{}} ELSE (SUBSET job.parts) \ {{}}

StepStops(t) ==
    /\ CanStep(t)
    /\ ~Standing(t)
    /\ Ticks(t, FALSE)
    /\ UNCHANGED <<repoVars, deviceVars, tabVars, state, pending, pressVars, threadVars>>

StepWaits(t) ==
    /\ CanStep(t)
    /\ Standing(t)
    /\ \/ /\ Uploading(Stored(t))
          /\ Announce(t, "uploading")
       \/ /\ ~Uploading(Stored(t))
          /\ pending[t] # {}
          /\ fresh[t]
          /\ Announce(t, "running")
    /\ UNCHANGED <<repoVars, deviceVars, tabVars, pending, ticking, pressVars, threadVars>>

StepSends(t) ==
    /\ CanStep(t)
    /\ Standing(t)
    /\ Uploading(Stored(t))
    /\ ~Stored(t).missed
    /\ \E taking \in Batches(Stored(t)) : Out(t, "sending", Stored(t), taking)
    /\ Lock(t)
    /\ Announce(t, "uploading")
    /\ UNCHANGED <<repoVars, jobs, tabVars, pending, ticking, stopping, press, fate, attaching>>

\* A call whose answer never came may have landed, so the repository is asked.
StepRelists(t) ==
    /\ CanStep(t)
    /\ Standing(t)
    /\ Uploading(Stored(t))
    /\ Stored(t).missed
    /\ Out(t, "relisting", Stored(t), {})
    /\ Lock(t)
    /\ Announce(t, "uploading")
    /\ UNCHANGED <<repoVars, jobs, tabVars, pending, ticking, stopping, press, fate, attaching>>

OwingAll(job) == [job EXCEPT !.missed = FALSE]      \* mutant: the retry sends it all
OwingNoReceipt(job) ==                              \* mutant: the receipt taken as landed
    [job EXCEPT !.missed = FALSE, !.receipt = None]
\* What the repository already holds is left out of the retry.
Owing(job) == [receipt |-> IF job.receipt \in receipts THEN None ELSE job.receipt,
               parts   |-> job.parts \ inRepo,
               missed  |-> FALSE,
               paused  |-> job.paused]

Relisted(t) ==
    LET job == Owing(step[t].job) IN
    /\ step[t].at = "relisting"
    /\ Holding(t, inRepo)
    /\ \/ /\ ~Uploading(job)
          /\ Keep(t, job)
          /\ EndStep(t)
       \/ /\ Uploading(job)
          /\ \E taking \in Batches(job) : Calls(t, "sending", job, taking)
          /\ UNCHANGED deviceVars
    /\ UNCHANGED <<repoVars, tabVars, state, ticking, pressVars, attaching>>

StepLists(t) ==
    /\ CanStep(t)
    /\ Standing(t)
    /\ ~Uploading(Stored(t))
    /\ pending[t] = {}
    /\ Out(t, "listing", Stored(t), {})
    /\ Lock(t)
    /\ UNCHANGED <<repoVars, jobs, tabVars, viewVars, stopping, press, fate, attaching>>

\* Nothing left in the repository is an import that is over.  Otherwise the
\* step goes on to drain, unless the collection is not read or it must wait.
Listed(t) ==
    /\ step[t].at = "listing"
    /\ Holding(t, inRepo)
    /\ \/ /\ inRepo = {}
          /\ Store(t, None)
          /\ Ticks(t, FALSE)
          /\ Announce(t, "done")
          /\ EndStep(t)
       \/ /\ inRepo # {}
          /\ ~fresh[t]
          /\ EndStep(t)
          /\ UNCHANGED <<jobs, state, ticking>>
       \/ /\ inRepo # {}
          /\ fresh[t]
          /\ Announce(t, "running")
          /\ EndStep(t)
          /\ UNCHANGED <<jobs, ticking>>
       \/ /\ fresh[t]
          /\ Announce(t, "running")
          /\ \E p \in inRepo : Calls(t, "draining", step[t].job, {p})
          /\ UNCHANGED <<deviceVars, ticking>>
    /\ UNCHANGED <<repoVars, tabVars, pressVars, attaching>>

\* A listing that failed answers nothing: the next tick asks again.
ListingFails(t) ==
    /\ "unlisted" \in Events
    /\ step[t].at \in {"relisting", "listing"}
    /\ EndStep(t)
    /\ UNCHANGED <<repoVars, jobs, tabVars, viewVars, pressVars, attaching>>

StepDrains(t) ==
    /\ CanStep(t)
    /\ Standing(t)
    /\ ~Uploading(Stored(t))
    /\ fresh[t]
    /\ \E p \in pending[t] : Out(t, "draining", Stored(t), {p})
    /\ Lock(t)
    /\ Announce(t, "running")
    /\ UNCHANGED <<repoVars, jobs, tabVars, pending, ticking, stopping, press, fate, attaching>>

-----------------------------------------------------------------------------
(* The PDS.  A call is one transaction: a create of a key it holds, or a   *)
(* delete of one it does not, fails it whole.                              *)

AcceptsAnyCreate(call) ==                           \* mutant: keys left to the server
    call.at = "draining" => call.taking \subseteq inRepo
Accepts(call) ==
    IF call.at = "draining" THEN call.taking \subseteq inRepo
    ELSE IF call.job.receipt # None THEN call.job.receipt \notin receipts
    ELSE call.taking \cap inRepo = {}

Plus(count, parts) == [p \in Parts |-> IF p \in parts THEN count[p] + 1 ELSE count[p]]

RetiredNever(parts) == inRepo \cup parts            \* mutant: a drain with no delete
\* The delete at the end of a drain's writes.
Retired(parts) == inRepo \ parts

Says(t, answer) == step' = [step EXCEPT ![t].said = answer]

Lands(t) ==
    LET call == step[t] IN
    /\ call.said = "out"
    /\ Accepts(call)
    /\ Says(t, "landed")
    /\ \/ /\ call.at = "sending"
          /\ call.job.receipt # None
          /\ receipts' = receipts \cup {call.job.receipt}
          /\ UNCHANGED <<inRepo, created, drained>>
       \/ /\ call.at = "sending"
          /\ call.job.receipt = None
          /\ \A p \in call.taking : created[p] < MaxLandings
          /\ inRepo' = inRepo \cup call.taking
          /\ created' = Plus(created, call.taking)
          /\ UNCHANGED <<receipts, drained>>
       \/ /\ call.at = "draining"
          /\ inRepo' = Retired(call.taking)
          /\ drained' = Plus(drained, call.taking)
          /\ UNCHANGED <<receipts, created>>
    /\ UNCHANGED <<removed, deviceVars, tabVars, viewVars, pressVars, attaching>>

\* A call that cannot be carried out, whatever else the PDS would say of it.
Denies(t) ==
    /\ step[t].said = "out"
    /\ ~Accepts(step[t])
    /\ Says(t, "verdict")
    /\ UNCHANGED <<repoVars, deviceVars, tabVars, viewVars, pressVars, attaching>>

Declines(t) ==
    /\ step[t].said = "out"
    /\ \/ "named" \in Events /\ Says(t, "verdict")
       \/ "refused" \in Events /\ Says(t, "refused")
    /\ UNCHANGED <<repoVars, deviceVars, tabVars, viewVars, pressVars, attaching>>

-----------------------------------------------------------------------------
(* What a step does with the answer.                                       *)

\* What a job still has to upload once a call has landed: the receipt's call
\* takes no part with it.
LeftNoElse(job, taking) ==                          \* mutant: the parts sliced either way
    [receipt |-> None, missed |-> FALSE, paused |-> job.paused,
     parts |-> job.parts \ (taking \cup {CHOOSE p \in job.parts : TRUE})]
Left(job, taking) ==
    [receipt |-> None, missed |-> FALSE, paused |-> job.paused,
     parts |-> job.parts \ taking]

UploadLanded(t) ==
    LET left == Left(step[t].job, step[t].taking)
    IN  /\ step[t].at = "sending"
        /\ step[t].said = "landed"
        /\ Keep(t, left)
        /\ AnnounceKept(t, "uploading")
        /\ IF moved[t] \/ left.parts # {} THEN UNCHANGED pending ELSE Holding(t, {})
        /\ EndStep(t)
        /\ UNCHANGED <<repoVars, tabVars, ticking, pressVars, attaching>>

\* pending.slice(1): the part just drained, unless the list was replaced meanwhile.
Firsts(t) == IF step[t].taking \subseteq pending[t] \/ pending[t] = {}
             THEN {step[t].taking} ELSE {{p} : p \in pending[t]}

DrainLanded(t) ==
    /\ step[t].at = "draining"
    /\ step[t].said = "landed"
    /\ \E first \in Firsts(t) : Holding(t, pending[t] \ first)
    /\ Keep(t, [step[t].job EXCEPT !.missed = FALSE])
    /\ AnnounceKept(t, IF stopping[t] THEN "stopped" ELSE "running")
    /\ Ticks(t, ticking[t] /\ (moved[t] \/ ~stopping[t]))
    /\ EndStep(t)
    /\ UNCHANGED <<repoVars, tabVars, pressVars, attaching>>

\* A verdict on a drain may only mean that another device drained the part.
DrainDenied(t) ==
    /\ step[t].at = "draining"
    /\ step[t].said = "verdict"
    /\ step' = [step EXCEPT ![t] = [@ EXCEPT !.at = "checking", !.said = "nothing"]]
    /\ UNCHANGED <<repoVars, deviceVars, tabVars, viewVars, pressVars, attaching>>

\* refused() with an error the PDS named: the job is paused and the tab says so.
Fails(t) ==
    /\ Keep(t, [step[t].job EXCEPT !.paused = TRUE])
    /\ AnnounceKept(t, "failed")
    /\ Ticks(t, ticking[t] /\ moved[t])
    /\ EndStep(t)

UploadDenied(t) ==
    /\ step[t].at = "sending"
    /\ step[t].said = "verdict"
    /\ Fails(t)
    /\ UNCHANGED <<repoVars, tabVars, pending, pressVars, attaching>>

CheckedAsFailure(t) ==                              \* mutant: a part gone is a failure
    /\ step[t].at = "checking"
    /\ Holding(t, inRepo)
    /\ Fails(t)
    /\ UNCHANGED <<repoVars, tabVars, pressVars, attaching>>
Checked(t) ==
    /\ step[t].at = "checking"
    /\ Holding(t, inRepo)
    /\ IF step[t].taking \subseteq inRepo THEN Fails(t)
       ELSE EndStep(t) /\ UNCHANGED <<jobs, state, ticking>>
    /\ UNCHANGED <<repoVars, tabVars, pressVars, attaching>>

CheckFails(t) ==
    /\ "unlisted" \in Events
    /\ step[t].at = "checking"
    /\ Fails(t)
    /\ UNCHANGED <<repoVars, tabVars, pending, pressVars, attaching>>

Delayed(t) ==
    /\ step[t].said = "refused"
    /\ Keep(t, [step[t].job EXCEPT !.missed = FALSE])
    /\ AnnounceKept(t, "running")
    /\ EndStep(t)
    /\ UNCHANGED <<repoVars, tabVars, pending, ticking, pressVars, attaching>>

\* The answer never comes, whatever it would have been.
Missed(t) ==
    /\ "lost" \in Events
    /\ step[t].said # "nothing"
    /\ Keep(t, [step[t].job EXCEPT !.missed = TRUE])
    /\ AnnounceKept(t, "running")
    /\ EndStep(t)
    /\ UNCHANGED <<repoVars, tabVars, pending, ticking, pressVars, attaching>>

-----------------------------------------------------------------------------
(* Opening and closing a tab.                                              *)

\* attach(): what is still to upload is on this device, and anything else is
\* in the repository, so only the latter is listed first.
Attach(t) ==
    LET stored == Stored(t) IN
    /\ ~session[t]
    /\ session' = [session EXCEPT ![t] = TRUE]
    /\ IF stored # None /\ Uploading(stored)
       THEN /\ Announce(t, IF stored.paused THEN "stopped" ELSE "uploading")
            /\ Ticks(t, ~stored.paused)
            /\ UNCHANGED attaching
       ELSE /\ attaching' = [attaching EXCEPT ![t] = [at |-> "listing", job |-> stored]]
            /\ UNCHANGED <<state, ticking>>
    /\ UNCHANGED <<repoVars, deviceVars, locks, fresh, pending, pressVars, step>>

\* found(): the job of an import this device never saw, already uploaded.
FoundUnpaused == [receipt |-> None, parts |-> {}, missed |-> FALSE]   \* mutant: a field short
Found == [receipt |-> None, parts |-> {}, missed |-> FALSE, paused |-> FALSE]

AttachListed(t) ==
    LET stored == attaching[t].job IN
    /\ attaching[t].at = "listing"
    /\ attaching' = [attaching EXCEPT ![t] = NotAttaching]
    /\ Holding(t, inRepo)
    /\ \/ /\ stored = None /\ inRepo = {}
          /\ UNCHANGED <<jobs, state, ticking>>
       \/ /\ stored = None /\ inRepo # {}
          /\ Store(t, Found)
          /\ Announce(t, "running")
          /\ Ticks(t, TRUE)
       \/ /\ stored # None /\ inRepo = {}
          /\ Store(t, None)
          /\ Announce(t, "done")
          /\ UNCHANGED ticking
       \/ /\ stored # None /\ inRepo # {}
          /\ Announce(t, IF stored.paused THEN "stopped" ELSE "running")
          /\ Ticks(t, ticking[t] \/ ~stored.paused)
          /\ UNCHANGED jobs
    /\ UNCHANGED <<repoVars, lock, tabVars, pressVars, step>>

AttachFails(t) ==
    /\ "unlisted" \in Events
    /\ attaching[t].at = "listing"
    /\ attaching' = [attaching EXCEPT ![t] = NotAttaching]
    /\ UNCHANGED <<repoVars, deviceVars, tabVars, viewVars, pressVars, step>>

\* The repository answers the collection's read: the drain has what it merges into.
CollectionRead(t) ==
    /\ session[t]
    /\ ~fresh[t]
    /\ fresh' = [fresh EXCEPT ![t] = TRUE]
    /\ UNCHANGED <<repoVars, deviceVars, locks, session, viewVars, pressVars, threadVars>>

\* A closed tab loses its memory, lets go of the lock and hears no answer.
Close(t) ==
    /\ "close" \in Events
    /\ session[t]
    /\ session' = [session EXCEPT ![t] = FALSE]
    /\ fresh' = [fresh EXCEPT ![t] = FALSE]
    /\ Announce(t, "none")
    /\ Holding(t, {})
    /\ Ticks(t, FALSE)
    /\ stopping' = [stopping EXCEPT ![t] = FALSE]
    /\ moved' = [moved EXCEPT ![t] = FALSE]
    /\ press' = [press EXCEPT ![t] = NoPress]
    /\ attaching' = [attaching EXCEPT ![t] = NotAttaching]
    /\ step' = [step EXCEPT ![t] = Idle]
    /\ Unlock(t)
    /\ UNCHANGED <<repoVars, jobs, locks, fate>>

-----------------------------------------------------------------------------
(* The owner's presses, one at a time in a tab.  None of them but drop     *)
(* takes the lock, and each reads the job before it writes it.  The code   *)
(* does not keep a second press from landing between the two, a read and a *)
(* write of the device's own disk: a stop whose write comes after the      *)
(* clear of a discard is not in the model.                                 *)

CanPress(t) == session[t] /\ press[t] = NoPress
Pressing(t, kind) == press[t].kind = kind
Released(t) == press' = [press EXCEPT ![t] = NoPress]
MoveEra(t) == moved' = [moved EXCEPT ![t] = step[t] # Idle]
Stopping(t, on) == stopping' = [stopping EXCEPT ![t] = on]

\* begin() is refused while a job stands, and the file stays with its owner.
MayBegin(t) == Stored(t) = None

\* The import page offers a file while nothing shows; the review page keeps a
\* scanned list after an import is done too, under a digest no other has.
Offered(t, i) ==
    \/ state[t] = "none"
    \/ state[t] = "done" /\ \A j \in Imports \ {i} : Digest[j] # Digest[i]

\* A reading lives in the tab that made it.
Begin(t, i) ==
    /\ CanPress(t)
    /\ Offered(t, i)
    /\ fate[i] = "unread"
    /\ \A s \in Tabs : press[s].import # i
    /\ MayBegin(t)
    /\ attaching[t] = NotAttaching \/ "early" \in Events
    /\ press' = [press EXCEPT ![t] = [NoPress EXCEPT !.kind = "begin", !.import = i]]
    /\ UNCHANGED <<repoVars, deviceVars, tabVars, viewVars, stopping, moved, fate, threadVars>>

\* With the lock a job stands for as long as a step is out, so nothing can be
\* begun; without it a discard clears the job under the step.
StepOut(t) == step[t].at \notin {"idle", "halting"}
Begins(t) == IF StepOut(t) THEN "exposed" ELSE "begun"

BeginSaves(t) ==
    LET i == press[t].import IN
    /\ Pressing(t, "begin")
    /\ Released(t)
    /\ MoveEra(t)
    /\ Stopping(t, FALSE)
    /\ Holding(t, {})
    /\ Store(t, [receipt |-> Digest[i], parts |-> PartsOf(i),
                 missed |-> FALSE, paused |-> FALSE])
    /\ fate' = [fate EXCEPT ![i] = Begins(t)]
    /\ Announce(t, "uploading")
    /\ Ticks(t, TRUE)
    /\ UNCHANGED <<repoVars, lock, tabVars, threadVars>>

BeginFails(t) ==
    /\ "full" \in Events
    /\ Pressing(t, "begin")
    /\ Released(t)
    /\ MoveEra(t)
    /\ Stopping(t, FALSE)
    /\ Holding(t, {})
    /\ Announce(t, "failed")
    /\ UNCHANGED <<repoVars, deviceVars, tabVars, ticking, fate, threadVars>>

\* halt(): with a step out the stop is left to it, and to tick's finally.
StopsNow(t) ==
    press' = [press EXCEPT ![t] =
        IF Stored(t) = None THEN NoPress
        ELSE [NoPress EXCEPT !.kind = "halt", !.job = Stored(t)]]

Halt(t) ==
    /\ "halt" \in Events
    /\ CanPress(t)
    /\ state[t] = "running"
    /\ Stopping(t, TRUE)
    /\ Ticks(t, FALSE)
    /\ Announce(t, "stopped")
    /\ IF step[t] = Idle THEN StopsNow(t) ELSE UNCHANGED press
    /\ UNCHANGED <<repoVars, deviceVars, tabVars, pending, moved, fate, threadVars>>

HaltAfterStep(t) ==
    /\ step[t] = Halting
    /\ press[t] = NoPress
    /\ step' = [step EXCEPT ![t] = Idle]
    /\ \/ /\ stopping[t]
          /\ Ticks(t, FALSE)
          /\ IF state[t] \in {"running", "uploading"} THEN Announce(t, "stopped")
             ELSE UNCHANGED state
          /\ StopsNow(t)
       \/ /\ ~stopping[t]
          /\ UNCHANGED <<ticking, state, press>>
    /\ UNCHANGED <<repoVars, deviceVars, tabVars, pending, stopping, moved, fate, attaching>>

HaltSaves(t) ==
    /\ Pressing(t, "halt")
    /\ Store(t, [press[t].job EXCEPT !.paused = TRUE])
    /\ Released(t)
    /\ UNCHANGED <<repoVars, lock, tabVars, viewVars, stopping, moved, fate, threadVars>>

\* carryOn(): the pause is lifted and the misses are forgotten with it.
CarryOn(t) ==
    /\ "carryOn" \in Events
    /\ CanPress(t)
    /\ state[t] \in {"stopped", "failed"}
    /\ Stopping(t, FALSE)
    /\ press' = [press EXCEPT ![t] =
           IF Stored(t) = None THEN NoPress
           ELSE [NoPress EXCEPT !.kind = "carryOn", !.job = Stored(t)]]
    /\ UNCHANGED <<repoVars, deviceVars, tabVars, viewVars, moved, fate, threadVars>>

CarryOnSaves(t) ==
    /\ Pressing(t, "carryOn")
    /\ Store(t, [press[t].job EXCEPT !.paused = FALSE, !.missed = FALSE])
    /\ Announce(t, "running")
    /\ Ticks(t, TRUE)
    /\ Released(t)
    /\ UNCHANGED <<repoVars, lock, tabVars, pending, stopping, moved, fate, threadVars>>

\* A discard gives up every import but one another device is still uploading.
Elsewhere(t, i) ==
    \E b \in Browsers \ {Home[t]} : jobs[b] # None /\ jobs[b].parts \cap PartsOf(i) # {}

\* drop(): the era moves at once, the parts wait for the lock.
Drop(t) ==
    /\ "drop" \in Events
    /\ CanPress(t)
    /\ state[t] \in {"running", "stopped", "failed", "done"}
    /\ MoveEra(t)
    /\ Stopping(t, FALSE)
    /\ Ticks(t, FALSE)
    /\ press' = [press EXCEPT ![t] = [NoPress EXCEPT !.kind = "drop"]]
    /\ fate' = [i \in Imports |->
           IF fate[i] # "unread" /\ ~Elsewhere(t, i) THEN "givenUp" ELSE fate[i]]
    /\ UNCHANGED <<repoVars, deviceVars, tabVars, state, pending, threadVars>>

DropLocks(t) ==
    /\ Pressing(t, "drop")
    /\ LockFree(t)
    /\ Lock(t)
    /\ press' = [press EXCEPT ![t] = [NoPress EXCEPT !.kind = "dropping", !.left = pending[t]]]
    /\ UNCHANGED <<repoVars, jobs, tabVars, viewVars, stopping, moved, fate, threadVars>>

\* deleteRecord succeeds on a key that is not there.
Removed(p) ==
    /\ inRepo' = inRepo \ {p}
    /\ removed' = Plus(removed, {p} \cap inRepo)
    /\ UNCHANGED <<receipts, created, drained>>

DropRemoves(t) ==
    /\ Pressing(t, "dropping")
    /\ \E p \in press[t].left :
          /\ Removed(p)
          /\ Holding(t, pending[t] \ {p})
          /\ press' = [press EXCEPT ![t].left = @ \ {p}]
    /\ UNCHANGED <<deviceVars, tabVars, state, ticking, stopping, moved, fate, threadVars>>

DropFails(t) ==
    /\ Pressing(t, "dropping")
    /\ press[t].left # {}
    /\ \/ /\ "lost" \in Events
          /\ \E p \in press[t].left : Removed(p)
       \/ /\ Events \cap {"lost", "refused", "named"} # {}
          /\ UNCHANGED repoVars
    /\ Announce(t, "failed")
    /\ Released(t)
    /\ Unlock(t)
    /\ UNCHANGED <<jobs, tabVars, pending, ticking, stopping, moved, fate, threadVars>>

DropClears(t) ==
    /\ Pressing(t, "dropping")
    /\ press[t].left = {}
    /\ Store(t, None)
    /\ Holding(t, {})
    /\ Announce(t, "none")
    /\ Released(t)
    /\ Unlock(t)
    /\ fate' = [i \in Imports |->
           IF fate[i] = "givenUp" /\ ~Elsewhere(t, i) THEN "discarded" ELSE fate[i]]
    /\ UNCHANGED <<repoVars, tabVars, ticking, stopping, moved, threadVars>>

-----------------------------------------------------------------------------
StepActs(t) == \/ StepStops(t) \/ StepWaits(t) \/ StepSends(t) \/ StepRelists(t)
               \/ StepLists(t) \/ StepDrains(t)
Answers(t)  == \/ Relisted(t) \/ Listed(t) \/ ListingFails(t)
               \/ UploadLanded(t) \/ UploadDenied(t)
               \/ DrainLanded(t) \/ DrainDenied(t) \/ Checked(t) \/ CheckFails(t)
               \/ Delayed(t) \/ Missed(t)
PDS(t)      == Lands(t) \/ Denies(t) \/ Declines(t)
Opens(t)    == \/ Attach(t) \/ AttachListed(t) \/ AttachFails(t)
               \/ CollectionRead(t) \/ Close(t)
Owner(t)    == \/ \E i \in Imports : Begin(t, i)
               \/ BeginSaves(t) \/ BeginFails(t)
               \/ Halt(t) \/ HaltAfterStep(t) \/ HaltSaves(t)
               \/ CarryOn(t) \/ CarryOnSaves(t)
               \/ Drop(t) \/ DropLocks(t) \/ DropRemoves(t) \/ DropFails(t)
               \/ DropClears(t)

Next == \E t \in Tabs : StepActs(t) \/ Answers(t) \/ PDS(t) \/ Opens(t) \/ Owner(t)

Spec == Init /\ [][Next]_vars

-----------------------------------------------------------------------------
(* Safety.                                                                 *)

\* The transaction that drains a part deletes it, so every landing of a part is
\* drained once, removed once or still in the repository: any number of tabs
\* and devices racing for one part leave exactly one winner.
Accounted ==
    \A p \in Parts :
        created[p] = drained[p] + removed[p] + (IF p \in inRepo THEN 1 ELSE 0)

\* upload() writes the receipt first "so a part is never an orphan": whatever
\* stale copy of a job a tab writes back, no part is ever without its receipt.
ReceiptFirst == \A p \in inRepo : DigestOf(p) \in receipts

\* With the lock, one tab of a browser at a time has a step or a discard out.
Holds(t) == step[t].at \notin {"idle", "halting"} \/ press[t].kind = "dropping"
OneWriter ==
    \A s, t \in Tabs :
        Holds(s) /\ Holds(t) /\ Home[s] = Home[t] /\ Home[t] \in locks => s = t

\* From the moment begin() has written a job down with no step of its tab out,
\* every card of its file is in a stored job, in the repository, or drained,
\* until the owner discards it: with Web Locks or without.
Somewhere(p) ==
    \/ p \in inRepo
    \/ drained[p] + removed[p] > 0
    \/ \E b \in Browsers : jobs[b] # None /\ p \in jobs[b].parts
NeverLost == \A p \in Parts : fate[ImportOf[p]] = "begun" => Somewhere(p)

\* Where the browser has Web Locks no import is begun under a step still out:
\* begin() gives way to a standing job, and drop() waits for the lock to clear it.
Sheltered == \A i \in Imports : fate[i] = "exposed" => locks # Browsers

\* "A step that comes back to find the era moved on writes nothing down" (runner.ts:100):
\* keep() sees to it, and the clear() of an empty listing does not.  TLC violates it
\* on runner_alone.
EraGuards ==
    \A p \in Parts : fate[ImportOf[p]] \in {"begun", "exposed"} => Somewhere(p)

\* A retry leaves out what landed without its answer, so no upload call sends
\* the repository a key it already holds.
NeverCollides ==
    \A t \in Tabs : step[t].at = "sending" /\ step[t].said = "out" => Accepts(step[t])

\* Where the PDS names no error of its own, no import ends in a failure.
NeverFails == \A t \in Tabs : state[t] # "failed"

\* A stop outlasts the tab: once the press is over and no step is out, the job
\* the store holds is paused.
StopSticks ==
    \A t \in Tabs :
        stopping[t] /\ step[t] = Idle /\ press[t] = NoPress /\ Stored(t) # None
            => Stored(t).paused

\* A call that comes back after its import was discarded writes nothing down,
\* locks or no locks: no stored job holds a part of a discarded import, and none
\* stands once every import is discarded and nothing of them outlived it.
Wanted(p) == fate[ImportOf[p]] \in {"begun", "exposed", "givenUp"}
Outlived(p) == p \in inRepo \/ drained[p] > 0
NoRevival ==
    \A b \in Browsers : jobs[b] # None =>
        /\ \A p \in jobs[b].parts : fate[ImportOf[p]] # "discarded"
        /\ \E p \in Parts : Wanted(p) \/ Outlived(p)

\* A discard that has finished leaves no part for the next open to drain.
DiscardSticks ==
    \A p \in Parts : fate[ImportOf[p]] = "discarded" => p \notin inRepo

\* Where each part is, as ImportPromise speaks of it; a part that landed or
\* drained a second time is nowhere the promise knows.
Place == [p \in Parts |-> IF created[p] > 1 \/ drained[p] > 1 THEN "twice"
                          ELSE IF p \in inRepo THEN "repo"
                          ELSE IF drained[p] > 0 THEN "cards"
                          ELSE IF removed[p] > 0 THEN "gone" ELSE "device"]
Promise == INSTANCE ImportPromise WITH place <- Place

\* The runner implements the promise: the retries, the crashes and the discards
\* of one device never move a part but forward.
KeepsPromise == Promise!Spec

-----------------------------------------------------------------------------
(* What a step may never do.                                               *)

\* "done" is announced only when every card of every begun import is drained,
\* whichever listing found the repository empty.
DoneIsDone ==
    [][\A t \in Tabs : state'[t] = "done" /\ state[t] # "done" =>
          \A p \in Parts : fate[ImportOf[p]] = "begun" => drained[p] > 0]_vars

\* A drain the repository refused because its part is gone is not reported as a
\* failure: that is the delete of another drain doing its work.
GoneIsNoFailure ==
    [][\A t \in Tabs :
          step[t].at = "checking" /\ state'[t] = "failed" /\ state[t] # "failed"
              => step[t].taking \subseteq inRepo]_vars

-----------------------------------------------------------------------------
(* Liveness.  A tab's own threads run when they can and a deadline passes; *)
(* the network may lose any number of calls, listings and answers, but not *)
(* every one of a kind for ever.                                           *)

Fairness ==
    \A t \in Tabs :
        /\ WF_vars(Attach(t))
        /\ SF_vars(AttachListed(t))
        /\ WF_vars(CollectionRead(t))
        /\ WF_vars(StepSends(t) \/ StepRelists(t) \/ StepLists(t) \/ StepDrains(t))
        /\ WF_vars(Answers(t))
        /\ SF_vars(Relisted(t))
        /\ SF_vars(Listed(t))
        /\ SF_vars(Lands(t))
        /\ SF_vars(Denies(t))
        /\ SF_vars(DrainDenied(t))
        /\ WF_vars(BeginSaves(t))

FairSpec == Spec /\ Fairness

\* An import begun in a tab that stays open is drained to the last part.
Finishes ==
    \A p \in Parts : fate[ImportOf[p]] = "begun" ~> drained[p] > 0
=============================================================================
