------------------------- MODULE ImportRunnerProofs -------------------------
(***************************************************************************)
(* Theorems about ImportRunner, for any number of tabs, browsers, files    *)
(* and parts and whatever of EventNames happens: what always holds, then   *)
(* what holds when a browser has one tab, then what holds when one tab on  *)
(* one device is all there is. Two tabs of one browser do lose parts, an   *)
(* import begun before the opening listing answers does too, and a second  *)
(* device can break each of the last: so these are hypotheses of the       *)
(* theorems and not assumptions of the model.                              *)
(***************************************************************************)
EXTENDS ImportRunner, TLAPS

\* TypeOK is not inductive alone: a thread that waits on an answer, or a press
\* that has read the job, writes back the copy it holds, so that copy is a job.
Shaped ==
    \A t \in Tabs :
        /\ step[t].at \notin {"idle", "halting"} => step[t].job \in Jobs
        /\ step[t].said # "nothing" => step[t].at \in {"sending", "draining"}
        /\ press[t].kind \in {"halt", "carryOn"} => press[t].job \in Jobs
        /\ press[t].kind = "begin" => press[t].import \in Imports

USE HomeAssumption, DigestAssumption, PartsAssumption, NoneAssumption

-----------------------------------------------------------------------------
(* Type correctness.                                                       *)

LEMMA JobFields ==
    ASSUME NEW job \in Jobs, NEW b \in BOOLEAN
    PROVE  /\ [job EXCEPT !.paused = b] \in Jobs
           /\ [job EXCEPT !.missed = b] \in Jobs
           /\ [job EXCEPT !.paused = @ \/ b] \in Jobs
           /\ [job EXCEPT !.paused = b, !.missed = FALSE] \in Jobs
           /\ Owing(job) \in Jobs
  BY DEF Jobs, Owing

LEMMA KeepType ==
    ASSUME TypeOK, NEW t \in Tabs, NEW job \in Jobs, Keep(t, job)
    PROVE  jobs' \in [Browsers -> Jobs \cup {None}]
  BY JobFields DEF Keep, Store, TypeOK

LEMMA EndStepType ==
    ASSUME TypeOK, Shaped, NEW t \in Tabs, EndStep(t)
    PROVE  /\ lock' \in [Browsers -> Tabs \cup {None}]
           /\ step' \in [Tabs -> Steps]
           /\ \A s \in Tabs : s # t => step'[s] = step[s]
           /\ step'[t] \in {Idle, Halting}
  BY DEF EndStep, Unlock, TypeOK, Steps, Idle, Halting

LEMMA OutType ==
    ASSUME TypeOK, Shaped, NEW t \in Tabs, NEW job \in Jobs, NEW taking \in SUBSET Parts,
           NEW at \in {"relisting", "sending", "listing", "draining"},
           Out(t, at, job, taking), press' = press
    PROVE  step' \in [Tabs -> Steps] /\ moved' \in [Tabs -> BOOLEAN] /\ Shaped'
  BY DEF Out, TypeOK, Steps, Shaped

LEMMA CallsType ==
    ASSUME TypeOK, Shaped, NEW t \in Tabs, NEW job \in Jobs, NEW taking \in SUBSET Parts,
           NEW at \in {"sending", "draining"}, Calls(t, at, job, taking), press' = press
    PROVE  step' \in [Tabs -> Steps] /\ Shaped'
  BY DEF Calls, TypeOK, Steps, Shaped

LEMMA LockType ==
    ASSUME TypeOK, NEW t \in Tabs, Lock(t) \/ Unlock(t)
    PROVE  lock' \in [Browsers -> Tabs \cup {None}]
  BY DEF Lock, Unlock, TypeOK

LEMMA InitTypes == Init => TypeOK /\ Shaped
  BY DEF Init, TypeOK, Shaped, Idle, NoPress, NotAttaching, Steps, Presses,
         Attachings, States, Fates

LEMMA StepActsTypes ==
    ASSUME TypeOK, Shaped, NEW t \in Tabs, StepActs(t)
    PROVE  TypeOK' /\ Shaped'
<1> USE DEF repoVars, deviceVars, tabVars, viewVars, pressVars, threadVars
<1>0. Stored(t) \in Jobs \cup {None}
  BY DEF Stored, TypeOK
<1>1. CASE StepStops(t)
  BY <1>1 DEF StepStops, Ticks, TypeOK, Shaped
<1>2. CASE StepWaits(t)
  BY <1>2 DEF StepWaits, Announce, TypeOK, Shaped, States
<1>3. CASE StepSends(t)
  <2>1. PICK taking \in Batches(Stored(t)) : Out(t, "sending", Stored(t), taking)
    BY <1>3 DEF StepSends
  <2>2. taking \in SUBSET Parts /\ Stored(t) \in Jobs
    BY <1>0, <1>3, <2>1 DEF StepSends, Standing, Batches, Jobs
  <2>3. step' \in [Tabs -> Steps] /\ moved' \in [Tabs -> BOOLEAN] /\ Shaped'
    BY <1>3, <2>1, <2>2, OutType DEF StepSends
  <2> QED BY <1>3, <2>3, LockType DEF StepSends, Announce, TypeOK, States
<1>4. CASE StepRelists(t)
  <2>1. step' \in [Tabs -> Steps] /\ moved' \in [Tabs -> BOOLEAN] /\ Shaped'
    BY <1>0, <1>4, OutType DEF StepRelists, Standing
  <2> QED BY <1>4, <2>1, LockType DEF StepRelists, Announce, TypeOK, States
<1>5. CASE StepLists(t)
  <2>1. step' \in [Tabs -> Steps] /\ moved' \in [Tabs -> BOOLEAN] /\ Shaped'
    BY <1>0, <1>5, OutType DEF StepLists, Standing
  <2> QED BY <1>5, <2>1, LockType DEF StepLists, TypeOK
<1>6. CASE StepDrains(t)
  <2>1. PICK p \in pending[t] : Out(t, "draining", Stored(t), {p})
    BY <1>6 DEF StepDrains
  <2>2. {p} \in SUBSET Parts /\ Stored(t) \in Jobs
    BY <1>0, <1>6, <2>1 DEF StepDrains, Standing, TypeOK
  <2>3. step' \in [Tabs -> Steps] /\ moved' \in [Tabs -> BOOLEAN] /\ Shaped'
    BY <1>6, <2>1, <2>2, OutType DEF StepDrains
  <2> QED BY <1>6, <2>3, LockType DEF StepDrains, Announce, TypeOK, States
<1> QED BY <1>1, <1>2, <1>3, <1>4, <1>5, <1>6 DEF StepActs

LEMMA BackType ==
    ASSUME TypeOK, Shaped, NEW t \in Tabs, NEW job \in Jobs, Keep(t, job), EndStep(t),
           press' = press
    PROVE  /\ jobs' \in [Browsers -> Jobs \cup {None}]
           /\ lock' \in [Browsers -> Tabs \cup {None}]
           /\ step' \in [Tabs -> Steps]
           /\ Shaped'
  BY KeepType, EndStepType DEF Shaped, Idle, Halting

LEMMA AnnounceType ==
    ASSUME TypeOK, NEW t \in Tabs, NEW at \in States, Announce(t, at) \/ AnnounceKept(t, at)
    PROVE  state' \in [Tabs -> States]
  BY DEF TypeOK, Announce, AnnounceKept

LEMMA ViewType ==
    ASSUME TypeOK, NEW t \in Tabs, NEW parts \in SUBSET Parts, NEW on \in BOOLEAN
    PROVE  /\ Holding(t, parts) => pending' \in [Tabs -> SUBSET Parts]
           /\ Ticks(t, on) => ticking' \in [Tabs -> BOOLEAN]
  BY DEF TypeOK, Holding, Ticks

LEMMA FailsType ==
    ASSUME TypeOK, Shaped, NEW t \in Tabs, step[t].job \in Jobs, Fails(t), press' = press
    PROVE  /\ jobs' \in [Browsers -> Jobs \cup {None}]
           /\ lock' \in [Browsers -> Tabs \cup {None}]
           /\ step' \in [Tabs -> Steps]
           /\ state' \in [Tabs -> States]
           /\ ticking' \in [Tabs -> BOOLEAN]
           /\ Shaped'
<1>1. [step[t].job EXCEPT !.paused = TRUE] \in Jobs
  BY JobFields
<1>2. (ticking[t] /\ moved[t]) \in BOOLEAN /\ "failed" \in States
  BY DEF TypeOK, States
<1> QED BY <1>1, <1>2, BackType, AnnounceType, ViewType DEF Fails

LEMMA AnswersTypes ==
    ASSUME TypeOK, Shaped, NEW t \in Tabs, Answers(t)
    PROVE  TypeOK' /\ Shaped'
<1> USE DEF repoVars, deviceVars, tabVars, viewVars, pressVars, threadVars
<1>0. /\ step[t].at \notin {"idle", "halting"} => step[t].job \in Jobs
      /\ step[t].said # "nothing" => step[t].job \in Jobs
      /\ step[t].taking \in SUBSET Parts
      /\ step[t] \in Steps
  BY DEF TypeOK, Shaped, Steps
<1>1. CASE Relisted(t)
  <2> DEFINE job == Owing(step[t].job)
  <2>1. step[t].job \in Jobs /\ job \in Jobs
    BY <1>0, <1>1, JobFields DEF Relisted
  <2>2. pending' \in [Tabs -> SUBSET Parts]
    BY <1>1 DEF Relisted, Holding, TypeOK
  <2>3. CASE Keep(t, job) /\ EndStep(t)
    BY <1>1, <2>1, <2>2, <2>3, BackType DEF Relisted, TypeOK
  <2>4. CASE /\ \E taking \in Batches(job) : Calls(t, "sending", job, taking)
             /\ UNCHANGED deviceVars
    <3>1. PICK taking \in Batches(job) : Calls(t, "sending", job, taking)
      BY <2>4
    <3>2. taking \in SUBSET Parts
      BY <2>1, <3>1 DEF Batches, Jobs
    <3>3. step' \in [Tabs -> Steps] /\ Shaped'
      BY <1>1, <2>1, <3>1, <3>2, CallsType DEF Relisted
    <3> QED BY <1>1, <2>2, <2>4, <3>3 DEF Relisted, TypeOK
  <2> QED BY <1>1, <2>3, <2>4 DEF Relisted
<1>2. CASE Listed(t)
  <2>1. pending' \in [Tabs -> SUBSET Parts]
    BY <1>2 DEF Listed, Holding, TypeOK
  <2>2. press' = press /\ moved' = moved
    BY <1>2 DEF Listed
  <2>3. CASE EndStep(t)
    <3>1. lock' \in [Browsers -> Tabs \cup {None}] /\ step' \in [Tabs -> Steps] /\ Shaped'
      BY <2>2, <2>3, EndStepType DEF Shaped, Idle, Halting
    <3>2. /\ jobs' \in [Browsers -> Jobs \cup {None}]
          /\ state' \in [Tabs -> States]
          /\ ticking' \in [Tabs -> BOOLEAN]
      BY <1>2 DEF Listed, Store, Ticks, Announce, States, TypeOK
    <3> QED BY <1>2, <2>1, <3>1, <3>2 DEF Listed, TypeOK
  <2>4. CASE /\ Announce(t, "running")
             /\ \E p \in inRepo : Calls(t, "draining", step[t].job, {p})
             /\ UNCHANGED <<deviceVars, ticking>>
    <3>1. PICK p \in inRepo : Calls(t, "draining", step[t].job, {p})
      BY <2>4
    <3>2. {p} \in SUBSET Parts /\ step[t].job \in Jobs
      BY <1>0, <1>2 DEF TypeOK, Listed
    <3>3. step' \in [Tabs -> Steps] /\ Shaped'
      BY <2>2, <3>1, <3>2, CallsType
    <3> QED BY <1>2, <2>1, <2>4, <3>3 DEF Listed, Announce, States, TypeOK
  <2> QED BY <1>2, <2>3, <2>4 DEF Listed
<1>3. CASE ListingFails(t)
  <2>1. lock' \in [Browsers -> Tabs \cup {None}] /\ step' \in [Tabs -> Steps] /\ Shaped'
    BY <1>3, EndStepType DEF ListingFails, Shaped, Idle, Halting
  <2> QED BY <1>3, <2>1 DEF ListingFails, TypeOK
<1>4. CASE UploadLanded(t)
  <2> DEFINE left == Left(step[t].job, step[t].taking)
  <2>1. left \in Jobs
    BY <1>0, <1>4 DEF UploadLanded, Jobs, Left
  <2>2. Keep(t, left) /\ EndStep(t) /\ AnnounceKept(t, "uploading")
    BY <1>4 DEF UploadLanded
  <2>3. pending' \in [Tabs -> SUBSET Parts]
    BY <1>4 DEF UploadLanded, Holding, TypeOK
  <2> HIDE DEF left
  <2>4. state' \in [Tabs -> States]
    BY <2>2, AnnounceType DEF States
  <2> QED BY <1>4, <2>1, <2>2, <2>3, <2>4, BackType DEF UploadLanded, TypeOK
<1>5. CASE UploadDenied(t)
  BY <1>0, <1>5, FailsType DEF UploadDenied, TypeOK
<1>6. CASE DrainLanded(t)
  <2>1. [step[t].job EXCEPT !.missed = FALSE] \in Jobs
    BY <1>0, <1>6, JobFields DEF DrainLanded
  <2>2. pending' \in [Tabs -> SUBSET Parts]
    BY <1>0, <1>6 DEF DrainLanded, Holding, TypeOK
  <2>3. state' \in [Tabs -> States] /\ ticking' \in [Tabs -> BOOLEAN]
    BY <1>6 DEF DrainLanded, AnnounceKept, Announce, Ticks, States, TypeOK
  <2> QED BY <1>6, <2>1, <2>2, <2>3, BackType DEF DrainLanded, TypeOK
<1>7. CASE DrainDenied(t)
  <2>1. step' \in [Tabs -> Steps]
    BY <1>0, <1>7 DEF DrainDenied, TypeOK, Steps
  <2>2. Shaped'
    BY <1>0, <1>7, <2>1 DEF DrainDenied, Shaped, TypeOK, Steps
  <2> QED BY <1>7, <2>1, <2>2 DEF DrainDenied, TypeOK
<1>8. CASE Checked(t)
  <2>1. pending' \in [Tabs -> SUBSET Parts]
    BY <1>8 DEF Checked, Holding, TypeOK
  <2>2. CASE Fails(t)
    BY <1>0, <1>8, <2>1, <2>2, FailsType DEF Checked, TypeOK
  <2>3. CASE EndStep(t) /\ UNCHANGED <<jobs, state, ticking>>
    <3>1. lock' \in [Browsers -> Tabs \cup {None}] /\ step' \in [Tabs -> Steps] /\ Shaped'
      BY <1>8, <2>3, EndStepType DEF Checked, Shaped, Idle, Halting
    <3> QED BY <1>8, <2>1, <2>3, <3>1 DEF Checked, TypeOK
  <2> QED BY <1>8, <2>2, <2>3 DEF Checked
<1>9. CASE CheckFails(t)
  BY <1>0, <1>9, FailsType DEF CheckFails, TypeOK
<1>10. CASE Delayed(t)
  <2>1. [step[t].job EXCEPT !.missed = FALSE] \in Jobs
    BY <1>0, <1>10, JobFields DEF Delayed
  <2>2. state' \in [Tabs -> States]
    BY <1>10, AnnounceType DEF Delayed, States
  <2> QED BY <1>10, <2>1, <2>2, BackType DEF Delayed, TypeOK
<1>11. CASE Missed(t)
  <2>1. [step[t].job EXCEPT !.missed = TRUE] \in Jobs
    BY <1>0, <1>11, JobFields DEF Missed
  <2>2. state' \in [Tabs -> States]
    BY <1>11, AnnounceType DEF Missed, States
  <2> QED BY <1>11, <2>1, <2>2, BackType DEF Missed, TypeOK
<1> QED BY <1>1, <1>2, <1>3, <1>4, <1>5, <1>6, <1>7, <1>8, <1>9, <1>10, <1>11 DEF Answers

LEMMA SaysType ==
    ASSUME TypeOK, Shaped, NEW t \in Tabs, NEW answer \in {"landed", "verdict", "refused"},
           step[t].said = "out", Says(t, answer), press' = press
    PROVE  step' \in [Tabs -> Steps] /\ Shaped'
<1>0. step[t] \in Steps
  BY DEF TypeOK
<1>1. step[t] \in Steps /\ [step[t] EXCEPT !.said = answer] \in Steps
  BY <1>0 DEF Steps
<1>2. step' = [step EXCEPT ![t] = [step[t] EXCEPT !.said = answer]]
  BY DEF Says, TypeOK
<1>3. step' \in [Tabs -> Steps]
  BY <1>1, <1>2 DEF TypeOK
<1>4. /\ step'[t].at = step[t].at
      /\ step'[t].job = step[t].job
      /\ \A s \in Tabs : s # t => step'[s] = step[s]
  BY <1>1, <1>2 DEF TypeOK, Steps
<1> QED BY <1>3, <1>4 DEF Shaped

LEMMA PlusType ==
    ASSUME NEW count \in [Parts -> Nat], NEW parts
    PROVE  Plus(count, parts) \in [Parts -> Nat]
  BY DEF Plus

LEMMA PDSTypes ==
    ASSUME TypeOK, Shaped, NEW t \in Tabs, PDS(t)
    PROVE  TypeOK' /\ Shaped'
<1> USE DEF repoVars, deviceVars, tabVars, viewVars, pressVars, threadVars
<1>1. CASE Lands(t)
  <2>0. /\ step[t].job \in Jobs
        /\ step[t].taking \in SUBSET Parts
    BY <1>1 DEF Lands, TypeOK, Shaped, Steps
  <2>1. step' \in [Tabs -> Steps] /\ Shaped'
    BY <1>1, SaysType DEF Lands
  <2>2. receipts' \in SUBSET Digests
    BY <1>1, <2>0 DEF Lands, TypeOK, Jobs
  <2>3. inRepo' \in SUBSET Parts
    BY <1>1, <2>0 DEF Lands, Retired, TypeOK
  <2>4. created' \in [Parts -> Nat] /\ drained' \in [Parts -> Nat]
    BY <1>1, PlusType DEF Lands, TypeOK
  <2> QED BY <1>1, <2>1, <2>2, <2>3, <2>4 DEF Lands, TypeOK
<1>2. CASE Denies(t) \/ Declines(t)
  <2>1. step' \in [Tabs -> Steps] /\ Shaped'
    BY <1>2, SaysType DEF Denies, Declines
  <2> QED BY <1>2, <2>1 DEF Denies, Declines, TypeOK
<1> QED BY <1>1, <1>2 DEF PDS

LEMMA OpensTypes ==
    ASSUME TypeOK, Shaped, NEW t \in Tabs, Opens(t)
    PROVE  TypeOK' /\ Shaped'
<1> USE DEF repoVars, deviceVars, tabVars, viewVars, pressVars, threadVars
<1>0. Stored(t) \in Jobs \cup {None}
  BY DEF Stored, TypeOK
<1>1. CASE Attach(t)
  <2>1. Shaped'
    BY <1>1 DEF Attach, Shaped
  <2>2. state' \in [Tabs -> States] /\ session' \in [Tabs -> BOOLEAN]
    BY <1>1 DEF Attach, Announce, TypeOK, States
  <2>3. ticking' \in [Tabs -> BOOLEAN]
    BY <1>0, <1>1 DEF Attach, Ticks, TypeOK, Jobs
  <2>4. attaching' \in [Tabs -> Attachings]
    <3>1. [at |-> "listing", job |-> Stored(t)] \in Attachings
      BY <1>0 DEF Attachings
    <3>2. \/ attaching' = [attaching EXCEPT ![t] = [at |-> "listing", job |-> Stored(t)]]
          \/ attaching' = attaching
      BY <1>1 DEF Attach
    <3> QED BY <3>1, <3>2 DEF TypeOK
  <2>5. UNCHANGED <<repoVars, deviceVars, locks, fresh, pending, pressVars, step>>
    BY <1>1 DEF Attach
  <2> QED BY <2>1, <2>2, <2>3, <2>4, <2>5 DEF TypeOK
<1>2. CASE AttachListed(t)
  <2>0. attaching[t].job \in Jobs \cup {None}
    BY DEF TypeOK, Attachings
  <2>1. Shaped'
    BY <1>2 DEF AttachListed, Shaped
  <2>2. attaching' \in [Tabs -> Attachings] /\ pending' \in [Tabs -> SUBSET Parts]
    BY <1>2 DEF AttachListed, Holding, NotAttaching, TypeOK, Attachings
  <2>3. Found \in Jobs
    BY DEF Found, Jobs
  <2>4. jobs' \in [Browsers -> Jobs \cup {None}]
    BY <1>2, <2>3 DEF AttachListed, Store, TypeOK
  <2>5. state' \in [Tabs -> States]
    BY <1>2 DEF AttachListed, Announce, TypeOK, States
  <2>6. ticking' \in [Tabs -> BOOLEAN]
    BY <1>2, <2>0 DEF AttachListed, Ticks, TypeOK, Jobs
  <2> QED BY <1>2, <2>1, <2>2, <2>4, <2>5, <2>6 DEF AttachListed, TypeOK
<1>3. CASE AttachFails(t)
  BY <1>3 DEF AttachFails, NotAttaching, TypeOK, Shaped, Attachings
<1>4. CASE CollectionRead(t)
  BY <1>4 DEF CollectionRead, TypeOK, Shaped
<1>5. CASE Close(t)
  <2>1. step' \in [Tabs -> Steps] /\ press' \in [Tabs -> Presses] /\ Shaped'
    BY <1>5 DEF Close, Idle, NoPress, TypeOK, Shaped, Steps, Presses
  <2>2. attaching' \in [Tabs -> Attachings]
    BY <1>5 DEF Close, NotAttaching, TypeOK, Attachings
  <2>3. lock' \in [Browsers -> Tabs \cup {None}]
    BY <1>5, LockType DEF Close
  <2> QED BY <1>5, <2>1, <2>2, <2>3 DEF Close, Announce, Holding, Ticks, TypeOK, States
<1> QED BY <1>1, <1>2, <1>3, <1>4, <1>5 DEF Opens

LEMMA ReleasedType ==
    ASSUME TypeOK, Shaped, NEW t \in Tabs, Released(t), step' = step
    PROVE  press' \in [Tabs -> Presses] /\ Shaped'
  BY DEF Released, NoPress, TypeOK, Shaped, Presses

LEMMA StopsNowType ==
    ASSUME TypeOK, Shaped, NEW t \in Tabs, StopsNow(t)
    PROVE  /\ press' \in [Tabs -> Presses]
           /\ step' = step => Shaped'
           /\ step' = [step EXCEPT ![t] = Idle] => Shaped'
<1>1. Stored(t) \in Jobs \cup {None}
  BY DEF Stored, TypeOK
<1>2. /\ press' \in [Tabs -> Presses]
      /\ press'[t].kind = "halt" => press'[t].job \in Jobs
      /\ press'[t].kind \in {"none", "halt"}
      /\ \A s \in Tabs : s # t => press'[s] = press[s]
  BY <1>1 DEF StopsNow, NoPress, TypeOK, Presses
<1>3. step' = step => Shaped'
  BY <1>2 DEF Shaped
<1>4. ASSUME step' = [step EXCEPT ![t] = Idle] PROVE Shaped'
  <2>1. step'[t] = Idle /\ \A s \in Tabs : s # t => step'[s] = step[s]
    BY <1>4 DEF TypeOK
  <2> QED BY <1>2, <2>1 DEF Shaped, Idle
<1> QED BY <1>2, <1>3, <1>4

LEMMA OwnerTypes ==
    ASSUME TypeOK, Shaped, NEW t \in Tabs, Owner(t)
    PROVE  TypeOK' /\ Shaped'
<1> USE DEF repoVars, deviceVars, tabVars, viewVars, pressVars, threadVars
<1>0. Stored(t) \in Jobs \cup {None}
  BY DEF Stored, TypeOK
<1>1. ASSUME NEW i \in Imports, Begin(t, i) PROVE TypeOK' /\ Shaped'
  BY <1>1 DEF Begin, NoPress, TypeOK, Shaped, Presses
<1>2. CASE BeginSaves(t)
  <2>1. press' \in [Tabs -> Presses] /\ Shaped'
    BY <1>2, ReleasedType DEF BeginSaves
  <2>2. press[t].import \in Imports
    BY <1>2 DEF BeginSaves, Pressing, Shaped
  <2>3. jobs' \in [Browsers -> Jobs \cup {None}]
    BY <1>2, <2>2 DEF BeginSaves, Store, Jobs, PartsOf, TypeOK
  <2>4. fate' \in [Imports -> Fates] /\ state' \in [Tabs -> States]
    BY <1>2 DEF BeginSaves, Begins, Announce, TypeOK, States, Fates
  <2> QED BY <1>2, <2>1, <2>3, <2>4
          DEF BeginSaves, MoveEra, Stopping, Holding, Ticks, TypeOK
<1>3. CASE BeginFails(t)
  <2>1. press' \in [Tabs -> Presses] /\ Shaped'
    BY <1>3, ReleasedType DEF BeginFails
  <2> QED BY <1>3, <2>1 DEF BeginFails, MoveEra, Stopping, Holding, Announce, TypeOK, States
<1>4. CASE Halt(t)
  <2>1. press' \in [Tabs -> Presses] /\ Shaped'
    BY <1>4, StopsNowType DEF Halt, TypeOK, Shaped
  <2> QED BY <1>4, <2>1 DEF Halt, Stopping, Ticks, Announce, TypeOK, States
<1>5. CASE HaltAfterStep(t)
  <2>1. step' \in [Tabs -> Steps]
    BY <1>5 DEF HaltAfterStep, Idle, TypeOK, Steps
  <2>2. press' \in [Tabs -> Presses] /\ Shaped'
    BY <1>5, StopsNowType DEF HaltAfterStep, Idle, TypeOK, Shaped
  <2>3. state' \in [Tabs -> States]
    <3>1. state' = [state EXCEPT ![t] = "stopped"] \/ state' = state
      BY <1>5 DEF HaltAfterStep, Announce
    <3> QED BY <3>1 DEF TypeOK, States
  <2>4. ticking' \in [Tabs -> BOOLEAN]
    BY <1>5 DEF HaltAfterStep, Ticks, TypeOK
  <2>5. UNCHANGED <<repoVars, deviceVars, tabVars, pending, stopping, moved, fate, attaching>>
    BY <1>5 DEF HaltAfterStep
  <2> QED BY <2>1, <2>2, <2>3, <2>4, <2>5 DEF TypeOK
<1>6. CASE HaltSaves(t)
  <2>1. press' \in [Tabs -> Presses] /\ Shaped'
    BY <1>6, ReleasedType DEF HaltSaves
  <2>2. jobs' \in [Browsers -> Jobs \cup {None}]
    BY <1>6, JobFields DEF HaltSaves, Pressing, Store, Shaped, TypeOK
  <2> QED BY <1>6, <2>1, <2>2 DEF HaltSaves, TypeOK
<1>7. CASE CarryOn(t)
  BY <1>0, <1>7 DEF CarryOn, Stopping, NoPress, TypeOK, Shaped, Presses
<1>8. CASE CarryOnSaves(t)
  <2>1. press' \in [Tabs -> Presses] /\ Shaped'
    BY <1>8, ReleasedType DEF CarryOnSaves
  <2>2. jobs' \in [Browsers -> Jobs \cup {None}]
    BY <1>8, JobFields DEF CarryOnSaves, Pressing, Store, Shaped, TypeOK
  <2> QED BY <1>8, <2>1, <2>2 DEF CarryOnSaves, Announce, Ticks, TypeOK, States
<1>9. CASE Drop(t)
  <2>1. press' \in [Tabs -> Presses] /\ Shaped'
    BY <1>9 DEF Drop, NoPress, TypeOK, Shaped, Presses
  <2>2. fate' \in [Imports -> Fates]
    BY <1>9 DEF Drop, TypeOK, Fates
  <2> QED BY <1>9, <2>1, <2>2 DEF Drop, MoveEra, Stopping, Ticks, TypeOK
<1>10. CASE DropLocks(t)
  <2>1. press' \in [Tabs -> Presses] /\ Shaped'
    BY <1>10 DEF DropLocks, NoPress, TypeOK, Shaped, Presses
  <2> QED BY <1>10, <2>1, LockType DEF DropLocks, TypeOK
<1>11. CASE DropRemoves(t)
  <2>1. PICK p \in press[t].left :
            /\ Removed(p)
            /\ Holding(t, pending[t] \ {p})
            /\ press' = [press EXCEPT ![t].left = @ \ {p}]
    BY <1>11 DEF DropRemoves
  <2>2. press' \in [Tabs -> Presses] /\ Shaped'
    BY <1>11, <2>1 DEF DropRemoves, Pressing, TypeOK, Shaped, Presses
  <2>3. inRepo' \in SUBSET Parts /\ removed' \in [Parts -> Nat]
    BY <2>1, PlusType DEF Removed, TypeOK
  <2> QED BY <1>11, <2>1, <2>2, <2>3 DEF DropRemoves, Removed, Holding, TypeOK
<1>12. CASE DropFails(t)
  <2>1. press' \in [Tabs -> Presses] /\ Shaped'
    BY <1>12, ReleasedType DEF DropFails
  <2>2. /\ inRepo' \in SUBSET Parts
        /\ removed' \in [Parts -> Nat]
        /\ UNCHANGED <<receipts, created, drained>>
    <3>1. \A p \in Parts : Plus(removed, {p} \cap inRepo) \in [Parts -> Nat]
      BY PlusType DEF TypeOK
    <3>2. ASSUME NEW p \in press[t].left, Removed(p)
          PROVE  /\ inRepo' \in SUBSET Parts
                 /\ removed' \in [Parts -> Nat]
                 /\ UNCHANGED <<receipts, created, drained>>
      BY <3>1, <3>2 DEF Removed, TypeOK, Presses
    <3>3. UNCHANGED repoVars \/ \E p \in press[t].left : Removed(p)
      BY <1>12 DEF DropFails
    <3> QED BY <3>2, <3>3 DEF TypeOK
  <2>3. state' \in [Tabs -> States] /\ lock' \in [Browsers -> Tabs \cup {None}]
    BY <1>12, LockType DEF DropFails, Announce, TypeOK, States
  <2> QED BY <1>12, <2>1, <2>2, <2>3 DEF DropFails, TypeOK
<1>13. CASE DropClears(t)
  <2>1. press' \in [Tabs -> Presses] /\ Shaped'
    BY <1>13, ReleasedType DEF DropClears
  <2>2. fate' \in [Imports -> Fates]
    BY <1>13 DEF DropClears, TypeOK, Fates
  <2>3. lock' \in [Browsers -> Tabs \cup {None}]
    BY <1>13, LockType DEF DropClears
  <2> QED BY <1>13, <2>1, <2>2, <2>3 DEF DropClears, Store, Holding, Announce, TypeOK, States
<1> QED BY <1>1, <1>2, <1>3, <1>4, <1>5, <1>6, <1>7, <1>8, <1>9, <1>10, <1>11, <1>12, <1>13
        DEF Owner

\* Every variable keeps its type in every behaviour.
THEOREM Types == Spec => [](TypeOK /\ Shaped)
<1>1. TypeOK /\ Shaped /\ [Next]_vars => TypeOK' /\ Shaped'
  <2> SUFFICES ASSUME TypeOK, Shaped, [Next]_vars PROVE TypeOK' /\ Shaped'
    OBVIOUS
  <2>1. CASE UNCHANGED vars
    BY <2>1 DEF TypeOK, Shaped, vars, repoVars, deviceVars, tabVars, viewVars, pressVars, threadVars
  <2>2. CASE Next
    BY <2>2, StepActsTypes, AnswersTypes, PDSTypes, OpensTypes, OwnerTypes DEF Next
  <2> QED BY <2>1, <2>2
<1> QED BY <1>1, InitTypes, PTL DEF Spec

\* In particular TypeOK holds throughout, for any instance.
THEOREM TypeCorrect == Spec => []TypeOK
  BY Types, PTL

-----------------------------------------------------------------------------
(* What becomes of a part is accounted for.                                *)

\* The repository changes only when the PDS lands a call, or a discard deletes.
LEMMA RepoMoves ==
    ASSUME [Next]_vars
    PROVE  \/ UNCHANGED repoVars
           \/ \E t \in Tabs : Lands(t)
           \/ \E p \in UNION {press[t].left : t \in Tabs} : Removed(p)
<1> USE DEF vars
<1>1. ASSUME NEW t \in Tabs, StepActs(t) PROVE UNCHANGED repoVars
  BY <1>1 DEF StepActs, StepStops, StepWaits, StepSends, StepRelists, StepLists, StepDrains
<1>2. ASSUME NEW t \in Tabs, Answers(t) PROVE UNCHANGED repoVars
  BY <1>2 DEF Answers, Relisted, Listed, ListingFails, UploadLanded, UploadDenied,
              DrainLanded, DrainDenied, Checked, CheckFails, Delayed, Missed
<1>3. ASSUME NEW t \in Tabs, PDS(t) PROVE Lands(t) \/ UNCHANGED repoVars
  BY <1>3 DEF PDS, Denies, Declines
<1>4. ASSUME NEW t \in Tabs, Opens(t) PROVE UNCHANGED repoVars
  BY <1>4 DEF Opens, Attach, AttachListed, AttachFails, CollectionRead, Close
<1>5. ASSUME NEW t \in Tabs, Owner(t)
      PROVE  UNCHANGED repoVars \/ \E p \in press[t].left : Removed(p)
  BY <1>5 DEF Owner, Begin, BeginSaves, BeginFails, Halt, HaltAfterStep, HaltSaves, CarryOn,
              CarryOnSaves, Drop, DropLocks, DropRemoves, DropFails, DropClears
<1> QED BY <1>1, <1>2, <1>3, <1>4, <1>5 DEF Next

LEMMA AccountedStep == TypeOK /\ Shaped /\ Accounted /\ [Next]_vars => Accounted'
<1> SUFFICES ASSUME TypeOK, Shaped, Accounted, [Next]_vars, NEW p \in Parts
             PROVE  created'[p] = drained'[p] + removed'[p] + (IF p \in inRepo' THEN 1 ELSE 0)
  BY DEF Accounted
<1>0. /\ created[p] \in Nat /\ drained[p] \in Nat /\ removed[p] \in Nat
      /\ created[p] = drained[p] + removed[p] + (IF p \in inRepo THEN 1 ELSE 0)
  BY DEF TypeOK, Accounted
<1>1. CASE UNCHANGED repoVars
  BY <1>0, <1>1 DEF repoVars
<1>2. ASSUME NEW t \in Tabs, Lands(t)
      PROVE  created'[p] = drained'[p] + removed'[p] + (IF p \in inRepo' THEN 1 ELSE 0)
  <2>1. CASE /\ step[t].at = "sending" /\ step[t].job.receipt # None
             /\ UNCHANGED <<inRepo, created, drained>>
    BY <1>0, <1>2, <2>1 DEF Lands
  <2>2. CASE /\ step[t].at = "sending" /\ step[t].job.receipt = None
             /\ inRepo' = inRepo \cup step[t].taking
             /\ created' = Plus(created, step[t].taking)
             /\ UNCHANGED drained
    BY <1>0, <1>2, <2>2 DEF Lands, Accepts, Plus
  <2>3. CASE /\ step[t].at = "draining"
             /\ inRepo' = Retired(step[t].taking)
             /\ drained' = Plus(drained, step[t].taking)
             /\ UNCHANGED created
    BY <1>0, <1>2, <2>3 DEF Lands, Accepts, Plus, Retired
  <2> QED BY <1>2, <2>1, <2>2, <2>3 DEF Lands
<1>3. ASSUME NEW q, Removed(q)
      PROVE  created'[p] = drained'[p] + removed'[p] + (IF p \in inRepo' THEN 1 ELSE 0)
  BY <1>0, <1>3 DEF Removed, Plus
<1> QED BY <1>1, <1>2, <1>3, RepoMoves

\* Whatever is lost, retried, raced for or discarded, each landing of a part is
\* drained once, removed once or still in the repository.
THEOREM AlwaysAccounted == Spec => []Accounted
<1>1. Init => Accounted
  BY DEF Init, Accounted
<1> QED BY <1>1, AccountedStep, Types, PTL DEF Spec

-----------------------------------------------------------------------------
(* With the lock, one writer to a browser.                                 *)

Busy(t) == step[t].at \notin {"idle", "halting"}

\* OneWriter is not inductive alone: it is the lock that says who writes, and a
\* tab may not let it go at the end of a step while its discard still counts on it.
Locked ==
    \A t \in Tabs : Home[t] \in locks =>
        /\ Holds(t) => lock[Home[t]] = t
        /\ ~(Busy(t) /\ press[t].kind = "dropping")

\* Of the three ways a step can touch the lock: leaving it and every holder alone,
\* taking it when it is free, and letting it go with nothing held any more.
LEMMA LeavesLock ==
    ASSUME TypeOK, Locked, UNCHANGED <<lock, locks>>,
           \A s \in Tabs : Busy(s)' => Busy(s),
           \A s \in Tabs : press'[s].kind = "dropping" => press[s].kind = "dropping"
    PROVE  Locked'
  BY DEF Locked, Holds, Busy

LEMMA TakesLock ==
    ASSUME TypeOK, Locked, NEW t \in Tabs, LockFree(t), Lock(t), UNCHANGED locks,
           \A s \in Tabs : s # t => step'[s] = step[s] /\ press'[s] = press[s],
           \/ press'[t] = press[t]
           \/ step'[t] = step[t]
    PROVE  Locked'
<1> SUFFICES ASSUME NEW s \in Tabs, Home[s] \in locks
             PROVE  /\ Holds(s)' => lock'[Home[s]] = s
                    /\ ~(Busy(s)' /\ press'[s].kind = "dropping")
  BY DEF Locked
<1>1. CASE s = t
  BY <1>1 DEF Locked, LockFree, Lock, Holds, Busy, TypeOK
<1>2. CASE s # t
  BY <1>2 DEF Locked, LockFree, Lock, Holds, Busy, TypeOK
<1> QED BY <1>1, <1>2

LEMMA GivesLock ==
    ASSUME TypeOK, Locked, NEW t \in Tabs, Unlock(t), UNCHANGED locks,
           \A s \in Tabs : s # t => step'[s] = step[s] /\ press'[s] = press[s],
           Home[t] \in locks => ~Holds(t)'
    PROVE  Locked'
<1> SUFFICES ASSUME NEW s \in Tabs, Home[s] \in locks
             PROVE  /\ Holds(s)' => lock'[Home[s]] = s
                    /\ ~(Busy(s)' /\ press'[s].kind = "dropping")
  BY DEF Locked
<1>1. CASE s = t
  BY <1>1 DEF Locked, Unlock, Holds, Busy, TypeOK
<1>2. CASE s # t
  BY <1>2 DEF Locked, Unlock, Holds, Busy, TypeOK
<1> QED BY <1>1, <1>2

\* A step that was out and is over gives the lock back, and had no discard beside it.
LEMMA EndStepLocked ==
    ASSUME TypeOK, Shaped, Locked, NEW t \in Tabs, Busy(t), EndStep(t),
           UNCHANGED <<locks, press>>
    PROVE  Locked'
<1>1. /\ step'[t] \in {Idle, Halting}
      /\ \A s \in Tabs : s # t => step'[s] = step[s]
  BY EndStepType
<1>2. Home[t] \in locks => ~Holds(t)'
  BY <1>1 DEF Locked, Holds, Busy, Idle, Halting
<1> QED BY <1>1, <1>2, GivesLock DEF EndStep

LEMMA OutLocked ==
    ASSUME TypeOK, Locked, NEW t \in Tabs, CanStep(t), Lock(t), UNCHANGED <<locks, press>>,
           NEW at, NEW job, NEW taking, Out(t, at, job, taking)
    PROVE  Locked'
<1>1. \A s \in Tabs : s # t => step'[s] = step[s]
  BY DEF Out, TypeOK
<1> QED BY <1>1, TakesLock DEF CanStep

LEMMA CallsLocked ==
    ASSUME TypeOK, Locked, NEW t \in Tabs, Busy(t), UNCHANGED <<lock, locks, press>>,
           NEW at, NEW job, NEW taking, Calls(t, at, job, taking)
    PROVE  Locked'
<1>1. \A s \in Tabs : Busy(s)' => Busy(s)
  BY DEF Calls, Busy, TypeOK
<1> QED BY <1>1, LeavesLock

LEMMA StopsNowKind ==
    ASSUME TypeOK, NEW t \in Tabs, StopsNow(t)
    PROVE  \A s \in Tabs : press'[s].kind = "dropping" => press[s].kind = "dropping"
<1>1. CASE Stored(t) = None
  BY <1>1 DEF StopsNow, NoPress, TypeOK
<1>2. CASE Stored(t) # None
  BY <1>2 DEF StopsNow, NoPress, TypeOK
<1> QED BY <1>1, <1>2

LEMMA LockedStep == TypeOK /\ Shaped /\ Locked /\ [Next]_vars => Locked'
<1> SUFFICES ASSUME TypeOK, Shaped, Locked, [Next]_vars PROVE Locked'
  OBVIOUS
<1> USE DEF repoVars, deviceVars, tabVars, viewVars, pressVars, threadVars
<1>1. CASE UNCHANGED vars
  BY <1>1, LeavesLock DEF vars, Busy
<1>2. ASSUME NEW t \in Tabs, StepActs(t) PROVE Locked'
  <2>1. CASE StepStops(t) \/ StepWaits(t)
    BY <2>1, LeavesLock DEF StepStops, StepWaits, Busy
  <2>2. CASE StepSends(t) \/ StepRelists(t) \/ StepLists(t) \/ StepDrains(t)
    BY <2>2, OutLocked DEF StepSends, StepRelists, StepLists, StepDrains
  <2> QED BY <1>2, <2>1, <2>2 DEF StepActs
<1>3. ASSUME NEW t \in Tabs, Answers(t) PROVE Locked'
  <2>1. /\ UNCHANGED <<locks, press>>
        /\ Busy(t)
    BY <1>3 DEF Answers, Relisted, Listed, ListingFails, UploadLanded, UploadDenied,
                DrainLanded, DrainDenied, Checked, CheckFails, Delayed, Missed, Busy, Shaped
  <2>2. CASE DrainDenied(t)
    <3>1. \A s \in Tabs : Busy(s)' => Busy(s)
      BY <2>1, <2>2 DEF DrainDenied, Busy, TypeOK
    <3> QED BY <2>1, <2>2, <3>1, LeavesLock DEF DrainDenied
  <2>3. CASE Relisted(t) \/ Listed(t)
    <3>1. CASE EndStep(t)
      BY <2>1, <3>1, EndStepLocked
    <3>2. CASE /\ UNCHANGED lock
               /\ \E at, job, taking : Calls(t, at, job, taking)
      BY <2>1, <3>2, CallsLocked
    <3> QED BY <2>3, <3>1, <3>2 DEF Relisted, Listed
  <2>4. CASE \/ ListingFails(t) \/ UploadLanded(t) \/ UploadDenied(t) \/ DrainLanded(t)
             \/ Checked(t) \/ CheckFails(t) \/ Delayed(t) \/ Missed(t)
    <3>1. EndStep(t)
      BY <2>4 DEF ListingFails, UploadLanded, UploadDenied, DrainLanded, Checked,
                  CheckFails, Delayed, Missed, Fails
    <3> QED BY <2>1, <3>1, EndStepLocked
  <2> QED BY <1>3, <2>2, <2>3, <2>4 DEF Answers
<1>4. ASSUME NEW t \in Tabs, PDS(t) PROVE Locked'
  <2>1. \E answer : Says(t, answer) /\ UNCHANGED <<lock, locks, press>>
    BY <1>4 DEF PDS, Lands, Denies, Declines
  <2>2. \A s \in Tabs : Busy(s)' => Busy(s)
    BY <2>1 DEF Says, Busy, TypeOK, Steps
  <2> QED BY <2>1, <2>2, LeavesLock
<1>5. ASSUME NEW t \in Tabs, Opens(t) PROVE Locked'
  <2>1. CASE Attach(t) \/ AttachListed(t) \/ AttachFails(t) \/ CollectionRead(t)
    BY <2>1, LeavesLock DEF Attach, AttachListed, AttachFails, CollectionRead, Busy
  <2>2. CASE Close(t)
    <3>1. \A s \in Tabs : s # t => step'[s] = step[s] /\ press'[s] = press[s]
      BY <2>2 DEF Close, TypeOK
    <3>2. ~Holds(t)'
      BY <2>2 DEF Close, Holds, Idle, NoPress, TypeOK
    <3> QED BY <2>2, <3>1, <3>2, GivesLock DEF Close
  <2> QED BY <1>5, <2>1, <2>2 DEF Opens
<1>6. ASSUME NEW t \in Tabs, Owner(t) PROVE Locked'
  <2>1. CASE \/ \E i \in Imports : Begin(t, i)
             \/ Halt(t) \/ CarryOn(t) \/ Drop(t)
             \/ BeginSaves(t) \/ BeginFails(t) \/ HaltSaves(t) \/ CarryOnSaves(t)
             \/ DropRemoves(t)
    <3>1. UNCHANGED <<lock, locks, step>>
      BY <2>1 DEF Begin, Halt, CarryOn, Drop, BeginSaves, BeginFails, HaltSaves,
                  CarryOnSaves, DropRemoves
    <3>2. \A s \in Tabs : press'[s].kind = "dropping" => press[s].kind = "dropping"
      <4>1. CASE \E i \in Imports : Begin(t, i)
        BY <4>1 DEF Begin, NoPress, TypeOK
      <4>2. CASE Halt(t) \/ CarryOn(t) \/ Drop(t)
        <5>1. CASE Halt(t)
          BY <5>1, StopsNowKind DEF Halt
        <5>2. CASE CarryOn(t)
          <6>1. CASE Stored(t) = None
            BY <5>2, <6>1 DEF CarryOn, NoPress, TypeOK
          <6>2. CASE Stored(t) # None
            BY <5>2, <6>2 DEF CarryOn, NoPress, TypeOK
          <6> QED BY <6>1, <6>2
        <5>3. CASE Drop(t)
          BY <5>3 DEF Drop, NoPress, TypeOK
        <5> QED BY <4>2, <5>1, <5>2, <5>3
      <4>3. CASE BeginSaves(t) \/ BeginFails(t) \/ HaltSaves(t) \/ CarryOnSaves(t)
        <5>1. Released(t)
          BY <4>3 DEF BeginSaves, BeginFails, HaltSaves, CarryOnSaves
        <5> QED BY <5>1 DEF Released, NoPress, TypeOK
      <4>4. CASE DropRemoves(t)
        BY <4>4 DEF DropRemoves, Pressing, TypeOK, Presses
      <4> QED BY <2>1, <4>1, <4>2, <4>3, <4>4
    <3> QED BY <3>1, <3>2, LeavesLock DEF Busy
  <2>2. CASE HaltAfterStep(t)
    <3>1. \A s \in Tabs : Busy(s)' => Busy(s)
      BY <2>2 DEF HaltAfterStep, Busy, Idle, TypeOK
    <3>2. press' = press \/ StopsNow(t)
      BY <2>2 DEF HaltAfterStep
    <3>3. \A s \in Tabs : press'[s].kind = "dropping" => press[s].kind = "dropping"
      BY <3>2, StopsNowKind
    <3> QED BY <2>2, <3>1, <3>3, LeavesLock DEF HaltAfterStep
  <2>3. CASE DropLocks(t)
    <3>1. \A s \in Tabs : s # t => press'[s] = press[s]
      BY <2>3 DEF DropLocks, TypeOK
    <3> QED BY <2>3, <3>1, TakesLock DEF DropLocks
  <2>4. CASE DropFails(t) \/ DropClears(t)
    <3>1. /\ \A s \in Tabs : s # t => press'[s] = press[s]
          /\ press'[t].kind = "none"
          /\ press[t].kind = "dropping"
          /\ UNCHANGED <<locks, step>>
          /\ Unlock(t)
      BY <2>4 DEF DropFails, DropClears, Released, Pressing, NoPress, TypeOK
    <3>2. Home[t] \in locks => ~Holds(t)'
      BY <3>1 DEF Locked, Holds, Busy
    <3> QED BY <3>1, <3>2, GivesLock
  <2> QED BY <1>6, <2>1, <2>2, <2>3, <2>4 DEF Owner
<1> QED BY <1>1, <1>2, <1>3, <1>4, <1>5, <1>6 DEF Next

\* Two tabs of one browser never have a step or a discard out at the same time.
THEOREM AlwaysOneWriter == Spec => []OneWriter
<1>1. Init => Locked
  BY DEF Init, Locked, Holds, Busy, Idle, NoPress
<1>2. Locked => OneWriter
  BY DEF Locked, OneWriter
<1> QED BY <1>1, <1>2, LockedStep, Types, PTL DEF Spec

-----------------------------------------------------------------------------
(* The receipt comes first.                                                *)

\* A job still owes its receipt, which is then the one of all its parts, or the
\* receipt of each of its parts is in the repository.
Backed(job) ==
    \A p \in job.parts :
        IF job.receipt = None THEN DigestOf(p) \in receipts ELSE DigestOf(p) = job.receipt

\* ReceiptFirst is not inductive alone: the stored job, and every copy of a job a
\* step or a press holds and will write back, must be backed too, and so must the
\* answer of a call that has landed the receipt.
Receipted ==
    /\ ReceiptFirst
    /\ \A b \in Browsers : jobs[b] # None => Backed(jobs[b])
    /\ \A t \in Tabs :
          /\ step[t].job # None => Backed(step[t].job)
          /\ press[t].job # None => Backed(press[t].job)
          /\ step[t].at = "sending" /\ step[t].job.receipt = None
                => step[t].taking \subseteq step[t].job.parts
          /\ step[t].at = "sending" /\ step[t].said = "landed" /\ step[t].job.receipt # None
                => step[t].job.receipt \in receipts

\* What the fields a step or a press rewrites leave of a job is as backed as the job.
LEMMA BackedFields ==
    ASSUME NEW job \in Jobs, Backed(job), NEW b \in BOOLEAN, NEW taking
    PROVE  /\ Backed([job EXCEPT !.paused = b])
           /\ Backed([job EXCEPT !.missed = b])
           /\ Backed([job EXCEPT !.paused = @ \/ b])
           /\ Backed([job EXCEPT !.paused = b, !.missed = FALSE])
           /\ Backed(Owing(job))
           /\ job.receipt = None \/ job.receipt \in receipts
                 => Backed([receipt |-> None, parts |-> job.parts \ taking,
                            missed |-> FALSE, paused |-> job.paused])
  BY DEF Jobs, Backed, Owing

LEMMA BackedGrows ==
    ASSUME NEW job, Backed(job), receipts \subseteq receipts'
    PROVE  \A p \in job.parts :
              IF job.receipt = None THEN DigestOf(p) \in receipts' ELSE DigestOf(p) = job.receipt
  BY DEF Backed

LEMMA KeepBacked ==
    ASSUME TypeOK, Receipted, NEW t \in Tabs, NEW job \in Jobs, Backed(job), Keep(t, job)
    PROVE  \A b \in Browsers : jobs'[b] # None => Backed(jobs'[b])
<1>1. CASE moved[t]
  BY <1>1 DEF Keep, Receipted
<1>2. CASE ~moved[t]
  <2>1. stopping[t] \in BOOLEAN
    BY DEF TypeOK
  <2>2. Backed([job EXCEPT !.paused = @ \/ stopping[t]])
    BY <2>1, BackedFields
  <2>3. jobs' = [jobs EXCEPT ![Home[t]] = [job EXCEPT !.paused = @ \/ stopping[t]]]
    BY <1>2 DEF Keep, Store
  <2> QED BY <2>2, <2>3 DEF Receipted, TypeOK
<1> QED BY <1>1, <1>2

\* The step that writes a job back, or only ends, keeps every job backed.
LEMMA EndStepBacked ==
    ASSUME TypeOK, Shaped, Receipted, NEW t \in Tabs, EndStep(t),
           UNCHANGED <<receipts, inRepo, press>>,
           \A b \in Browsers : jobs'[b] # None => Backed(jobs'[b])
    PROVE  Receipted'
<1>1. /\ step'[t].job = None /\ step'[t].at # "sending"
      /\ \A s \in Tabs : s # t => step'[s] = step[s]
  BY EndStepType DEF Idle, Halting
<1> QED BY <1>1 DEF Receipted, ReceiptFirst, Backed

\* A step that goes out with a backed job.
LEMMA OutBacked ==
    ASSUME TypeOK, Receipted, NEW t \in Tabs, UNCHANGED <<receipts, inRepo, jobs, press>>,
           NEW job \in Jobs, Backed(job), NEW at, NEW taking,
           at = "sending" /\ job.receipt = None => taking \subseteq job.parts,
           Out(t, at, job, taking) \/ Calls(t, at, job, taking)
    PROVE  Receipted'
<1>1. /\ step'[t].job = job /\ step'[t].taking = taking /\ step'[t].at = at
      /\ step'[t].said # "landed"
      /\ \A s \in Tabs : s # t => step'[s] = step[s]
  BY DEF Out, Calls, TypeOK
<1> QED BY <1>1 DEF Receipted, ReceiptFirst, Backed

\* A press, or an opening, that leaves the repository and the steps alone.
LEMMA PressBacked ==
    ASSUME TypeOK, Receipted, UNCHANGED <<receipts, step>>, inRepo' \subseteq inRepo,
           \A b \in Browsers : jobs'[b] # None => Backed(jobs'[b]),
           \A t \in Tabs : press'[t].job # None => Backed(press'[t].job)
    PROVE  Receipted'
  BY DEF Receipted, ReceiptFirst, Backed

LEMMA StoredBacked ==
    ASSUME TypeOK, Receipted, NEW t \in Tabs
    PROVE  /\ Stored(t) \in Jobs \cup {None}
           /\ Stored(t) # None => Backed(Stored(t))
  BY DEF Stored, Receipted, TypeOK

LEMMA StoreBacked ==
    ASSUME TypeOK, Receipted, NEW t \in Tabs, NEW job,
           Store(t, job), job # None => Backed(job)
    PROVE  \A b \in Browsers : jobs'[b] # None => Backed(jobs'[b])
  BY DEF Store, Receipted, TypeOK

LEMMA StopsNowBacked ==
    ASSUME TypeOK, Receipted, NEW t \in Tabs, StopsNow(t)
    PROVE  \A s \in Tabs : press'[s].job # None => Backed(press'[s].job)
<1>1. CASE Stored(t) = None
  BY <1>1 DEF StopsNow, NoPress, TypeOK, Receipted
<1>2. CASE Stored(t) # None
  BY <1>2, StoredBacked DEF StopsNow, NoPress, TypeOK, Receipted
<1> QED BY <1>1, <1>2

LEMMA AnswersBacked ==
    ASSUME TypeOK, Shaped, Receipted, NEW t \in Tabs, Answers(t)
    PROVE  Receipted'
<1> USE DEF repoVars, deviceVars, tabVars, viewVars, pressVars, threadVars
<1>0. /\ step[t].job \in Jobs
      /\ Backed(step[t].job)
      /\ UNCHANGED <<receipts, inRepo, press>>
  <2>1. Busy(t) /\ UNCHANGED <<receipts, inRepo, press>>
    BY DEF Answers, Relisted, Listed, ListingFails, UploadLanded, UploadDenied,
           DrainLanded, DrainDenied, Checked, CheckFails, Delayed, Missed, Busy, Shaped
  <2> QED BY <2>1 DEF Busy, Shaped, Receipted
<1>1. ASSUME NEW job \in Jobs, Backed(job), Keep(t, job), EndStep(t) PROVE Receipted'
  BY <1>0, <1>1, KeepBacked, EndStepBacked
<1>2. ASSUME jobs' = jobs, EndStep(t) PROVE Receipted'
  <2>1. \A b \in Browsers : jobs'[b] # None => Backed(jobs'[b])
    BY <1>2 DEF Receipted
  <2> QED BY <1>0, <1>2, <2>1, EndStepBacked
<1>3. Fails(t) => Receipted'
  BY <1>0, <1>1, BackedFields, JobFields DEF Fails
<1>4. CASE Relisted(t)
  <2> DEFINE job == Owing(step[t].job)
  <2>1. job \in Jobs /\ Backed(job)
    BY <1>0, JobFields, BackedFields
  <2>2. CASE Keep(t, job) /\ EndStep(t)
    BY <1>1, <2>1, <2>2
  <2>3. CASE /\ \E taking \in Batches(job) : Calls(t, "sending", job, taking)
             /\ UNCHANGED deviceVars
    <3>1. PICK taking \in Batches(job) : Calls(t, "sending", job, taking)
      BY <2>3
    <3>2. job.receipt = None => taking \subseteq job.parts
      BY <3>1 DEF Batches
    <3> HIDE DEF job
    <3> QED BY <1>0, <2>1, <2>3, <3>1, <3>2, OutBacked
  <2> QED BY <1>4, <2>2, <2>3 DEF Relisted
<1>5. CASE Listed(t)
  <2>1. CASE Store(t, None) /\ EndStep(t)
    BY <1>0, <2>1, StoreBacked, EndStepBacked
  <2>2. CASE jobs' = jobs /\ EndStep(t)
    BY <1>2, <2>2
  <2>3. CASE jobs' = jobs /\ \E p \in inRepo : Calls(t, "draining", step[t].job, {p})
    BY <1>0, <2>3, OutBacked
  <2> QED BY <1>5, <2>1, <2>2, <2>3 DEF Listed
<1>6. CASE ListingFails(t)
  BY <1>2, <1>6 DEF ListingFails
<1>7. CASE UploadLanded(t)
  <2> DEFINE left == Left(step[t].job, step[t].taking)
  <2>1. left \in Jobs
    BY <1>0 DEF Jobs, Left
  <2>2. step[t].job.receipt = None \/ step[t].job.receipt \in receipts
    BY <1>7 DEF UploadLanded, Receipted
  <2>3. Backed(left)
    BY <1>0, <2>2, BackedFields DEF Left
  <2>4. Keep(t, left) /\ EndStep(t)
    BY <1>7 DEF UploadLanded
  <2> QED BY <1>1, <2>1, <2>3, <2>4
<1>8. CASE UploadDenied(t) \/ CheckFails(t)
  BY <1>3, <1>8 DEF UploadDenied, CheckFails
<1>9. CASE DrainLanded(t) \/ Delayed(t)
  BY <1>0, <1>1, <1>9, JobFields, BackedFields DEF DrainLanded, Delayed
<1>10. CASE DrainDenied(t)
  <2>1. /\ step'[t].job = step[t].job /\ step'[t].at = "checking"
        /\ \A s \in Tabs : s # t => step'[s] = step[s]
    BY <1>10 DEF DrainDenied, TypeOK, Steps
  <2> QED BY <1>0, <1>10, <2>1 DEF DrainDenied, Receipted, ReceiptFirst, Backed
<1>11. CASE Checked(t)
  BY <1>2, <1>3, <1>11 DEF Checked
<1>12. CASE Missed(t)
  BY <1>0, <1>1, <1>12, JobFields, BackedFields DEF Missed
<1> QED BY <1>4, <1>5, <1>6, <1>7, <1>8, <1>9, <1>10, <1>11, <1>12 DEF Answers

\* The receipt's own call is the only one that can land while it is owed.
LEMMA LandsBacked ==
    ASSUME TypeOK, Shaped, Receipted, NEW t \in Tabs, Lands(t)
    PROVE  Receipted'
<1> USE DEF repoVars, deviceVars, tabVars, viewVars, pressVars, threadVars
<1>1. /\ step[t] \in Steps /\ step[t].said = "out"
      /\ step' = [step EXCEPT ![t].said = "landed"]
      /\ UNCHANGED <<jobs, press>>
  BY DEF Lands, Says, TypeOK
<1>2. /\ step'[t].job = step[t].job /\ step'[t].at = step[t].at
      /\ step'[t].taking = step[t].taking
      /\ \A s \in Tabs : s # t => step'[s] = step[s]
  BY <1>1 DEF TypeOK, Steps
<1>3. receipts \subseteq receipts'
  BY DEF Lands
<1>4. step[t].at = "sending" /\ step[t].job.receipt # None => step[t].job.receipt \in receipts'
  BY DEF Lands
<1>5. ReceiptFirst'
  <2>1. CASE inRepo' \subseteq inRepo
    BY <1>3, <2>1 DEF Receipted, ReceiptFirst
  <2>2. CASE step[t].at = "sending" /\ step[t].job.receipt = None
             /\ inRepo' = inRepo \cup step[t].taking
    <3>1. step[t].job \in Jobs /\ Backed(step[t].job) /\ step[t].taking \subseteq step[t].job.parts
      BY <1>1, <2>2 DEF Shaped, Receipted
    <3>2. \A p \in step[t].taking : DigestOf(p) \in receipts
      BY <2>2, <3>1 DEF Backed
    <3> QED BY <1>3, <2>2, <3>2 DEF Receipted, ReceiptFirst
  <2> QED BY <2>1, <2>2 DEF Lands, Retired
<1>6. (\A b \in Browsers : jobs[b] # None => Backed(jobs[b]))'
  BY <1>1, <1>3 DEF Receipted, Backed
<1>7. (\A s \in Tabs : press[s].job # None => Backed(press[s].job))'
  BY <1>1, <1>3 DEF Receipted, Backed
<1>8. (\A s \in Tabs : step[s].job # None => Backed(step[s].job))'
  BY <1>2, <1>3 DEF Receipted, Backed
<1>9. (\A s \in Tabs :
          /\ step[s].at = "sending" /\ step[s].job.receipt = None
                => step[s].taking \subseteq step[s].job.parts
          /\ step[s].at = "sending" /\ step[s].said = "landed" /\ step[s].job.receipt # None
                => step[s].job.receipt \in receipts)'
  BY <1>2, <1>3, <1>4 DEF Receipted
<1> QED BY <1>5, <1>6, <1>7, <1>8, <1>9 DEF Receipted

LEMMA ReceiptedStep == TypeOK /\ Shaped /\ Receipted /\ [Next]_vars => Receipted'
<1> SUFFICES ASSUME TypeOK, Shaped, Receipted, [Next]_vars PROVE Receipted'
  OBVIOUS
<1> USE DEF repoVars, deviceVars, tabVars, viewVars, pressVars, threadVars
<1>1. CASE UNCHANGED vars
  BY <1>1 DEF vars, Receipted, ReceiptFirst, Backed
<1>2. ASSUME NEW t \in Tabs, StepActs(t) PROVE Receipted'
  <2>1. CASE StepStops(t) \/ StepWaits(t)
    BY <2>1 DEF StepStops, StepWaits, Receipted, ReceiptFirst, Backed
  <2>2. CASE StepSends(t)
    <3>1. PICK taking \in Batches(Stored(t)) : Out(t, "sending", Stored(t), taking)
      BY <2>2 DEF StepSends
    <3>2. Stored(t) \in Jobs /\ Backed(Stored(t))
      BY <2>2, StoredBacked DEF StepSends, Standing
    <3>3. Stored(t).receipt = None => taking \subseteq Stored(t).parts
      BY <3>1 DEF Batches
    <3> QED BY <2>2, <3>1, <3>2, <3>3, OutBacked DEF StepSends
  <2>3. CASE StepRelists(t) \/ StepLists(t) \/ StepDrains(t)
    <3>1. Stored(t) \in Jobs /\ Backed(Stored(t))
      BY <2>3, StoredBacked DEF StepRelists, StepLists, StepDrains, Standing
    <3>2. UNCHANGED <<receipts, inRepo, jobs, press>>
      BY <2>3 DEF StepRelists, StepLists, StepDrains
    <3>3. \/ Out(t, "relisting", Stored(t), {})
          \/ Out(t, "listing", Stored(t), {})
          \/ \E p \in pending[t] : Out(t, "draining", Stored(t), {p})
      BY <2>3 DEF StepRelists, StepLists, StepDrains
    <3> QED BY <3>1, <3>2, <3>3, OutBacked
  <2> QED BY <1>2, <2>1, <2>2, <2>3 DEF StepActs
<1>3. ASSUME NEW t \in Tabs, PDS(t) PROVE Receipted'
  <2>1. CASE Denies(t) \/ Declines(t)
    <3>1. PICK answer \in {"verdict", "refused"} : Says(t, answer)
      BY <2>1 DEF Denies, Declines
    <3>2. /\ step'[t].job = step[t].job /\ step'[t].at = step[t].at
          /\ step'[t].taking = step[t].taking /\ step'[t].said = answer
          /\ \A s \in Tabs : s # t => step'[s] = step[s]
      BY <3>1 DEF Says, TypeOK, Steps
    <3> QED BY <2>1, <3>2 DEF Denies, Declines, Receipted, ReceiptFirst, Backed
  <2> QED BY <1>3, <2>1, LandsBacked DEF PDS
<1>4. ASSUME NEW t \in Tabs, Opens(t) PROVE Receipted'
  <2>1. CASE Attach(t) \/ AttachFails(t) \/ CollectionRead(t)
    BY <2>1 DEF Attach, AttachFails, CollectionRead, Receipted, ReceiptFirst, Backed
  <2>2. CASE AttachListed(t)
    <3>1. Backed(Found)
      BY DEF Backed, Found
    <3>2. jobs' = jobs \/ Store(t, None) \/ Store(t, Found)
      BY <2>2 DEF AttachListed
    <3>3. \A b \in Browsers : jobs'[b] # None => Backed(jobs'[b])
      BY <3>1, <3>2, StoreBacked DEF Receipted
    <3> QED BY <2>2, <3>3, PressBacked DEF AttachListed, Receipted
  <2>3. CASE Close(t)
    <3>1. /\ step'[t] = Idle /\ press'[t] = NoPress
          /\ \A s \in Tabs : s # t => step'[s] = step[s] /\ press'[s] = press[s]
      BY <2>3 DEF Close, TypeOK
    <3> QED BY <2>3, <3>1 DEF Close, Idle, NoPress, Receipted, ReceiptFirst, Backed
  <2> QED BY <1>4, <2>1, <2>2, <2>3 DEF Opens
<1>5. ASSUME NEW t \in Tabs, Owner(t) PROVE Receipted'
  <2>0. /\ UNCHANGED receipts
        /\ inRepo' \subseteq inRepo
        /\ step' = step \/ HaltAfterStep(t)
    BY <1>5 DEF Owner, Begin, BeginSaves, BeginFails, Halt, HaltAfterStep, HaltSaves, CarryOn,
                CarryOnSaves, Drop, DropLocks, DropRemoves, DropFails, DropClears, Removed
  <2>1. \A s \in Tabs : press'[s].job # None => Backed(press'[s].job)
    <3>1. CASE \E i \in Imports : Begin(t, i)
      BY <3>1 DEF Begin, NoPress, TypeOK, Receipted
    <3>2. CASE Drop(t) \/ DropLocks(t)
      <4>1. /\ press'[t].job = None
            /\ \A s \in Tabs : s # t => press'[s] = press[s]
        <5>1. CASE Drop(t)
          BY <5>1 DEF Drop, NoPress, TypeOK
        <5>2. CASE DropLocks(t)
          BY <5>2 DEF DropLocks, NoPress, TypeOK
        <5> QED BY <3>2, <5>1, <5>2
      <4> QED BY <4>1 DEF Receipted
    <3>3. CASE Halt(t) \/ HaltAfterStep(t)
      <4>1. press' = press \/ StopsNow(t)
        BY <3>3 DEF Halt, HaltAfterStep
      <4> QED BY <4>1, StopsNowBacked DEF Receipted
    <3>4. CASE CarryOn(t)
      <4>1. CASE Stored(t) = None
        BY <3>4, <4>1 DEF CarryOn, NoPress, TypeOK, Receipted
      <4>2. CASE Stored(t) # None
        BY <3>4, <4>2, StoredBacked DEF CarryOn, NoPress, TypeOK, Receipted
      <4> QED BY <4>1, <4>2
    <3>5. CASE DropRemoves(t)
      <4>1. \A s \in Tabs : press'[s].job = press[s].job
        BY <3>5 DEF DropRemoves, TypeOK, Presses
      <4> QED BY <4>1 DEF Receipted
    <3>6. CASE \/ BeginSaves(t) \/ BeginFails(t) \/ HaltSaves(t) \/ CarryOnSaves(t)
               \/ DropFails(t) \/ DropClears(t)
      <4>1. Released(t)
        BY <3>6 DEF BeginSaves, BeginFails, HaltSaves, CarryOnSaves, DropFails, DropClears
      <4> QED BY <4>1 DEF Released, NoPress, TypeOK, Receipted
    <3> QED BY <1>5, <3>1, <3>2, <3>3, <3>4, <3>5, <3>6 DEF Owner
  <2>2. \A b \in Browsers : jobs'[b] # None => Backed(jobs'[b])
    <3>1. CASE BeginSaves(t)
      <4> DEFINE i == press[t].import
                 job == [receipt |-> Digest[i], parts |-> PartsOf(i),
                         missed |-> FALSE, paused |-> FALSE]
      <4>1. i \in Imports
        BY <3>1 DEF BeginSaves, Pressing, Shaped
      <4>2. Backed(job)
        BY <4>1 DEF Backed, PartsOf, DigestOf
      <4>3. Store(t, job)
        BY <3>1 DEF BeginSaves
      <4> HIDE DEF job
      <4> QED BY <4>2, <4>3, StoreBacked
    <3>2. CASE HaltSaves(t)
      <4>1. press[t].job \in Jobs /\ Backed(press[t].job)
        BY <3>2 DEF HaltSaves, Pressing, Shaped, Receipted
      <4> QED BY <3>2, <4>1, BackedFields, StoreBacked DEF HaltSaves
    <3>3. CASE CarryOnSaves(t)
      <4>1. press[t].job \in Jobs /\ Backed(press[t].job)
        BY <3>3 DEF CarryOnSaves, Pressing, Shaped, Receipted
      <4> QED BY <3>3, <4>1, BackedFields, StoreBacked DEF CarryOnSaves
    <3>4. CASE jobs' = jobs \/ Store(t, None)
      BY <3>4, StoreBacked DEF Receipted
    <3> QED BY <1>5, <3>1, <3>2, <3>3, <3>4
            DEF Owner, Begin, BeginFails, Halt, HaltAfterStep, CarryOn, Drop, DropLocks,
                DropRemoves, DropFails, DropClears
  <2>3. CASE step' = step
    BY <2>0, <2>1, <2>2, <2>3, PressBacked
  <2>4. CASE HaltAfterStep(t)
    <3>1. /\ step'[t] = Idle /\ UNCHANGED <<receipts, inRepo>>
          /\ \A s \in Tabs : s # t => step'[s] = step[s]
      BY <2>4 DEF HaltAfterStep, TypeOK
    <3> QED BY <2>1, <2>2, <3>1 DEF Idle, Receipted, ReceiptFirst, Backed
  <2> QED BY <2>0, <2>3, <2>4
<1> QED BY <1>1, <1>2, <1>3, <1>4, <1>5, AnswersBacked DEF Next

\* No part is ever in the repository without its receipt, whatever copy of a job
\* a tab writes back and whatever the retries leave out.
THEOREM AlwaysReceiptFirst == Spec => []ReceiptFirst
<1>1. Init => Receipted
  BY DEF Init, Receipted, ReceiptFirst, Idle, NoPress
<1>2. Receipted => ReceiptFirst
  BY DEF Receipted
<1> QED BY <1>1, <1>2, ReceiptedStep, Types, PTL DEF Spec

-----------------------------------------------------------------------------
(* A browser with one tab: stops stick, nothing of a begun file is lost,   *)
(* and no retry sends what has landed.                                     *)

\* A browser has one tab open at a time.
OneTab == \A s, t \in Tabs : Home[s] = Home[t] => s = t

\* A tab that has not opened, or whose opening listing has not answered
Rests(t) == step[t] = Idle /\ press[t] = NoPress /\ ~ticking[t] /\ ~stopping[t] /\ state[t] = "none"

\* What a tab does is in step with what its browser stores: a press acts on the job
\* that stands, a stop and a running interval exclude each other, and a step out
\* without a job has lost its era.
Ordered(t) ==
    /\ ~session[t] => Rests(t) /\ attaching[t] = NotAttaching
    /\ attaching[t].at = "listing" =>
          /\ Rests(t) /\ attaching[t].job = Stored(t)
          /\ Stored(t) # None => ~Uploading(Stored(t))
    /\ stopping[t] => ~ticking[t]
    /\ state[t] \in {"stopped", "failed"} => ~ticking[t] \/ Stored(t) = None
    /\ press[t].kind = "begin" => Stored(t) = None
    /\ press[t].kind = "halt" => step[t] = Idle /\ stopping[t] /\ ~ticking[t] /\ press[t].job = Stored(t)
    /\ press[t].kind = "carryOn" => ~stopping[t] /\ ~ticking[t] /\ step[t].at \notin {"relisting", "sending"}
    /\ press[t].kind \in {"drop", "dropping"} => ~stopping[t] /\ ~ticking[t] /\ (Busy(t) => moved[t])
    /\ Busy(t) /\ Stored(t) = None => moved[t]
    /\ step[t].at \in {"relisting", "sending"} => ~moved[t] /\ state[t] = "uploading"
    /\ step[t].at \in {"listing", "draining", "checking"} => ~Uploading(step[t].job)
    /\ step[t].at = "sending" => step[t].taking \subseteq step[t].job.parts
    /\ step[t].at = "sending" /\ step[t].job.receipt # None => step[t].taking = {}

-----------------------------------------------------------------------------
(* The job a tab's browser stores, and the tabs that leave it alone.       *)

\* A stored job is read back as it was written, for here and for the lemmas below.
LEMMA StoreHere ==
    ASSUME TypeOK, NEW t \in Tabs, NEW job, Store(t, job)
    PROVE  Stored(t)' = job
  BY HomeAssumption DEF Store, Stored, TypeOK

\* keep() writes its job, with a stop folded in, unless the era has moved on.
LEMMA KeepHere ==
    ASSUME TypeOK, NEW t \in Tabs, NEW job \in Jobs, Keep(t, job)
    PROVE  /\ moved[t] => Stored(t)' = Stored(t)
           /\ ~moved[t] => /\ Stored(t)' \in Jobs
                           /\ Stored(t)' # None
                           /\ Stored(t)'.receipt = job.receipt
                           /\ Stored(t)'.parts = job.parts
                           /\ Stored(t)'.missed = job.missed
                           /\ Stored(t)'.paused = (job.paused \/ stopping[t])
<1>1. CASE moved[t]
  BY <1>1 DEF Keep, Stored
<1>2. CASE ~moved[t]
  <2> DEFINE kept == [job EXCEPT !.paused = @ \/ stopping[t]]
  <2>1. stopping[t] \in BOOLEAN
    BY DEF TypeOK
  <2>2. kept \in Jobs /\ kept # None
    BY <2>1, JobFields, NoneAssumption
  <2>3. /\ kept.receipt = job.receipt /\ kept.parts = job.parts /\ kept.missed = job.missed
        /\ kept.paused = (job.paused \/ stopping[t])
    BY DEF Jobs
  <2>4. Store(t, kept)
    BY <1>2 DEF Keep
  <2> HIDE DEF kept
  <2>5. Stored(t)' = kept
    BY <2>4, StoreHere
  <2> QED BY <1>2, <2>2, <2>3, <2>5
<1> QED BY <1>1, <1>2

\* A halt that finds a job is a press of its own, with that job in hand.
LEMMA StopsNowHere ==
    ASSUME TypeOK, NEW t \in Tabs, StopsNow(t)
    PROVE  IF Stored(t) = None THEN press'[t] = NoPress
           ELSE /\ press'[t].kind = "halt" /\ press'[t].job = Stored(t)
                /\ press'[t] # NoPress
<1>1. CASE Stored(t) = None
  BY <1>1 DEF StopsNow, TypeOK
<1>2. CASE Stored(t) # None
  BY <1>2 DEF StopsNow, TypeOK, NoPress
<1> QED BY <1>1, <1>2

\* What a tab holds, and the job its browser stores, is as it was.
Alike(s) ==
    /\ session'[s] = session[s] /\ fresh'[s] = fresh[s]
    /\ state'[s] = state[s] /\ pending'[s] = pending[s] /\ ticking'[s] = ticking[s]
    /\ stopping'[s] = stopping[s] /\ moved'[s] = moved[s] /\ press'[s] = press[s]
    /\ attaching'[s] = attaching[s] /\ step'[s] = step[s]
    /\ jobs'[Home[s]] = jobs[Home[s]]

\* With one tab each, no tab writes the job of another's browser.
LEMMA StoreAlike ==
    ASSUME TypeOK, OneTab, NEW t \in Tabs, NEW s \in Tabs, s # t, NEW job,
           Store(t, job) \/ Keep(t, job)
    PROVE  jobs'[Home[s]] = jobs[Home[s]]
<1>1. Home[s] # Home[t] /\ Home[s] \in Browsers /\ Home[t] \in Browsers
  BY HomeAssumption DEF OneTab
<1>2. CASE UNCHANGED jobs
  BY <1>2
<1>3. CASE \E written : Store(t, written)
  BY <1>1, <1>3 DEF Store, TypeOK
<1> QED BY <1>2, <1>3 DEF Keep

\* With one tab each, a step of one leaves every other as it was.
LEMMA OthersAlike ==
    ASSUME TypeOK, OneTab, NEW t \in Tabs, NEW s \in Tabs, s # t,
           StepActs(t) \/ Answers(t) \/ PDS(t) \/ Opens(t) \/ Owner(t)
    PROVE  Alike(s)
<1> USE StoreAlike DEF Alike, TypeOK, repoVars, deviceVars, tabVars, viewVars, pressVars, threadVars
<1>1. CASE StepActs(t)
  BY <1>1 DEF StepActs, StepStops, StepWaits, StepSends, StepRelists, StepLists, StepDrains,
              Ticks, Announce, Out
<1>2. CASE Answers(t)
  <2> USE DEF EndStep, Holding, AnnounceKept, Announce, Ticks
  <2>1. CASE Relisted(t)
    BY <2>1 DEF Relisted, Calls
  <2>2. CASE Listed(t)
    BY <2>2 DEF Listed, Calls
  <2>3. CASE UploadLanded(t) \/ DrainLanded(t) \/ Delayed(t) \/ Missed(t)
    BY <2>3 DEF UploadLanded, DrainLanded, Delayed, Missed
  <2>4. CASE UploadDenied(t) \/ Checked(t) \/ CheckFails(t)
    BY <2>4 DEF UploadDenied, Checked, CheckFails, Fails
  <2>5. CASE ListingFails(t) \/ DrainDenied(t)
    BY <2>5 DEF ListingFails, DrainDenied
  <2> QED BY <1>2, <2>1, <2>2, <2>3, <2>4, <2>5 DEF Answers
<1>3. CASE PDS(t)
  BY <1>3 DEF PDS, Lands, Denies, Declines, Says
<1>4. CASE Opens(t)
  <2>1. CASE Attach(t) \/ AttachFails(t) \/ CollectionRead(t)
    BY <2>1 DEF Attach, AttachFails, CollectionRead, Announce, Ticks
  <2>2. CASE AttachListed(t)
    BY <2>2 DEF AttachListed, Holding, Announce, Ticks
  <2>3. CASE Close(t)
    BY <2>3 DEF Close, Holding, Announce, Ticks
  <2> QED BY <1>4, <2>1, <2>2, <2>3 DEF Opens
<1>5. CASE Owner(t)
  <2> USE DEF Released, Stopping, Announce, Ticks
  <2>1. CASE \/ \E i \in Imports : Begin(t, i)
             \/ BeginFails(t) \/ HaltSaves(t) \/ CarryOn(t) \/ CarryOnSaves(t)
    BY <2>1 DEF Begin, BeginFails, HaltSaves, CarryOn, CarryOnSaves, MoveEra, Holding
  <2>2. CASE BeginSaves(t)
    BY <2>2 DEF BeginSaves, MoveEra, Holding
  <2>3. CASE Halt(t) \/ HaltAfterStep(t)
    BY <2>3 DEF Halt, HaltAfterStep, StopsNow
  <2>4. CASE Drop(t) \/ DropLocks(t) \/ DropRemoves(t)
    BY <2>4 DEF Drop, DropLocks, DropRemoves, MoveEra, Holding
  <2>5. CASE DropFails(t) \/ DropClears(t)
    BY <2>5 DEF DropFails, DropClears, Holding
  <2> QED BY <1>5, <2>1, <2>2, <2>3, <2>4, <2>5 DEF Owner
<1> QED BY <1>1, <1>2, <1>3, <1>4, <1>5

-----------------------------------------------------------------------------
(* A tab in order.                                                         *)

\* The owner begins no import before the opening listing has answered.
NoneEarly == "early" \notin Events

\* A tick finds a job that stands, and no step out.
LEMMA StepActsOrdered ==
    ASSUME TypeOK, Shaped, NEW t \in Tabs, Ordered(t), StepActs(t)
    PROVE  Ordered(t)'
<1> USE DEF Ordered, Rests, Stored, Busy, TypeOK, Idle, NoPress, NotAttaching, repoVars,
            deviceVars, tabVars, viewVars, pressVars, threadVars
<1>1. CASE StepStops(t)
  BY <1>1 DEF StepStops, CanStep, Standing, Ticks
<1>2. CASE StepWaits(t)
  BY <1>2 DEF StepWaits, CanStep, Standing, Announce
<1>3. CASE StepSends(t)
  BY <1>3 DEF StepSends, CanStep, Standing, Announce, Out, Batches
<1>4. CASE StepRelists(t)
  BY <1>4 DEF StepRelists, CanStep, Standing, Announce, Out
<1>5. CASE StepLists(t)
  BY <1>5 DEF StepLists, CanStep, Standing, Announce, Out
<1>6. CASE StepDrains(t)
  BY <1>6 DEF StepDrains, CanStep, Standing, Announce, Out
<1> QED BY <1>1, <1>2, <1>3, <1>4, <1>5, <1>6 DEF StepActs

\* An answer either ends the step or goes on to its call with the same job.
LEMMA AnswersOrdered ==
    ASSUME TypeOK, Shaped, NEW t \in Tabs, Ordered(t), Answers(t)
    PROVE  Ordered(t)'
<1> USE DEF Ordered, Rests, Stored, Busy, TypeOK, Idle, Halting, NoPress, NotAttaching, repoVars,
            deviceVars, tabVars, viewVars, pressVars, threadVars, EndStep, Holding, AnnounceKept,
            Announce, Ticks, Keep, Store
<1>0. step[t].said # "nothing" => step[t].job \in Jobs /\ step[t].at \in {"sending", "draining"}
  BY DEF Shaped
<1>1. CASE Relisted(t)
  <2> DEFINE job == Owing(step[t].job)
  <2>1. job \in Jobs /\ job # None
    <3>1. step[t].job \in Jobs
      BY <1>1 DEF Relisted, Shaped
    <3> QED BY <3>1, JobFields, NoneAssumption
  <2>2. CASE Keep(t, job) /\ EndStep(t)
    <3> HIDE DEF job
    <3>1. moved[t] = FALSE /\ jobs'[Home[t]] # None
      BY <1>1, <2>1, <2>2, KeepHere DEF Relisted
    <3> QED BY <1>1, <2>2, <3>1 DEF Relisted
  <2>3. CASE /\ \E taking \in Batches(job) : Calls(t, "sending", job, taking)
             /\ UNCHANGED deviceVars
    <3> HIDE DEF job
    <3> QED BY <1>1, <2>3 DEF Relisted, Calls, Batches
  <2> QED BY <1>1, <2>2, <2>3 DEF Relisted
<1>2. CASE Listed(t)
  BY <1>2 DEF Listed, Calls
<1>3. CASE ListingFails(t)
  BY <1>3 DEF ListingFails
<1>4. CASE UploadLanded(t)
  BY <1>4 DEF UploadLanded
<1>5. CASE UploadDenied(t)
  BY <1>5 DEF UploadDenied, Fails
<1>6. CASE DrainLanded(t)
  BY <1>6 DEF DrainLanded
<1>7. CASE DrainDenied(t)
  BY <1>7 DEF DrainDenied
<1>8. CASE Checked(t)
  BY <1>8 DEF Checked, Fails
<1>9. CASE CheckFails(t)
  BY <1>9 DEF CheckFails, Fails
<1>10. CASE Delayed(t)
  <2>1. [step[t].job EXCEPT !.missed = FALSE] \in Jobs
    BY <1>0, <1>10, JobFields DEF Delayed
  <2>2. ~moved[t] => Stored(t)' # None
    BY <1>10, <2>1, KeepHere DEF Delayed
  <2> QED BY <1>0, <1>10, <2>2 DEF Delayed
<1>11. CASE Missed(t)
  <2>1. [step[t].job EXCEPT !.missed = TRUE] \in Jobs
    BY <1>0, <1>11, JobFields DEF Missed
  <2>2. ~moved[t] => Stored(t)' # None
    BY <1>11, <2>1, KeepHere DEF Missed
  <2> QED BY <1>0, <1>11, <2>2 DEF Missed
<1> QED BY <1>1, <1>2, <1>3, <1>4, <1>5, <1>6, <1>7, <1>8, <1>9, <1>10, <1>11 DEF Answers

\* The PDS changes only what a step is told.
LEMMA PDSOrdered ==
    ASSUME TypeOK, Shaped, NEW t \in Tabs, Ordered(t), PDS(t)
    PROVE  Ordered(t)'
<1> USE DEF Ordered, Rests, Stored, Busy, TypeOK, Idle, Halting, NoPress, NotAttaching, repoVars,
            deviceVars, tabVars, viewVars, pressVars, threadVars
<1>1. Lands(t) \/ Denies(t) \/ Declines(t)
  BY DEF PDS
<1>2. step[t] \in Steps /\ step[t].said = "out" /\ step[t].at \in {"sending", "draining"}
  BY <1>1 DEF Lands, Denies, Declines, Shaped
<1>3. /\ UNCHANGED <<deviceVars, tabVars, viewVars, pressVars, attaching>>
      /\ \E answer : Says(t, answer)
  BY <1>1 DEF Lands, Denies, Declines
<1>4. /\ step'[t].at = step[t].at /\ step'[t].job = step[t].job
      /\ step'[t].taking = step[t].taking
  BY <1>2, <1>3 DEF Says, Steps
<1>5. step'[t] # Idle
  BY <1>2, <1>4
<1> QED BY <1>2, <1>3, <1>4, <1>5

\* Until the opening listing answers the tab does nothing else.
LEMMA OpensOrdered ==
    ASSUME TypeOK, Shaped, NEW t \in Tabs, Ordered(t), Opens(t)
    PROVE  Ordered(t)'
<1> USE DEF Ordered, Rests, Stored, Busy, TypeOK, Idle, Halting, NoPress, NotAttaching, repoVars,
            deviceVars, tabVars, viewVars, pressVars, threadVars, EndStep, Holding, AnnounceKept,
            Announce, Ticks, Keep, Store
<1>1. CASE Attach(t)
  BY <1>1 DEF Attach
<1>2. CASE AttachListed(t)
  BY <1>2 DEF AttachListed, Found
<1>3. CASE AttachFails(t)
  BY <1>3 DEF AttachFails
<1>4. CASE CollectionRead(t)
  BY <1>4 DEF CollectionRead
<1>5. CASE Close(t)
  BY <1>5 DEF Close
<1> QED BY <1>1, <1>2, <1>3, <1>4, <1>5 DEF Opens

\* A press finds the tab in order and leaves it so.
LEMMA OwnerOrdered ==
    ASSUME TypeOK, Shaped, NEW t \in Tabs, Ordered(t), Owner(t), NoneEarly
    PROVE  Ordered(t)'
<1> USE DEF Ordered, Rests, Stored, Busy, TypeOK, Idle, Halting, NoPress, NotAttaching, repoVars,
            deviceVars, tabVars, viewVars, pressVars, threadVars, Holding, Announce, Ticks,
            Store, Released, Pressing, MoveEra, Stopping, CanPress
<1>1. ASSUME NEW i \in Imports, Begin(t, i) PROVE Ordered(t)'
  BY <1>1 DEF Begin, MayBegin, Offered, NoneEarly
<1>2. CASE BeginSaves(t)
  BY <1>2 DEF BeginSaves
<1>3. CASE BeginFails(t)
  BY <1>3 DEF BeginFails
<1>4. CASE Halt(t)
  BY <1>4, StopsNowHere DEF Halt
<1>5. CASE HaltAfterStep(t)
  BY <1>5, StopsNowHere DEF HaltAfterStep
<1>6. CASE HaltSaves(t)
  BY <1>6 DEF HaltSaves
<1>7. CASE CarryOn(t)
  BY <1>7 DEF CarryOn
<1>8. CASE CarryOnSaves(t)
  <2>1. [press[t].job EXCEPT !.paused = FALSE, !.missed = FALSE] # None
    <3>1. press[t].job \in Jobs
      BY <1>8 DEF CarryOnSaves, Shaped
    <3> QED BY <3>1, JobFields, NoneAssumption
  <2>2. Stored(t)' # None
    BY <1>8, <2>1, StoreHere DEF CarryOnSaves
  <2> QED BY <1>8, <2>2 DEF CarryOnSaves
<1>9. CASE Drop(t)
  BY <1>9 DEF Drop
<1>10. CASE DropLocks(t)
  BY <1>10 DEF DropLocks, Lock
<1>11. CASE DropRemoves(t)
  BY <1>11 DEF DropRemoves
<1>12. CASE DropFails(t)
  BY <1>12 DEF DropFails
<1>13. CASE DropClears(t)
  BY <1>13 DEF DropClears
<1> QED BY <1>1, <1>2, <1>3, <1>4, <1>5, <1>6, <1>7, <1>8, <1>9, <1>10, <1>11, <1>12, <1>13 DEF Owner

\* Every tab is in order.
OrderedAll == \A t \in Tabs : Ordered(t)

\* A tab left as it was stays in order.
LEMMA AlikeOrdered ==
    ASSUME NEW s \in Tabs, Ordered(s), Alike(s)
    PROVE  Ordered(s)'
  BY DEF Ordered, Alike, Rests, Stored, Busy

\* Every step of the runner leaves every tab in order.
LEMMA OrderedStep ==
    ASSUME NoneEarly, OneTab
    PROVE  TypeOK /\ Shaped /\ OrderedAll /\ [Next]_vars => OrderedAll'
<1> SUFFICES ASSUME TypeOK, Shaped, OrderedAll, [Next]_vars PROVE OrderedAll'
  OBVIOUS
<1>1. CASE UNCHANGED vars
  BY <1>1 DEF vars, repoVars, deviceVars, tabVars, viewVars, pressVars, threadVars,
              OrderedAll, Ordered, Rests, Stored, Busy
<1>2. ASSUME NEW t \in Tabs,
             StepActs(t) \/ Answers(t) \/ PDS(t) \/ Opens(t) \/ Owner(t)
      PROVE  OrderedAll'
  <2>1. Ordered(t)'
    BY <1>2, StepActsOrdered, AnswersOrdered, PDSOrdered, OpensOrdered, OwnerOrdered
       DEF OrderedAll
  <2>2. \A s \in Tabs : s # t => Ordered(s)'
    BY <1>2, OthersAlike, AlikeOrdered DEF OrderedAll
  <2> QED BY <2>1, <2>2 DEF OrderedAll
<1> QED BY <1>1, <1>2 DEF Next

-----------------------------------------------------------------------------
(* Stops stick.                                                            *)

\* StopSticks, of one tab
Sticks(t) ==
    stopping[t] /\ step[t] = Idle /\ press[t] = NoPress /\ Stored(t) # None => Stored(t).paused

\* No step of a tab unsticks its stop.
LEMMA SticksHere ==
    ASSUME TypeOK, Shaped, NEW t \in Tabs, Ordered(t), Sticks(t),
           StepActs(t) \/ Answers(t) \/ PDS(t) \/ Opens(t) \/ Owner(t)
    PROVE  Sticks(t)'
<1> USE DEF Ordered, Sticks, TypeOK, NoPress, repoVars, deviceVars, tabVars, viewVars, pressVars,
            threadVars
<1>1. CASE StepActs(t)
  BY <1>1 DEF StepActs, StepStops, StepWaits, StepSends, StepRelists, StepLists, StepDrains,
              CanStep, Ticks, Out, Idle, Stored
<1>2. CASE Answers(t)
  <2>1. stopping' = stopping
    BY <1>2 DEF Answers, Relisted, Listed, ListingFails, UploadLanded, UploadDenied,
              DrainLanded, DrainDenied, Checked, CheckFails, Delayed, Missed
  <2>2. EndStep(t) \/ step'[t].at \in {"sending", "draining", "checking"}
    <3>1. CASE DrainDenied(t)
      BY <3>1 DEF DrainDenied, Steps
    <3>2. CASE Relisted(t) \/ Listed(t)
      <4>1. EndStep(t) \/ \E at \in {"sending", "draining"} : \E job, taking : Calls(t, at, job, taking)
        BY <3>2 DEF Relisted, Listed
      <4> QED BY <4>1 DEF Calls
    <3> QED BY <1>2, <3>1, <3>2 DEF Answers, ListingFails, UploadLanded, UploadDenied, Fails,
                                   DrainLanded, Checked, CheckFails, Delayed, Missed
  <2> QED BY <2>1, <2>2 DEF EndStep, Idle, Halting
<1>3. CASE PDS(t)
  <2>1. step'[t] # Idle
    BY <1>3 DEF PDS, Lands, Denies, Declines, Says, Idle, Steps
  <2> QED BY <2>1
<1>4. CASE Opens(t)
  <2>1. CASE Attach(t) \/ AttachFails(t) \/ CollectionRead(t)
    BY <2>1 DEF Attach, AttachFails, CollectionRead, Stored
  <2>2. CASE AttachListed(t)
    BY <2>2 DEF AttachListed, Rests
  <2>3. CASE Close(t)
    BY <2>3 DEF Close
  <2> QED BY <1>4, <2>1, <2>2, <2>3 DEF Opens
<1>5. CASE Owner(t)
  <2>1. CASE (\E i \in Imports : Begin(t, i)) \/ Drop(t) \/ DropLocks(t) \/ DropRemoves(t)
    <3>1. press'[t].kind # "none"
      <4>1. CASE \E i \in Imports : Begin(t, i)
        BY <4>1 DEF Begin
      <4>2. CASE Drop(t)
        BY <4>2 DEF Drop
      <4>4. CASE DropLocks(t)
        BY <4>4 DEF DropLocks
      <4>3. CASE DropRemoves(t)
        BY <4>3 DEF DropRemoves, Pressing, Presses
      <4> QED BY <2>1, <4>1, <4>2, <4>3, <4>4
    <3> QED BY <3>1 DEF NoPress
  <2>2. CASE BeginSaves(t) \/ BeginFails(t) \/ CarryOn(t)
    BY <2>2 DEF BeginSaves, BeginFails, CarryOn, Stopping
  <2>3. CASE Halt(t) \/ HaltAfterStep(t)
    <3>1. jobs' = jobs /\ Stored(t)' = Stored(t)
      BY <2>3 DEF Halt, HaltAfterStep, Stored
    <3>2. CASE StopsNow(t)
      BY <3>1, <3>2, StopsNowHere
    <3>3. CASE ~StopsNow(t)
      BY <2>3, <3>1, <3>3 DEF Halt, HaltAfterStep, Idle
    <3> QED BY <3>2, <3>3
  <2>4. CASE HaltSaves(t)
    <3>1. press[t].job \in Jobs /\ Stored(t)' = [press[t].job EXCEPT !.paused = TRUE]
      BY <2>4, StoreHere DEF HaltSaves, Pressing, Shaped
    <3> QED BY <3>1 DEF Jobs
  <2>5. CASE CarryOnSaves(t) \/ DropFails(t) \/ DropClears(t)
    BY <2>5 DEF CarryOnSaves, DropFails, DropClears, Pressing
  <2> QED BY <1>5, <2>1, <2>2, <2>3, <2>4, <2>5 DEF Owner
<1> QED BY <1>1, <1>2, <1>3, <1>4, <1>5

\* A stop outlasts the tab that made it, StopSticks: with one tab to a browser and
\* none begun early, whatever is lost, refused, closed or discarded, a job whose
\* stop is over with is stored as paused.
THEOREM StopsStick ==
    ASSUME NoneEarly, OneTab
    PROVE  Spec => []StopSticks
<1> DEFINE SticksAll == \A t \in Tabs : Sticks(t)
<1>1. Init => OrderedAll /\ SticksAll
  BY HomeAssumption DEF Init, OrderedAll, Ordered, Rests, Sticks, Stored, Busy, Idle, NoPress,
                        NotAttaching
<1>2. TypeOK /\ Shaped /\ OrderedAll /\ SticksAll /\ [Next]_vars => SticksAll'
  <2> SUFFICES ASSUME TypeOK, Shaped, OrderedAll, SticksAll, [Next]_vars,
                      NEW s \in Tabs PROVE Sticks(s)'
    OBVIOUS
  <2>1. CASE UNCHANGED vars
    BY <2>1 DEF vars, repoVars, deviceVars, tabVars, viewVars, pressVars, threadVars, Sticks, Stored
  <2>2. ASSUME NEW t \in Tabs,
               StepActs(t) \/ Answers(t) \/ PDS(t) \/ Opens(t) \/ Owner(t)
        PROVE  Sticks(s)'
    <3>1. CASE s = t
      BY <2>2, <3>1, SticksHere DEF OrderedAll
    <3>2. CASE s # t
      BY <2>2, <3>2, OthersAlike DEF Alike, Sticks, Stored
    <3> QED BY <3>1, <3>2
  <2> QED BY <2>1, <2>2 DEF Next
<1>3. SticksAll => StopSticks
  BY DEF Sticks, StopSticks
<1> QED BY <1>1, <1>2, <1>3, OrderedStep, Types, PTL DEF Spec

-----------------------------------------------------------------------------
(* What becomes of the copies of a job.                                    *)

\* The parts that have ever been in the repository
Landed == {p \in Parts : created[p] > 0}
\* The parts a browser's stored job still has to upload
Owed(t) == IF Stored(t) = None THEN {} ELSE Stored(t).parts
\* A step out whose era stands: what it keeps is written down.
Live(t) == Busy(t) /\ ~moved[t]
\* A press that has read the job and will write it back
Writes(t) == press[t].kind \in {"halt", "carryOn"}
\* Every part some copy of the job in a tab's reach still has to upload
Held(t) == Owed(t) \cup (IF Live(t) THEN step[t].job.parts ELSE {})
                   \cup (IF Writes(t) THEN press[t].job.parts ELSE {})

\* What a tab has been told has landed has.
Told ==
    /\ inRepo \subseteq Landed
    /\ \A t \in Tabs : step[t].at = "sending" /\ step[t].said = "landed"
                          => step[t].taking \subseteq Landed

\* What a step may make of the stored job, an import's beginning apart: it stays,
\* an empty one is found, it is cleared, or a copy of it is written back, short of
\* what landed.
StoreMoves(t) ==
    \/ Stored(t)' = Stored(t)
    \/ /\ Stored(t) = None /\ Stored(t)' # None
       /\ Stored(t)'.parts = {} /\ Stored(t)'.receipt = None
       /\ ~Busy(t) /\ ~Writes(t) /\ inRepo # {}
    \/ /\ Stored(t)' = None
       /\ \/ press[t].kind = "dropping" /\ press'[t].kind = "none" /\ step'[t] = step[t]
          \/ Busy(t) /\ step[t].job.parts = {} /\ ~Busy(t)'
          \/ ~Busy(t) /\ Owed(t) = {} /\ ~Busy(t)'
    \/ /\ Live(t) /\ ~Busy(t)' /\ Stored(t)' # None
       /\ Stored(t)'.parts \subseteq step[t].job.parts
       /\ step[t].job.parts \ Stored(t)'.parts \subseteq Landed
       /\ Stored(t)'.receipt \in {None, step[t].job.receipt}
    \/ /\ Writes(t) /\ Stored(t)' # None
       /\ Stored(t)'.parts = press[t].job.parts /\ Stored(t)'.receipt = press[t].job.receipt

\* A step out carries the stored job, or what is left of the one it carried.
LiveMoves(t) ==
    Live(t)' =>
        \/ /\ ~Busy(t) /\ Stored(t) # None /\ Stored(t)' = Stored(t)
           /\ step'[t].job = Stored(t) /\ ticking[t]
        \/ /\ Live(t)
           /\ step'[t].job.parts \subseteq step[t].job.parts
           /\ step[t].job.parts \ step'[t].job.parts \subseteq Landed
           /\ step'[t].job.receipt \in {None, step[t].job.receipt}

\* A step goes out only under a job that stands.
BusyMoves(t) == Busy(t)' => Busy(t) \/ (Stored(t) # None /\ ticking[t] /\ ~moved'[t])

\* A press carries the job that stands.
WritesMoves(t) ==
    Writes(t)' =>
        \/ Writes(t) /\ press'[t] = press[t]
        \/ Stored(t) # None /\ Stored(t)' = Stored(t) /\ press'[t].job = Stored(t)

\* All of what a step may make of a tab's copies of the job
Moves(t) == StoreMoves(t) /\ BusyMoves(t) /\ LiveMoves(t) /\ WritesMoves(t)

\* A tick copies the stored job and changes none.
LEMMA StepActsMoves ==
    ASSUME TypeOK, Shaped, NEW t \in Tabs, StepActs(t)
    PROVE  Moves(t)
<1> USE DEF Moves, StoreMoves, BusyMoves, LiveMoves, WritesMoves, Live, Busy, Writes, Stored,
            TypeOK, repoVars, deviceVars, tabVars, viewVars, pressVars, threadVars
<1>1. CASE StepStops(t) \/ StepWaits(t)
  BY <1>1 DEF StepStops, StepWaits
<1>2. CASE StepSends(t) \/ StepRelists(t) \/ StepLists(t) \/ StepDrains(t)
  <2>1. CanStep(t) /\ Standing(t) /\ UNCHANGED <<jobs, press>>
    BY <1>2 DEF StepSends, StepRelists, StepLists, StepDrains
  <2>2. \E at, taking : Out(t, at, Stored(t), taking)
    BY <1>2 DEF StepSends, StepRelists, StepLists, StepDrains
  <2> QED BY <2>1, <2>2 DEF CanStep, Standing, Out, Idle
<1> QED BY <1>1, <1>2 DEF StepActs

\* An answer writes back the step's job, less what it was told has landed.
LEMMA AnswersMoves ==
    ASSUME TypeOK, Shaped, NEW t \in Tabs, Ordered(t), Told, Answers(t)
    PROVE  Moves(t)
<1> USE DEF Moves, StoreMoves, BusyMoves, LiveMoves, WritesMoves, Live, Busy, Writes, Stored,
            repoVars, deviceVars, tabVars, viewVars, pressVars, threadVars
<1>0. /\ step[t] \in Steps /\ step[t].job \in Jobs /\ Busy(t)
      /\ UNCHANGED <<press, moved>>
  <2>1. Busy(t) /\ UNCHANGED <<press, moved>>
    BY DEF Answers, Relisted, Listed, ListingFails, UploadLanded, UploadDenied,
           DrainLanded, DrainDenied, Checked, CheckFails, Delayed, Missed, Shaped
  <2> QED BY <2>1 DEF Shaped, TypeOK
<1>1. ASSUME EndStep(t), jobs' = jobs PROVE Moves(t)
  <2>1. ~Busy(t)'
    BY <1>1, EndStepType DEF Idle, Halting
  <2> QED BY <1>0, <1>1, <2>1
<1>2. ASSUME NEW job \in Jobs, job.parts \subseteq step[t].job.parts,
             step[t].job.parts \ job.parts \subseteq Landed,
             job.receipt \in {None, step[t].job.receipt},
             Keep(t, job), EndStep(t)
      PROVE  Moves(t)
  <2>1. ~Busy(t)'
    BY <1>2, EndStepType DEF Idle, Halting
  <2>2. CASE moved[t]
    <3>1. Stored(t)' = Stored(t)
      BY <1>2, <2>2, KeepHere
    <3> QED BY <1>0, <2>1, <3>1
  <2>3. CASE ~moved[t]
    <3>1. /\ Stored(t)' # None /\ Stored(t)'.parts = job.parts
          /\ Stored(t)'.receipt = job.receipt
      BY <1>2, <2>3, KeepHere
    <3> QED BY <1>0, <1>2, <2>1, <2>3, <3>1
  <2> QED BY <2>2, <2>3
<1>3. ASSUME NEW job \in Jobs, job.parts \subseteq step[t].job.parts,
             step[t].job.parts \ job.parts \subseteq Landed,
             job.receipt \in {None, step[t].job.receipt},
             jobs' = jobs, step'[t].job = job
      PROVE  Moves(t)
  BY <1>0, <1>3
<1>4. /\ [step[t].job EXCEPT !.missed = FALSE] \in Jobs
      /\ [step[t].job EXCEPT !.missed = TRUE] \in Jobs
      /\ [step[t].job EXCEPT !.paused = TRUE] \in Jobs
      /\ [step[t].job EXCEPT !.missed = FALSE].parts = step[t].job.parts
      /\ [step[t].job EXCEPT !.missed = TRUE].parts = step[t].job.parts
      /\ [step[t].job EXCEPT !.paused = TRUE].parts = step[t].job.parts
      /\ [step[t].job EXCEPT !.missed = FALSE].receipt = step[t].job.receipt
      /\ [step[t].job EXCEPT !.missed = TRUE].receipt = step[t].job.receipt
      /\ [step[t].job EXCEPT !.paused = TRUE].receipt = step[t].job.receipt
  BY <1>0, JobFields DEF Jobs
<1>5. CASE Relisted(t)
  <2> DEFINE job == Owing(step[t].job)
  <2>1. /\ job \in Jobs /\ job.parts = step[t].job.parts \ inRepo
        /\ job.receipt \in {None, step[t].job.receipt}
    BY <1>0, JobFields DEF Owing
  <2>2. step[t].job.parts \ job.parts \subseteq Landed
    BY <2>1 DEF Told
  <2> HIDE DEF job
  <2>3. CASE Keep(t, job) /\ EndStep(t)
    BY <1>2, <2>1, <2>2, <2>3
  <2>4. CASE /\ \E taking \in Batches(job) : Calls(t, "sending", job, taking)
             /\ UNCHANGED deviceVars
    <3>1. step'[t].job = job
      BY <2>4 DEF Calls, TypeOK
    <3> QED BY <1>3, <2>1, <2>2, <2>4, <3>1
  <2> QED BY <1>5, <2>3, <2>4 DEF Relisted, job
<1>6. CASE Listed(t)
  <2>1. CASE Store(t, None) /\ EndStep(t)
    <3>1. step[t].job.parts = {}
      BY <1>6 DEF Listed, Ordered, Uploading
    <3>2. Stored(t)' = None /\ ~Busy(t)'
      BY <2>1, StoreHere, EndStepType DEF Idle, Halting
    <3> QED BY <1>0, <3>1, <3>2
  <2>2. CASE EndStep(t) /\ jobs' = jobs
    BY <1>1, <2>2
  <2>3. CASE jobs' = jobs /\ \E p \in inRepo : Calls(t, "draining", step[t].job, {p})
    <3>1. step'[t].job = step[t].job
      BY <2>3 DEF Calls, TypeOK
    <3> QED BY <1>0, <1>3, <2>3, <3>1
  <2> QED BY <1>6, <2>1, <2>2, <2>3 DEF Listed
<1>7. CASE ListingFails(t)
  BY <1>1, <1>7 DEF ListingFails
<1>8. CASE UploadLanded(t)
  <2> DEFINE left == Left(step[t].job, step[t].taking)
  <2>1. left \in Jobs /\ left.parts = step[t].job.parts \ step[t].taking /\ left.receipt = None
    BY <1>0 DEF Left, Jobs
  <2>2. step[t].job.parts \ left.parts \subseteq Landed
    BY <1>8, <2>1 DEF UploadLanded, Told
  <2>3. Keep(t, left) /\ EndStep(t)
    BY <1>8 DEF UploadLanded
  <2> HIDE DEF left
  <2> QED BY <1>2, <2>1, <2>2, <2>3
<1>9. CASE DrainLanded(t) \/ Delayed(t)
  BY <1>2, <1>4, <1>9 DEF DrainLanded, Delayed
<1>10. CASE DrainDenied(t)
  <2>1. step'[t].job = step[t].job /\ jobs' = jobs
    BY <1>0, <1>10 DEF DrainDenied, TypeOK, Steps
  <2> QED BY <1>0, <1>3, <2>1
<1>11. Fails(t) => Moves(t)
  BY <1>2, <1>4 DEF Fails
<1>12. CASE Checked(t) \/ UploadDenied(t) \/ CheckFails(t)
  BY <1>1, <1>11, <1>12 DEF Checked, UploadDenied, CheckFails
<1>13. CASE Missed(t)
  BY <1>2, <1>4, <1>13 DEF Missed
<1> QED BY <1>5, <1>6, <1>7, <1>8, <1>9, <1>10, <1>12, <1>13 DEF Answers

\* The PDS touches no job.
LEMMA PDSMoves ==
    ASSUME TypeOK, Shaped, NEW t \in Tabs, PDS(t)
    PROVE  Moves(t)
<1>1. /\ step[t] \in Steps
      /\ UNCHANGED <<jobs, press, moved>>
      /\ \E answer : Says(t, answer)
  BY DEF PDS, Lands, Denies, Declines, TypeOK, deviceVars, pressVars
<1>2. step'[t].job = step[t].job /\ step'[t].at = step[t].at
  BY <1>1 DEF Says, Steps, TypeOK
<1> QED BY <1>1, <1>2 DEF Moves, StoreMoves, BusyMoves, LiveMoves, WritesMoves, Live, Busy,
                          Writes, Stored

\* Opening finds an empty job or clears one; closing forgets the copies.
LEMMA OpensMoves ==
    ASSUME TypeOK, Shaped, NEW t \in Tabs, Ordered(t), Opens(t)
    PROVE  Moves(t)
<1> USE DEF Moves, StoreMoves, BusyMoves, LiveMoves, WritesMoves, Live, Busy, Writes, TypeOK,
            repoVars, deviceVars, tabVars, viewVars, pressVars, threadVars
<1>1. CASE Attach(t) \/ AttachFails(t) \/ CollectionRead(t)
  BY <1>1 DEF Attach, AttachFails, CollectionRead, Stored
<1>2. CASE AttachListed(t)
  <2>1. /\ step' = step /\ press' = press /\ moved' = moved
        /\ attaching[t].job = Stored(t) /\ ~Busy(t) /\ ~Writes(t)
        /\ Stored(t) # None => Stored(t).parts = {}
    BY <1>2 DEF AttachListed, Ordered, Rests, Idle, NoPress, Uploading
  <2>2. CASE jobs' = jobs
    BY <2>1, <2>2 DEF Stored
  <2>3. CASE Store(t, Found) /\ Stored(t) = None /\ inRepo # {}
    <3>1. Found # None
      <4>1. Found \in Jobs
        BY DEF Found, Jobs
      <4> QED BY <4>1, NoneAssumption
    <3> QED BY <2>1, <2>3, <3>1, StoreHere DEF Found
  <2>4. CASE Store(t, None)
    BY <2>1, <2>4, StoreHere DEF Owed
  <2> QED BY <1>2, <2>1, <2>2, <2>3, <2>4 DEF AttachListed
<1>3. CASE Close(t)
  BY <1>3 DEF Close, Idle, NoPress, Stored
<1> QED BY <1>1, <1>2, <1>3 DEF Opens

\* A press writes back the job it read, or clears it.
LEMMA OwnerMoves ==
    ASSUME TypeOK, Shaped, NEW t \in Tabs, Ordered(t), Owner(t), ~BeginSaves(t)
    PROVE  Moves(t)
<1> USE DEF Moves, StoreMoves, BusyMoves, LiveMoves, WritesMoves, Live, Busy, Writes, TypeOK,
            repoVars, deviceVars, tabVars, viewVars, pressVars, threadVars
<1>0. ASSUME NEW job \in Jobs, Writes(t), Released(t), UNCHANGED <<step, moved>>,
             Store(t, job), job.parts = press[t].job.parts, job.receipt = press[t].job.receipt
      PROVE  Moves(t)
  BY <1>0, StoreHere, NoneAssumption DEF Released, NoPress
<1>1. CASE \/ \E i \in Imports : Begin(t, i)
           \/ BeginFails(t) \/ Drop(t) \/ DropLocks(t) \/ DropRemoves(t) \/ DropFails(t)
  <2>1. jobs' = jobs /\ Stored(t)' = Stored(t) /\ step' = step
    BY <1>1 DEF Begin, BeginFails, Drop, DropLocks, DropRemoves, DropFails, Stored
  <2>2. moved' = moved \/ MoveEra(t)
    BY <1>1 DEF Begin, BeginFails, Drop, DropLocks, DropRemoves, DropFails
  <2>3. ~Live(t)' \/ Live(t)
    BY <2>1, <2>2 DEF MoveEra, Idle
  <2>4. press'[t].kind \notin {"halt", "carryOn"}
    <3>1. CASE \E i \in Imports : Begin(t, i)
      BY <3>1 DEF Begin
    <3>2. CASE BeginFails(t) \/ DropFails(t)
      <4>1. Released(t)
        BY <3>2 DEF BeginFails, DropFails
      <4> QED BY <4>1 DEF Released, NoPress
    <3>3. CASE Drop(t) \/ DropLocks(t)
      <4>1. press'[t].kind = "drop" \/ press'[t].kind = "dropping"
        <5>1. CASE Drop(t)
          BY <5>1 DEF Drop, NoPress
        <5>2. CASE DropLocks(t)
          BY <5>2 DEF DropLocks, NoPress
        <5> QED BY <3>3, <5>1, <5>2
      <4> QED BY <4>1
    <3>4. CASE DropRemoves(t)
      BY <3>4 DEF DropRemoves, Pressing, Presses
    <3> QED BY <1>1, <3>1, <3>2, <3>3, <3>4
  <2> QED BY <2>1, <2>3, <2>4
<1>2. CASE Halt(t) \/ HaltAfterStep(t)
  <2>1. /\ jobs' = jobs /\ Stored(t)' = Stored(t) /\ moved' = moved
        /\ step' = step \/ step'[t] = Idle
        /\ StopsNow(t) \/ press' = press
    BY <1>2 DEF Halt, HaltAfterStep, Stored
  <2>2. Writes(t)' => \/ Writes(t) /\ press'[t] = press[t]
                      \/ Stored(t) # None /\ press'[t].job = Stored(t)
    <3>1. CASE press' = press
      BY <3>1
    <3>2. CASE StopsNow(t)
      BY <3>2, StopsNowHere DEF NoPress
    <3> QED BY <2>1, <3>1, <3>2
  <2> QED BY <2>1, <2>2 DEF Idle
<1>3. CASE HaltSaves(t)
  <2>1. press[t].job \in Jobs
    BY <1>3 DEF HaltSaves, Pressing, Shaped
  <2>2. /\ [press[t].job EXCEPT !.paused = TRUE] \in Jobs
        /\ [press[t].job EXCEPT !.paused = TRUE].parts = press[t].job.parts
        /\ [press[t].job EXCEPT !.paused = TRUE].receipt = press[t].job.receipt
    BY <2>1, JobFields DEF Jobs
  <2> QED BY <1>0, <1>3, <2>2 DEF HaltSaves, Pressing
<1>4. CASE CarryOn(t)
  <2>1. /\ Stored(t)' = Stored(t) /\ step' = step /\ moved' = moved
    BY <1>4 DEF CarryOn, Stored
  <2>2. Writes(t)' => Stored(t) # None /\ press'[t].job = Stored(t)
    BY <1>4 DEF CarryOn, NoPress
  <2> QED BY <2>1, <2>2
<1>5. CASE CarryOnSaves(t)
  <2>1. press[t].job \in Jobs
    BY <1>5 DEF CarryOnSaves, Pressing, Shaped
  <2>2. /\ [press[t].job EXCEPT !.paused = FALSE, !.missed = FALSE] \in Jobs
        /\ [press[t].job EXCEPT !.paused = FALSE, !.missed = FALSE].parts = press[t].job.parts
        /\ [press[t].job EXCEPT !.paused = FALSE, !.missed = FALSE].receipt = press[t].job.receipt
    BY <2>1, JobFields DEF Jobs
  <2> QED BY <1>0, <1>5, <2>2 DEF CarryOnSaves, Pressing
<1>6. CASE DropClears(t)
  <2>1. Stored(t)' = None /\ step' = step /\ moved' = moved
    BY <1>6, StoreHere DEF DropClears
  <2>2. press[t].kind = "dropping" /\ press'[t].kind = "none"
    BY <1>6 DEF DropClears, Pressing, Released, NoPress
  <2> QED BY <2>1, <2>2
<1> QED BY <1>1, <1>2, <1>3, <1>4, <1>5, <1>6 DEF Owner

\* Every step but an import's beginning moves the copies as Moves says.
LEMMA ActsMove ==
    ASSUME TypeOK, Shaped, NEW t \in Tabs, Ordered(t), Told,
           StepActs(t) \/ Answers(t) \/ PDS(t) \/ Opens(t) \/ Owner(t), ~BeginSaves(t)
    PROVE  Moves(t)
  BY StepActsMoves, AnswersMoves, PDSMoves, OpensMoves, OwnerMoves

\* So no copy comes to hold a part no copy held.
LEMMA HeldShrinks ==
    ASSUME NEW t \in Tabs, Moves(t)
    PROVE  Held(t)' \subseteq Held(t)
<1>1. Owed(t)' \subseteq Held(t)
  BY DEF Moves, StoreMoves, Held, Owed
<1>2. Live(t)' => step'[t].job.parts \subseteq Held(t)
  BY DEF Moves, LiveMoves, Held, Owed
<1>3. Writes(t)' => press'[t].job.parts \subseteq Held(t)
  BY DEF Moves, WritesMoves, Held, Owed
<1> QED BY <1>1, <1>2, <1>3 DEF Held

\* A tab left as it was holds what it held.
LEMMA AlikeHeld ==
    ASSUME NEW s \in Tabs, Alike(s)
    PROVE  /\ Held(s)' = Held(s) /\ Owed(s)' = Owed(s) /\ Stored(s)' = Stored(s)
           /\ Live(s)' = Live(s) /\ Writes(s)' = Writes(s) /\ Busy(s)' = Busy(s)
  BY DEF Alike, Held, Owed, Live, Writes, Busy, Stored

\* A part lands only out of the job of a step that stands.
LEMMA Landings ==
    ASSUME TypeOK, Shaped, NEW t \in Tabs, Ordered(t),
           StepActs(t) \/ Answers(t) \/ PDS(t) \/ Opens(t) \/ Owner(t)
    PROVE  /\ Landed \subseteq Landed'
           /\ Landed' \subseteq Landed \cup Held(t)
<1>1. CASE Lands(t)
  <2>1. \/ created' = created
        \/ /\ created' = Plus(created, step[t].taking)
           /\ step[t].at = "sending"
    BY <1>1 DEF Lands
  <2>2. CASE created' = created
    BY <2>2 DEF Landed
  <2>3. CASE created' = Plus(created, step[t].taking) /\ step[t].at = "sending"
    <3>1. step[t].taking \subseteq Held(t)
      BY <2>3 DEF Ordered, Held, Live, Busy
    <3>2. \A p \in Parts : created'[p] = IF p \in step[t].taking THEN created[p] + 1 ELSE created[p]
      BY <2>3 DEF Plus
    <3>3. \A p \in Parts : created[p] \in Nat
      BY DEF TypeOK
    <3> QED BY <3>1, <3>2, <3>3 DEF Landed
  <2> QED BY <2>1, <2>2, <2>3
<1>2. CASE ~Lands(t)
  <2>1. created' = created
    <3> USE DEF repoVars
    <3>1. CASE StepActs(t)
      BY <3>1 DEF StepActs, StepStops, StepWaits, StepSends, StepRelists, StepLists, StepDrains
    <3>2. CASE Answers(t)
      BY <3>2 DEF Answers, Relisted, Listed, ListingFails, UploadLanded, UploadDenied,
                  DrainLanded, DrainDenied, Checked, CheckFails, Delayed, Missed
    <3>3. CASE PDS(t)
      BY <1>2, <3>3 DEF PDS, Denies, Declines
    <3>4. CASE Opens(t)
      BY <3>4 DEF Opens, Attach, AttachListed, AttachFails, CollectionRead, Close
    <3>5. CASE Owner(t)
      BY <3>5 DEF Owner, Begin, BeginSaves, BeginFails, Halt, HaltAfterStep, HaltSaves, CarryOn,
                  CarryOnSaves, Drop, DropLocks, DropRemoves, DropFails, DropClears, Removed
    <3> QED BY <3>1, <3>2, <3>3, <3>4, <3>5
  <2> QED BY <2>1 DEF Landed
<1> QED BY <1>1, <1>2

\* What has landed stays landed, and a call that landed is told no earlier.
LEMMA ToldStep ==
    ASSUME OneTab
    PROVE  TypeOK /\ Shaped /\ OrderedAll /\ Told /\ [Next]_vars /\ TypeOK' /\ Accounted' => Told'
<1> SUFFICES ASSUME TypeOK, Shaped, OrderedAll, Told, [Next]_vars, TypeOK', Accounted'
             PROVE  Told'
  OBVIOUS
<1>1. inRepo' \subseteq Landed'
  BY DEF TypeOK, Accounted, Landed
<1>2. CASE UNCHANGED vars
  BY <1>1, <1>2 DEF vars, repoVars, threadVars, Told, Landed
<1>3. ASSUME NEW t \in Tabs,
             StepActs(t) \/ Answers(t) \/ PDS(t) \/ Opens(t) \/ Owner(t),
             NEW s \in Tabs, step'[s].at = "sending", step'[s].said = "landed"
      PROVE  step'[s].taking \subseteq Landed'
  <2>1. Landed \subseteq Landed'
    BY <1>3, Landings DEF OrderedAll
  <2>2. CASE step'[s] = step[s]
    BY <1>3, <2>1, <2>2 DEF Told
  <2>3. CASE Lands(s)
    <3>1. step[s] \in Steps /\ step'[s].taking = step[s].taking /\ step'[s].job = step[s].job
                /\ step'[s].at = step[s].at
      BY <2>3 DEF Lands, Says, TypeOK, Steps
    <3>2. CASE step[s].job.receipt # None
      BY <1>3, <3>1, <3>2 DEF OrderedAll, Ordered
    <3>3. CASE step[s].job.receipt = None
      <4>1. step[s].taking \subseteq inRepo'
        BY <1>3, <2>3, <3>1, <3>3 DEF Lands
      <4> QED BY <1>1, <3>1, <4>1
    <3> QED BY <3>2, <3>3
  <2>4. ~Lands(t) => step'[t] = step[t] \/ step'[t].said # "landed"
    <3> USE DEF TypeOK, threadVars
    <3>1. CASE StepActs(t)
      <4>1. step' = step \/ \E at, job, taking : Out(t, at, job, taking)
        BY <3>1 DEF StepActs, StepStops, StepWaits, StepSends, StepRelists, StepLists, StepDrains
      <4> QED BY <4>1 DEF Out
    <3>2. CASE Answers(t)
      <4>1. CASE EndStep(t)
        <5>1. step'[t] \in {Idle, Halting}
          BY <4>1, EndStepType
        <5> QED BY <5>1 DEF Idle, Halting
      <4>2. CASE DrainDenied(t)
        BY <4>2 DEF DrainDenied, Steps
      <4>3. CASE \E at, job, taking : Calls(t, at, job, taking)
        BY <4>3 DEF Calls
      <4> QED BY <3>2, <4>1, <4>2, <4>3
              DEF Answers, Relisted, Listed, ListingFails, UploadLanded, UploadDenied, Fails,
                  DrainLanded, Checked, CheckFails, Delayed, Missed
    <3>3. CASE PDS(t)
      BY <3>3 DEF PDS, Denies, Declines, Says, Steps
    <3>4. CASE Opens(t)
      <4>1. step' = step \/ step'[t] = Idle
        BY <3>4 DEF Opens, Attach, AttachListed, AttachFails, CollectionRead, Close
      <4> QED BY <4>1 DEF Idle
    <3>5. CASE Owner(t)
      <4>1. step' = step \/ step'[t] = Idle
        BY <3>5 DEF Owner, Begin, BeginSaves, BeginFails, Halt, HaltAfterStep, HaltSaves, CarryOn,
                    CarryOnSaves, Drop, DropLocks, DropRemoves, DropFails, DropClears
      <4> QED BY <4>1 DEF Idle
    <3> QED BY <1>3, <3>1, <3>2, <3>3, <3>4, <3>5
  <2>5. s # t => step'[s] = step[s]
    BY <1>3, OthersAlike DEF Alike
  <2> QED BY <1>3, <2>2, <2>3, <2>4, <2>5
<1> QED BY <1>1, <1>2, <1>3 DEF Next, Told

-----------------------------------------------------------------------------
(* Tabs hold no part of each other's imports.                              *)

\* Two tabs never hold parts of one import, and no part of an import nobody has
\* begun is held or has landed.
Apart ==
    /\ \A t \in Tabs : \A p \in Held(t) : fate[ImportOf[p]] # "unread"
    /\ \A s, t \in Tabs : \A p \in Held(s), q \in Held(t) : ImportOf[p] = ImportOf[q] => s = t
    /\ \A t \in Tabs : press[t].kind = "begin" => fate[press[t].import] = "unread"
    /\ \A s, t \in Tabs :
          press[s].kind = "begin" /\ press[t].kind = "begin" /\ press[s].import = press[t].import
              => s = t
    /\ \A b \in Browsers : jobs[b] # None => \E t \in Tabs : Home[t] = b
    /\ \A p \in Landed : fate[ImportOf[p]] # "unread"

\* What is held is parts.
LEMMA HeldType ==
    ASSUME TypeOK, Shaped, NEW t \in Tabs
    PROVE  Held(t) \subseteq Parts
<1>1. Owed(t) \subseteq Parts
  <2>1. Stored(t) \in Jobs \cup {None}
    BY HomeAssumption DEF Stored, TypeOK
  <2> QED BY <2>1 DEF Owed, Jobs
<1>2. Live(t) => step[t].job.parts \subseteq Parts
  BY DEF Live, Busy, Shaped, Jobs
<1>3. Writes(t) => press[t].job.parts \subseteq Parts
  BY DEF Writes, Shaped, Jobs
<1> QED BY <1>1, <1>2, <1>3 DEF Held

\* Only beginning, discarding and having discarded change what was asked.
LEMMA FateStays ==
    ASSUME NEW t \in Tabs,
           StepActs(t) \/ Answers(t) \/ PDS(t) \/ Opens(t) \/ Owner(t),
           ~BeginSaves(t), ~Drop(t), ~DropClears(t)
    PROVE  fate' = fate
<1> USE DEF pressVars
<1>1. CASE StepActs(t)
  BY <1>1 DEF StepActs, StepStops, StepWaits, StepSends, StepRelists, StepLists, StepDrains
<1>2. CASE Answers(t)
  BY <1>2 DEF Answers, Relisted, Listed, ListingFails, UploadLanded, UploadDenied,
              DrainLanded, DrainDenied, Checked, CheckFails, Delayed, Missed
<1>3. CASE PDS(t)
  BY <1>3 DEF PDS, Lands, Denies, Declines
<1>4. CASE Opens(t)
  BY <1>4 DEF Opens, Attach, AttachListed, AttachFails, CollectionRead, Close
<1>5. CASE Owner(t)
  BY <1>5 DEF Owner, Begin, BeginFails, Halt, HaltAfterStep, HaltSaves, CarryOn,
              CarryOnSaves, DropLocks, DropRemoves, DropFails
<1> QED BY <1>1, <1>2, <1>3, <1>4, <1>5

\* Only beginning begins an import.
LEMMA FateMoves ==
    ASSUME TypeOK, NEW t \in Tabs,
           StepActs(t) \/ Answers(t) \/ PDS(t) \/ Opens(t) \/ Owner(t), ~BeginSaves(t)
    PROVE  \A i \in Imports : /\ fate'[i] = "unread" <=> fate[i] = "unread"
                              /\ fate'[i] = "begun" => fate[i] = "begun"
<1>1. CASE Drop(t)
  BY <1>1 DEF Drop, TypeOK
<1>2. CASE DropClears(t)
  BY <1>2 DEF DropClears, TypeOK
<1>3. CASE ~Drop(t) /\ ~DropClears(t)
  BY <1>3, FateStays
<1> QED BY <1>1, <1>2, <1>3

\* A press to begin takes an import no other press has.
LEMMA BeginMoves ==
    ASSUME TypeOK, NEW t \in Tabs,
           StepActs(t) \/ Answers(t) \/ PDS(t) \/ Opens(t) \/ Owner(t), press'[t].kind = "begin"
    PROVE  \/ press'[t] = press[t]
           \/ /\ fate[press'[t].import] = "unread" /\ fate' = fate
              /\ \A s \in Tabs : press[s].import # press'[t].import
<1> USE DEF pressVars, TypeOK
<1>1. CASE StepActs(t)
  BY <1>1 DEF StepActs, StepStops, StepWaits, StepSends, StepRelists, StepLists, StepDrains
<1>2. CASE Answers(t)
  BY <1>2 DEF Answers, Relisted, Listed, ListingFails, UploadLanded, UploadDenied,
              DrainLanded, DrainDenied, Checked, CheckFails, Delayed, Missed
<1>3. CASE PDS(t)
  BY <1>3 DEF PDS, Lands, Denies, Declines
<1>4. CASE Opens(t)
  <2>1. press' = press \/ press'[t] = NoPress
    BY <1>4 DEF Opens, Attach, AttachListed, AttachFails, CollectionRead, Close
  <2> QED BY <2>1 DEF NoPress
<1>5. CASE Owner(t)
  <2>1. ASSUME NEW i \in Imports, Begin(t, i)
        PROVE  press'[t].import = i /\ fate[i] = "unread" /\ fate' = fate
               /\ \A s \in Tabs : press[s].import # i
    BY <2>1 DEF Begin, NoPress
  <2>2. CASE \/ BeginSaves(t) \/ BeginFails(t) \/ HaltSaves(t) \/ CarryOnSaves(t)
             \/ DropFails(t) \/ DropClears(t)
    <3>1. Released(t)
      BY <2>2 DEF BeginSaves, BeginFails, HaltSaves, CarryOnSaves, DropFails, DropClears
    <3> QED BY <3>1 DEF Released, NoPress
  <2>3. CASE Halt(t) \/ HaltAfterStep(t)
    <3>1. press' = press \/ StopsNow(t)
      BY <2>3 DEF Halt, HaltAfterStep
    <3> QED BY <3>1, StopsNowHere DEF NoPress
  <2>4. CASE CarryOn(t)
    <3>1. press'[t].kind \in {"none", "carryOn"}
      BY <2>4 DEF CarryOn, NoPress
    <3> QED BY <3>1
  <2>5. CASE Drop(t) \/ DropLocks(t)
    <3>1. press'[t].kind = "drop" \/ press'[t].kind = "dropping"
      <4>1. CASE Drop(t)
        BY <4>1 DEF Drop, NoPress
      <4>2. CASE DropLocks(t)
        BY <4>2 DEF DropLocks, NoPress
      <4> QED BY <2>5, <4>1, <4>2
    <3> QED BY <3>1
  <2>6. CASE DropRemoves(t)
    BY <2>6 DEF DropRemoves, Pressing, Presses
  <2> QED BY <1>5, <2>1, <2>2, <2>3, <2>4, <2>5, <2>6 DEF Owner
<1> QED BY <1>1, <1>2, <1>3, <1>4, <1>5

\* A tab writes no job but its own browser's.
LEMMA StoresHome ==
    ASSUME TypeOK, NEW t \in Tabs, NEW b \in Browsers, b # Home[t],
           StepActs(t) \/ Answers(t) \/ PDS(t) \/ Opens(t) \/ Owner(t)
    PROVE  jobs'[b] = jobs[b]
<1> USE DEF deviceVars
<1>1. jobs' = jobs \/ (\E job : Store(t, job)) \/ (\E job : Keep(t, job))
  <2>1. CASE StepActs(t)
    BY <2>1 DEF StepActs, StepStops, StepWaits, StepSends, StepRelists, StepLists, StepDrains
  <2>2. CASE Answers(t)
    BY <2>2 DEF Answers, Relisted, Listed, ListingFails, UploadLanded, UploadDenied, Fails,
                DrainLanded, DrainDenied, Checked, CheckFails, Delayed, Missed
  <2>3. CASE PDS(t)
    BY <2>3 DEF PDS, Lands, Denies, Declines
  <2>4. CASE Opens(t)
    BY <2>4 DEF Opens, Attach, AttachListed, AttachFails, CollectionRead, Close
  <2>5. CASE Owner(t)
    BY <2>5 DEF Owner, Begin, BeginSaves, BeginFails, Halt, HaltAfterStep, HaltSaves, CarryOn,
                CarryOnSaves, Drop, DropLocks, DropRemoves, DropFails, DropClears
  <2> QED BY <2>1, <2>2, <2>3, <2>4, <2>5
<1>2. jobs' = jobs \/ \E job : Store(t, job)
  BY <1>1 DEF Keep
<1> QED BY <1>2, HomeAssumption DEF Store, TypeOK

\* Every step of the runner keeps the tabs apart.
LEMMA ApartStep ==
    ASSUME OneTab
    PROVE  TypeOK /\ Shaped /\ OrderedAll /\ Told /\ Apart /\ [Next]_vars /\ TypeOK' => Apart'
<1> SUFFICES ASSUME TypeOK, Shaped, OrderedAll, Told, Apart, [Next]_vars, TypeOK' PROVE Apart'
  OBVIOUS
<1>1. CASE UNCHANGED vars
  BY <1>1 DEF vars, repoVars, deviceVars, tabVars, viewVars, pressVars, threadVars,
              Apart, Held, Owed, Live, Writes, Busy, Stored, Landed
<1>2. ASSUME NEW t \in Tabs,
             StepActs(t) \/ Answers(t) \/ PDS(t) \/ Opens(t) \/ Owner(t)
      PROVE  Apart'
  <2>0. /\ \A s \in Tabs : Ordered(s) /\ Held(s) \subseteq Parts
        /\ \A p \in Parts : ImportOf[p] \in Imports
    BY HeldType, PartsAssumption DEF OrderedAll
  <2>1. \A s \in Tabs : s # t => Held(s)' = Held(s) /\ press'[s] = press[s]
    BY <1>2, OthersAlike, AlikeHeld DEF Alike
  <2>2. Landed' \subseteq Landed \cup Held(t)
    BY <1>2, <2>0, Landings
  <2>3. (\A b \in Browsers : jobs[b] # None => \E s \in Tabs : Home[s] = b)'
    <3> SUFFICES ASSUME NEW b \in Browsers, jobs'[b] # None, \A s \in Tabs : Home[s] # b
                 PROVE  FALSE
      OBVIOUS
    <3>1. jobs'[b] = jobs[b]
      BY <1>2, StoresHome
    <3> QED BY <3>1 DEF Apart
  <2>4. CASE ~BeginSaves(t)
    <3>1. Held(t)' \subseteq Held(t)
      BY <1>2, <2>0, <2>4, ActsMove, HeldShrinks
    <3>2. \A i \in Imports : fate'[i] = "unread" <=> fate[i] = "unread"
      BY <1>2, <2>4, FateMoves
    <3>3. \A s \in Tabs : Held(s)' \subseteq Held(s)
      BY <2>1, <3>1
    <3>4. (\A s \in Tabs : \A p \in Held(s) : fate[ImportOf[p]] # "unread")'
      BY <2>0, <3>2, <3>3 DEF Apart
    <3>5. (\A r, s \in Tabs : \A p \in Held(r), q \in Held(s) : ImportOf[p] = ImportOf[q] => r = s)'
      BY <3>3 DEF Apart
    <3>6. (\A p \in Landed : fate[ImportOf[p]] # "unread")'
      BY <2>0, <2>2, <3>2 DEF Apart, Landed
    <3>7. \A s \in Tabs : press'[s].kind = "begin" =>
             \/ press'[s] = press[s]
             \/ /\ s = t
                /\ fate[press'[s].import] = "unread" /\ fate' = fate
                /\ \A r \in Tabs : press[r].import # press'[s].import
      BY <1>2, <2>1, BeginMoves
    <3>8. (\A s \in Tabs : press[s].kind = "begin" => fate[press[s].import] = "unread")'
      BY <3>2, <3>7 DEF Apart, Shaped
    <3>9. (\A r, s \in Tabs :
              press[r].kind = "begin" /\ press[s].kind = "begin" /\ press[r].import = press[s].import
                  => r = s)'
      BY <3>7 DEF Apart
    <3> QED BY <2>3, <3>4, <3>5, <3>6, <3>8, <3>9 DEF Apart
  <2>5. CASE BeginSaves(t)
    <3> DEFINE i == press[t].import
    <3>1. /\ i \in Imports /\ fate[i] = "unread" /\ fate' = [fate EXCEPT ![i] = Begins(t)]
          /\ press'[t] = NoPress /\ ~Live(t)'
      <4>1. i \in Imports /\ fate[i] = "unread" /\ fate' = [fate EXCEPT ![i] = Begins(t)]
        BY <2>5 DEF BeginSaves, Pressing, Shaped, Apart
      <4>2. press'[t] = NoPress
        BY <2>5 DEF BeginSaves, Released, TypeOK
      <4>3. (moved'[t] <=> step[t] # Idle) /\ step' = step
        BY <2>5 DEF BeginSaves, MoveEra, TypeOK, threadVars
      <4>4. ~Live(t)'
        BY <4>3 DEF Live, Busy, Idle
      <4> QED BY <4>1, <4>2, <4>4
    <3>2. Held(t)' \subseteq PartsOf(i)
      <4>1. Stored(t)' = [receipt |-> Digest[i], parts |-> PartsOf(i),
                          missed |-> FALSE, paused |-> FALSE]
        BY <2>5, StoreHere DEF BeginSaves
      <4> QED BY <3>1, <4>1 DEF Held, Owed, Writes, NoPress
    <3>3. \A s \in Tabs : \A p \in Held(s)' : s # t => p \in Held(s) /\ ImportOf[p] # i
      BY <2>1, <3>1 DEF Apart
    <3>4. \A p \in Held(t)' : ImportOf[p] = i
      BY <3>2 DEF PartsOf
    <3>5. Landed' = Landed
      BY <2>5 DEF BeginSaves, repoVars, Landed
    <3>6. \A j \in Imports : fate'[j] = IF j = i THEN Begins(t) ELSE fate[j]
      BY <3>1 DEF TypeOK
    <3>0. Begins(t) # "unread"
      BY DEF Begins
    <3> HIDE DEF i
    <3>7. (\A s \in Tabs : \A p \in Held(s) : fate[ImportOf[p]] # "unread")'
      BY <2>0, <3>0, <3>1, <3>3, <3>4, <3>6 DEF Apart
    <3>8. (\A r, s \in Tabs : \A p \in Held(r), q \in Held(s) : ImportOf[p] = ImportOf[q] => r = s)'
      BY <3>3, <3>4 DEF Apart
    <3>9. (\A p \in Landed : fate[ImportOf[p]] # "unread")'
      BY <2>0, <3>0, <3>5, <3>6 DEF Apart, Landed
    <3>10. \A s \in Tabs : press'[s].kind = "begin" => s # t /\ press'[s] = press[s] /\ press[s].import # i
      BY <2>1, <2>5, <3>1 DEF NoPress, Apart, BeginSaves, Pressing, i
    <3>11. (\A s \in Tabs : press[s].kind = "begin" => fate[press[s].import] = "unread")'
      BY <3>6, <3>10 DEF Apart, Shaped
    <3>12. (\A r, s \in Tabs :
              press[r].kind = "begin" /\ press[s].kind = "begin" /\ press[r].import = press[s].import
                  => r = s)'
      BY <3>10 DEF Apart
    <3> QED BY <2>3, <3>7, <3>8, <3>9, <3>11, <3>12 DEF Apart
  <2> QED BY <2>4, <2>5
<1> QED BY <1>1, <1>2 DEF Next

-----------------------------------------------------------------------------
(* Nothing is lost.                                                        *)

\* A part the repository has never held, of an import begun with no step out
Waits(p) == p \notin Landed /\ fate[ImportOf[p]] = "begun"
\* A copy of a job holds the waiting parts that the stored one holds.
Level(t, parts) == \A p \in Parts : Waits(p) => (p \in parts <=> p \in Owed(t))

\* The copies of a job that will be written back are level with the stored one, and
\* no waiting part is owed under a discard or under a step whose era has moved.  With
\* the lock no step outlives its job.
Covered(t) ==
    /\ Live(t) => Level(t, step[t].job.parts)
    /\ Writes(t) => Level(t, press[t].job.parts)
    /\ Busy(t) /\ moved[t] => \A p \in Owed(t) : ~Waits(p)
    /\ press[t].kind \in {"drop", "dropping"} => \A p \in Owed(t) : ~Waits(p)
    /\ Home[t] \in locks => /\ Busy(t) => Stored(t) # None
                            /\ Busy(t) /\ moved[t] => press[t].kind = "drop"

\* A waiting part is owed.
Reached == \A p \in Parts : Waits(p) => \E t \in Tabs : p \in Owed(t)

\* What a step makes of a stored job leaves no part out that has not landed.
LEMMA OwedStays ==
    ASSUME TypeOK, Shaped, NEW t \in Tabs, Covered(t), Moves(t)
    PROVE  \A p \in Owed(t) : Waits(p) => p \in Owed(t)'
<1> SUFFICES ASSUME NEW p \in Owed(t), Waits(p) PROVE p \in Owed(t)'
  OBVIOUS
<1>0. p \in Parts
  BY HeldType DEF Held
<1>1. CASE Stored(t)' = Stored(t)
  BY <1>1 DEF Owed
<1>2. CASE Stored(t) = None
  BY <1>2 DEF Owed
<1>3. CASE press[t].kind = "dropping"
  BY <1>3 DEF Covered
<1>4. CASE Busy(t) /\ step[t].job.parts = {}
  BY <1>0, <1>4 DEF Covered, Level, Live
<1>5. CASE Owed(t) = {}
  BY <1>5
<1>6. CASE /\ Live(t) /\ Stored(t)' # None
           /\ step[t].job.parts \ Stored(t)'.parts \subseteq Landed
  BY <1>0, <1>6 DEF Covered, Level, Owed, Waits
<1>7. CASE Writes(t) /\ Stored(t)' # None /\ Stored(t)'.parts = press[t].job.parts
  BY <1>0, <1>7 DEF Covered, Level, Owed
<1> QED BY <1>1, <1>2, <1>3, <1>4, <1>5, <1>6, <1>7 DEF Moves, StoreMoves

\* The copies of a job that a step or a press will write back stay level with it.
LEMMA CopiesStay ==
    ASSUME TypeOK, Shaped, NEW t \in Tabs, Ordered(t), Covered(t), Moves(t),
           NEW p \in Parts, Waits(p)
    PROVE  /\ Live(t)' => (p \in step'[t].job.parts <=> p \in Owed(t)')
           /\ Writes(t)' => (p \in press'[t].job.parts <=> p \in Owed(t)')
<1> USE DEF Moves
<1>1. /\ Live(t) => (p \in step[t].job.parts <=> p \in Owed(t))
      /\ Writes(t) => (p \in press[t].job.parts <=> p \in Owed(t))
      /\ p \notin Landed
  BY DEF Covered, Level, Waits
<1>2. ASSUME Live(t)'
      PROVE  p \in step'[t].job.parts <=> p \in Owed(t)'
  <2>1. CASE Stored(t) # None /\ Stored(t)' = Stored(t) /\ step'[t].job = Stored(t)
    BY <2>1 DEF Owed
  <2>2. CASE /\ Live(t)
             /\ step'[t].job.parts \subseteq step[t].job.parts
             /\ step[t].job.parts \ step'[t].job.parts \subseteq Landed
    <3>1. p \in step'[t].job.parts <=> p \in Owed(t)
      BY <1>1, <2>2
    <3>2. p \in Owed(t)' <=> p \in Owed(t)
      <4>1. CASE Stored(t)' = Stored(t)
        BY <4>1 DEF Owed
      <4>2. CASE Writes(t) /\ Stored(t)' # None /\ Stored(t)'.parts = press[t].job.parts
        BY <1>1, <4>2 DEF Owed
      <4>3. press[t].kind # "dropping" /\ Busy(t) /\ Busy(t)'
        BY <1>2, <2>2 DEF Ordered, Live
      <4> QED BY <4>1, <4>2, <4>3 DEF StoreMoves
    <3> QED BY <3>1, <3>2
  <2> QED BY <1>2, <2>1, <2>2 DEF LiveMoves
<1>3. ASSUME Writes(t)'
      PROVE  p \in press'[t].job.parts <=> p \in Owed(t)'
  <2>1. CASE Stored(t) # None /\ Stored(t)' = Stored(t) /\ press'[t].job = Stored(t)
    BY <2>1 DEF Owed
  <2>2. CASE Writes(t) /\ press'[t] = press[t]
    <3>1. p \in press[t].job.parts <=> p \in Owed(t)
      BY <1>1, <2>2
    <3>2. CASE Stored(t)' = Stored(t)
      BY <2>2, <3>1, <3>2 DEF Owed
    <3>3. CASE Stored(t)' = None
      <4>1. press[t].kind # "dropping"
        BY <2>2 DEF Writes
      <4>2. CASE Busy(t) /\ step[t].job.parts = {}
        <5>1. p \notin Owed(t)
          BY <1>1, <4>2 DEF Covered, Live
        <5> QED BY <2>2, <3>1, <3>3, <5>1 DEF Owed
      <4>3. CASE Owed(t) = {}
        BY <2>2, <3>1, <3>3, <4>3 DEF Owed
      <4> QED BY <3>2, <3>3, <4>1, <4>2, <4>3 DEF StoreMoves
    <3>4. CASE Stored(t)' # None
      <4>1. CASE /\ Live(t)
                 /\ Stored(t)'.parts \subseteq step[t].job.parts
                 /\ step[t].job.parts \ Stored(t)'.parts \subseteq Landed
        BY <1>1, <2>2, <3>1, <3>4, <4>1 DEF Owed
      <4>2. CASE Stored(t)'.parts = press[t].job.parts
        BY <2>2, <3>4, <4>2 DEF Owed
      <4> QED BY <2>2, <3>2, <3>4, <4>1, <4>2 DEF StoreMoves
    <3> QED BY <3>3, <3>4
  <2> QED BY <1>3, <2>1, <2>2 DEF WritesMoves
<1> QED BY <1>2, <1>3

\* A discard under way stays so until it has the lock, or its tab is gone.
LEMMA DropMoves ==
    ASSUME TypeOK, NEW t \in Tabs, 
           StepActs(t) \/ Answers(t) \/ PDS(t) \/ Opens(t) \/ Owner(t)
    PROVE  /\ press[t].kind = "drop" => press'[t].kind = "drop" \/ DropLocks(t) \/ Close(t)
           /\ press'[t].kind \in {"drop", "dropping"}
                => press[t].kind \in {"drop", "dropping"} \/ Drop(t)
<1> USE DEF pressVars, TypeOK
<1>1. CASE press' = press
  BY <1>1
<1>2. CASE StepActs(t) \/ Answers(t) \/ PDS(t)
  <2>1. press' = press
    BY <1>2 DEF StepActs, StepStops, StepWaits, StepSends, StepRelists, StepLists, StepDrains,
                Answers, Relisted, Listed, ListingFails, UploadLanded, UploadDenied,
                DrainLanded, DrainDenied, Checked, CheckFails, Delayed, Missed,
                PDS, Lands, Denies, Declines
  <2> QED BY <1>1, <2>1
<1>3. CASE Opens(t)
  <2>1. press' = press \/ (Close(t) /\ press'[t] = NoPress)
    BY <1>3 DEF Opens, Attach, AttachListed, AttachFails, CollectionRead, Close
  <2> QED BY <1>1, <2>1 DEF NoPress
<1>4. CASE Owner(t)
  <2>1. CASE (\E i \in Imports : Begin(t, i)) \/ Halt(t) \/ CarryOn(t) \/ HaltAfterStep(t)
    <3>1. press[t] = NoPress
      BY <2>1 DEF Begin, Halt, CarryOn, HaltAfterStep, CanPress
    <3>2. press'[t].kind \in {"none", "begin", "halt", "carryOn"}
      <4>1. CASE \E i \in Imports : Begin(t, i)
        BY <4>1 DEF Begin, NoPress
      <4>2. CASE Halt(t) \/ HaltAfterStep(t)
        <5>1. press' = press \/ StopsNow(t)
          BY <4>2 DEF Halt, HaltAfterStep
        <5> QED BY <3>1, <5>1, StopsNowHere DEF NoPress
      <4>3. CASE CarryOn(t)
        BY <4>3 DEF CarryOn, NoPress
      <4> QED BY <2>1, <4>1, <4>2, <4>3
    <3> QED BY <3>1, <3>2 DEF NoPress
  <2>2. CASE \/ BeginSaves(t) \/ BeginFails(t) \/ HaltSaves(t) \/ CarryOnSaves(t)
             \/ DropFails(t) \/ DropClears(t)
    <3>1. Released(t) /\ press[t].kind # "drop"
      BY <2>2 DEF BeginSaves, BeginFails, HaltSaves, CarryOnSaves, DropFails, DropClears, Pressing
    <3> QED BY <3>1 DEF Released, NoPress
  <2>3. CASE Drop(t)
    <3>1. press[t] = NoPress
      BY <2>3 DEF Drop, CanPress
    <3> QED BY <2>3, <3>1 DEF NoPress
  <2>4. CASE DropLocks(t)
    BY <2>4 DEF DropLocks, Pressing
  <2>5. CASE DropRemoves(t)
    BY <2>5 DEF DropRemoves, Pressing
  <2> QED BY <1>4, <2>1, <2>2, <2>3, <2>4, <2>5 DEF Owner
<1> QED BY <1>2, <1>3, <1>4

\* The era moves under a step only at a press.
LEMMA EraMoves ==
    ASSUME TypeOK, NEW t \in Tabs, 
           StepActs(t) \/ Answers(t) \/ PDS(t) \/ Opens(t) \/ Owner(t), ~BeginSaves(t),
           moved'[t]
    PROVE  moved[t] \/ Drop(t) \/ BeginFails(t)
<1> USE DEF pressVars, TypeOK
<1>1. CASE StepActs(t)
  <2>1. moved' = moved \/ \E at, job, taking : Out(t, at, job, taking)
    BY <1>1 DEF StepActs, StepStops, StepWaits, StepSends, StepRelists, StepLists, StepDrains
  <2> QED BY <2>1 DEF Out
<1>2. CASE Answers(t) \/ PDS(t)
  BY <1>2 DEF Answers, Relisted, Listed, ListingFails, UploadLanded, UploadDenied,
              DrainLanded, DrainDenied, Checked, CheckFails, Delayed, Missed,
              PDS, Lands, Denies, Declines
<1>3. CASE Opens(t)
  BY <1>3 DEF Opens, Attach, AttachListed, AttachFails, CollectionRead, Close
<1>4. CASE Owner(t)
  BY <1>4 DEF Owner, Begin, Halt, HaltAfterStep, HaltSaves, CarryOn,
              CarryOnSaves, DropLocks, DropRemoves, DropFails, DropClears
<1> QED BY <1>1, <1>2, <1>3, <1>4

\* A browser has Web Locks or has not.
LEMMA LocksStay ==
    ASSUME NEW t \in Tabs,
           StepActs(t) \/ Answers(t) \/ PDS(t) \/ Opens(t) \/ Owner(t)
    PROVE  locks' = locks
<1> USE DEF tabVars
<1>1. CASE StepActs(t)
  BY <1>1 DEF StepActs, StepStops, StepWaits, StepSends, StepRelists, StepLists, StepDrains
<1>2. CASE Answers(t)
  BY <1>2 DEF Answers, Relisted, Listed, ListingFails, UploadLanded, UploadDenied,
              DrainLanded, DrainDenied, Checked, CheckFails, Delayed, Missed
<1>3. CASE PDS(t)
  BY <1>3 DEF PDS, Lands, Denies, Declines
<1>4. CASE Opens(t)
  BY <1>4 DEF Opens, Attach, AttachListed, AttachFails, CollectionRead, Close
<1>5. CASE Owner(t)
  BY <1>5 DEF Owner, Begin, BeginSaves, BeginFails, Halt, HaltAfterStep, HaltSaves, CarryOn,
              CarryOnSaves, Drop, DropLocks, DropRemoves, DropFails, DropClears
<1> QED BY <1>1, <1>2, <1>3, <1>4, <1>5

\* A discard gives up what its own tab owes: no other browser owes parts of it.
LEMMA DropGivesUp ==
    ASSUME TypeOK, Shaped, OneTab, Apart, NEW t \in Tabs, Drop(t)
    PROVE  \A p \in Owed(t) : fate'[ImportOf[p]] # "begun"
<1> SUFFICES ASSUME NEW p \in Owed(t) PROVE fate'[ImportOf[p]] # "begun"
  OBVIOUS
<1>1. p \in Held(t) /\ p \in Parts /\ ImportOf[p] \in Imports
  BY HeldType, PartsAssumption DEF Held
<1>2. fate[ImportOf[p]] # "unread"
  BY <1>1 DEF Apart
<1>3. ~Elsewhere(t, ImportOf[p])
  <2> SUFFICES ASSUME NEW b \in Browsers, b # Home[t], jobs[b] # None,
                      NEW q \in jobs[b].parts, q \in PartsOf(ImportOf[p])
               PROVE  FALSE
    BY DEF Elsewhere
  <2>1. PICK s \in Tabs : Home[s] = b
    BY DEF Apart
  <2>2. q \in Held(s) /\ ImportOf[q] = ImportOf[p]
    BY <2>1 DEF Held, Owed, Stored, PartsOf
  <2> QED BY <1>1, <2>1, <2>2 DEF Apart
<1> QED BY <1>1, <1>2, <1>3 DEF Drop, TypeOK

\* A part that waits after a step that begins nothing waited before it.
LEMMA WaitsMoves ==
    ASSUME TypeOK, Shaped, OrderedAll, NEW t \in Tabs,
           StepActs(t) \/ Answers(t) \/ PDS(t) \/ Opens(t) \/ Owner(t), ~BeginSaves(t),
           NEW p \in Parts, Waits(p)'
    PROVE  Waits(p)
  BY FateMoves, Landings, PartsAssumption DEF Waits, OrderedAll

\* A tab's own steps keep its copies level,
LEMMA CoveredHere ==
    ASSUME TypeOK, Shaped, OneTab, OrderedAll, Told, Apart, Locked, NEW t \in Tabs, Covered(t),
           StepActs(t) \/ Answers(t) \/ PDS(t) \/ Opens(t) \/ Owner(t), ~BeginSaves(t), TypeOK',
           Shaped'
    PROVE  Covered(t)'
<1>0. Moves(t) /\ Ordered(t) /\ Owed(t) \subseteq Parts /\ Owed(t)' \subseteq Parts
  BY ActsMove, HeldType, HeldShrinks DEF OrderedAll, Held
<1>1. /\ Live(t)' => Level(t, step[t].job.parts)'
      /\ Writes(t)' => Level(t, press[t].job.parts)'
  BY <1>0, WaitsMoves, CopiesStay DEF Level
<1>2. ASSUME Busy(t)', moved'[t], NEW p \in Owed(t)', Waits(p)' PROVE FALSE
  <2>0. p \in Parts /\ Waits(p)
    BY <1>0, <1>2, WaitsMoves
  <2>1. CASE Drop(t)
    <3>1. Owed(t)' = Owed(t)
      BY <2>1 DEF Drop, Owed, Stored, deviceVars
    <3> QED BY <1>2, <2>1, <3>1, DropGivesUp DEF Waits
  <2>2. CASE BeginFails(t)
    <3>1. Stored(t) = None /\ Stored(t)' = Stored(t)
      BY <1>0, <2>2 DEF BeginFails, Pressing, Ordered, Stored, deviceVars
    <3> QED BY <1>2, <3>1 DEF Owed
  <2>3. CASE moved[t]
    <3>1. Busy(t) /\ ~Live(t)
      BY <1>0, <1>2, <2>3 DEF Moves, BusyMoves, Live
    <3>2. p \in Owed(t) \/ (Writes(t) /\ p \in press[t].job.parts)
      BY <1>0, <1>2, <3>1 DEF Moves, StoreMoves, Owed
    <3>3. p \in Owed(t)
      BY <2>0, <3>2 DEF Covered, Level
    <3> QED BY <2>0, <2>3, <3>1, <3>3 DEF Covered
  <2> QED BY <1>2, <2>1, <2>2, <2>3, EraMoves
<1>3. ASSUME press'[t].kind \in {"drop", "dropping"}, NEW p \in Owed(t)', Waits(p)'
      PROVE  FALSE
  <2>0. p \in Parts /\ Waits(p)
    BY <1>0, <1>3, WaitsMoves
  <2>1. CASE Drop(t)
    <3>1. Owed(t)' = Owed(t)
      BY <2>1 DEF Drop, Owed, Stored, deviceVars
    <3> QED BY <1>3, <2>1, <3>1, DropGivesUp DEF Waits
  <2>2. CASE press[t].kind \in {"drop", "dropping"}
    <3>1. ~Live(t) /\ ~Writes(t)
      BY <1>0, <2>2 DEF Ordered, Live, Writes
    <3>2. p \in Owed(t)
      BY <1>0, <1>3, <3>1 DEF Moves, StoreMoves, Owed
    <3> QED BY <2>0, <2>2, <3>2 DEF Covered
  <2> QED BY <1>3, <2>1, <2>2, DropMoves
<1>4. ASSUME Home[t] \in locks'
      PROVE  /\ Busy(t)' => Stored(t)' # None
             /\ Busy(t)' /\ moved'[t] => press'[t].kind = "drop"
  <2>0. Home[t] \in locks
    BY <1>4, LocksStay
  <2>1. /\ press[t].kind = "dropping" => ~Busy(t)
        /\ DropLocks(t) => ~Busy(t) /\ step' = step
    <3>1. lock[Home[t]] = t => lock[Home[t]] # None
      BY NoneAssumption
    <3> QED BY <2>0, <3>1 DEF Locked, DropLocks, LockFree, Holds, Busy, threadVars
  <2>2. Busy(t)' => Stored(t)' # None
    BY <1>0, <2>0, <2>1 DEF Moves, StoreMoves, BusyMoves, Covered, Busy
  <2>3. ASSUME Busy(t)', moved'[t] PROVE press'[t].kind = "drop"
    <3>1. CASE Drop(t)
      BY <3>1 DEF Drop, NoPress, TypeOK
    <3>2. CASE BeginFails(t)
      <4>1. Stored(t) = None /\ Busy(t)
        BY <1>0, <2>3, <3>2 DEF BeginFails, Pressing, Ordered, Busy, threadVars
      <4> QED BY <2>0, <4>1 DEF Covered
    <3>3. CASE moved[t]
      <4>1. Busy(t)
        BY <1>0, <2>3 DEF Moves, BusyMoves
      <4>2. press[t].kind = "drop"
        BY <2>0, <3>3, <4>1 DEF Covered
      <4>3. ~Close(t)
        BY <2>3 DEF Close, Busy, Idle, TypeOK
      <4> QED BY <2>1, <4>1, <4>2, <4>3, DropMoves
    <3> QED BY <2>3, <3>1, <3>2, <3>3, EraMoves
  <2> QED BY <2>2, <2>3
<1> QED BY <1>1, <1>2, <1>3, <1>4 DEF Covered

\* the beginning of an import does,
LEMMA BeginSavesCovered ==
    ASSUME TypeOK, Shaped, Apart, NEW t \in Tabs, Ordered(t), Covered(t), BeginSaves(t)
    PROVE  Covered(t)'
<1> DEFINE i == press[t].import
<1>1. Stored(t) = None
  BY DEF Ordered, BeginSaves, Pressing
<1>2. /\ press'[t] = NoPress /\ step' = step /\ locks' = locks
      /\ moved'[t] <=> step[t] # Idle
      /\ i \in Imports /\ fate' = [fate EXCEPT ![i] = Begins(t)]
  BY DEF BeginSaves, Released, MoveEra, TypeOK, threadVars, tabVars, Pressing, Shaped
<1>3. Home[t] \in locks => ~Busy(t)
  BY <1>1 DEF Covered
<1>4. Stored(t)' = [receipt |-> Digest[i], parts |-> PartsOf(i),
                    missed |-> FALSE, paused |-> FALSE]
  BY StoreHere DEF BeginSaves
<1>5. \A p \in Owed(t)' : ImportOf[p] = i
  BY <1>4 DEF Owed, PartsOf
<1>6. Busy(t) => fate'[i] = "exposed"
  BY <1>2 DEF Begins, StepOut, Busy, TypeOK
<1>7. Busy(t)' => \A p \in Owed(t)' : ~Waits(p)'
  <2>1. ASSUME Busy(t)', NEW p \in Owed(t)' PROVE fate'[ImportOf[p]] = "exposed"
    BY <1>2, <1>5, <1>6, <2>1 DEF Busy
  <2> QED BY <2>1 DEF Waits
<1>8. ~Live(t)' /\ ~Writes(t)' /\ press'[t].kind = "none" /\ (Busy(t)' <=> Busy(t))
  BY <1>2 DEF Live, Busy, Writes, NoPress, Idle
<1> QED BY <1>2, <1>3, <1>7, <1>8 DEF Covered

\* and so do the steps of any other tab.
LEMMA CoveredElsewhere ==
    ASSUME TypeOK, Shaped, OneTab, OrderedAll, Apart, NEW t \in Tabs, NEW s \in Tabs, s # t, Covered(s),
           StepActs(t) \/ Answers(t) \/ PDS(t) \/ Opens(t) \/ Owner(t)
    PROVE  Covered(s)'
<1>1. /\ Alike(s) /\ locks' = locks /\ Landed \subseteq Landed'
  BY OthersAlike, LocksStay, Landings DEF OrderedAll
<1>2. ASSUME NEW p \in Held(s), Waits(p)' PROVE Waits(p)
  <2>1. p \in Parts /\ ImportOf[p] \in Imports
    BY HeldType, PartsAssumption
  <2>2. fate[ImportOf[p]] # "unread"
    BY <2>1 DEF Apart
  <2>3. CASE ~BeginSaves(t)
    BY <1>2, <2>1, <2>3, WaitsMoves
  <2>4. CASE BeginSaves(t)
    <3>1. fate[press[t].import] = "unread" /\ fate' = [fate EXCEPT ![press[t].import] = Begins(t)]
      BY <2>4 DEF BeginSaves, Pressing, Apart
    <3> QED BY <1>1, <1>2, <2>1, <2>2, <3>1 DEF TypeOK, Waits
  <2> QED BY <2>3, <2>4
<1>3. /\ Live(s)' = Live(s) /\ Writes(s)' = Writes(s) /\ Busy(s)' = Busy(s)
      /\ Owed(s)' = Owed(s) /\ Stored(s)' = Stored(s)
      /\ step'[s] = step[s] /\ press'[s] = press[s] /\ moved'[s] = moved[s]
  BY <1>1, AlikeHeld DEF Alike
<1>4. Owed(s) \subseteq Held(s)
  BY DEF Held
<1>5. Live(s) => step[s].job.parts \subseteq Held(s) /\ (Level(s, step[s].job.parts))'
  BY <1>2, <1>3, <1>4 DEF Covered, Level, Held
<1>6. Writes(s) => press[s].job.parts \subseteq Held(s) /\ (Level(s, press[s].job.parts))'
  BY <1>2, <1>3, <1>4 DEF Covered, Level, Held
<1> QED BY <1>1, <1>2, <1>3, <1>4, <1>5, <1>6 DEF Covered

\* No step loses sight of a begun part.
LEMMA ReachedHere ==
    ASSUME TypeOK, Shaped, OneTab, OrderedAll, Told, Apart, NEW t \in Tabs, Covered(t), Reached,
           StepActs(t) \/ Answers(t) \/ PDS(t) \/ Opens(t) \/ Owner(t)
    PROVE  Reached'
<1> SUFFICES ASSUME NEW p \in Parts, Waits(p)'
             PROVE  \E s \in Tabs : p \in Owed(s)'
  BY DEF Reached
<1>1. Ordered(t) /\ p \notin Landed /\ ImportOf[p] \in Imports
  BY Landings, PartsAssumption DEF OrderedAll, Waits
<1>2. \A s \in Tabs : s # t => Owed(s)' = Owed(s)
  BY OthersAlike, AlikeHeld
<1>3. CASE ~BeginSaves(t)
  <2>1. Waits(p)
    BY <1>3, WaitsMoves
  <2>2. PICK s \in Tabs : p \in Owed(s)
    BY <2>1 DEF Reached
  <2>3. CASE s = t
    <3>1. p \in Owed(t)'
      BY <1>1, <1>3, <2>1, <2>2, <2>3, ActsMove, OwedStays
    <3> QED BY <3>1
  <2> QED BY <1>2, <2>2, <2>3
<1>4. CASE BeginSaves(t)
  <2> DEFINE i == press[t].import
             job == [receipt |-> Digest[i], parts |-> PartsOf(i), missed |-> FALSE, paused |-> FALSE]
  <2>1. i \in Imports /\ fate' = [fate EXCEPT ![i] = Begins(t)] /\ Stored(t) = None
    BY <1>1, <1>4 DEF BeginSaves, Pressing, Shaped, Ordered
  <2>2. CASE ImportOf[p] = i
    <3>1. Stored(t)' = job /\ job \in Jobs
      BY <1>4, <2>1, StoreHere, DigestAssumption DEF BeginSaves, Jobs, PartsOf
    <3>2. Stored(t)' # None
      BY <3>1, NoneAssumption
    <3>3. p \in job.parts
      BY <2>2 DEF PartsOf
    <3> HIDE DEF job
    <3>4. p \in Owed(t)'
      BY <3>1, <3>2, <3>3 DEF Owed
    <3> QED BY <3>4
  <2>3. CASE ImportOf[p] # i
    <3>1. Waits(p)
      BY <1>1, <2>1, <2>3 DEF TypeOK, Waits
    <3>2. PICK s \in Tabs : p \in Owed(s)
      BY <3>1 DEF Reached
    <3>3. s # t
      BY <2>1, <3>2 DEF Owed
    <3> QED BY <1>2, <3>2, <3>3
  <2> QED BY <2>2, <2>3
<1> QED BY <1>3, <1>4

\* Every tab's copies are level.
CoveredAll == \A t \in Tabs : Covered(t)

\* Every step of the runner keeps both.
LEMMA CoveredStep ==
    ASSUME OneTab
    PROVE  /\ TypeOK /\ Shaped /\ OrderedAll /\ Told /\ Apart /\ Locked /\ CoveredAll /\ Reached
           /\ [Next]_vars /\ TypeOK' /\ Shaped'
           => CoveredAll' /\ Reached'
<1> SUFFICES ASSUME TypeOK, Shaped, OrderedAll, Told, Apart, Locked, CoveredAll, Reached,
                    [Next]_vars, TypeOK', Shaped'
             PROVE  CoveredAll' /\ Reached'
  OBVIOUS
<1>1. CASE UNCHANGED vars
  BY <1>1 DEF vars, repoVars, deviceVars, tabVars, viewVars, pressVars, threadVars,
              CoveredAll, Covered, Level, Waits, Reached, Owed, Live, Writes, Busy, Stored, Landed
<1>2. ASSUME NEW t \in Tabs,
             StepActs(t) \/ Answers(t) \/ PDS(t) \/ Opens(t) \/ Owner(t)
      PROVE  CoveredAll' /\ Reached'
  <2>1. Covered(t)'
    BY <1>2, CoveredHere, BeginSavesCovered DEF CoveredAll, OrderedAll
  <2>2. \A s \in Tabs : s # t => Covered(s)'
    BY <1>2, CoveredElsewhere DEF CoveredAll
  <2>3. Reached'
    BY <1>2, ReachedHere DEF CoveredAll
  <2> QED BY <2>1, <2>2, <2>3 DEF CoveredAll
<1> QED BY <1>1, <1>2 DEF Next

\* No card of a begun file is lost, NeverLost: where every browser has one tab, with Web
\* Locks or without, and none is begun early, a part of an import begun with no step
\* out is in a stored job, in the repository or drained, on any number of devices,
\* through any losses, refusals, closings, stops and discards.
THEOREM NothingLost ==
    ASSUME NoneEarly, OneTab
    PROVE  Spec => []NeverLost
<1>1. Init => OrderedAll /\ Told /\ Apart /\ CoveredAll /\ Reached
  BY HomeAssumption, PartsAssumption DEF Init, OrderedAll, Ordered, Rests, Stored, Busy, Idle,
                                         NoPress,
     NotAttaching, Told, Apart, CoveredAll, Covered, Reached, Waits, Landed, Owed, Live, Writes, Held
<1>2. TypeOK /\ Accounted /\ Reached => NeverLost
  <2> SUFFICES ASSUME TypeOK, Accounted, Reached,
                      NEW p \in Parts, fate[ImportOf[p]] = "begun"
               PROVE  Somewhere(p)
    BY DEF NeverLost
  <2>1. CASE p \in Landed
    <3>1. /\ created[p] \in Nat /\ drained[p] \in Nat /\ removed[p] \in Nat
          /\ created[p] = drained[p] + removed[p] + (IF p \in inRepo THEN 1 ELSE 0)
      BY DEF TypeOK, Accounted
    <3> QED BY <2>1, <3>1 DEF Landed, Somewhere
  <2>2. ASSUME NEW t \in Tabs, p \in Owed(t) PROVE Somewhere(p)
    BY <2>2, HomeAssumption DEF Owed, Stored, Somewhere
  <2> QED BY <2>1, <2>2 DEF Reached, Waits
<1>3. Init => Locked
  BY DEF Init, Locked, Holds, Busy, Idle, NoPress
<1> QED BY <1>1, <1>2, <1>3, OrderedStep, ToldStep, ApartStep, CoveredStep, LockedStep, Types,
           AlwaysAccounted, PTL DEF Spec

\* Where every browser has Web Locks and one tab, no import is begun under a step still
\* out, Sheltered: NothingLost is then about every import begun in time.
THEOREM NoneExposed ==
    ASSUME NoneEarly, OneTab
    PROVE  Spec => []Sheltered
<1> DEFINE IInv == OrderedAll /\ Told /\ Apart /\ CoveredAll /\ Reached
<1>1. Init => IInv /\ Locked /\ Sheltered
  BY HomeAssumption, PartsAssumption DEF Init, OrderedAll, Ordered, Rests, Stored, Busy, Idle,
     NoPress, NotAttaching, Told, Apart, CoveredAll, Covered, Reached, Waits, Landed, Owed, Live,
     Writes, Held, Locked, Holds, Sheltered
<1>2. TypeOK /\ Shaped /\ IInv /\ Sheltered /\ [Next]_vars => Sheltered'
  <2> SUFFICES ASSUME TypeOK, Shaped, IInv, Sheltered, [Next]_vars PROVE Sheltered'
    OBVIOUS
  <2>1. CASE UNCHANGED vars
    BY <2>1 DEF vars, tabVars, pressVars, Sheltered
  <2>2. ASSUME NEW t \in Tabs,
               StepActs(t) \/ Answers(t) \/ PDS(t) \/ Opens(t) \/ Owner(t)
        PROVE  Sheltered'
    <3>0. locks' = locks
      BY <2>2, LocksStay
    <3>1. CASE BeginSaves(t)
      <4>1. Stored(t) = None
        BY <3>1 DEF OrderedAll, Ordered, BeginSaves, Pressing
      <4>2. locks = Browsers => Begins(t) = "begun"
        BY <4>1, HomeAssumption DEF CoveredAll, Covered, Begins, StepOut, Busy
      <4>3. \A i \in Imports : fate'[i] \in {fate[i], Begins(t)}
        BY <3>1 DEF BeginSaves, TypeOK
      <4> QED BY <3>0, <4>2, <4>3 DEF Sheltered
    <3>2. CASE Drop(t) \/ DropClears(t)
      <4>1. \A i \in Imports : fate'[i] \in {fate[i], "givenUp", "discarded"}
        BY <3>2 DEF Drop, DropClears, TypeOK
      <4> QED BY <3>0, <4>1 DEF Sheltered
    <3>3. CASE ~BeginSaves(t) /\ ~Drop(t) /\ ~DropClears(t)
      BY <2>2, <3>0, <3>3, FateStays DEF Sheltered
    <3> QED BY <3>1, <3>2, <3>3
  <2> QED BY <2>1, <2>2 DEF Next
<1>3. TypeOK /\ Shaped /\ Accounted /\ Locked /\ IInv /\ [Next]_vars /\ TypeOK' /\ Shaped' /\ Accounted'
          => IInv'
  BY OrderedStep, ToldStep, ApartStep, CoveredStep
<1> QED BY <1>1, <1>2, <1>3, LockedStep, Types, AlwaysAccounted, PTL DEF Spec

-----------------------------------------------------------------------------
(* No retry collides.                                                      *)

\* An import's beginning holds its own parts, none of which has landed.
LEMMA BeginSavesHeld ==
    ASSUME TypeOK, Shaped, Apart, NEW t \in Tabs, BeginSaves(t)
    PROVE  /\ press[t].import \in Imports /\ fate[press[t].import] = "unread"
           /\ fate' = [fate EXCEPT ![press[t].import] = Begins(t)]
           /\ Begins(t) \in {"begun", "exposed"}
           /\ Held(t)' \subseteq PartsOf(press[t].import) \ Landed
           /\ UNCHANGED repoVars
<1> DEFINE i == press[t].import
<1>1. /\ i \in Imports /\ fate[i] = "unread" /\ fate' = [fate EXCEPT ![i] = Begins(t)]
      /\ Begins(t) \in {"begun", "exposed"}
  BY DEF Begins, BeginSaves, Pressing, Shaped, Apart
<1>2. Stored(t)' = [receipt |-> Digest[i], parts |-> PartsOf(i),
                    missed |-> FALSE, paused |-> FALSE]
  BY StoreHere DEF BeginSaves
<1>3. ~Live(t)' /\ press'[t] = NoPress
  <2>1. (moved'[t] <=> step[t] # Idle) /\ step' = step /\ press'[t] = NoPress
    BY DEF BeginSaves, MoveEra, Released, TypeOK, threadVars
  <2> QED BY <2>1 DEF Live, Busy, Idle
<1>4. Held(t)' \subseteq PartsOf(i)
  BY <1>2, <1>3 DEF Held, Owed, Writes, NoPress
<1>5. PartsOf(i) \cap Landed = {}
  BY <1>1 DEF Apart, PartsOf
<1>6. UNCHANGED repoVars
  BY DEF BeginSaves
<1> QED BY <1>1, <1>4, <1>5, <1>6

\* The tab stays open, and the owner neither carries on nor begins early.
Patient == Events \cap {"close", "carryOn", "early"} = {}
\* No two readings list the same cards.
Distinct == \A i, j \in Imports : Digest[i] = Digest[j] => i = j

\* A job of which the repository holds nothing
Clear(job) == job.receipt \notin receipts /\ job.parts \cap inRepo = {}
\* A digest of a reading that was begun
Known(d) == d = None \/ \E i \in Imports : Digest[i] = d /\ fate[i] # "unread"

\* A job with no misses has nothing in the repository: it may be sent without asking.
\* One with misses is asked about first.
Unsent(t) ==
    /\ step[t].at # "sending" /\ Stored(t) # None /\ ~Stored(t).missed => Clear(Stored(t))
    /\ step[t].at = "sending" =>
          IF step[t].said = "landed" THEN Clear(Left(step[t].job, step[t].taking))
          ELSE Clear(step[t].job)
    /\ press[t].kind # "carryOn"

\* The receipts some copy of the job in a tab's reach still has to upload
Bears(t) == {d \in Digests : \/ Stored(t) # None /\ Stored(t).receipt = d
                             \/ Live(t) /\ step[t].job.receipt = d
                             \/ Writes(t) /\ press[t].job.receipt = d}

\* Every receipt is of a reading that was begun, and two tabs never bear the same.
Signed ==
    /\ \A d \in receipts : Known(d)
    /\ \A t \in Tabs : \A d \in Bears(t) : Known(d)
    /\ \A s, t \in Tabs : Bears(s) \cap Bears(t) # {} => s = t

\* A reading once begun is not unread again.
LEMMA KnownStays ==
    ASSUME TypeOK, Apart, Shaped, NEW t \in Tabs,
           StepActs(t) \/ Answers(t) \/ PDS(t) \/ Opens(t) \/ Owner(t), NEW d, Known(d)
    PROVE  Known(d)'
<1>1. CASE ~BeginSaves(t)
  BY <1>1, FateMoves DEF Known
<1>2. CASE BeginSaves(t)
  BY <1>2, BeginSavesHeld DEF Known, TypeOK
<1> QED BY <1>1, <1>2

\* Only the owner carries on.
LEMMA CarryMoves ==
    ASSUME TypeOK, NEW t \in Tabs,
           StepActs(t) \/ Answers(t) \/ PDS(t) \/ Opens(t) \/ Owner(t), press'[t].kind = "carryOn"
    PROVE  press[t].kind = "carryOn" \/ CarryOn(t)
<1> USE DEF pressVars, TypeOK
<1>1. CASE StepActs(t) \/ Answers(t) \/ PDS(t)
  BY <1>1 DEF StepActs, StepStops, StepWaits, StepSends, StepRelists, StepLists, StepDrains,
              Answers, Relisted, Listed, ListingFails, UploadLanded, UploadDenied,
              DrainLanded, DrainDenied, Checked, CheckFails, Delayed, Missed,
              PDS, Lands, Denies, Declines
<1>2. CASE Opens(t)
  <2>1. press' = press \/ press'[t] = NoPress
    BY <1>2 DEF Opens, Attach, AttachListed, AttachFails, CollectionRead, Close
  <2> QED BY <2>1 DEF NoPress
<1>3. CASE Owner(t)
  <2>1. ASSUME NEW i \in Imports, Begin(t, i) PROVE FALSE
    BY <2>1 DEF Begin, NoPress
  <2>2. CASE \/ BeginSaves(t) \/ BeginFails(t) \/ HaltSaves(t) \/ CarryOnSaves(t)
             \/ DropFails(t) \/ DropClears(t)
    <3>1. Released(t)
      BY <2>2 DEF BeginSaves, BeginFails, HaltSaves, CarryOnSaves, DropFails, DropClears
    <3> QED BY <3>1 DEF Released, NoPress
  <2>3. CASE Halt(t) \/ HaltAfterStep(t)
    <3>1. press' = press \/ StopsNow(t)
      BY <2>3 DEF Halt, HaltAfterStep
    <3> QED BY <3>1, StopsNowHere DEF NoPress
  <2>4. CASE Drop(t)
    BY <2>4 DEF Drop, NoPress
  <2>5. CASE DropLocks(t)
    BY <2>5 DEF DropLocks, NoPress
  <2>6. CASE DropRemoves(t)
    BY <2>6 DEF DropRemoves, Pressing, Presses
  <2> QED BY <1>3, <2>1, <2>2, <2>3, <2>4, <2>5, <2>6 DEF Owner
<1> QED BY <1>1, <1>2, <1>3

\* A step that stores nothing, and lands nothing, leaves the job as clear as it was.
LEMMA UnsentStays ==
    ASSUME TypeOK, Apart, Shaped, Patient, NEW t \in Tabs, Unsent(t),
           StepActs(t) \/ Answers(t) \/ PDS(t) \/ Opens(t) \/ Owner(t),
           receipts' = receipts, inRepo' \subseteq inRepo,
           \/ Stored(t)' = Stored(t)
           \/ Stored(t)' = None
           \/ Stored(t)' = Found,
           \/ step'[t] = step[t]
           \/ step[t].at # "sending" /\ step'[t].at \notin {"relisting", "sending"}
    PROVE  Unsent(t)'
<1>2. press'[t].kind # "carryOn"
  BY CarryMoves DEF CarryOn, Patient, Unsent
<1>3. None \notin receipts
  BY NoneAssumption DEF TypeOK
<1> QED BY <1>2, <1>3 DEF Unsent, Clear, Found, Left

\* A tick sends a job only when it has no misses.
LEMMA StepActsUnsent ==
    ASSUME TypeOK, Apart, Shaped, Patient, NEW t \in Tabs, Ordered(t), Unsent(t), StepActs(t)
    PROVE  Unsent(t)'
<1> USE DEF repoVars, deviceVars, tabVars, viewVars, pressVars, threadVars
<1>1. /\ UNCHANGED <<repoVars, jobs, press, fate>> /\ Stored(t)' = Stored(t)
      /\ step[t].at # "sending"
  <2>1. UNCHANGED <<repoVars, jobs, press, fate>> /\ step[t] = Idle
    BY DEF StepActs, StepStops, StepWaits, StepSends, StepRelists, StepLists, StepDrains, CanStep
  <2> QED BY <2>1 DEF Stored, Idle
<1>2. CASE StepStops(t) \/ StepWaits(t) \/ StepLists(t) \/ StepDrains(t)
  <2>1. step'[t] = step[t] \/ step'[t].at \in {"listing", "draining"}
    <3>1. step' = step \/ \E at \in {"listing", "draining"} : \E taking : Out(t, at, Stored(t), taking)
      BY <1>2 DEF StepStops, StepWaits, StepLists, StepDrains
    <3> QED BY <3>1 DEF Out, TypeOK
  <2> QED BY <1>1, <2>1, UnsentStays
<1>3. CASE StepSends(t) \/ StepRelists(t)
  <2>1. /\ Stored(t) # None /\ step'[t].job = Stored(t) /\ step'[t].said # "landed"
        /\ step'[t].at = "relisting" \/ (step'[t].at = "sending" /\ ~Stored(t).missed)
    BY <1>3 DEF StepSends, StepRelists, Standing, Out, TypeOK
  <2> QED BY <1>1, <2>1 DEF Unsent, Clear
<1> QED BY <1>2, <1>3 DEF StepActs

\* An answer leaves a miss, or a job short of what landed.
LEMMA AnswersUnsent ==
    ASSUME TypeOK, Apart, Shaped, Patient, NEW t \in Tabs, Ordered(t), Unsent(t), Answers(t)
    PROVE  Unsent(t)'
<1> USE DEF repoVars, deviceVars, tabVars, viewVars, pressVars, threadVars
<1>0. /\ step[t] \in Steps /\ step[t].job \in Jobs /\ Busy(t)
      /\ UNCHANGED <<repoVars, press, fate, moved>>
  <2>1. Busy(t) /\ UNCHANGED <<repoVars, press, fate, moved>>
    BY DEF Answers, Relisted, Listed, ListingFails, UploadLanded, UploadDenied,
           DrainLanded, DrainDenied, Checked, CheckFails, Delayed, Missed, Shaped, Busy
  <2> QED BY <2>1 DEF Shaped, TypeOK, Busy
<1>1. None \notin receipts
  BY NoneAssumption DEF TypeOK
<1>2. ASSUME NEW job \in Jobs, ~job.missed => Clear(job),
             Keep(t, job), EndStep(t)
      PROVE  Unsent(t)'
  <2>1. step'[t].at \in {"idle", "halting"}
    BY <1>2, EndStepType DEF Idle, Halting
  <2>2. CASE moved[t]
    <3>1. Stored(t)' = Stored(t) /\ step[t].at # "sending"
      BY <1>2, <2>2, KeepHere DEF Ordered
    <3> QED BY <1>0, <2>1, <3>1 DEF Unsent, Clear
  <2>3. CASE ~moved[t]
    <3>1. /\ Stored(t)'.receipt = job.receipt /\ Stored(t)'.parts = job.parts
          /\ Stored(t)'.missed = job.missed
      BY <1>2, <2>3, KeepHere
    <3> QED BY <1>0, <1>2, <2>1, <3>1 DEF Unsent, Clear
  <2> QED BY <2>2, <2>3
<1>3. /\ step[t].at \in {"draining", "checking", "listing"} => Clear(step[t].job)
      /\ step[t].at = "sending" /\ step[t].said # "landed" => Clear(step[t].job)
  BY <1>1 DEF Ordered, Unsent, Uploading, Clear
<1>4. ASSUME NEW job \in Jobs, job.receipt = step[t].job.receipt, job.parts = step[t].job.parts,
             step[t].at # "relisting", job.missed \/ step[t].at # "sending" \/ step[t].said # "landed",
             Keep(t, job), EndStep(t)
      PROVE  Unsent(t)'
  <2>1. step[t].at \in {"draining", "checking", "listing", "sending"}
    BY <1>0, <1>4 DEF Busy, Steps
  <2> QED BY <1>2, <1>3, <1>4, <2>1 DEF Clear
<1>5. /\ [step[t].job EXCEPT !.missed = FALSE] \in Jobs
      /\ [step[t].job EXCEPT !.missed = TRUE] \in Jobs
      /\ [step[t].job EXCEPT !.paused = TRUE] \in Jobs
      /\ [step[t].job EXCEPT !.missed = FALSE].parts = step[t].job.parts
      /\ [step[t].job EXCEPT !.missed = TRUE].parts = step[t].job.parts
      /\ [step[t].job EXCEPT !.paused = TRUE].parts = step[t].job.parts
      /\ [step[t].job EXCEPT !.missed = FALSE].receipt = step[t].job.receipt
      /\ [step[t].job EXCEPT !.missed = TRUE].receipt = step[t].job.receipt
      /\ [step[t].job EXCEPT !.paused = TRUE].receipt = step[t].job.receipt
      /\ [step[t].job EXCEPT !.missed = TRUE].missed
  BY <1>0, JobFields DEF Jobs
<1>6. CASE Relisted(t)
  <2> DEFINE job == Owing(step[t].job)
  <2>1. /\ job \in Jobs /\ job.parts = step[t].job.parts \ inRepo
        /\ job.receipt = IF step[t].job.receipt \in receipts THEN None ELSE step[t].job.receipt
    BY <1>0, JobFields DEF Owing
  <2>2. Clear(job)
    BY <1>1, <2>1 DEF Clear
  <2> HIDE DEF job
  <2>3. CASE Keep(t, job) /\ EndStep(t)
    BY <1>2, <2>1, <2>2, <2>3
  <2>4. CASE /\ \E taking \in Batches(job) : Calls(t, "sending", job, taking)
             /\ UNCHANGED deviceVars
    <3>1. step'[t].job = job /\ step'[t].at = "sending" /\ step'[t].said = "out"
      BY <2>4 DEF Calls, TypeOK
    <3>2. Stored(t)' = Stored(t)
      BY <2>4 DEF Stored
    <3> QED BY <1>0, <2>2, <3>1, <3>2 DEF Unsent, Clear
  <2> QED BY <1>6, <2>3, <2>4 DEF Relisted, job
<1>7. CASE Listed(t) \/ ListingFails(t)
  <2>1. step[t].at # "sending"
    BY <1>7 DEF Listed, ListingFails
  <2>2. step'[t].at \notin {"relisting", "sending"}
    <3>1. CASE EndStep(t)
      BY <3>1, EndStepType DEF Idle, Halting
    <3>2. CASE \E p \in inRepo : Calls(t, "draining", step[t].job, {p})
      BY <3>2 DEF Calls, TypeOK
    <3> QED BY <1>7, <3>1, <3>2 DEF Listed, ListingFails
  <2>3. Stored(t)' = Stored(t) \/ Stored(t)' = None
    <3>1. jobs' = jobs \/ Store(t, None)
      BY <1>7 DEF Listed, ListingFails
    <3> QED BY <3>1, StoreHere DEF Stored
  <2> QED BY <1>0, <2>1, <2>2, <2>3, UnsentStays
<1>8. CASE UploadLanded(t)
  <2> DEFINE left == Left(step[t].job, step[t].taking)
  <2>1. left \in Jobs /\ left.receipt = None
    BY <1>0 DEF Left, Jobs
  <2>2. Clear(left)
    BY <1>8, <2>1 DEF UploadLanded, Unsent
  <2>3. Keep(t, left) /\ EndStep(t)
    BY <1>8 DEF UploadLanded
  <2> HIDE DEF left
  <2> QED BY <1>2, <2>1, <2>2, <2>3
<1>9. CASE DrainLanded(t)
  BY <1>4, <1>5, <1>9 DEF DrainLanded
<1>10. CASE DrainDenied(t)
  <2>1. step'[t].at = "checking" /\ Stored(t)' = Stored(t) /\ step[t].at = "draining"
    BY <1>0, <1>10 DEF DrainDenied, TypeOK, Steps, Stored
  <2> QED BY <1>0, <2>1, UnsentStays
<1>11. ASSUME Fails(t), step[t].at = "checking" \/ step[t].said = "verdict"
       PROVE  Unsent(t)'
  <2>1. step[t].at = "checking" \/ (step[t].at # "relisting" /\ step[t].said # "landed")
    BY <1>11 DEF Shaped
  <2> QED BY <1>4, <1>5, <1>11, <2>1 DEF Fails
<1>12. CASE UploadDenied(t) \/ CheckFails(t)
  BY <1>11, <1>12 DEF UploadDenied, CheckFails
<1>13. CASE Checked(t)
  <2>1. CASE Fails(t)
    BY <1>11, <1>13, <2>1 DEF Checked
  <2>2. CASE EndStep(t) /\ jobs' = jobs
    <3>1. step'[t].at \in {"idle", "halting"} /\ Stored(t)' = Stored(t) /\ step[t].at = "checking"
      BY <1>13, <2>2, EndStepType DEF Idle, Halting, Checked, Stored
    <3> QED BY <1>0, <3>1, UnsentStays
  <2> QED BY <1>13, <2>1, <2>2 DEF Checked
<1>14. CASE Delayed(t) \/ Missed(t)
  <2>1. step[t].at # "relisting"
    BY <1>14 DEF Delayed, Missed, Shaped
  <2> QED BY <1>4, <1>5, <1>14, <2>1 DEF Delayed, Missed
<1> QED BY <1>6, <1>7, <1>8, <1>9, <1>10, <1>12, <1>13, <1>14 DEF Answers

\* What lands is out of the job the moment its step is told.
LEMMA PDSUnsent ==
    ASSUME TypeOK, Apart, Shaped, Patient, NEW t \in Tabs, Ordered(t), Unsent(t), PDS(t)
    PROVE  Unsent(t)'
<1> USE DEF repoVars, deviceVars, tabVars, viewVars, pressVars, threadVars
<1>0. /\ step[t] \in Steps /\ step[t].job \in Jobs /\ step[t].said = "out"
      /\ UNCHANGED <<jobs, press, fate, moved>> /\ Stored(t)' = Stored(t)
  BY DEF PDS, Lands, Denies, Declines, TypeOK, Stored, Shaped, Busy
<1>1. None \notin receipts
  BY NoneAssumption DEF TypeOK
<1>2. ASSUME NEW answer, Says(t, answer)
      PROVE  /\ step'[t].at = step[t].at /\ step'[t].job = step[t].job
             /\ step'[t].taking = step[t].taking /\ step'[t].said = answer
  BY <1>0, <1>2 DEF Says, TypeOK, Steps
<1>3. CASE Denies(t) \/ Declines(t)
  <2>1. /\ step'[t].at = step[t].at /\ step'[t].job = step[t].job
        /\ step'[t].said # "landed" /\ UNCHANGED repoVars
    BY <1>2, <1>3 DEF Denies, Declines
  <2> QED BY <1>0, <2>1 DEF Unsent, Clear
<1>4. CASE Lands(t)
  <2>1. /\ step'[t].at = step[t].at /\ step'[t].job = step[t].job
        /\ step'[t].taking = step[t].taking /\ step'[t].said = "landed"
    BY <1>2, <1>4 DEF Lands
  <2>2. CASE /\ step[t].at = "draining" /\ inRepo' = Retired(step[t].taking)
             /\ UNCHANGED receipts
    <3>1. inRepo' \subseteq inRepo
      BY <2>2 DEF Retired
    <3> QED BY <1>0, <2>1, <2>2, <3>1 DEF Unsent, Clear
  <2>3. CASE /\ step[t].at = "sending" /\ step[t].job.receipt # None
             /\ receipts' = receipts \cup {step[t].job.receipt} /\ UNCHANGED inRepo
    <3>1. Clear(step[t].job)
      BY <1>0, <2>3 DEF Unsent
    <3>2. Clear(Left(step[t].job, step[t].taking))'
      BY <1>0, <1>1, <2>1, <2>3, <3>1 DEF Clear, Left
    <3> QED BY <1>0, <2>1, <2>3, <3>1, <3>2 DEF Unsent
  <2>4. CASE /\ step[t].at = "sending" /\ inRepo' = inRepo \cup step[t].taking
             /\ UNCHANGED receipts
    <3>1. Clear(step[t].job)
      BY <1>0, <2>4 DEF Unsent
    <3>2. Clear(Left(step[t].job, step[t].taking))'
      BY <1>0, <1>1, <2>1, <2>4, <3>1 DEF Clear, Left
    <3> QED BY <1>0, <2>1, <2>4, <3>1, <3>2 DEF Unsent
  <2> QED BY <1>4, <2>2, <2>3, <2>4 DEF Lands
<1> QED BY <1>3, <1>4 DEF PDS

\* A job found by the opening listing has nothing to upload.
LEMMA OpensUnsent ==
    ASSUME TypeOK, Apart, Shaped, Patient, NEW t \in Tabs, Ordered(t), Unsent(t), Opens(t)
    PROVE  Unsent(t)'
<1>1. ~Close(t)
  BY DEF Close, Patient
<1>2. UNCHANGED repoVars /\ step' = step
  BY <1>1 DEF Opens, Attach, AttachListed, AttachFails, CollectionRead, threadVars
<1>3. jobs' = jobs \/ Store(t, Found) \/ Store(t, None)
  BY <1>1 DEF Opens, Attach, AttachListed, AttachFails, CollectionRead, deviceVars
<1>4. Stored(t)' = Stored(t) \/ Stored(t)' = None \/ Stored(t)' = Found
  BY <1>3, StoreHere DEF Stored
<1> QED BY <1>2, <1>4, UnsentStays DEF repoVars

\* An import begins with a digest and parts the repository has never seen.
LEMMA OwnerUnsent ==
    ASSUME TypeOK, Told, Apart, Signed, Shaped, Patient, Distinct, NEW t \in Tabs, Ordered(t), Unsent(t), Owner(t)
    PROVE  Unsent(t)'
<1> USE DEF repoVars, deviceVars, tabVars, viewVars, pressVars, threadVars
<1>0. ~CarryOnSaves(t)
  BY DEF CarryOnSaves, Pressing, Unsent
<1>1. CASE BeginSaves(t)
  <2>0. PICK i \in Imports : i = press[t].import
    BY <1>1, BeginSavesHeld
  <2>1. /\ fate[i] = "unread" /\ fate' = [fate EXCEPT ![i] = Begins(t)]
        /\ UNCHANGED <<receipts, inRepo>> /\ step' = step /\ press'[t] = NoPress
    BY <1>1, <2>0, BeginSavesHeld DEF BeginSaves, Released, TypeOK
  <2>2. Stored(t)' = [receipt |-> Digest[i], parts |-> PartsOf(i), missed |-> FALSE, paused |-> FALSE]
    BY <1>1, <2>0, StoreHere DEF BeginSaves
  <2>3. step[t].at \notin {"relisting", "sending"}
    BY <1>1 DEF BeginSaves, Pressing, Ordered, Busy
  <2>5. Digest[i] \notin receipts
    <3>1. Digest[i] # None
      BY <2>1, DigestAssumption, NoneAssumption
    <3> QED BY <2>1, <3>1 DEF Signed, Known, Distinct
  <2>6. PartsOf(i) \cap inRepo = {}
    BY <2>1 DEF Apart, Told, PartsOf
  <2> QED BY <2>1, <2>2, <2>3, <2>5, <2>6 DEF Unsent, Clear, NoPress
<1>2. CASE HaltSaves(t)
  <2>1. press[t].job = Stored(t) /\ step[t] = Idle /\ press[t].job \in Jobs
    BY <1>2 DEF HaltSaves, Pressing, Ordered, Shaped
  <2>2. UNCHANGED <<receipts, inRepo, fate, step>> /\ press'[t] = NoPress
    BY <1>2 DEF HaltSaves, Released, TypeOK
  <2>3. Stored(t)' = [press[t].job EXCEPT !.paused = TRUE]
    BY <1>2, StoreHere DEF HaltSaves
  <2>4. /\ Stored(t)'.receipt = Stored(t).receipt /\ Stored(t)'.parts = Stored(t).parts
        /\ Stored(t)'.missed = Stored(t).missed /\ Stored(t) # None
    BY <2>1, <2>3, NoneAssumption DEF Jobs
  <2> QED BY <2>1, <2>2, <2>4 DEF Unsent, Clear, Idle, NoPress
<1>3. CASE ~BeginSaves(t) /\ ~HaltSaves(t)
  <2>1. receipts' = receipts /\ inRepo' \subseteq inRepo
    BY <1>0, <1>3 DEF Owner, Begin, BeginFails, Halt, HaltAfterStep, CarryOn,
           Drop, DropLocks, DropRemoves, DropFails, DropClears, Removed
  <2>2. jobs' = jobs \/ Store(t, None)
    BY <1>0, <1>3 DEF Owner, Begin, BeginFails, Halt, HaltAfterStep, CarryOn,
           Drop, DropLocks, DropRemoves, DropFails, DropClears
  <2>3. Stored(t)' = Stored(t) \/ Stored(t)' = None
    BY <2>2, StoreHere DEF Stored
  <2>4. step' = step \/ (step[t] = Halting /\ step'[t] = Idle)
    BY <1>0, <1>3 DEF Owner, Begin, BeginFails, Halt, HaltAfterStep, CarryOn,
           Drop, DropLocks, DropRemoves, DropFails, DropClears, TypeOK
  <2> QED BY <2>1, <2>3, <2>4, UnsentStays DEF Idle, Halting
<1> QED BY <1>1, <1>2, <1>3

\* What a tab sends is a part it holds or a receipt it bears.
LEMMA Spreads ==
    ASSUME TypeOK, Shaped, NEW t \in Tabs, Ordered(t),
           StepActs(t) \/ Answers(t) \/ PDS(t) \/ Opens(t) \/ Owner(t)
    PROVE  receipts' \subseteq receipts \cup Bears(t) /\ inRepo' \subseteq inRepo \cup Held(t)
<1> USE DEF repoVars
<1>1. CASE Lands(t)
  <2>1. CASE step[t].at = "sending"
    <3>1. /\ Live(t) /\ step[t].taking \subseteq Held(t)
          /\ step[t].job.receipt \in Digests \cup {None}
      BY <2>1 DEF Ordered, Held, Live, Busy, Shaped, Jobs
    <3>2. step[t].job.receipt # None => step[t].job.receipt \in Bears(t)
      BY <3>1 DEF Bears
    <3> QED BY <1>1, <2>1, <3>1, <3>2 DEF Lands
  <2>2. CASE step[t].at # "sending"
    BY <1>1, <2>2 DEF Lands, Retired
  <2> QED BY <2>1, <2>2
<1>2. CASE DropRemoves(t) \/ DropFails(t)
  BY <1>2 DEF DropRemoves, DropFails, Removed
<1>3. CASE ~Lands(t) /\ ~DropRemoves(t) /\ ~DropFails(t)
  <2>1. CASE StepActs(t)
    BY <2>1 DEF StepActs, StepStops, StepWaits, StepSends, StepRelists, StepLists, StepDrains
  <2>2. CASE Answers(t)
    BY <2>2 DEF Answers, Relisted, Listed, ListingFails, UploadLanded, UploadDenied,
                DrainLanded, DrainDenied, Checked, CheckFails, Delayed, Missed
  <2>3. CASE PDS(t)
    BY <1>3, <2>3 DEF PDS, Denies, Declines
  <2>4. CASE Opens(t)
    BY <2>4 DEF Opens, Attach, AttachListed, AttachFails, CollectionRead, Close
  <2>5. CASE Owner(t)
    BY <1>3, <2>5 DEF Owner, Begin, BeginSaves, BeginFails, Halt, HaltAfterStep, HaltSaves,
                      CarryOn, CarryOnSaves, Drop, DropLocks, DropClears
  <2> QED BY <2>1, <2>2, <2>3, <2>4, <2>5
<1> QED BY <1>1, <1>2, <1>3

\* So no copy comes to bear a receipt no copy bore.
LEMMA BearsShrinks ==
    ASSUME NEW t \in Tabs, Moves(t)
    PROVE  Bears(t)' \subseteq Bears(t)
<1>0. None \notin Digests
  BY NoneAssumption
<1>1. ASSUME NEW d \in Digests, (Stored(t) # None /\ Stored(t).receipt = d)' PROVE d \in Bears(t)
  BY <1>0, <1>1 DEF Moves, StoreMoves, Bears
<1>2. ASSUME NEW d \in Digests, (Live(t) /\ step[t].job.receipt = d)' PROVE d \in Bears(t)
  BY <1>0, <1>2 DEF Moves, LiveMoves, Bears
<1>3. ASSUME NEW d \in Digests, (Writes(t) /\ press[t].job.receipt = d)' PROVE d \in Bears(t)
  BY <1>0, <1>3 DEF Moves, WritesMoves, Bears
<1> QED BY <1>1, <1>2, <1>3 DEF Bears

\* An import's beginning bears its own receipt, which nobody has seen.
LEMMA BeginSavesBears ==
    ASSUME TypeOK, Shaped, Apart, NEW t \in Tabs, BeginSaves(t)
    PROVE  Bears(t)' \subseteq {Digest[press[t].import]}
<1>1. Stored(t)' = [receipt |-> Digest[press[t].import], parts |-> PartsOf(press[t].import),
                    missed |-> FALSE, paused |-> FALSE]
  BY StoreHere DEF BeginSaves
<1>2. /\ moved'[t] <=> step[t] # Idle
      /\ step' = step /\ press'[t] = NoPress
  BY DEF BeginSaves, MoveEra, Released, TypeOK, threadVars
<1>3. ~Live(t)' /\ ~Writes(t)'
  BY <1>2 DEF Live, Busy, Idle, Writes, NoPress
<1> QED BY <1>1, <1>3 DEF Bears

\* No step bears a receipt that is another's.
LEMMA SignedStep ==
    ASSUME OneTab, Distinct, TypeOK, Shaped, OrderedAll, Told, Apart, Signed, NEW t \in Tabs,
           StepActs(t) \/ Answers(t) \/ PDS(t) \/ Opens(t) \/ Owner(t)
    PROVE  Signed'
<1>0. \A d : Known(d) => Known(d)'
  BY KnownStays
<1>1. \A s \in Tabs : s # t => Bears(s)' = Bears(s)
  BY OthersAlike, AlikeHeld DEF Alike, Bears
<1>2. \A d \in receipts' : Known(d)'
  BY <1>0, Spreads DEF Signed, OrderedAll
<1>3. CASE ~BeginSaves(t)
  <2>1. \A s \in Tabs : Bears(s)' \subseteq Bears(s)
    BY <1>1, <1>3, ActsMove, BearsShrinks DEF OrderedAll
  <2> QED BY <1>0, <1>2, <2>1 DEF Signed
<1>4. CASE BeginSaves(t)
  <2>0. PICK i \in Imports : i = press[t].import
    BY <1>4, BeginSavesHeld
  <2>1. fate[i] = "unread" /\ fate'[i] # "unread" /\ Bears(t)' \subseteq {Digest[i]}
    BY <1>4, <2>0, BeginSavesHeld, BeginSavesBears DEF TypeOK
  <2>2. Known(Digest[i])'
    BY <2>1 DEF Known
  <2>3. \A s \in Tabs : Digest[i] \notin Bears(s)
    <3>1. Digest[i] # None
      BY DigestAssumption, NoneAssumption
    <3> QED BY <2>1, <3>1 DEF Signed, Known, Distinct
  <2> QED BY <1>0, <1>1, <1>2, <2>1, <2>2, <2>3 DEF Signed
<1> QED BY <1>3, <1>4

\* What another tab sends is none of this one's.
LEMMA UnsentElsewhere ==
    ASSUME OneTab, TypeOK, Shaped, OrderedAll, Told, Apart, Signed,
           NEW t \in Tabs, NEW s \in Tabs, s # t, Unsent(s),
           StepActs(t) \/ Answers(t) \/ PDS(t) \/ Opens(t) \/ Owner(t)
    PROVE  Unsent(s)'
<1>1. Stored(s)' = Stored(s) /\ step'[s] = step[s] /\ press'[s] = press[s]
  BY OthersAlike, AlikeHeld DEF Alike
<1>2. receipts' \subseteq receipts \cup Bears(t) /\ inRepo' \subseteq inRepo \cup Held(t)
  BY Spreads DEF OrderedAll
<1>3. Held(s) \cap Held(t) = {} /\ Bears(s) \cap Bears(t) = {}
  BY DEF Apart, Signed
<1>4. ASSUME NEW job \in Jobs, Clear(job), job.parts \subseteq Held(s),
             job.receipt \in Digests => job.receipt \in Bears(s)
      PROVE  Clear(job)'
  <2>1. job.receipt \notin Bears(t)
    BY <1>3, <1>4 DEF Bears
  <2> QED BY <1>2, <1>3, <1>4, <2>1 DEF Clear
<1>5. CASE step[s].at # "sending" /\ Stored(s) # None /\ ~Stored(s).missed
  <2>1. Stored(s) \in Jobs
    BY <1>5, HomeAssumption DEF Stored, TypeOK
  <2>2. Stored(s).parts \subseteq Held(s)
    BY <1>5 DEF Held, Owed
  <2>3. Stored(s).receipt \in Digests => Stored(s).receipt \in Bears(s)
    BY <1>5 DEF Bears
  <2>4. Clear(Stored(s))'
    BY <1>1, <1>4, <1>5, <2>1, <2>2, <2>3 DEF Unsent, Clear
  <2> QED BY <1>1, <1>5, <2>4 DEF Unsent
<1>6. CASE step[s].at = "sending"
  <2>1. Live(s) /\ step[s].job \in Jobs
    BY <1>6 DEF OrderedAll, Ordered, Live, Busy, Shaped
  <2>2. step[s].job.parts \subseteq Held(s)
    BY <2>1 DEF Held
  <2>3. step[s].job.receipt \in Digests => step[s].job.receipt \in Bears(s)
    BY <2>1 DEF Bears
  <2>4. Left(step[s].job, step[s].taking) \in Jobs
    BY <2>1 DEF Left, Jobs
  <2>5. /\ Left(step[s].job, step[s].taking).parts \subseteq Held(s)
        /\ Left(step[s].job, step[s].taking).receipt \notin Digests
    BY <2>2, NoneAssumption DEF Left
  <2>6. /\ Clear(step[s].job) => Clear(step[s].job)'
        /\ Clear(Left(step[s].job, step[s].taking)) => Clear(Left(step[s].job, step[s].taking))'
    BY <1>1, <1>4, <2>1, <2>2, <2>3, <2>4, <2>5 DEF Clear, Left
  <2> QED BY <1>1, <1>6, <2>6 DEF Unsent
<1> QED BY <1>1, <1>5, <1>6 DEF Unsent

\* No retry sends what has landed, NeverCollides: in tabs that stay open, one to a
\* browser, no upload call holds a key the repository has, whatever answers are lost
\* and whatever other devices do.  A tab closed with a call out forgets the miss, and
\* so does carrying on, so neither is allowed here.
THEOREM NothingCollides ==
    ASSUME OneTab, Patient, Distinct
    PROVE  Spec => []NeverCollides
<1> DEFINE UnsentAll == \A t \in Tabs : Unsent(t)
<1>1. Init => OrderedAll /\ Told /\ Apart /\ Signed /\ UnsentAll
  BY HomeAssumption, PartsAssumption DEF Init, OrderedAll, Ordered, Rests, Stored, Busy, Idle,
     NoPress, NotAttaching, Told, Apart, Landed, Owed, Live, Writes, Held, Signed, Bears, Unsent
<1>2. /\ TypeOK /\ Shaped /\ OrderedAll /\ Told /\ Apart /\ Signed /\ UnsentAll /\ [Next]_vars
      => Signed' /\ UnsentAll'
  <2> SUFFICES ASSUME TypeOK, Shaped, OrderedAll, Told, Apart, Signed, UnsentAll, [Next]_vars
               PROVE  Signed' /\ UnsentAll'
    OBVIOUS
  <2>1. CASE UNCHANGED vars
    BY <2>1 DEF vars, repoVars, deviceVars, tabVars, viewVars, pressVars, threadVars,
                Signed, Bears, Unsent, Clear, Known, Stored, Live, Busy, Writes
  <2>2. ASSUME NEW t \in Tabs,
               StepActs(t) \/ Answers(t) \/ PDS(t) \/ Opens(t) \/ Owner(t)
        PROVE  Signed' /\ UnsentAll'
    <3>1. Unsent(t)'
      BY <2>2, StepActsUnsent, AnswersUnsent, PDSUnsent, OpensUnsent, OwnerUnsent DEF OrderedAll
    <3>2. \A s \in Tabs : s # t => Unsent(s)'
      BY <2>2, UnsentElsewhere
    <3> QED BY <2>2, <3>1, <3>2, SignedStep
  <2> QED BY <2>1, <2>2 DEF Next
<1>3. OrderedAll /\ UnsentAll => NeverCollides
  <2> SUFFICES ASSUME OrderedAll, NEW t \in Tabs, Unsent(t),
                      step[t].at = "sending", step[t].said = "out"
               PROVE  Accepts(step[t])
    BY DEF NeverCollides
  <2>1. Clear(step[t].job) /\ step[t].taking \subseteq step[t].job.parts
    BY DEF Unsent, OrderedAll, Ordered
  <2> QED BY <2>1 DEF Accepts, Clear
<1>4. NoneEarly
  BY DEF Patient, NoneEarly
<1> QED BY <1>1, <1>2, <1>3, <1>4, OrderedStep, ToldStep, ApartStep, Types, AlwaysAccounted,
           PTL DEF Spec

-----------------------------------------------------------------------------
(* One tab alone: it implements the promise of an import, a discard is not *)
(* undone, done means drained, and a network that only loses and delays    *)
(* fails no import.                                                        *)

\* What has landed is out of the way of what a tab still holds.
Behind(t) ==
    /\ step[t].at \in {"listing", "draining", "checking"} => Held(t) \cap Landed = {}
    /\ step[t].at \in {"draining", "checking"} => step[t].taking \subseteq Landed
    /\ step[t].at = "draining" => \E p \in Parts : step[t].taking = {p}
    /\ IF step[t].at = "sending" THEN pending[t] \cap step[t].job.parts = {}
       ELSE pending[t] \cap Held(t) = {}
    /\ press[t].kind = "dropping" => press[t].left \cap Held(t) = {}
    /\ pending[t] \subseteq Landed
    /\ press[t].left \subseteq Landed
\* So it is in every tab.
BehindAll == \A t \in Tabs : Behind(t)

\* A tick lists or drains only when its job holds nothing more.
LEMMA StepActsBehind ==
    ASSUME TypeOK, Shaped, NEW t \in Tabs, Ordered(t), Told, Behind(t), StepActs(t)
    PROVE  Behind(t)'
<1> USE DEF repoVars, deviceVars, tabVars, viewVars, pressVars, threadVars
<1>1. /\ pending' = pending /\ press' = press /\ Landed' = Landed /\ Held(t)' \subseteq Held(t)
      /\ step[t] = Idle \/ step' = step
  <2>1. pending' = pending /\ press' = press /\ created' = created /\ CanStep(t)
    BY DEF StepActs, StepStops, StepWaits, StepSends, StepRelists, StepLists, StepDrains
  <2> QED BY <2>1, StepActsMoves, HeldShrinks DEF Landed, CanStep
<1>2. CASE StepStops(t) \/ StepWaits(t)
  <2>1. step' = step
    BY <1>2 DEF StepStops, StepWaits
  <2> QED BY <1>1, <2>1 DEF Behind
<1>3. CASE StepSends(t) \/ StepRelists(t)
  <2>1. /\ Stored(t) # None /\ step[t].at = "idle"
        /\ step'[t].at \in {"sending", "relisting"} /\ step'[t].job = Stored(t)
    BY <1>3 DEF StepSends, StepRelists, CanStep, Standing, Idle, Out, TypeOK
  <2>2. Stored(t).parts \subseteq Held(t)
    BY <2>1 DEF Held, Owed
  <2> QED BY <1>1, <2>1, <2>2 DEF Behind
<1>4. CASE StepLists(t) \/ StepDrains(t)
  <2>1. /\ Stored(t) # None /\ ~Uploading(Stored(t)) /\ step[t].at = "idle" /\ ticking[t]
        /\ jobs' = jobs
    BY <1>4 DEF StepLists, StepDrains, CanStep, Standing, Idle
  <2>2. /\ step'[t].at \in {"listing", "draining"} /\ step'[t].job = Stored(t)
        /\ step'[t].at = "draining" => \E p \in pending[t] : step'[t].taking = {p}
    BY <1>4 DEF StepLists, StepDrains, Out, TypeOK
  <2>3. Held(t)' = {}
    <3>1. Stored(t).parts = {} /\ Stored(t)' = Stored(t) /\ ~Writes(t)
      BY <2>1 DEF Uploading, Stored, Writes, Ordered
    <3> QED BY <1>1, <2>2, <3>1 DEF Held, Owed, Writes
  <2>4. pending[t] \subseteq Parts
    BY DEF TypeOK
  <2> QED BY <1>1, <2>1, <2>2, <2>3, <2>4 DEF Behind
<1> QED BY <1>2, <1>3, <1>4 DEF StepActs

\* What a listing shows has landed, and the job is short of it.
LEMMA AnswersBehind ==
    ASSUME TypeOK, Shaped, NEW t \in Tabs, Ordered(t), Told, Behind(t), Answers(t)
    PROVE  Behind(t)'
<1> USE DEF repoVars, deviceVars, tabVars, viewVars, pressVars, threadVars
<1>0. /\ step[t] \in Steps /\ step[t].job \in Jobs /\ Busy(t)
      /\ UNCHANGED <<press, moved, created, inRepo>>
      /\ Held(t)' \subseteq Held(t) /\ Landed' = Landed /\ inRepo \subseteq Landed
  <2>1. Busy(t) /\ UNCHANGED <<press, moved, created, inRepo>>
    BY DEF Answers, Relisted, Listed, ListingFails, UploadLanded, UploadDenied,
           DrainLanded, DrainDenied, Checked, CheckFails, Delayed, Missed, Shaped, Busy
  <2> QED BY <2>1, AnswersMoves, HeldShrinks DEF Shaped, TypeOK, Busy, Landed, Told
<1>1. ASSUME EndStep(t), pending'[t] \subseteq Landed, pending'[t] \cap Held(t)' = {}
      PROVE  Behind(t)'
  <2>1. step'[t].at \in {"idle", "halting"}
    BY <1>1, EndStepType DEF Idle, Halting
  <2> QED BY <1>0, <1>1, <2>1 DEF Behind
<1>2. ASSUME NEW job \in Jobs, step[t].at = "sending", Keep(t, job), EndStep(t)
      PROVE  Held(t)' = job.parts
  <2>1. ~Writes(t) /\ ~moved[t]
    BY <1>2 DEF Ordered, Writes, Idle
  <2>2. step'[t].at \in {"idle", "halting"}
    BY <1>2, EndStepType DEF Idle, Halting
  <2>3. Owed(t)' = job.parts
    BY <1>2, <2>1, KeepHere DEF Owed
  <2> QED BY <1>0, <2>1, <2>2, <2>3 DEF Held, Live, Busy, Writes
<1>3. ASSUME NEW job \in Jobs, job.parts = step[t].job.parts, Keep(t, job), EndStep(t), pending' = pending
      PROVE  Behind(t)'
  <2>1. CASE step[t].at = "sending"
    <3>1. Held(t)' = step[t].job.parts
      BY <1>2, <1>3, <2>1
    <3> QED BY <1>1, <1>3, <2>1, <3>1 DEF Behind
  <2>2. CASE step[t].at # "sending"
    BY <1>0, <1>1, <1>3, <2>2 DEF Behind
  <2> QED BY <2>1, <2>2
<1>4. /\ [step[t].job EXCEPT !.missed = FALSE] \in Jobs
      /\ [step[t].job EXCEPT !.missed = TRUE] \in Jobs
      /\ [step[t].job EXCEPT !.paused = TRUE] \in Jobs
      /\ [step[t].job EXCEPT !.missed = FALSE].parts = step[t].job.parts
      /\ [step[t].job EXCEPT !.missed = TRUE].parts = step[t].job.parts
      /\ [step[t].job EXCEPT !.paused = TRUE].parts = step[t].job.parts
  BY <1>0, JobFields DEF Jobs
<1>5. CASE Relisted(t)
  <2> DEFINE job == Owing(step[t].job)
  <2>1. job \in Jobs /\ job.parts = step[t].job.parts \ inRepo
    BY <1>0, JobFields DEF Owing
  <2>2. pending'[t] = inRepo
    BY <1>5 DEF Relisted, Holding, TypeOK
  <2>3. CASE ~Uploading(job) /\ Keep(t, job) /\ EndStep(t)
    <3>1. job.parts = {}
      BY <2>3 DEF Uploading
    <3> HIDE DEF job
    <3>2. ~Writes(t) /\ ~moved[t]
      BY <1>5 DEF Relisted, Ordered, Writes, Idle
    <3>3. step'[t].at \in {"idle", "halting"}
      BY <2>3, EndStepType DEF Idle, Halting
    <3>4. Owed(t)' = {}
      BY <2>1, <2>3, <3>1, <3>2, KeepHere DEF Owed
    <3>5. Held(t)' = {}
      BY <1>0, <3>2, <3>3, <3>4 DEF Held, Live, Busy, Writes
    <3> QED BY <1>0, <1>1, <2>2, <2>3, <3>5
  <2>4. CASE \E taking \in Batches(job) : Calls(t, "sending", job, taking)
    <3>1. step'[t].job = job /\ step'[t].at = "sending"
      BY <2>4 DEF Calls, TypeOK
    <3> HIDE DEF job
    <3> QED BY <1>0, <2>1, <2>2, <3>1 DEF Behind
  <2> QED BY <1>5, <2>3, <2>4 DEF Relisted
<1>6. CASE Listed(t)
  <2>1. pending'[t] = inRepo /\ step[t].at = "listing"
    BY <1>6 DEF Listed, Holding, TypeOK
  <2>2. Held(t)' \cap Landed = {}
    BY <1>0, <2>1 DEF Behind
  <2>3. CASE EndStep(t)
    BY <1>0, <1>1, <2>1, <2>2, <2>3
  <2>4. CASE \E p \in inRepo : Calls(t, "draining", step[t].job, {p})
    <3>1. step'[t].at = "draining" /\ \E p \in Parts : p \in inRepo /\ step'[t].taking = {p}
      BY <2>4 DEF Calls, TypeOK
    <3> QED BY <1>0, <2>1, <2>2, <3>1 DEF Behind
  <2> QED BY <1>6, <2>3, <2>4 DEF Listed
<1>7. CASE ListingFails(t)
  BY <1>0, <1>1, <1>7 DEF ListingFails, Behind
<1>8. CASE UploadLanded(t)
  <2> DEFINE left == Left(step[t].job, step[t].taking)
  <2>1. left \in Jobs /\ left.parts \subseteq step[t].job.parts
    BY <1>0 DEF Left, Jobs
  <2>2. /\ Keep(t, left) /\ EndStep(t) /\ step[t].at = "sending"
        /\ \/ pending' = pending
           \/ left.parts = {} /\ Holding(t, {})
    BY <1>8 DEF UploadLanded
  <2> HIDE DEF left
  <2>3. Held(t)' = left.parts
    BY <1>2, <2>1, <2>2
  <2>4. pending'[t] \subseteq pending[t]
    BY <2>2 DEF Holding, TypeOK
  <2> QED BY <1>1, <2>1, <2>2, <2>3, <2>4 DEF Behind
<1>9. CASE DrainLanded(t)
  <2>1. pending'[t] \subseteq pending[t] /\ EndStep(t) /\ step[t].at = "draining"
    BY <1>9 DEF DrainLanded, Holding, TypeOK
  <2> QED BY <1>0, <1>1, <2>1 DEF Behind
<1>10. CASE DrainDenied(t)
  <2>1. step'[t].at = "checking" /\ step'[t].taking = step[t].taking /\ pending' = pending
    BY <1>0, <1>10 DEF DrainDenied, TypeOK, Steps
  <2> QED BY <1>0, <1>10, <2>1 DEF DrainDenied, Behind
<1>11. Fails(t) /\ pending' = pending => Behind(t)'
  BY <1>3, <1>4 DEF Fails
<1>12. CASE Checked(t)
  <2>1. pending'[t] = inRepo /\ step[t].at = "checking" /\ EndStep(t)
    BY <1>12 DEF Checked, Holding, Fails, TypeOK
  <2> QED BY <1>0, <1>1, <2>1 DEF Behind
<1>13. CASE UploadDenied(t) \/ CheckFails(t)
  BY <1>11, <1>13 DEF UploadDenied, CheckFails
<1>14. CASE Missed(t) \/ Delayed(t)
  BY <1>3, <1>4, <1>14 DEF Missed, Delayed
<1> QED BY <1>5, <1>6, <1>7, <1>8, <1>9, <1>10, <1>12, <1>13, <1>14 DEF Answers

\* A part lands out of a call only, which has what it holds in hand.
LEMMA PDSBehind ==
    ASSUME TypeOK, Shaped, NEW t \in Tabs, Ordered(t), Told, Behind(t), PDS(t)
    PROVE  Behind(t)'
<1>1. /\ step[t] \in Steps /\ step[t].said = "out"
      /\ UNCHANGED <<jobs, press, moved, pending>>
      /\ \E answer : Says(t, answer)
  BY DEF PDS, Lands, Denies, Declines, TypeOK, deviceVars, pressVars, viewVars
<1>2. step'[t].job = step[t].job /\ step'[t].at = step[t].at /\ step'[t].taking = step[t].taking
  BY <1>1 DEF Says, Steps, TypeOK
<1>3. Held(t)' \subseteq Held(t) /\ Landed \subseteq Landed'
  BY PDSMoves, HeldShrinks, Landings
<1>4. CASE step[t].at = "sending"
  BY <1>1, <1>2, <1>3, <1>4 DEF Behind
<1>5. CASE step[t].at # "sending"
  <2>1. Landed' = Landed
    BY <1>5 DEF PDS, Lands, Denies, Declines, Landed, repoVars
  <2> QED BY <1>1, <1>2, <1>3, <1>5, <2>1 DEF Behind
<1> QED BY <1>4, <1>5

\* The opening listing is taken only when no job has anything to upload.
LEMMA OpensBehind ==
    ASSUME TypeOK, Shaped, NEW t \in Tabs, Ordered(t), Told, Behind(t), Opens(t)
    PROVE  Behind(t)'
<1> USE DEF repoVars, deviceVars, tabVars, viewVars, pressVars, threadVars
<1>0. Held(t)' \subseteq Held(t) /\ Landed' = Landed /\ inRepo \subseteq Landed
  <2>1. created' = created
    BY DEF Opens, Attach, AttachListed, AttachFails, CollectionRead, Close
  <2> QED BY <2>1, OpensMoves, HeldShrinks DEF Landed, Told
<1>1. CASE Attach(t) \/ AttachFails(t) \/ CollectionRead(t)
  <2>1. step' = step /\ press' = press /\ pending' = pending
    BY <1>1 DEF Attach, AttachFails, CollectionRead
  <2> QED BY <1>0, <2>1 DEF Behind
<1>2. CASE AttachListed(t)
  <2>1. /\ step' = step /\ press' = press /\ pending'[t] = inRepo
        /\ step[t] = Idle /\ press[t] = NoPress
        /\ Stored(t) # None => Stored(t).parts = {}
    BY <1>2 DEF AttachListed, Ordered, Rests, Uploading, Holding, TypeOK
  <2>2. Held(t) = {}
    BY <2>1 DEF Held, Owed, Live, Busy, Writes, Idle, NoPress
  <2> QED BY <1>0, <2>1, <2>2 DEF Behind, Idle
<1>3. CASE Close(t)
  BY <1>3 DEF Close, Behind, Idle, NoPress, Holding, TypeOK
<1> QED BY <1>1, <1>2, <1>3 DEF Opens

\* A discard removes what a tab last listed.
LEMMA OwnerBehind ==
    ASSUME TypeOK, Shaped, NEW t \in Tabs, Ordered(t), Told, Apart, Behind(t), Owner(t)
    PROVE  Behind(t)'
<1> USE DEF repoVars, deviceVars, tabVars, viewVars, pressVars, threadVars
<1>0. /\ Landed' = Landed
      /\ step' = step \/ (step'[t] = Idle /\ step[t] = Halting)
  <2>1. created' = created
    BY DEF Owner, Begin, BeginSaves, BeginFails, Halt, HaltAfterStep, HaltSaves, CarryOn,
           CarryOnSaves, Drop, DropLocks, DropRemoves, DropFails, DropClears, Removed
  <2>2. step' = step \/ (step'[t] = Idle /\ step[t] = Halting)
    BY DEF Owner, Begin, BeginSaves, BeginFails, Halt, HaltAfterStep, HaltSaves, CarryOn,
           CarryOnSaves, Drop, DropLocks, DropRemoves, DropFails, DropClears, TypeOK
  <2> QED BY <2>1, <2>2 DEF Landed
<1>1. CASE BeginSaves(t)
  <2>1. pending'[t] = {} /\ press'[t] = NoPress /\ step' = step
    BY <1>1 DEF BeginSaves, Holding, Released, TypeOK
  <2>2. Held(t)' \cap Landed = {}
    <3> DEFINE i == press[t].import
    <3>1. i \in Imports /\ fate[i] = "unread"
      BY <1>1 DEF BeginSaves, Pressing, Shaped, Apart
    <3>2. Stored(t)' = [receipt |-> Digest[i], parts |-> PartsOf(i),
                        missed |-> FALSE, paused |-> FALSE]
      BY <1>1, StoreHere DEF BeginSaves
    <3>3. ~Live(t)'
      <4>1. moved'[t] <=> step[t] # Idle
        BY <1>1 DEF BeginSaves, MoveEra, TypeOK
      <4> QED BY <2>1, <4>1 DEF Live, Busy, Idle
    <3>4. Held(t)' \subseteq PartsOf(i)
      BY <2>1, <3>2, <3>3 DEF Held, Owed, Writes, NoPress
    <3> QED BY <3>1, <3>4 DEF Apart, PartsOf
  <2> QED BY <1>0, <2>1, <2>2 DEF Behind, NoPress
<1>2. CASE ~BeginSaves(t)
  <2>1. Held(t)' \subseteq Held(t)
    BY <1>2, OwnerMoves, HeldShrinks
  <2>2. pending'[t] \subseteq pending[t]
    <3>1. CASE \E i \in Imports : Begin(t, i)
      BY <3>1 DEF Begin, TypeOK
    <3>7. CASE BeginFails(t)
      BY <3>7, SMTT(40) DEF BeginFails, TypeOK, Holding
    <3>2. CASE Halt(t) \/ HaltAfterStep(t) \/ HaltSaves(t)
      BY <3>2 DEF Halt, HaltAfterStep, HaltSaves, TypeOK
    <3>3. CASE CarryOn(t) \/ CarryOnSaves(t)
      BY <3>3 DEF CarryOn, CarryOnSaves, TypeOK
    <3>4. CASE Drop(t) \/ DropLocks(t)
      BY <3>4 DEF Drop, DropLocks, TypeOK
    <3>5. CASE DropRemoves(t)
      BY <3>5, SMTT(40) DEF DropRemoves, TypeOK, Holding
    <3>8. CASE DropFails(t)
      BY <3>8, SMTT(40) DEF DropFails, TypeOK, Holding
    <3>6. CASE DropClears(t)
      BY <3>6 DEF DropClears, Holding, TypeOK
    <3> QED BY <1>2, <3>1, <3>2, <3>3, <3>4, <3>5, <3>6, <3>7, <3>8 DEF Owner
  <2>3. \/ press'[t].kind # "dropping" /\ press'[t].left \subseteq press[t].left
        \/ press'[t].kind # "dropping" /\ press'[t].left = {}
        \/ press[t].kind = "drop" /\ press'[t].left = pending[t]
        \/ press[t].kind = "dropping" /\ press'[t].left \subseteq press[t].left
    <3>1. CASE (\E i \in Imports : Begin(t, i)) \/ Drop(t) \/ CarryOn(t)
      <4>1. press'[t].kind # "dropping" /\ press'[t].left = {}
        <5>1. CASE \E i \in Imports : Begin(t, i)
          BY <5>1 DEF Begin, NoPress, TypeOK
        <5>2. CASE Drop(t)
          BY <5>2 DEF Drop, NoPress, TypeOK
        <5>3. CASE CarryOn(t) /\ Stored(t) = None
          BY <5>3 DEF CarryOn, NoPress, TypeOK
        <5>4. CASE CarryOn(t) /\ Stored(t) # None
          BY <5>4 DEF CarryOn, NoPress, TypeOK
        <5> QED BY <3>1, <5>1, <5>2, <5>3, <5>4
      <4> QED BY <4>1
    <3>2. CASE BeginFails(t) \/ HaltSaves(t) \/ CarryOnSaves(t) \/ DropFails(t) \/ DropClears(t)
      <4>1. Released(t)
        BY <3>2 DEF BeginFails, HaltSaves, CarryOnSaves, DropFails, DropClears
      <4> QED BY <4>1 DEF Released, NoPress, TypeOK
    <3>3. CASE Halt(t) \/ HaltAfterStep(t)
      <4>1. press[t] = NoPress
        BY <3>3 DEF Halt, HaltAfterStep, CanPress
      <4>2. CASE press' = press
        BY <4>1, <4>2 DEF NoPress
      <4>3. CASE StopsNow(t) /\ Stored(t) = None
        BY <4>3 DEF StopsNow, NoPress, TypeOK
      <4>4. CASE StopsNow(t) /\ Stored(t) # None
        BY <4>4 DEF StopsNow, NoPress, TypeOK
      <4> QED BY <3>3, <4>2, <4>3, <4>4 DEF Halt, HaltAfterStep
    <3>4. CASE DropLocks(t)
      BY <3>4 DEF DropLocks, Pressing, NoPress, TypeOK
    <3>5. CASE DropRemoves(t)
      BY <3>5 DEF DropRemoves, Pressing, TypeOK, Presses
    <3> QED BY <1>2, <3>1, <3>2, <3>3, <3>4, <3>5 DEF Owner
  <2>4. press[t].kind = "drop" => step[t].at # "sending"
    BY DEF Ordered, Busy
  <2> QED BY <1>0, <2>1, <2>2, <2>3, <2>4 DEF Behind, Idle, Halting
<1> QED BY <1>1, <1>2

\* Another tab's parts are none of this one's.
LEMMA BehindElsewhere ==
    ASSUME TypeOK, Shaped, OneTab, OrderedAll, Apart, NEW t \in Tabs, NEW s \in Tabs, s # t, Behind(s),
           StepActs(t) \/ Answers(t) \/ PDS(t) \/ Opens(t) \/ Owner(t)
    PROVE  Behind(s)'
<1>1. /\ Held(s)' = Held(s) /\ step'[s] = step[s] /\ press'[s] = press[s]
      /\ pending'[s] = pending[s]
  BY OthersAlike, AlikeHeld DEF Alike
<1>2. /\ Landed \subseteq Landed' /\ Landed' \subseteq Landed \cup Held(t)
  BY Landings DEF OrderedAll
<1>3. Held(s) \cap Held(t) = {}
  BY DEF Apart
<1> QED BY <1>1, <1>2, <1>3 DEF Behind

\* Every step of the runner keeps what landed out of the way.
LEMMA BehindStep ==
    ASSUME OneTab
    PROVE  /\ TypeOK /\ Shaped /\ OrderedAll /\ Told /\ Apart /\ BehindAll /\ [Next]_vars
           => BehindAll'
<1> SUFFICES ASSUME TypeOK, Shaped, OrderedAll, Told, Apart, BehindAll, [Next]_vars
             PROVE  BehindAll'
  OBVIOUS
<1>1. CASE UNCHANGED vars
  BY <1>1 DEF vars, repoVars, deviceVars, tabVars, viewVars, pressVars, threadVars,
              BehindAll, Behind, Held, Owed, Live, Writes, Busy, Stored, Landed
<1>2. ASSUME NEW t \in Tabs,
             StepActs(t) \/ Answers(t) \/ PDS(t) \/ Opens(t) \/ Owner(t)
      PROVE  BehindAll'
  <2>1. Behind(t)'
    BY <1>2, StepActsBehind, AnswersBehind, PDSBehind, OpensBehind, OwnerBehind
       DEF BehindAll, OrderedAll
  <2>2. \A s \in Tabs : s # t => Behind(s)'
    BY <1>2, BehindElsewhere DEF BehindAll
  <2> QED BY <2>1, <2>2 DEF BehindAll
<1> QED BY <1>1, <1>2 DEF Next

-----------------------------------------------------------------------------
(* One tab: the repository's parts move forward.                           *)

\* There is one tab.
Alone == \A s, t \in Tabs : s = t

\* A part that has left the repository
Gone(p) == drained[p] > 0 \/ removed[p] > 0

\* A part lands once at most, and nothing holds one that has left.
Once ==
    /\ \A p \in Parts : created[p] <= 1
    /\ \A t \in Tabs : \A p \in Held(t) : ~Gone(p)

\* A discard under way gave up every import, and a part removed was given up.
GivenUp ==
    /\ \A t \in Tabs : press[t].kind \in {"drop", "dropping"}
                          => \A i \in Imports : fate[i] \in {"unread", "givenUp"}
    /\ \A p \in Parts : removed[p] > 0 => fate[ImportOf[p]] # "begun"

\* What the repository makes of the one tab's calls: the parts a tab still holds
\* land once, the others leave it once.
Uploaded(t, some) ==
    /\ some \subseteq Held(t)
    /\ \A p \in some : created[p] = 0 /\ drained[p] = 0 /\ removed[p] = 0 /\ p \notin inRepo
    /\ inRepo' = inRepo \cup some
    /\ created' = Plus(created, some)
    /\ UNCHANGED <<drained, removed>>
\* A drain takes one part out of the repository that no copy holds.
Drained(t, p) ==
    /\ p \in inRepo \ Held(t)
    /\ inRepo' = inRepo \ {p}
    /\ drained' = Plus(drained, {p})
    /\ UNCHANGED <<created, removed>>
\* So does a discard, of one that has landed.
Discarded(t, p) ==
    /\ p \in Landed \ Held(t)
    /\ press[t].kind = "dropping"
    /\ inRepo' = inRepo \ {p}
    /\ removed' = Plus(removed, {p} \cap inRepo)
    /\ UNCHANGED <<created, drained>>

\* Whatever a step of the one tab does to the repository, it uploads parts that have
\* never been there, drains one that is there or discards one.
LEMMA AloneMoves ==
    ASSUME Alone, TypeOK, Shaped, OrderedAll, Accounted, BehindAll, Once,
           NEW t \in Tabs,
           StepActs(t) \/ Answers(t) \/ PDS(t) \/ Opens(t) \/ Owner(t)
    PROVE  \/ UNCHANGED <<inRepo, created, drained, removed>>
           \/ \E some \in SUBSET Parts : Uploaded(t, some)
           \/ \E p \in Parts : Drained(t, p)
           \/ \E p \in Parts : Discarded(t, p) /\ (DropRemoves(t) \/ DropFails(t))
<1> USE DEF repoVars
<1>0. Ordered(t) /\ Behind(t)
  BY DEF OrderedAll, BehindAll
<1>1. CASE Lands(t)
  <2>1. CASE UNCHANGED <<inRepo, created, drained>>
    BY <1>1, <2>1 DEF Lands
  <2>2. CASE /\ step[t].at = "sending" /\ step[t].job.receipt = None
             /\ inRepo' = inRepo \cup step[t].taking
             /\ created' = Plus(created, step[t].taking)
             /\ UNCHANGED drained
    <3>1. step[t].taking \subseteq Held(t) /\ Held(t) \subseteq Parts
      BY <1>0, <2>2, HeldType DEF Ordered, Held, Live, Busy
    <3>2. step[t].taking \cap inRepo = {}
      BY <1>1, <2>2 DEF Lands, Accepts
    <3>3. ASSUME NEW p \in step[t].taking
          PROVE  created[p] = 0 /\ drained[p] = 0 /\ removed[p] = 0 /\ p \notin inRepo
      <4>1. p \in Parts /\ p \notin inRepo /\ ~Gone(p)
        BY <3>1, <3>2 DEF Once
      <4>2. /\ created[p] \in Nat /\ drained[p] \in Nat /\ removed[p] \in Nat
            /\ created[p] = drained[p] + removed[p] + (IF p \in inRepo THEN 1 ELSE 0)
        BY <4>1 DEF TypeOK, Accounted
      <4> QED BY <4>1, <4>2 DEF Gone
    <3>4. Uploaded(t, step[t].taking)
      BY <1>1, <2>2, <3>1, <3>3 DEF Uploaded, Lands
    <3> QED BY <3>1, <3>4
  <2>3. CASE /\ step[t].at = "draining"
             /\ inRepo' = Retired(step[t].taking)
             /\ drained' = Plus(drained, step[t].taking)
             /\ UNCHANGED created
    <3>1. PICK p \in Parts : step[t].taking = {p}
      BY <1>0, <2>3 DEF Behind
    <3>2. p \in inRepo
      BY <1>1, <2>3, <3>1 DEF Lands, Accepts
    <3>3. p \notin Held(t)
      BY <1>0, <2>3, <3>1 DEF Behind
    <3>4. Drained(t, p)
      BY <1>1, <2>3, <3>1, <3>2, <3>3 DEF Drained, Lands, Retired
    <3> QED BY <3>4
  <2> QED BY <1>1, <2>1, <2>2, <2>3 DEF Lands
<1>2. CASE DropRemoves(t) \/ DropFails(t)
  <2>1. CASE UNCHANGED repoVars
    BY <2>1
  <2>2. ASSUME NEW p \in press[t].left, Removed(p) PROVE p \in Parts /\ Discarded(t, p)
    <3>1. press[t].kind = "dropping"
      BY <1>2 DEF DropRemoves, DropFails, Pressing
    <3>2. p \in Landed \ Held(t)
      BY <1>0, <3>1 DEF Behind
    <3> QED BY <2>2, <3>1, <3>2 DEF Discarded, Removed, Landed
  <2> QED BY <1>2, <2>1, <2>2 DEF DropRemoves, DropFails
<1>3. CASE ~Lands(t) /\ ~DropRemoves(t) /\ ~DropFails(t)
  <2>1. UNCHANGED repoVars
    <3>1. CASE StepActs(t)
      BY <3>1 DEF StepActs, StepStops, StepWaits, StepSends, StepRelists, StepLists, StepDrains
    <3>2. CASE Answers(t)
      BY <3>2 DEF Answers, Relisted, Listed, ListingFails, UploadLanded, UploadDenied,
                  DrainLanded, DrainDenied, Checked, CheckFails, Delayed, Missed
    <3>3. CASE PDS(t)
      BY <1>3, <3>3 DEF PDS, Denies, Declines
    <3>4. CASE Opens(t)
      BY <3>4 DEF Opens, Attach, AttachListed, AttachFails, CollectionRead, Close
    <3>5. CASE Owner(t)
      BY <1>3, <3>5 DEF Owner, Begin, BeginSaves, BeginFails, Halt, HaltAfterStep, HaltSaves,
                  CarryOn, CarryOnSaves, Drop, DropLocks, DropClears
    <3> QED BY <3>1, <3>2, <3>3, <3>4, <3>5
  <2> QED BY <2>1
<1> QED BY <1>1, <1>2, <1>3

\* No step lands a part again, or takes up one that has left.
LEMMA OnceHere ==
    ASSUME Alone, TypeOK, Shaped, OrderedAll, Told, Apart, Accounted, BehindAll, Once,
           NEW t \in Tabs,
           StepActs(t) \/ Answers(t) \/ PDS(t) \/ Opens(t) \/ Owner(t)
    PROVE  Once'
<1>0. \A p \in Parts : created[p] \in Nat /\ drained[p] \in Nat /\ removed[p] \in Nat
  BY DEF TypeOK
<1>1. CASE BeginSaves(t)
  <2>1. Held(t)' \subseteq Parts \ Landed /\ UNCHANGED repoVars
    BY <1>1, BeginSavesHeld DEF PartsOf
  <2>2. ASSUME NEW p \in Parts \ Landed PROVE ~Gone(p)
    BY <1>0, <2>2 DEF Landed, Accounted, Gone
  <2>3. \A p \in Held(t)' : ~Gone(p)'
    BY <2>1, <2>2 DEF Gone, repoVars
  <2> QED BY <2>1, <2>3 DEF Once, Alone, repoVars
<1>2. CASE ~BeginSaves(t)
  <2>1. Held(t)' \subseteq Held(t) /\ Held(t) \subseteq Parts
    BY <1>2, ActsMove, HeldShrinks, HeldType DEF OrderedAll
  <2>2. \A p \in Held(t) : ~Gone(p)
    BY DEF Once
  <2>3. CASE UNCHANGED <<inRepo, created, drained, removed>>
    <3>1. \A p \in Held(t)' : ~Gone(p)'
      BY <2>1, <2>2, <2>3 DEF Gone
    <3> QED BY <2>3, <3>1 DEF Once, Alone
  <2>4. ASSUME NEW some \in SUBSET Parts, Uploaded(t, some) PROVE Once'
    <3>1. \A p \in Held(t)' : ~Gone(p)'
      BY <2>1, <2>2, <2>4 DEF Gone, Uploaded
    <3>2. \A p \in Parts : created'[p] <= 1
      BY <1>0, <2>4 DEF Once, Uploaded, Plus
    <3> QED BY <3>1, <3>2 DEF Once, Alone
  <2>5. ASSUME NEW p \in Parts, Drained(t, p) \/ Discarded(t, p) PROVE Once'
    <3>1. \A q \in Parts : q # p => (Gone(q)' <=> Gone(q))
      BY <2>5 DEF Gone, Drained, Discarded, Plus
    <3>2. p \notin Held(t)
      BY <2>5 DEF Drained, Discarded
    <3>3. \A q \in Held(t)' : ~Gone(q)'
      BY <2>1, <2>2, <3>1, <3>2
    <3>4. created' = created
      BY <2>5 DEF Drained, Discarded
    <3> QED BY <3>3, <3>4 DEF Once, Alone
  <2> QED BY <2>3, <2>4, <2>5, AloneMoves
<1> QED BY <1>1, <1>2

\* Alone, a discard gives up every import there is.
LEMMA DropAlone ==
    ASSUME Alone, TypeOK, Apart, NEW t \in Tabs
    PROVE  \A i \in Imports : ~Elsewhere(t, i)
<1> SUFFICES ASSUME NEW b \in Browsers, b # Home[t], jobs[b] # None PROVE FALSE
  BY DEF Elsewhere
<1>1. PICK s \in Tabs : Home[s] = b
  BY DEF Apart
<1> QED BY <1>1 DEF Alone

\* No step removes a part of an import still wanted.
LEMMA GivenUpHere ==
    ASSUME Alone, TypeOK, Shaped, OrderedAll, Told, Apart, Accounted, BehindAll, Once, GivenUp,
           NEW t \in Tabs,
           StepActs(t) \/ Answers(t) \/ PDS(t) \/ Opens(t) \/ Owner(t)
    PROVE  GivenUp'
<1>0. \A p \in Parts : ImportOf[p] \in Imports /\ created[p] \in Nat /\ drained[p] \in Nat /\ removed[p] \in Nat
  BY PartsAssumption DEF TypeOK
<1>1. ASSUME press'[t].kind \in {"drop", "dropping"}, NEW i \in Imports
      PROVE  fate'[i] \in {"unread", "givenUp"}
  <2>1. CASE Drop(t)
    BY <2>1, DropAlone DEF Drop, TypeOK
  <2>2. CASE press[t].kind \in {"drop", "dropping"} /\ ~Drop(t)
    <3>1. ~BeginSaves(t)
      BY <2>2 DEF BeginSaves, Pressing
    <3>2. ~DropClears(t)
      BY <1>1 DEF DropClears, Released, NoPress, TypeOK
    <3>3. fate' = fate
      BY <2>2, <3>1, <3>2, FateStays
    <3> QED BY <2>2, <3>3 DEF GivenUp
  <2> QED BY <1>1, <2>1, <2>2, DropMoves
<1>2. ASSUME NEW p \in Parts, removed'[p] > 0
      PROVE  fate'[ImportOf[p]] # "begun"
  <2>1. CASE BeginSaves(t)
    <3>1. removed[p] > 0 /\ p \in Landed
      BY <1>0, <1>2, <2>1, BeginSavesHeld DEF repoVars, Accounted, Landed
    <3>2. fate[ImportOf[p]] # "unread" /\ fate[ImportOf[p]] # "begun"
      BY <3>1 DEF Apart, GivenUp
    <3> QED BY <1>0, <2>1, <3>2, BeginSavesHeld DEF TypeOK
  <2>2. CASE ~BeginSaves(t)
    <3>1. fate[ImportOf[p]] # "begun"
      <4>1. CASE removed[p] > 0
        BY <4>1 DEF GivenUp
      <4>2. CASE ~(removed[p] > 0)
        <5>1. ASSUME NEW some \in SUBSET Parts, Uploaded(t, some) PROVE FALSE
          BY <1>2, <4>2, <5>1 DEF Uploaded
        <5>2. ASSUME NEW q \in Parts, Drained(t, q) PROVE FALSE
          BY <1>2, <4>2, <5>2 DEF Drained
        <5>3. ASSUME NEW q \in Parts, Discarded(t, q) PROVE press[t].kind = "dropping"
          BY <5>3 DEF Discarded
        <5>4. press[t].kind = "dropping"
          BY <1>2, <4>2, <5>1, <5>2, <5>3, AloneMoves
        <5> QED BY <1>0, <5>4 DEF GivenUp
      <4> QED BY <4>1, <4>2
    <3> QED BY <1>0, <2>2, <3>1, FateMoves
  <2> QED BY <2>1, <2>2
<1> QED BY <1>1, <1>2 DEF GivenUp, Alone

-----------------------------------------------------------------------------
(* A discard is not undone.                                                *)

\* A file read has something in it.
Filled == \A i \in Imports : PartsOf(i) # {}

\* Something is wanted still, or has outlived a discard.
Something == \E p \in Parts : Wanted(p) \/ Outlived(p)
\* Nothing discarded is held, and no job stands for nothing.
Revived ==
    \A t \in Tabs :
        /\ \A p \in Held(t) : fate[ImportOf[p]] # "discarded"
        /\ Stored(t) # None \/ Writes(t) \/ Live(t) => Something

\* A discard that ends leaves no copy of the job behind.
LEMMA ClearedHere ==
    ASSUME TypeOK, NEW t \in Tabs, Ordered(t), DropClears(t)
    PROVE  Held(t)' = {} /\ Stored(t)' = None /\ ~Writes(t)' /\ ~Live(t)'
<1>1. Stored(t)' = None
  BY StoreHere DEF DropClears
<1>2. press'[t] = NoPress /\ step' = step /\ moved' = moved
  BY DEF DropClears, Released, TypeOK, threadVars
<1>3. ~Live(t)
  BY DEF Ordered, DropClears, Pressing, Live
<1>4. ~Writes(t)' /\ ~Live(t)'
  BY <1>2, <1>3 DEF Writes, Live, Busy, NoPress
<1> QED BY <1>1, <1>4 DEF Held, Owed

\* Only the end of a discard leaves nothing to stand for.
LEMMA SomethingStays ==
    ASSUME Alone, TypeOK, Shaped, OrderedAll, Told, Apart, Accounted, BehindAll, Once, GivenUp,
           NEW t \in Tabs,
           StepActs(t) \/ Answers(t) \/ PDS(t) \/ Opens(t) \/ Owner(t),
           ~BeginSaves(t), ~DropClears(t), Something
    PROVE  Something'
<1>1. PICK p \in Parts : Wanted(p) \/ Outlived(p)
  BY DEF Something
<1>2. \A q \in Parts : ImportOf[q] \in Imports /\ drained[q] \in Nat
  BY PartsAssumption DEF TypeOK
<1>3. Wanted(p) => Wanted(p)'
  <2>1. CASE Drop(t)
    BY <1>2, <2>1 DEF Drop, Wanted, TypeOK
  <2>2. CASE ~Drop(t)
    BY <2>2, FateStays DEF Wanted
  <2> QED BY <2>1, <2>2
<1>4. Outlived(p) => Outlived(p)' \/ Wanted(p)'
  <2>1. CASE UNCHANGED <<inRepo, created, drained, removed>>
    BY <2>1 DEF Outlived
  <2>2. ASSUME NEW some \in SUBSET Parts, Uploaded(t, some) PROVE Outlived(p) => Outlived(p)'
    BY <2>2 DEF Outlived, Uploaded
  <2>3. ASSUME NEW q \in Parts, Drained(t, q) PROVE Outlived(p) => Outlived(p)'
    BY <1>2, <2>3 DEF Outlived, Drained, Plus
  <2>4. ASSUME NEW q \in Parts, Discarded(t, q), DropRemoves(t) \/ DropFails(t)
        PROVE  Outlived(p) => Outlived(p)' \/ Wanted(p)'
    <3>1. CASE p # q
      BY <2>4, <3>1 DEF Outlived, Discarded
    <3>2. CASE p = q
      <4>1. fate[ImportOf[q]] = "givenUp"
        BY <1>2, <2>4 DEF Discarded, GivenUp, Apart
      <4>2. fate' = fate
        BY <2>4 DEF DropRemoves, DropFails
      <4> QED BY <3>2, <4>1, <4>2 DEF Wanted
    <3> QED BY <3>1, <3>2
  <2> QED BY <2>1, <2>2, <2>3, <2>4, AloneMoves
<1> QED BY <1>1, <1>3, <1>4 DEF Something

\* No step revives what was discarded.
LEMMA RevivedHere ==
    ASSUME Alone, Filled, TypeOK, Shaped, OrderedAll, Told, Apart, Accounted, BehindAll, Once,
           GivenUp, Revived, NEW t \in Tabs,
           StepActs(t) \/ Answers(t) \/ PDS(t) \/ Opens(t) \/ Owner(t)
    PROVE  Revived'
<1>0. Ordered(t) /\ Held(t) \subseteq Parts /\ \A p \in Parts : ImportOf[p] \in Imports
  BY HeldType, PartsAssumption DEF OrderedAll
<1>1. CASE BeginSaves(t)
  <2> DEFINE i == press[t].import
  <2>1. i \in Imports /\ fate'[i] \in {"begun", "exposed"} /\ Held(t)' \subseteq PartsOf(i)
    BY <1>1, BeginSavesHeld DEF TypeOK
  <2> HIDE DEF i
  <2>2. \A p \in Held(t)' : fate'[ImportOf[p]] # "discarded"
    BY <2>1 DEF PartsOf
  <2>3. PICK p \in Parts : ImportOf[p] = i
    BY <2>1 DEF Filled, PartsOf
  <2>4. Wanted(p)'
    BY <2>1, <2>3 DEF Wanted
  <2>5. Something'
    BY <2>4 DEF Something
  <2> QED BY <2>2, <2>5 DEF Revived, Alone
<1>2. CASE DropClears(t)
  BY <1>0, <1>2, ClearedHere DEF Revived, Alone
<1>3. CASE ~BeginSaves(t) /\ ~DropClears(t)
  <2>1. Moves(t) /\ Held(t)' \subseteq Held(t)
    BY <1>0, <1>3, ActsMove, HeldShrinks
  <2>2. \A i \in Imports : fate'[i] = "discarded" => fate[i] = "discarded"
    <3>1. CASE Drop(t)
      BY <3>1 DEF Drop, TypeOK
    <3>2. CASE ~Drop(t)
      BY <1>3, <3>2, FateStays
    <3> QED BY <3>1, <3>2
  <2>3. \A p \in Held(t)' : fate'[ImportOf[p]] # "discarded"
    BY <1>0, <2>1, <2>2 DEF Revived
  <2>4. (Stored(t) # None \/ Writes(t) \/ Live(t))' =>
            Stored(t) # None \/ Writes(t) \/ Live(t) \/ inRepo # {}
    BY <2>1 DEF Moves, StoreMoves, LiveMoves, WritesMoves
  <2>5. inRepo # {} => Something
    BY DEF Something, Outlived, TypeOK
  <2>6. (Stored(t) # None \/ Writes(t) \/ Live(t))' => Something'
    BY <1>3, <2>4, <2>5, SomethingStays DEF Revived
  <2> QED BY <2>3, <2>6 DEF Revived, Alone
<1> QED BY <1>1, <1>2, <1>3

\* The inductive invariant of the one tab, shared by the theorems below
Settled == /\ OrderedAll /\ Told /\ Apart /\ CoveredAll /\ Reached
           /\ BehindAll /\ Once /\ GivenUp

\* It holds before anything has happened,
LEMMA SettledInit ==
    Init => Settled
<1> SUFFICES ASSUME Init PROVE Settled
  OBVIOUS
<1>1. /\ \A t \in Tabs : step[t] = Idle /\ press[t] = NoPress /\ Stored(t) = None /\ pending[t] = {}
      /\ \A t \in Tabs : Held(t) = {}
      /\ Landed = {}
  BY HomeAssumption DEF Init, Idle, NoPress, Stored, Held, Owed, Live, Writes, Busy, Landed
<1>2. OrderedAll
  BY <1>1 DEF Init, OrderedAll, Ordered, Rests, Busy, Idle, NoPress, NotAttaching
<1>3. Told /\ BehindAll /\ CoveredAll
  BY <1>1 DEF Init, Told, BehindAll, Behind, CoveredAll, Covered, Idle, NoPress, Live, Writes,
              Busy, Owed
<1>4. Apart
  BY <1>1 DEF Init, Apart, NoPress
<1>5. Reached
  BY PartsAssumption DEF Init, Reached, Waits
<1>6. Once /\ GivenUp
  BY <1>1, PartsAssumption DEF Init, Once, GivenUp, NoPress
<1> QED BY <1>2, <1>3, <1>4, <1>5, <1>6 DEF Settled

\* every step of the one tab keeps it,
LEMMA SettledStep ==
    ASSUME NoneEarly, Alone
    PROVE  /\ TypeOK /\ Shaped /\ Accounted /\ Locked /\ Settled /\ [Next]_vars
           /\ TypeOK' /\ Shaped' /\ Accounted'
           => Settled'
<1> SUFFICES ASSUME TypeOK, Shaped, Accounted, Locked, Settled, [Next]_vars, TypeOK', Shaped',
                    Accounted'
             PROVE  Settled'
  OBVIOUS
<1>0. OneTab
  BY DEF Alone, OneTab
<1>1. OrderedAll' /\ Told' /\ Apart' /\ CoveredAll' /\ Reached' /\ BehindAll'
  BY <1>0, OrderedStep, ToldStep, ApartStep, CoveredStep, BehindStep DEF Settled
<1>2. CASE UNCHANGED vars
  BY <1>1, <1>2 DEF vars, repoVars, deviceVars, tabVars, viewVars, pressVars, threadVars, Settled,
              Once, GivenUp, Held, Owed, Live, Writes, Busy, Stored, Gone
<1>3. ASSUME NEW t \in Tabs,
             StepActs(t) \/ Answers(t) \/ PDS(t) \/ Opens(t) \/ Owner(t)
      PROVE  Settled'
  BY <1>1, <1>3, OnceHere, GivenUpHere DEF Settled
<1> QED BY <1>2, <1>3 DEF Next

\* and so it always holds.
LEMMA AlwaysSettled ==
    ASSUME NoneEarly, Alone
    PROVE  Spec => []Settled
<1>1. Init => Locked
  BY DEF Init, Locked, Holds, Busy, Idle, NoPress
<1> QED BY <1>1, SettledInit, SettledStep, LockedStep, Types, AlwaysAccounted, PTL DEF Spec

\* A discarded import is not revived, NoRevival: a call that comes back after the
\* discard, with or without Web Locks, writes nothing down.
THEOREM NothingRevives ==
    ASSUME NoneEarly, Alone, Filled
    PROVE  Spec => []NoRevival
<1>1. Init => Revived
  BY HomeAssumption DEF Init, Revived, Held, Owed, Stored, Live, Writes, Busy, Idle, NoPress
<1>2. TypeOK /\ Shaped /\ Accounted /\ Settled /\ Revived /\ [Next]_vars => Revived'
  <2> SUFFICES ASSUME TypeOK, Shaped, Accounted, Settled, Revived, [Next]_vars PROVE Revived'
    OBVIOUS
  <2>1. CASE UNCHANGED vars
    BY <2>1 DEF vars, repoVars, deviceVars, tabVars, viewVars, pressVars, threadVars,
                Revived, Something, Wanted, Outlived, Held, Owed, Live, Writes, Busy, Stored
  <2>2. CASE Next
    BY <2>2, RevivedHere DEF Next, Settled
  <2> QED BY <2>1, <2>2
<1>3. Settled /\ Revived => NoRevival
  <2> SUFFICES ASSUME Settled, Revived, NEW b \in Browsers, jobs[b] # None
               PROVE  /\ \A p \in jobs[b].parts : fate[ImportOf[p]] # "discarded"
                      /\ Something
    BY DEF NoRevival, Something
  <2>1. PICK t \in Tabs : Home[t] = b
    BY DEF Settled, Apart
  <2> QED BY <2>1 DEF Revived, Held, Owed, Stored
<1> QED BY <1>1, <1>2, <1>3, AlwaysSettled, Types, AlwaysAccounted, PTL DEF Spec

-----------------------------------------------------------------------------
(* The promise is kept.                                                    *)

\* Where a part is, when it is nowhere twice
PlaceOf(p) == IF p \in inRepo THEN "repo"
              ELSE IF drained[p] > 0 THEN "cards"
              ELSE IF removed[p] > 0 THEN "gone" ELSE "device"

\* No part is anywhere twice.
LEMMA PlaceOnce ==
    ASSUME TypeOK, Accounted, Once
    PROVE  Place = [p \in Parts |-> PlaceOf(p)]
<1>1. ASSUME NEW p \in Parts PROVE ~(created[p] > 1) /\ ~(drained[p] > 1)
  BY DEF TypeOK, Accounted, Once
<1> QED BY <1>1 DEF Place, PlaceOf

\* A step of the one tab is a step of the promise, or none of its concern.
LEMMA Placed ==
    ASSUME Alone, TypeOK, Shaped, Accounted, Settled, TypeOK', Accounted', Settled',
           NEW t \in Tabs,
           StepActs(t) \/ Answers(t) \/ PDS(t) \/ Opens(t) \/ Owner(t)
    PROVE  Promise!Next \/ UNCHANGED Place
<1> USE DEF Settled
<1>0. /\ Place = [p \in Parts |-> PlaceOf(p)]
      /\ Place' = [p \in Parts |-> PlaceOf(p)']
  <2>1. ASSUME NEW p \in Parts PROVE (~(created[p] > 1) /\ ~(drained[p] > 1))'
    BY SMTT(60) DEF TypeOK, Accounted, Once
  <2>2. Place' = [p \in Parts |-> PlaceOf(p)']
    BY <2>1 DEF Place, PlaceOf
  <2> QED BY <2>2, PlaceOnce
<1>1. \A p \in Parts : /\ created[p] \in Nat /\ drained[p] \in Nat /\ removed[p] \in Nat
                       /\ created[p] <= 1
                       /\ created[p] = drained[p] + removed[p] + (IF p \in inRepo THEN 1 ELSE 0)
  BY DEF TypeOK, Accounted, Once
<1> USE DEF PlaceOf, Plus
<1>2. CASE UNCHANGED <<inRepo, created, drained, removed>>
  BY <1>0, <1>2
<1>3. ASSUME NEW some \in SUBSET Parts, Uploaded(t, some) PROVE Promise!Upload
  <2>1. \A p \in some : PlaceOf(p) = "device" /\ PlaceOf(p)' = "repo"
    BY <1>3 DEF Uploaded
  <2>2. \A p \in Parts \ some : PlaceOf(p)' = PlaceOf(p)
    BY <1>3 DEF Uploaded
  <2>3. Promise!Moves(some, "device", "repo")
    BY <1>0, <2>1, <2>2 DEF Promise!Moves
  <2> QED BY <2>3 DEF Promise!Upload
<1>4. ASSUME NEW p \in Parts, Drained(t, p) PROVE Promise!Drain
  <2>1. PlaceOf(p) = "repo" /\ PlaceOf(p)' = "cards"
    BY <1>1, <1>4 DEF Drained
  <2>2. \A q \in Parts \ {p} : PlaceOf(q)' = PlaceOf(q)
    BY <1>4 DEF Drained
  <2>3. Promise!Moves({p}, "repo", "cards")
    BY <1>0, <2>1, <2>2 DEF Promise!Moves
  <2> QED BY <2>3 DEF Promise!Drain
<1>5. ASSUME NEW p \in Parts, Discarded(t, p) PROVE Promise!Discard \/ UNCHANGED Place
  <2>1. CASE p \notin inRepo
    <3>1. \A q \in Parts : PlaceOf(q)' = PlaceOf(q)
      BY <1>5, <2>1 DEF Discarded
    <3> QED BY <1>0, <3>1
  <2>2. CASE p \in inRepo
    <3>1. PlaceOf(p) = "repo" /\ PlaceOf(p)' = "gone"
      BY <1>1, <1>5, <2>2 DEF Discarded
    <3>2. \A q \in Parts \ {p} : PlaceOf(q)' = PlaceOf(q)
      BY <1>5 DEF Discarded
    <3>3. Promise!Moves({p}, "repo", "gone")
      BY <1>0, <3>1, <3>2 DEF Promise!Moves
    <3> QED BY <3>3 DEF Promise!Discard
  <2> QED BY <2>1, <2>2
<1> QED BY <1>2, <1>3, <1>4, <1>5, AloneMoves DEF Promise!Next

\* The runner implements ImportPromise, KeepsPromise: alone, through every retry,
\* crash, stop and discard, a part only moves from the device to the repository
\* and from there to the cards, or away.
THEOREM PromiseKept ==
    ASSUME NoneEarly, Alone
    PROVE  Spec => KeepsPromise
<1>1. Init => Promise!Init
  BY DEF Init, Promise!Init, Place
<1>2. TypeOK /\ Shaped /\ Accounted /\ Settled /\ [Next]_vars /\ TypeOK' /\ Accounted' /\ Settled'
          => [Promise!Next]_Place
  <2> SUFFICES ASSUME TypeOK, Shaped, Accounted, Settled, [Next]_vars, TypeOK', Accounted', Settled'
               PROVE  Promise!Next \/ UNCHANGED Place
    OBVIOUS
  <2>1. CASE UNCHANGED vars
    BY <2>1 DEF vars, repoVars, Place
  <2>2. CASE Next
    BY <2>2, Placed DEF Next
  <2> QED BY <2>1, <2>2
<1> QED BY <1>1, <1>2, AlwaysSettled, Types, AlwaysAccounted, PTL DEF Spec, KeepsPromise,
                                                                      Promise!Spec

-----------------------------------------------------------------------------
(* Done is done.                                                           *)

\* A tab shows what was announced.
LEMMA Announced ==
    ASSUME TypeOK, NEW t \in Tabs, NEW at, Announce(t, at)
    PROVE  state'[t] = at
  BY DEF Announce, TypeOK

\* Only a listing that found nothing ends an import.
LEMMA DoneMoves ==
    ASSUME TypeOK, NEW t \in Tabs, state'[t] = "done", state[t] # "done",
           StepActs(t) \/ Answers(t) \/ PDS(t) \/ Opens(t) \/ Owner(t)
    PROVE  /\ inRepo = {}
           /\ \/ step[t].at = "listing"
              \/ attaching[t].at = "listing"
<1> USE Announced DEF viewVars, AnnounceKept
<1>1. CASE StepActs(t)
  BY <1>1 DEF StepActs, StepStops, StepWaits, StepSends, StepRelists, StepLists, StepDrains
<1>2. CASE Answers(t)
  BY <1>2 DEF Answers, Relisted, Listed, ListingFails, UploadLanded, UploadDenied, Fails,
              DrainLanded, DrainDenied, Checked, CheckFails, Delayed, Missed
<1>3. CASE PDS(t)
  BY <1>3 DEF PDS, Lands, Denies, Declines
<1>4. CASE Opens(t)
  <2>1. CASE Attach(t)
    BY <2>1 DEF Attach
  <2>2. CASE AttachListed(t)
    BY <2>2 DEF AttachListed
  <2>3. CASE AttachFails(t) \/ CollectionRead(t) \/ Close(t)
    BY <2>3 DEF AttachFails, CollectionRead, Close
  <2> QED BY <1>4, <2>1, <2>2, <2>3 DEF Opens
<1>5. CASE Owner(t)
  BY <1>5 DEF Owner, Begin, BeginSaves, BeginFails, Halt, HaltAfterStep, HaltSaves, CarryOn,
              CarryOnSaves, Drop, DropLocks, DropRemoves, DropFails, DropClears
<1> QED BY <1>1, <1>2, <1>3, <1>4, <1>5

\* A part of a begun import that no listing shows is drained by then.
LEMMA DoneHere ==
    ASSUME Alone, TypeOK, Shaped, Accounted, Settled, NEW t \in Tabs,
           StepActs(t) \/ Answers(t) \/ PDS(t) \/ Opens(t) \/ Owner(t),
           state'[t] = "done", state[t] # "done",
           NEW p \in Parts, fate[ImportOf[p]] = "begun"
    PROVE  drained[p] > 0
<1>1. /\ inRepo = {}
      /\ step[t].at = "listing" \/ attaching[t].at = "listing"
  BY DoneMoves
<1>2. Ordered(t) /\ Covered(t)
  BY DEF Settled, OrderedAll, CoveredAll
<1>3. CASE p \in Landed
  <2>1. /\ created[p] \in Nat /\ drained[p] \in Nat /\ removed[p] \in Nat
        /\ created[p] = drained[p] + removed[p]
    BY <1>1 DEF TypeOK, Accounted
  <2>2. ~(removed[p] > 0)
    BY DEF Settled, GivenUp
  <2> QED BY <1>3, <2>1, <2>2 DEF Landed
<1>4. CASE p \notin Landed
  <2>0. Waits(p)
    BY <1>4 DEF Waits
  <2>1. p \in Owed(t)
    BY <2>0 DEF Settled, Reached, Alone
  <2>2. CASE attaching[t].at = "listing"
    BY <1>2, <2>1, <2>2 DEF Ordered, Owed, Uploading
  <2>3. CASE step[t].at = "listing"
    <3>1. Busy(t) /\ step[t].job.parts = {}
      BY <1>2, <2>3 DEF Busy, Ordered, Uploading
    <3>2. CASE ~moved[t]
      BY <1>2, <2>0, <2>1, <3>1, <3>2 DEF Covered, Level, Live
    <3>3. CASE moved[t]
      BY <1>2, <2>0, <2>1, <3>1, <3>3 DEF Covered
    <3> QED BY <3>2, <3>3
  <2> QED BY <1>1, <2>2, <2>3
<1> QED BY <1>3, <1>4

\* An import is announced done only when every part begun is drained, DoneIsDone:
\* an empty listing is never one that came too early.
THEOREM DoneDrained ==
    ASSUME NoneEarly, Alone
    PROVE  Spec => DoneIsDone
<1> DEFINE Ends == \A t \in Tabs : state'[t] = "done" /\ state[t] # "done" =>
                       \A p \in Parts : fate[ImportOf[p]] = "begun" => drained[p] > 0
<1>1. TypeOK /\ Shaped /\ Accounted /\ Settled /\ [Next]_vars => [Ends]_vars
  <2> SUFFICES ASSUME TypeOK, Shaped, Accounted, Settled, Next, NEW s \in Tabs,
                      state'[s] = "done", state[s] # "done",
                      NEW p \in Parts, fate[ImportOf[p]] = "begun"
               PROVE  drained[p] > 0
    OBVIOUS
  <2>1. PICK t \in Tabs : StepActs(t) \/ Answers(t) \/ PDS(t) \/ Opens(t) \/ Owner(t)
    BY DEF Next
  <2>2. s = t
    BY DEF Alone
  <2> QED BY <2>1, <2>2, DoneHere
<1> QED BY <1>1, AlwaysSettled, Types, AlwaysAccounted, PTL DEF Spec, DoneIsDone

-----------------------------------------------------------------------------
(* No import fails.                                                        *)

\* Answers are lost, calls are refused for a while, the owner stops: nothing else.
Spared == Events \subseteq {"lost", "refused", "halt"}

\* What keeps a tab from a failure: the PDS says no only of a part that is gone.
Unfailed(t) ==
    /\ state[t] # "failed"
    /\ press[t].kind \notin {"drop", "dropping"}
    /\ step[t].said = "verdict" => step[t].at = "draining" /\ ~(step[t].taking \subseteq inRepo)
    /\ step[t].at = "checking" => ~(step[t].taking \subseteq inRepo)

\* No step fails.
LEMMA UnfailedHere ==
    ASSUME Spared, TypeOK, Shaped, NEW t \in Tabs, Unfailed(t),
           step[t].at = "sending" /\ step[t].said = "out" => Accepts(step[t]),
           StepActs(t) \/ Answers(t) \/ PDS(t) \/ Opens(t) \/ Owner(t)
    PROVE  Unfailed(t)'
<1> USE Announced DEF repoVars, deviceVars, tabVars, viewVars, pressVars, threadVars, AnnounceKept
<1>0. press'[t].kind \notin {"drop", "dropping"}
  BY DropMoves DEF Unfailed, Spared, Drop
<1>1. CASE StepActs(t)
  <2>1. UNCHANGED inRepo /\ (state' = state \/ state'[t] # "failed")
    BY <1>1 DEF StepActs, StepStops, StepWaits, StepSends, StepRelists, StepLists, StepDrains
  <2>2. step' = step \/ \E at \in {"sending", "relisting", "listing", "draining"} :
                           \E taking : Out(t, at, Stored(t), taking)
    BY <1>1 DEF StepActs, StepStops, StepWaits, StepSends, StepRelists, StepLists, StepDrains
  <2>3. step' = step \/ (step'[t].said # "verdict" /\ step'[t].at # "checking")
    BY <2>2 DEF Out, TypeOK
  <2> QED BY <1>0, <2>1, <2>3 DEF Unfailed
<1>2. CASE Answers(t)
  <2>2. ~UploadDenied(t) /\ ~CheckFails(t)
    BY DEF UploadDenied, CheckFails, Unfailed, Spared
  <2>3. UNCHANGED inRepo /\ (state' = state \/ state'[t] # "failed")
    <3>1. UNCHANGED inRepo
      BY <1>2 DEF Answers, Relisted, Listed, ListingFails, UploadLanded, UploadDenied,
                  DrainLanded, DrainDenied, Checked, CheckFails, Delayed, Missed
    <3>2. CASE Checked(t)
      BY <3>2 DEF Checked, Unfailed
    <3>3. CASE ~Checked(t)
      BY <1>2, <2>2, <3>3 DEF Answers, Relisted, Listed, ListingFails, UploadLanded,
                              DrainLanded, DrainDenied, Delayed, Missed
    <3> QED BY <3>1, <3>2, <3>3
  <2>4. CASE DrainDenied(t)
    <3>1. step'[t].said = "nothing" /\ step'[t].taking = step[t].taking /\ step[t].said = "verdict"
      BY <2>4 DEF DrainDenied, TypeOK, Steps
    <3> QED BY <1>0, <2>3, <3>1 DEF Unfailed
  <2>5. CASE ~DrainDenied(t)
    <3>1. EndStep(t) \/ \E at \in {"sending", "draining"} : \E job, taking : Calls(t, at, job, taking)
      BY <1>2, <2>2, <2>5 DEF Answers, Relisted, Listed, ListingFails, UploadLanded, Fails,
                              DrainLanded, Checked, Delayed, Missed
    <3>2. CASE EndStep(t)
      BY <1>0, <2>3, <3>2, EndStepType DEF Unfailed, Idle, Halting
    <3>3. CASE \E at \in {"sending", "draining"} : \E job, taking : Calls(t, at, job, taking)
      BY <1>0, <2>3, <3>3 DEF Unfailed, Calls, TypeOK
    <3> QED BY <3>1, <3>2, <3>3
  <2> QED BY <2>4, <2>5
<1>3. CASE PDS(t)
  <2>1. /\ step[t] \in Steps /\ step[t].said = "out" /\ state' = state
        /\ step[t].at \in {"sending", "draining"}
    BY <1>3 DEF PDS, Lands, Denies, Declines, TypeOK, Shaped
  <2>2. ASSUME NEW answer, Says(t, answer)
        PROVE  /\ step'[t].at = step[t].at /\ step'[t].taking = step[t].taking
               /\ step'[t].said = answer
    BY <2>1, <2>2 DEF Says, TypeOK, Steps
  <2>3. CASE Lands(t) \/ Declines(t)
    <3>1. step'[t].at = step[t].at /\ step'[t].said # "verdict"
      BY <2>2, <2>3 DEF Lands, Declines, Spared
    <3> QED BY <1>0, <2>1, <3>1 DEF Unfailed
  <2>4. CASE Denies(t)
    <3>1. step[t].at = "draining" /\ ~(step[t].taking \subseteq inRepo) /\ inRepo' = inRepo
      BY <2>1, <2>4 DEF Denies, Accepts
    <3>2. step'[t].at = step[t].at /\ step'[t].taking = step[t].taking
      BY <2>2, <2>4 DEF Denies
    <3> QED BY <1>0, <2>1, <3>1, <3>2 DEF Unfailed
  <2> QED BY <1>3, <2>3, <2>4 DEF PDS
<1>4. CASE Opens(t)
  <2>1. step' = step /\ UNCHANGED inRepo
    BY <1>4 DEF Opens, Attach, AttachListed, AttachFails, CollectionRead, Close, Spared
  <2>2. state' = state \/ state'[t] # "failed"
    <3>1. CASE Attach(t)
      BY <3>1 DEF Attach
    <3>2. CASE AttachListed(t)
      BY <3>2 DEF AttachListed
    <3>3. CASE AttachFails(t) \/ CollectionRead(t) \/ Close(t)
      BY <3>3 DEF AttachFails, CollectionRead, Close
    <3> QED BY <1>4, <3>1, <3>2, <3>3 DEF Opens
  <2> QED BY <1>0, <2>1, <2>2 DEF Unfailed
<1>5. CASE Owner(t)
  <2>1. ~BeginFails(t) /\ ~DropRemoves(t) /\ ~DropFails(t) /\ ~DropClears(t)
    BY DEF BeginFails, DropRemoves, DropFails, DropClears, Pressing, Spared, Unfailed
  <2>2. UNCHANGED inRepo /\ (state' = state \/ state'[t] # "failed")
    BY <1>5, <2>1 DEF Owner, Begin, BeginSaves, Halt, HaltAfterStep, HaltSaves, CarryOn,
                      CarryOnSaves, Drop, DropLocks
  <2>3. step' = step \/ step'[t] = Idle
    BY <1>5, <2>1 DEF Owner, Begin, BeginSaves, Halt, HaltAfterStep, HaltSaves, CarryOn,
                      CarryOnSaves, Drop, DropLocks, TypeOK
  <2> QED BY <1>0, <2>2, <2>3 DEF Unfailed, Idle
<1> QED BY <1>1, <1>2, <1>3, <1>4, <1>5

\* No import ends in a failure, NeverFails: where the PDS names no error of its own,
\* every verdict it gives is on a drain that has already landed.
THEOREM NothingFails ==
    ASSUME Alone, Spared, Distinct
    PROVE  Spec => []NeverFails
<1> DEFINE UnfailedAll == \A t \in Tabs : Unfailed(t)
<1>1. Init => UnfailedAll
  BY DEF Init, Unfailed, Idle, NoPress
<1>2. TypeOK /\ Shaped /\ NeverCollides /\ UnfailedAll /\ [Next]_vars => UnfailedAll'
  <2> SUFFICES ASSUME TypeOK, Shaped, NeverCollides, UnfailedAll, [Next]_vars PROVE UnfailedAll'
    OBVIOUS
  <2>1. CASE UNCHANGED vars
    BY <2>1 DEF vars, repoVars, viewVars, pressVars, threadVars, Unfailed
  <2>2. ASSUME NEW t \in Tabs,
               StepActs(t) \/ Answers(t) \/ PDS(t) \/ Opens(t) \/ Owner(t)
        PROVE  UnfailedAll'
    <3>1. Unfailed(t)'
      BY <2>2, UnfailedHere DEF NeverCollides
    <3> QED BY <3>1 DEF Alone
  <2> QED BY <2>1, <2>2 DEF Next
<1>3. UnfailedAll => NeverFails
  BY DEF Unfailed, NeverFails
<1>4. OneTab /\ Patient
  BY DEF OneTab, Alone, Patient, Spared
<1> QED BY <1>1, <1>2, <1>3, <1>4, NothingCollides, Types, PTL DEF Spec

=============================================================================
