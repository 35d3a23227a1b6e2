------------------------- MODULE CatalogLoadProofs -------------------------
(***************************************************************************)
(* Theorems about CatalogLoad, for any builds, files, loads and pages: its *)
(* types, and, where one page has the cache to itself, what the disk holds *)
(* and what a load is left with.                                           *)
(***************************************************************************)
EXTENDS CatalogLoad, TLAPS

LEMMA BuildNames ==
    ASSUME NEW b \in Builds \cup {0}
    PROVE  PairOf(b) \subseteq NamesOf(b) /\ NamesOf(b) \subseteq Files
  BY PairAssumption, ArtworkAssumption DEF PairOf, NamesOf, Builds

\* The shelf is over the same builds and names.
LEMMA SameNames == Shelf!Builds = Builds /\ \A b : Shelf!NamesOf(b) = NamesOf(b)
  BY DEF Shelf!Builds, Builds, Shelf!NamesOf, NamesOf, Shelf!PairOf, PairOf

-----------------------------------------------------------------------------
(* The types.                                                              *)

LEMMA TypeInit == Init => TypeOK
  BY NoLoadAssumption DEF Init, Shelf!Init, TypeOK, LoadStates, Free

LEMMA TypeLoading ==
    ASSUME TypeOK, NEW l \in Loads, Loading(l)
    PROVE  TypeOK'
  <1> USE DEF TypeOK, shelfVars, diskVars, pageVars
  <1>1. CASE ReadsManifest(l) \/ ReadsCached(l)
    <2>1. load' \in [Loads -> LoadStates]
      <3>1. PairOf(manifest) \subseteq Files /\ PairOf(named) \subseteq Files
        BY BuildNames
      <3>2. ASSUME NEW b \in Builds \cup {0}, NEW fresh \in BOOLEAN, Told(l, b, fresh), PairOf(b) \subseteq Files
            PROVE  load' \in [Loads -> LoadStates]
        <4>1. load[l] \in LoadStates
          OBVIOUS
        <4>2. [load[l] EXCEPT !.at = "pair", !.build = b, !.fresh = fresh, !.left = PairOf(b)] \in LoadStates
          BY <3>2, <4>1 DEF LoadStates
        <4> QED BY <3>2, <4>2 DEF Told
      <3>3. ASSUME Goes(l, "failed") PROVE load' \in [Loads -> LoadStates]
        BY <3>3 DEF Goes, LoadStates
      <3> QED BY <1>1, <3>1, <3>2, <3>3 DEF ReadsManifest, ReadsCached
    <2> QED BY <1>1, <2>1 DEF ReadsManifest, ReadsCached
  <1>2. CASE Gathered(l) \/ WritesManifest(l) \/ Sweeps(l)
    <2>1. load' \in [Loads -> LoadStates]
      BY <1>2 DEF Gathered, WritesManifest, Sweeps, Goes, LoadStates
    <2>2. named' \in Builds \cup {0} /\ disk' \in SUBSET Files
      BY <1>2 DEF Gathered, WritesManifest, Sweeps, LoadStates
    <2> QED BY <1>2, <2>1, <2>2 DEF Gathered, WritesManifest, Sweeps
  <1>3. ASSUME NEW f \in Files, Hits(l, f) \/ Fetches(l, f) \/ FetchFails(l, f) \/ Stores(l, f) PROVE TypeOK'
    <2>1. load' \in [Loads -> LoadStates]
      BY <1>3 DEF Hits, Fetches, FetchFails, Stores, LoadStates
    <2>2. disk' \in SUBSET Files
      BY <1>3 DEF Hits, Fetches, FetchFails, Stores
    <2> QED BY <1>3, <2>1, <2>2 DEF Hits, Fetches, FetchFails, Stores
  <1>4. CASE Delivers(l) \/ Fails(l)
    <2>0. Free \in LoadStates
      BY DEF Free, LoadStates
    <2>1. load' \in [Loads -> LoadStates]
      <3>1. load' = [load EXCEPT ![l] = Free]
        BY <1>4 DEF Delivers, Fails
      <3> QED BY <2>0, <3>1
    <2>2. load[l].build \in Builds \cup {0}
      BY DEF LoadStates
    <2>3. CASE Delivers(l)
      <3>1. CASE Current(load[l].page, l)
        BY <2>1, <2>2, <2>3, <3>1 DEF Delivers, Show
      <3>2. CASE ~Current(load[l].page, l)
        BY <2>1, <2>2, <2>3, <3>2 DEF Delivers
      <3> QED BY <3>1, <3>2
    <2>4. CASE Fails(l)
      BY <2>1, <2>4 DEF Fails, Show
    <2> QED BY <1>4, <2>3, <2>4
  <1> QED BY <1>1, <1>2, <1>3, <1>4 DEF Loading

LEMMA TypePaging ==
    ASSUME TypeOK, NEW p \in Pages, Paging(p)
    PROVE  TypeOK'
  <1> USE DEF TypeOK, shelfVars, diskVars, pageVars
  <1>0. ASSUME StartsLoad(p) PROVE load' \in [Loads -> LoadStates] /\ pending' \in [Pages -> Loads \cup {None}]
    <2>1. PICK l \in Loads : /\ load' = [load EXCEPT ![l] = [Free EXCEPT !.at = "manifest", !.page = p]]
                             /\ pending' = [pending EXCEPT ![p] = l]
      BY <1>0 DEF StartsLoad
    <2>2. [Free EXCEPT !.at = "manifest", !.page = p] \in LoadStates
      BY DEF Free, LoadStates
    <2> QED BY <2>1, <2>2
  <1>1. CASE Opens(p) \/ Apply(p) \/ Clears(p)
    <2>1. StartsLoad(p)
      BY <1>1 DEF Opens, Apply, Clears, Applies
    <2> QED BY <1>0, <1>1, <2>1 DEF Opens, Apply, Clears, Applies, Show
  <1>2. CASE ChecksAsk(p) \/ ChecksAnswer(p) \/ CheckFails(p) \/ Reset(p)
    BY <1>2 DEF ChecksAsk, ChecksAnswer, CheckFails, Reset
  <1>3. CASE ReadsPart(p)
    <2>1. disk' \in SUBSET Files
      BY <1>3, ArtworkAssumption DEF ReadsPart
    <2> QED BY <1>3, <2>1 DEF ReadsPart
  <1>4. CASE Closes(p)
    <2>1. load' \in [Loads -> LoadStates]
      BY <1>4, NoLoadAssumption DEF Closes, Free, LoadStates
    <2> QED BY <1>4, <2>1 DEF Closes, Show
  <1> QED BY <1>1, <1>2, <1>3, <1>4 DEF Paging

LEMMA TypeShelf ==
    ASSUME TypeOK, Publishes \/ Expires \/ TakesAway
    PROVE  TypeOK'
  <1> USE DEF TypeOK, shelfVars, diskVars, pageVars
  <1>1. CASE Publishes
    BY <1>1, BuildNames DEF Publishes, Shelf!Name, Shelf!Add
  <1>2. CASE Expires
    BY <1>2 DEF Expires, Shelf!Settle
  <1>3. CASE TakesAway
    BY <1>3 DEF TakesAway, Shelf!Take
  <1> QED BY <1>1, <1>2, <1>3

\* Whatever the pages do, the disk holds files, the manifest in it is of a build,
\* and each load is at a step with what that step needs.
THEOREM TypeCorrect == Spec => []TypeOK
  <1>1. TypeOK /\ [Next]_vars => TypeOK'
    BY TypeLoading, TypePaging, TypeShelf DEF Next, TypeOK, vars, shelfVars, diskVars, pageVars
  <1> QED BY <1>1, TypeInit, PTL DEF Spec

-----------------------------------------------------------------------------
(* One page.                                                               *)

OnePage == "again" \notin Events /\ \A p, q \in Pages : p = q

Out(l) == load[l].at # "free"

\* A page that presses again only when nothing of the last press is under way
\* has one load out, and none while its cache is being cleared.
Alone ==
    /\ \A l, m \in Loads : Out(l) /\ Out(m) => l = m
    /\ \A l \in Loads : Out(l) => load[l].page \in Pages
    /\ \A p \in Pages : clearing[p] => status[p] # "closed" /\ \A l \in Loads : ~Out(l)

\* What the shelf keeps of its promise.
Shelved ==
    /\ Shelf!Promised \subseteq objects
    /\ manifest # 0 => manifest \in told
    /\ told \subseteq Builds

\* A pair is somewhere at every step: promised by the shelf or on the disk, then
\* on the disk or on its way to it, and there before the manifest is written.
Carried ==
    \A l \in Loads :
        /\ load[l].at = "pair" =>
              /\ load[l].left \subseteq PairOf(load[l].build)
              /\ load[l].held => PairOf(load[l].build) \subseteq disk \cup load[l].left \cup load[l].putting
              /\ load[l].fresh => load[l].build \in told
              /\ ~load[l].fresh => load[l].build = named
        /\ load[l].at = "naming" => PairOf(load[l].build) \subseteq disk
        /\ load[l].at = "sweeping" => load[l].build = named
        /\ load[l].at \notin {"pair", "failed"} => load[l].putting = {}

Whole == TypeOK /\ Alone /\ Shelved /\ Carried /\ CachedWhole

LEMMA WholeInit == Init => Whole
  <1> SUFFICES ASSUME Init PROVE Whole
    OBVIOUS
  <1>1. TypeOK
    BY TypeInit
  <1>2. \A l \in Loads : load[l].at = "free" /\ load[l].putting = {}
    BY DEF Init, Free
  <1>3. Shelved /\ CachedWhole
    BY DEF Init, Shelf!Init, Shelved, Shelf!Promised, CachedWhole, PairOf
  <1> QED BY <1>1, <1>2, <1>3 DEF Whole, Alone, Carried, Out, Init

LEMMA WholeNeverGone == Whole => NeverGone
  <1> SUFFICES ASSUME Whole, NEW l \in Loads, load[l].at = "pair" PROVE load[l].left \subseteq disk \cup objects
    BY DEF NeverGone
  <1>1. CASE load[l].fresh
    <2>1. load[l].build \in told /\ load[l].left \subseteq PairOf(load[l].build)
      BY <1>1 DEF Whole, Carried
    <2>2. NamesOf(load[l].build) \subseteq objects
      BY <2>1, SameNames DEF Whole, Shelved, Shelf!Promised
    <2>3. PairOf(load[l].build) \subseteq NamesOf(load[l].build)
      BY <2>1, BuildNames DEF Whole, Shelved
    <2> QED BY <2>1, <2>2, <2>3
  <1>2. CASE ~load[l].fresh
    BY <1>2 DEF Whole, Carried, CachedWhole
  <1> QED BY <1>1, <1>2

\* A step of the one load that is out.
LEMMA WholeLoading ==
    ASSUME Whole, NEW l \in Loads, Loading(l)
    PROVE  Whole'
  <1>0. TypeOK'
    BY TypeLoading DEF Whole
  <1>1. Out(l) /\ \A m \in Loads : Out(m) => m = l
    <2>1. Out(l)
      BY DEF Loading, ReadsManifest, ReadsCached, Gathered, WritesManifest, Sweeps, Delivers, Fails, Hits, Fetches,
             FetchFails, Stores, Out, Whole, Carried
    <2> QED BY <2>1 DEF Whole, Alone
  <1>2. /\ load \in [Loads -> LoadStates] /\ load' \in [Loads -> LoadStates]
        /\ manifest \in Builds \cup {0} /\ named \in Builds \cup {0} /\ load[l].build \in Builds \cup {0}
    BY <1>0 DEF Whole, TypeOK, LoadStates
  <1>3. UNCHANGED shelfVars /\ UNCHANGED clearing
    BY DEF Loading, ReadsManifest, ReadsCached, Gathered, WritesManifest, Sweeps, Delivers, Fails, Hits, Fetches,
           FetchFails, Stores, pageVars
  <1>4. \A m \in Loads \ {l} : load'[m] = load[m]
    BY <1>2 DEF Loading, ReadsManifest, ReadsCached, Gathered, WritesManifest, Sweeps, Delivers, Fails, Hits, Fetches,
           FetchFails, Stores, Told, Goes
  <1>5. load'[l].page = load[l].page \/ load'[l] = Free
    <2>1. CASE ReadsManifest(l) \/ ReadsCached(l)
      <3>1. ASSUME NEW b, NEW fresh, Told(l, b, fresh) PROVE load'[l].page = load[l].page
        BY <1>2, <3>1 DEF Told, LoadStates
      <3>2. ASSUME Goes(l, "failed") PROVE load'[l].page = load[l].page
        BY <1>2, <3>2 DEF Goes, LoadStates
      <3> QED BY <2>1, <3>1, <3>2 DEF ReadsManifest, ReadsCached
    <2>2. CASE Gathered(l) \/ WritesManifest(l) \/ Sweeps(l)
      BY <1>2, <2>2 DEF Gathered, WritesManifest, Sweeps, Goes, LoadStates
    <2>3. CASE Delivers(l) \/ Fails(l)
      BY <1>2, <2>3 DEF Delivers, Fails
    <2>4. ASSUME NEW f \in Files, Hits(l, f) \/ Fetches(l, f) \/ FetchFails(l, f) \/ Stores(l, f)
          PROVE load'[l].page = load[l].page
      BY <1>2, <2>4 DEF Hits, Fetches, FetchFails, Stores, LoadStates
    <2> QED BY <2>1, <2>2, <2>3, <2>4 DEF Loading
  <1>6. Alone'
    <2>1. \A p \in Pages : ~clearing[p]
      BY <1>1 DEF Whole, Alone
    <2> QED BY <1>1, <1>3, <1>4, <1>5, <2>1 DEF Whole, Alone, Out, Free
  <1>7. \A m \in Loads \ {l} : load[m].at = "free" /\ load[m].putting = {}
    BY <1>1 DEF Out, Whole, Carried
  <1> DEFINE Fits ==
        /\ load[l].at = "pair" =>
              /\ load[l].left \subseteq PairOf(load[l].build)
              /\ load[l].held => PairOf(load[l].build) \subseteq disk \cup load[l].left \cup load[l].putting
              /\ load[l].fresh => load[l].build \in told
              /\ ~load[l].fresh => load[l].build = named
        /\ load[l].at = "naming" => PairOf(load[l].build) \subseteq disk
        /\ load[l].at = "sweeping" => load[l].build = named
        /\ load[l].at \notin {"pair", "failed"} => load[l].putting = {}
  <1>8. Fits /\ (Fits' => Carried')
    BY <1>4, <1>7 DEF Whole, Carried
  <1>9. SUFFICES Fits' /\ (CachedWhole')
    <2>1. Shelved'
      BY <1>3 DEF Whole, Shelved, Shelf!Promised, shelfVars
    <2> QED BY <1>0, <1>6, <1>8, <2>1 DEF Whole
  <1>10. CASE ReadsManifest(l)
    <2>1. load'[l] = [load[l] EXCEPT !.at = "pair", !.build = manifest, !.fresh = TRUE, !.left = PairOf(manifest)]
      BY <1>2, <1>10 DEF ReadsManifest, Told
    <2>2. /\ load'[l].at = "pair" /\ load'[l].build = manifest /\ load'[l].fresh
          /\ load'[l].left = PairOf(manifest) /\ manifest \in told
      BY <1>2, <1>10, <2>1 DEF ReadsManifest, LoadStates, Whole, Shelved
    <2> QED BY <1>3, <1>10, <2>2 DEF ReadsManifest, diskVars, Whole, CachedWhole, shelfVars
  <1>11. CASE ReadsCached(l)
    <2>1. CASE named # 0
      <3>1. load'[l] = [load[l] EXCEPT !.at = "pair", !.build = named, !.fresh = FALSE, !.left = PairOf(named)]
        BY <1>2, <1>11, <2>1 DEF ReadsCached, Told
      <3>2. load'[l].at = "pair" /\ load'[l].build = named /\ ~load'[l].fresh /\ load'[l].left = PairOf(named)
        BY <1>2, <3>1 DEF LoadStates
      <3> QED BY <1>11, <3>2 DEF ReadsCached, diskVars, Whole, CachedWhole
    <2>2. CASE named = 0
      <3>1. load'[l].at = "failed"
        BY <1>2, <1>11, <2>2 DEF ReadsCached, Goes, LoadStates
      <3> QED BY <1>11, <3>1 DEF ReadsCached, diskVars, Whole, CachedWhole
    <2> QED BY <2>1, <2>2
  <1>12. ASSUME NEW f \in Files, Hits(l, f) \/ Fetches(l, f) PROVE Fits' /\ CachedWhole'
    <2>1. /\ load'[l].at = "pair" /\ load[l].at = "pair"
          /\ load'[l].build = load[l].build /\ load'[l].fresh = load[l].fresh /\ load'[l].held = load[l].held
          /\ load'[l].left = load[l].left \ {f}
          /\ load'[l].putting = load[l].putting \/ load'[l].putting = load[l].putting \cup {f}
          /\ f \in disk \/ f \in load'[l].putting
          /\ load[l].putting \subseteq load'[l].putting
      BY <1>2, <1>12 DEF Hits, Fetches, LoadStates
    <2> QED BY <1>3, <1>8, <1>12, <2>1 DEF Hits, Fetches, diskVars, shelfVars, Whole, CachedWhole
  <1>13. ASSUME NEW f \in Files, FetchFails(l, f) PROVE Fits' /\ CachedWhole'
    <2>1. load'[l].at = "failed"
      BY <1>2, <1>13 DEF FetchFails, LoadStates
    <2> QED BY <1>13, <2>1 DEF FetchFails, diskVars, Whole, CachedWhole
  <1>14. ASSUME NEW f \in Files, Stores(l, f) PROVE Fits' /\ CachedWhole'
    <2>1. /\ load'[l].at = load[l].at /\ load'[l].build = load[l].build /\ load'[l].fresh = load[l].fresh
          /\ load'[l].left = load[l].left /\ load'[l].putting = load[l].putting \ {f} /\ load[l].putting # {}
          /\ (disk' = disk \cup {f} /\ load'[l].held = load[l].held) \/ (disk' = disk /\ ~load'[l].held)
      BY <1>2, <1>14 DEF Stores, LoadStates
    <2> QED BY <1>3, <1>8, <1>14, <2>1 DEF Stores, shelfVars, Whole, CachedWhole
  <1>15. CASE Gathered(l)
    <2>1. /\ load[l].at = "pair" /\ load[l].left = {} /\ load[l].putting = {}
          /\ load'[l].putting = {} /\ load'[l].build = load[l].build
          /\ load'[l].at = IF ~load[l].held THEN "done" ELSE IF load[l].fresh THEN "naming" ELSE "sweeping"
      BY <1>2, <1>15 DEF Gathered, Goes, Held, LoadStates
    <2> QED BY <1>8, <1>15, <2>1 DEF Gathered, diskVars, Whole, CachedWhole
  <1>16. CASE WritesManifest(l)
    <2>1. /\ load[l].at = "naming" /\ load'[l].putting = load[l].putting /\ load'[l].build = load[l].build
          /\ (named' = load[l].build /\ load'[l].at = "sweeping") \/ (named' = named /\ load'[l].at = "done")
      BY <1>2, <1>16 DEF WritesManifest, Goes, LoadStates
    <2> QED BY <1>8, <1>16, <2>1 DEF WritesManifest, Whole, CachedWhole
  <1>17. CASE Sweeps(l)
    <2>1. /\ load'[l].at = "done" /\ load'[l].putting = {} /\ load[l].build = named
          /\ disk' = disk \cap NamesOf(named) /\ named' = named
      BY <1>2, <1>8, <1>17 DEF Sweeps, Goes, Kept, LoadStates
    <2>2. PairOf(named) \subseteq NamesOf(named)
      BY <1>2, BuildNames
    <2> QED BY <2>1, <2>2 DEF Whole, CachedWhole
  <1>18. CASE Delivers(l) \/ Fails(l)
    <2>1. load'[l] = Free
      BY <1>2, <1>18 DEF Delivers, Fails
    <2> QED BY <1>18, <2>1 DEF Delivers, Fails, Free, diskVars, Whole, CachedWhole
  <1> QED BY <1>10, <1>11, <1>12, <1>13, <1>14, <1>15, <1>16, <1>17, <1>18 DEF Loading

\* A press, a check, or a page opened or closed.
LEMMA WholePaging ==
    ASSUME OnePage, Whole, NEW p \in Pages, Paging(p)
    PROVE  Whole'
  <1>0. TypeOK'
    BY TypePaging DEF Whole
  <1>1. UNCHANGED shelfVars
    BY DEF Paging, Opens, ChecksAsk, ChecksAnswer, CheckFails, Apply, Reset, Clears, ReadsPart, Closes
  <1>2. Shelved'
    BY <1>1 DEF Whole, Shelved, Shelf!Promised, shelfVars
  <1>3. \A l \in Loads : Out(l) => load[l].page = p
    BY DEF OnePage, Whole, Alone
  <1>4. ASSUME StartsLoad(p), \A l \in Loads : ~Out(l)
        PROVE  /\ \A l, m \in Loads : Out(l)' /\ Out(m)' => l = m
               /\ \A l \in Loads : Out(l)' => load'[l].page \in Pages
               /\ \A l \in Loads : load'[l].at \in {"free", "manifest"} /\ load'[l].putting = {}
    <2>1. PICK l \in Loads : load' = [load EXCEPT ![l] = [Free EXCEPT !.at = "manifest", !.page = p]]
      BY <1>4 DEF StartsLoad
    <2>2. load'[l].at = "manifest" /\ load'[l].page = p /\ load'[l].putting = {}
      BY <2>1 DEF Free, Whole, TypeOK
    <2>3. \A m \in Loads \ {l} : load'[m].at = "free" /\ load'[m].putting = {}
      BY <1>4, <2>1 DEF Out, Whole, TypeOK, Carried
    <2> QED BY <2>2, <2>3 DEF Out
  <1>5. CASE Opens(p) \/ Apply(p)
    <2>1. StartsLoad(p) /\ UNCHANGED <<diskVars, clearing>>
      BY <1>5 DEF Opens, Apply, Applies
    <2>2. \A l \in Loads : ~Out(l)
      BY <1>3, <1>5 DEF Opens, Apply, Calm, OnePage
    <2>3. \A q \in Pages : ~clearing[q]
      BY <1>5 DEF OnePage, Opens, Apply, Calm, Whole, Alone
    <2> QED BY <1>0, <1>2, <1>4, <2>1, <2>2, <2>3 DEF Whole, Alone, Carried, CachedWhole, diskVars
  <1>6. CASE Clears(p)
    <2>1. StartsLoad(p) /\ disk' = {} /\ named' = 0 /\ clearing' = [clearing EXCEPT ![p] = FALSE]
      BY <1>6 DEF Clears, Applies
    <2>2. \A l \in Loads : ~Out(l)
      BY <1>6 DEF Clears, Whole, Alone
    <2>3. \A q \in Pages : ~clearing'[q]
      BY <2>1 DEF OnePage, Whole, TypeOK
    <2>4. CachedWhole'
      BY <2>1 DEF CachedWhole, PairOf
    <2> QED BY <1>0, <1>2, <1>4, <2>1, <2>2, <2>3, <2>4 DEF Whole, Alone, Carried
  <1>7. CASE ChecksAsk(p) \/ ChecksAnswer(p) \/ CheckFails(p)
    <2>1. UNCHANGED <<diskVars, load, clearing, status>>
      BY <1>7 DEF ChecksAsk, ChecksAnswer, CheckFails
    <2> QED BY <1>0, <1>1, <1>2, <2>1 DEF Whole, Alone, Out, Carried, CachedWhole, diskVars, shelfVars
  <1>8. CASE Reset(p)
    <2>1. UNCHANGED <<diskVars, load, status>> /\ status[p] = "ready" /\ \A l \in Loads : ~Out(l)
      BY <1>3, <1>8 DEF Reset, Calm, OnePage
    <2>2. Alone'
      BY <2>1 DEF Alone, Out, OnePage
    <2> QED BY <1>0, <1>1, <1>2, <2>1, <2>2 DEF Whole, Carried, CachedWhole, diskVars, shelfVars
  <1>9. CASE ReadsPart(p)
    <2>1. UNCHANGED <<named, load, clearing, status>> /\ disk \subseteq disk'
      BY <1>9 DEF ReadsPart, pageVars
    <2>2. Carried'
      BY <1>1, <2>1 DEF Whole, Carried, shelfVars
    <2> QED BY <1>0, <1>2, <2>1, <2>2 DEF Whole, Alone, Out, CachedWhole
  <1>10. CASE Closes(p)
    <2>1. /\ UNCHANGED diskVars /\ clearing' = [clearing EXCEPT ![p] = FALSE]
          /\ load' = [l \in Loads |-> IF load[l].page = p THEN Free ELSE load[l]]
      BY <1>10 DEF Closes
    <2>2. \A l \in Loads : load'[l].at = "free" /\ load'[l].putting = {}
      BY <1>3, <2>1 DEF Free, Out, Whole, Carried
    <2>3. \A q \in Pages : ~clearing'[q]
      BY <2>1 DEF OnePage, Whole, TypeOK
    <2> QED BY <1>0, <1>2, <2>1, <2>2, <2>3 DEF Whole, Alone, Out, Carried, CachedWhole, diskVars
  <1> QED BY <1>5, <1>6, <1>7, <1>8, <1>9, <1>10 DEF Paging

\* The shelf moves, no faster than a load.
LEMMA WholeShelf ==
    ASSUME Whole, Publishes \/ Expires \/ TakesAway
    PROVE  Whole'
  <1>0. TypeOK'
    BY TypeShelf DEF Whole
  <1>1. UNCHANGED <<diskVars, load, pageVars>>
    BY DEF Publishes, Expires, TakesAway
  <1>2. Alone' /\ CachedWhole'
    BY <1>1 DEF Whole, Alone, Out, CachedWhole, pageVars, diskVars
  <1>3. CASE Publishes \/ TakesAway
    <2>1. told \subseteq told'
      BY <1>3 DEF Publishes, TakesAway, Shelf!Name, Shelf!Add, Shelf!Take
    <2>2. Shelved'
      BY <1>0, <1>3 DEF Publishes, TakesAway, Shelf!Name, Shelf!Add, Shelf!Take, Whole, Shelved, Shelf!Promised,
                        TypeOK
    <2>3. Carried'
      BY <1>1, <2>1 DEF Whole, Carried, diskVars
    <2> QED BY <1>0, <1>2, <2>2, <2>3 DEF Whole
  <1>4. CASE Expires
    <2>1. told' = {manifest} /\ manifest # 0 /\ UNCHANGED <<manifest, objects>>
      BY <1>4 DEF Expires, Shelf!Settle
    <2>2. Shelved'
      BY <2>1 DEF Whole, Shelved, Shelf!Promised, TypeOK
    <2>3. Carried'
      BY <1>1, <1>4, <2>1 DEF Expires, Whole, Carried, diskVars
    <2> QED BY <1>0, <1>2, <2>2, <2>3 DEF Whole
  <1> QED BY <1>3, <1>4

LEMMA WholeStep ==
    ASSUME OnePage, Whole, [Next]_vars
    PROVE  Whole'
  <1>1. CASE UNCHANGED vars
    <2>1. TypeOK'
      BY <1>1 DEF Whole, TypeOK, vars, shelfVars, diskVars, pageVars
    <2> QED BY <1>1, <2>1 DEF Whole, Alone, Out, Shelved, Shelf!Promised, Carried, CachedWhole,
                              vars, shelfVars, diskVars, pageVars
  <1> QED BY <1>1, WholeLoading, WholePaging, WholeShelf DEF Next

\* Where one page has the cache to itself, the manifest on the disk has its pair
\* beside it at every step: a load that fails half way, a disk that fills, a
\* cache that is cleared and a build that is replaced included.
THEOREM AlwaysCachedWhole ==
    ASSUME OnePage
    PROVE  Spec => []CachedWhole
  <1>1. Whole => CachedWhole
    BY DEF Whole
  <1> QED BY <1>1, WholeInit, WholeStep, PTL DEF Spec

\* And no load is left with a file that is nowhere, whichever manifest it read.
THEOREM AlwaysNeverGone ==
    ASSUME OnePage
    PROVE  Spec => []NeverGone
  BY WholeNeverGone, WholeInit, WholeStep, PTL DEF Spec
=============================================================================
